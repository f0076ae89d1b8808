---------------------------- MODULE MCSessionLoop ----------------------------
(* Instances of SessionLoop for TLC: which calls are made, and by whom.    *)
EXTENDS SessionLoopProofs

CONSTANTS alice, bob, k1, k2, k3, k4,
  ask1, retry1,      \* the same request_id, by the same actor
  theft,             \* the same request_id, by another actor
  plain,             \* no request_id
  guest,             \* no request_id, by another actor
  result1, again1,   \* the result of work that Turn k1 delegated, delivered twice
  m1, s1, s2

MCKeyOf ==
  [c \in Calls |-> CASE c \in {ask1, retry1, theft} -> k1
                     [] c = plain -> k2
                     [] c = guest -> k3
                     [] c \in {result1, again1} -> k4]
MCActorOf == [c \in Calls |-> IF c \in {theft, guest} THEN bob ELSE alice]
MCIdentified == Calls \ {plain, guest}
MCTargetOf == [c \in Results |-> k1]

\* Which calls, stops and restarts TLC explores together.
Scenario(commands, stoppers, restarts) ==
  [commands |-> commands, stoppers |-> stoppers, restarts |-> restarts]
Only(s) ==
  /\ \A c \in Commands \ s.commands : pc'[c] = "idle"
  /\ \A x \in Stoppers \ s.stoppers : stop_pc'[x] = "idle"
  /\ crashes' <= s.restarts

\* The filter of the queue model is the one of the library.
ASSUME KeepIsSelectSeq ==
  \A s \in UNION {[1 .. n -> Commands] : n \in 0 .. 3}, S \in SUBSET Commands :
    Keep(s, S) = SelectSeq(s, LAMBDA c : c \in S)
=============================================================================
