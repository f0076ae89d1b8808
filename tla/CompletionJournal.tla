-------------------------- MODULE CompletionJournal --------------------------
(***************************************************************************)
(* What the completion records promise to the rest of an Agent             *)
(* (SessionCompletionPort and the header of SessionCompletions.ts): the    *)
(* result of a Turn is recorded once and never changes, and recipients are *)
(* told of recorded results only, any number of times.                     *)
(*                                                                         *)
(* SessionLoop and SessionCompletions both keep this promise: the loop     *)
(* sees the journal as the record of how a Turn ended, the delivery as the *)
(* record of whom to tell.                                                 *)
(***************************************************************************)
CONSTANTS Turns, Results, Recipients, NoResult

VARIABLES
  recorded,   \* the result of a Turn, or NoResult
  told        \* who has handled the result of which Turn

Init == recorded = [t \in Turns |-> NoResult] /\ told = {}

Record(t, result) ==
  /\ recorded[t] = NoResult
  /\ recorded' = [recorded EXCEPT ![t] = result]
  /\ UNCHANGED told

Tell(t, r) ==
  /\ recorded[t] # NoResult
  /\ told' = told \cup {<<t, r>>}
  /\ UNCHANGED recorded

Next ==
  \/ \E t \in Turns, result \in Results : Record(t, result)
  \/ \E t \in Turns, r \in Recipients : Tell(t, r)

Spec == Init /\ [][Next]_<<recorded, told>>
=============================================================================
