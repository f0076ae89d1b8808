---------------------------- MODULE DelegatedWork ----------------------------
(***************************************************************************)
(* What delegated work promises to the Turn that asked for it (the headers *)
(* of SessionDelegations.ts and LocalSessionDelegationStore.ts): the work  *)
(* ends with one result that never changes, the result enters the Turn     *)
(* that asked at most once, and only while that Turn goes on.              *)
(***************************************************************************)
CONSTANTS Works, Results, NoResult

VARIABLES
  result,   \* how the work ended, or NoResult
  told,     \* the works whose result is in the Turn that asked
  open      \* whether that Turn goes on

Init == result = [w \in Works |-> NoResult] /\ told = {} /\ open = TRUE

Finish(w, r) ==
  /\ result[w] = NoResult
  /\ result' = [result EXCEPT ![w] = r]
  /\ UNCHANGED <<told, open>>

Tell(w) ==
  /\ open /\ result[w] # NoResult /\ w \notin told
  /\ told' = told \cup {w}
  /\ UNCHANGED <<result, open>>

Close == open /\ open' = FALSE /\ UNCHANGED <<result, told>>

Next == (\E w \in Works : Tell(w) \/ \E r \in Results : Finish(w, r)) \/ Close

Spec == Init /\ [][Next]_<<result, told, open>>
=============================================================================
