---------------------------- MODULE SessionAuthors ----------------------------
(***************************************************************************)
(* Whose the messages of a Session are.  A Turn whose completion record    *)
(* cannot be written ends without anybody knowing what it did; from then   *)
(* on nothing keeps the input of another author out of it.  The history    *)
(* variable unknown remembers such Turns beside SessionLoop, and what is   *)
(* promised of authors and handles is promised of every other Turn.        *)
(***************************************************************************)
EXTENDS SessionLoop

VARIABLE unknown    \* the Turns whose record was, at an end of theirs, reported as not written

\* deferred_finished of the active Turn rejects and the Turn may have to be executed again:
\* CompletionPersistenceError, or neither a result nor a failure is recorded.
RecordFails ==
  /\ active_turn # NoTurn /\ active_turn' = NoTurn /\ crashes' = crashes
  /\ phase = "sealing" \/ journal'[active_turn] = "none"

Remember == unknown' = IF RecordFails THEN unknown \cup {active_turn} ELSE unknown

AuthorInit == Init /\ unknown = {}
AuthorNext == Next /\ Remember
AuthorSpec == AuthorInit /\ [][AuthorNext]_<<vars, unknown>>

-----------------------------------------------------------------------------
\* A Turn whose execution is known holds the input of one author only, also when it is resumed after
\* a restart and when prompts are merged into it, and whatever becomes of other Turns, whose leases
\* may be kept for ever or be given away by the next Turn (SessionLoop.ts:223-241).
KnownTurnHasOneAuthor ==
  \A j, k \in Keys :
    message[j] # NoMessage /\ message[j].turn = message[k].turn /\ message[j].turn \notin unknown =>
      message[j].from = message[k].from

\* A caller holds a handle only when its message is stored, and in the Turn of the handle; a message
\* of a Turn that was lost so is answered by the Turn that takes it up again.
AcceptedIsStored ==
  \A c \in Calls : pc[c] = "accepted" =>
    /\ message[KeyOf[c]] # NoMessage
    /\ message[KeyOf[c]].turn # handle[c] => message[KeyOf[c]].turn \in unknown
=============================================================================
