--------------------------- MODULE SessionStore ----------------------------
(***************************************************************************)
(* What server/src/persistence.rs promises of the saved session: a save    *)
(* that overlaps no other replaces it in one step or leaves it alone, and  *)
(* a crash changes nothing.  Saves that overlap may leave anything, until  *)
(* the next save that runs alone and succeeds.                             *)
(***************************************************************************)
CONSTANTS
  Saver,      \* threads that save
  Session,    \* sessions there may be
  NoSession   \* load() finds nothing it can use; no member of Session

VARIABLES
  stored,     \* what load() returns
  saving,     \* per saver: the session it is saving, or NoSession
  alone,      \* per saver: no other save has overlapped this one so far
  result      \* per saver: what its last finished save logged

vars == <<stored, saving, alone, result>>

Busy == {p \in Saver : saving[p] # NoSession}

Init ==
  /\ stored = NoSession
  /\ saving = [p \in Saver |-> NoSession]
  /\ alone = [p \in Saver |-> TRUE]
  /\ result = [p \in Saver |-> "none"]

\* A save that starts while another runs disturbs it and is disturbed.
Begin(p, s) ==
  /\ saving[p] = NoSession
  /\ saving' = [saving EXCEPT ![p] = s]
  /\ alone' = [q \in Saver |-> IF q = p THEN Busy = {} ELSE alone[q] /\ q \notin Busy]
  /\ UNCHANGED <<stored, result>>

Commit(p) ==
  /\ saving[p] # NoSession
  /\ stored' \in Session \cup {NoSession}
  /\ alone[p] => stored' = saving[p]
  /\ saving' = [saving EXCEPT ![p] = NoSession]
  /\ result' = [result EXCEPT ![p] = "saved"]
  /\ UNCHANGED alone

GiveUp(p) ==
  /\ saving[p] # NoSession
  /\ stored' \in Session \cup {NoSession}
  /\ alone[p] => stored' = stored
  /\ saving' = [saving EXCEPT ![p] = NoSession]
  /\ result' = [result EXCEPT ![p] = "failed"]
  /\ UNCHANGED alone

Disturb(p) ==
  /\ saving[p] # NoSession /\ ~alone[p]
  /\ stored' \in Session \cup {NoSession}
  /\ UNCHANGED <<saving, alone, result>>

Crash ==
  /\ saving' = [p \in Saver |-> NoSession]
  /\ UNCHANGED <<stored, alone, result>>

Next ==
  \/ \E p \in Saver : Commit(p) \/ GiveUp(p) \/ Disturb(p) \/ \E s \in Session : Begin(p, s)
  \/ Crash

Spec == Init /\ [][Next]_vars
=============================================================================
