----------------------------- MODULE StateFile -----------------------------
(***************************************************************************)
(* The session file (server/src/persistence.rs): save() writes a sibling   *)
(* state.tmp and renames it over state.toml, load() reads state.toml and   *)
(* gives up on what it cannot parse.  Every saver uses the same temporary  *)
(* name: a client's SaveState runs in its own upstream task, so two saves  *)
(* can overlap, and one may truncate, overwrite or take away the file the  *)
(* other is about to rename.                                               *)
(*                                                                         *)
(* The two names are directory entries: they point at inodes, which live   *)
(* while a name or an open file holds them.                                *)
(***************************************************************************)
EXTENDS Naturals

CONSTANTS
  Saver,       \* threads that save: upstream tasks and main
  Tune,        \* everything of a session but its device
  Device, NoDevice,
  NoSession,   \* load() returns None
  Empty, Torn, \* contents that are no session: nothing, and some part or mixture
  Inode, NoInode,
  MaxSaves,    \* bound: saves started in a behaviour
  MaxCrashes   \* bound: times the process is killed

Session == [tune : Tune, device : Device \cup {NoDevice}]
Content == Session \cup {Empty, Torn}

ASSUME ContentAssumption == /\ Empty \notin Session /\ Torn \notin Session /\ Empty # Torn
                            /\ NoSession \notin Session
ASSUME NameAssumption    == NoInode \notin Inode /\ NoDevice \notin Device
ASSUME BoundAssumption   == MaxSaves \in Nat /\ MaxCrashes \in Nat

VARIABLES
  pc,        \* where each save is
  session,   \* the session it saves
  fd,        \* the inode it has open
  tmp,       \* state.tmp
  live,      \* state.toml
  content,   \* of each inode
  alone,     \* no other save has overlapped this one so far
  result,    \* what each saver's last finished save logged
  saves, crashes

save  == <<pc, session, fd, alone, result>>
names == <<tmp, live>>
vars  == <<save, names, content, saves, crashes>>

Busy == {p \in Saver : pc[p] # "idle"}
Free == Inode \ ({tmp, live} \cup {fd[p] : p \in Saver})

\* What load() makes of state.toml.
Loaded == IF live # NoInode /\ content[live] \in Session THEN content[live] ELSE NoSession

Init ==
  /\ pc = [p \in Saver |-> "idle"] /\ fd = [p \in Saver |-> NoInode]
  /\ session \in [Saver -> {NoSession}]
  /\ alone = [p \in Saver |-> TRUE] /\ result = [p \in Saver |-> "none"]
  /\ tmp = NoInode /\ live = NoInode /\ content = [i \in Inode |-> Empty]
  /\ saves = 0 /\ crashes = 0

-----------------------------------------------------------------------------
\* save(): the snapshot is a copy, made before the file is touched.
Begin(p, s) ==
  /\ pc[p] = "idle" /\ saves < MaxSaves
  /\ pc' = [pc EXCEPT ![p] = "open"] /\ session' = [session EXCEPT ![p] = s]
  /\ alone' = [q \in Saver |-> IF q = p THEN Busy = {} ELSE alone[q] /\ q \notin Busy]
  /\ saves' = saves + 1
  /\ UNCHANGED <<fd, result, names, content, crashes>>

\* MUTANT of Opened: opens with create but without truncate.
OpenedMutant(p, i) ==
  /\ fd' = [fd EXCEPT ![p] = i]
  /\ pc' = [pc EXCEPT ![p] = "write"]
  /\ UNCHANGED <<content, session, alone, result, live, saves, crashes>>

\* fs::write opens the temporary file, creates it or truncates what is there,
\* whoever else has it open.
Opened(p, i) ==
  /\ fd' = [fd EXCEPT ![p] = i] /\ content' = [content EXCEPT ![i] = Empty]
  /\ pc' = [pc EXCEPT ![p] = "write"]
  /\ UNCHANGED <<session, alone, result, live, saves, crashes>>

Create(p)   == pc[p] = "open" /\ tmp = NoInode /\ \E i \in Free : tmp' = i /\ Opened(p, i)
Truncate(p) == pc[p] = "open" /\ tmp # NoInode /\ Opened(p, tmp) /\ UNCHANGED tmp

\* Writing from the start over what another saver wrote: the end of the longer
\* text stays.  A session's device is the end of its text, so that it may be
\* read as part of one that has none.
Over(old, s) ==
  IF old = Empty THEN {s}
  ELSE {s, Torn} \cup (IF old \in Session /\ s.device = NoDevice
                       THEN {[s EXCEPT !.device = old.device]} ELSE {})

Write(p) ==
  /\ pc[p] = "write"
  /\ \E c \in Over(content[fd[p]], session[p]) : content' = [content EXCEPT ![fd[p]] = c]
  /\ fd' = [fd EXCEPT ![p] = NoInode] /\ pc' = [pc EXCEPT ![p] = "rename"]
  /\ UNCHANGED <<session, alone, result, names, saves, crashes>>

Finish(p, r) ==
  /\ pc' = [pc EXCEPT ![p] = "idle"] /\ result' = [result EXCEPT ![p] = r]
  /\ UNCHANGED <<session, alone, saves, crashes>>

\* The rename moves whatever the temporary name points at by now.
Rename(p) ==
  /\ pc[p] = "rename" /\ tmp # NoInode
  /\ live' = tmp /\ tmp' = NoInode
  /\ Finish(p, "saved")
  /\ UNCHANGED <<fd, content>>

\* The directory, the open or the rename fails; another saver may have renamed
\* the temporary file away.
Fails(p) ==
  /\ pc[p] \in {"open", "rename"}
  /\ Finish(p, "failed")
  /\ UNCHANGED <<fd, names, content>>

\* The write fails part of the way, and the temporary file stays behind.
WriteFails(p) ==
  /\ pc[p] = "write"
  /\ \E c \in {content[fd[p]], Torn} : content' = [content EXCEPT ![fd[p]] = c]
  /\ fd' = [fd EXCEPT ![p] = NoInode]
  /\ Finish(p, "failed")
  /\ UNCHANGED names

\* The process is killed: the next one finds the files as they are.
Crash ==
  /\ crashes < MaxCrashes /\ Busy # {}
  /\ pc' = [p \in Saver |-> "idle"] /\ fd' = [p \in Saver |-> NoInode]
  /\ crashes' = crashes + 1
  /\ UNCHANGED <<session, alone, result, names, content, saves>>

SaveStep(p) ==
  \/ Create(p) \/ Truncate(p) \/ Write(p) \/ WriteFails(p) \/ Rename(p) \/ Fails(p)
  \/ \E s \in Session : Begin(p, s)

Next == Crash \/ \E p \in Saver : SaveStep(p)

Spec == Init /\ [][Next]_vars

-----------------------------------------------------------------------------
(* Properties.                                                             *)

TypeOK ==
  /\ pc \in [Saver -> {"idle", "open", "write", "rename"}]
  /\ session \in [Saver -> Session \cup {NoSession}]
  /\ \A p \in Saver : pc[p] # "idle" => session[p] \in Session
  /\ fd \in [Saver -> Inode \cup {NoInode}]
  /\ \A p \in Saver : pc[p] = "write" <=> fd[p] # NoInode
  /\ tmp \in Inode \cup {NoInode} /\ live \in Inode \cup {NoInode}
  /\ content \in [Inode -> Content]
  /\ alone \in [Saver -> BOOLEAN] /\ result \in [Saver -> {"none", "saved", "failed"}]
  /\ saves \in 0..MaxSaves /\ crashes \in 0..MaxCrashes

\* The two files as a register of sessions: load() returns the last session a
\* save that ran alone reported saved, through failed saves and crashes, and
\* only overlapping saves can spoil it (atomic_write's "a crash mid-write
\* doesn't leave half a file behind").
Store == INSTANCE SessionStore WITH
  stored <- Loaded,
  saving <- [p \in Saver |-> IF pc[p] = "idle" THEN NoSession ELSE session[p]]

ActsAsStore == Store!Spec
=============================================================================
