-------------------------- MODULE StateFileProofs --------------------------
(***************************************************************************)
(* Proofs about StateFile and Boot, for any number of savers, cards and    *)
(* devices: the state is well-typed, the two files act as the register of  *)
(* SessionStore, and through them a pick reaches its device.               *)
(***************************************************************************)
EXTENDS Boot, TLAPS

\* The session each saver is saving, as SessionStore has it.
Saving == [p \in Saver |-> IF pc[p] = "idle" THEN NoSession ELSE session[p]]

LEMMA TypeInit == Init => TypeOK
BY BoundAssumption DEF Init, TypeOK, Content

\* A step of one saver keeps the types.
LEMMA TypeStep ==
  ASSUME TypeOK, NEW p \in Saver, SaveStep(p)
  PROVE  TypeOK'
<1> USE BoundAssumption, NameAssumption DEF TypeOK, save, names, Finish
<1>1. CASE Create(p)
  <2> PICK i \in Free : tmp' = i /\ Opened(p, i)
    BY <1>1 DEF Create
  <2> QED BY <1>1 DEF Create, Opened, Free, Content
<1>2. CASE Truncate(p)
  BY <1>2 DEF Truncate, Opened, Content
<1>3. CASE Write(p)
  <2>1. \A c \in Over(content[fd[p]], session[p]) : c \in Content
    <3>1. fd[p] \in Inode /\ session[p] \in Session
      BY <1>3 DEF Write
    <3>2. content[fd[p]] \in Session => [session[p] EXCEPT !.device = content[fd[p]].device] \in Session
      BY <3>1 DEF Session
    <3> QED BY <3>1, <3>2 DEF Over, Content
  <2> QED BY <1>3, <2>1 DEF Write
<1>4. CASE WriteFails(p)
  BY <1>4 DEF WriteFails, Content
<1>5. CASE Rename(p)
  BY <1>5 DEF Rename
<1>6. CASE Fails(p)
  BY <1>6 DEF Fails
<1>7. ASSUME NEW s \in Session, Begin(p, s) PROVE TypeOK'
  <2>1. alone' \in [Saver -> BOOLEAN]
    BY <1>7, Zenon DEF Begin
  <2> QED BY <1>7, <2>1 DEF Begin
<1> QED BY <1>1, <1>2, <1>3, <1>4, <1>5, <1>6, <1>7 DEF SaveStep

LEMMA TypeNext == TypeOK /\ [Next]_vars => TypeOK'
<1> SUFFICES ASSUME TypeOK, [Next]_vars PROVE TypeOK'
  OBVIOUS
<1>1. CASE Crash
  BY <1>1, BoundAssumption DEF Crash, TypeOK, save, names
<1>2. CASE UNCHANGED vars
  BY <1>2 DEF TypeOK, vars, save, names
<1> QED BY <1>1, <1>2, TypeStep DEF Next

\* The saves and the two files are well-typed whatever fails and overlaps.
THEOREM TypeCorrect == Spec => []TypeOK
BY TypeInit, TypeNext, PTL DEF Spec

-----------------------------------------------------------------------------
\* A save that runs alone is the only one; the temporary name points at the file
\* it has open, then at its session.  The two names never point at one file.
AloneInv ==
  /\ tmp # NoInode => tmp # live
  /\ \A p \in Saver : pc[p] # "idle" /\ alone[p] =>
       /\ Busy = {p}
       /\ pc[p] = "write" => fd[p] = tmp /\ content[tmp] = Empty
       /\ pc[p] = "rename" => tmp # NoInode /\ content[tmp] = session[p]

IInv == TypeOK /\ AloneInv

\* While p saves, another save that runs is not alone.
LEMMA OnlyOne ==
  ASSUME IInv, NEW p \in Saver, pc[p] # "idle", NEW q \in Saver, pc[q] # "idle", alone[q]
  PROVE  q = p
BY DEF IInv, AloneInv, Busy

LEMMA AloneStep ==
  ASSUME IInv, NEW p \in Saver, SaveStep(p)
  PROVE  AloneInv'
<1> USE NameAssumption DEF IInv, TypeOK, AloneInv, Busy, names, Finish
<1>1. CASE Create(p)
  <2> PICK i \in Free : tmp' = i /\ Opened(p, i)
    BY <1>1 DEF Create
  <2>1. i # live /\ i # NoInode /\ i \in Inode
    BY DEF Free
  <2>2. \A q \in Saver : pc'[q] # "idle" /\ alone'[q] => q = p
    BY <1>1, OnlyOne DEF Create, Opened
  <2>3. Busy' = Busy
    BY <1>1 DEF Create, Opened
  <2> QED BY <1>1, <2>1, <2>2, <2>3 DEF Create, Opened
<1>2. CASE Truncate(p)
  <2>1. \A q \in Saver : pc'[q] # "idle" /\ alone'[q] => q = p
    BY <1>2, OnlyOne DEF Truncate, Opened
  <2>2. Busy' = Busy
    BY <1>2 DEF Truncate, Opened
  <2> QED BY <1>2, <2>1, <2>2 DEF Truncate, Opened
<1>3. CASE Write(p)
  <2>1. \A q \in Saver : pc'[q] # "idle" /\ alone'[q] => q = p
    BY <1>3, OnlyOne DEF Write
  <2>2. Busy' = Busy
    BY <1>3 DEF Write
  <2>3. alone[p] => tmp \in Inode /\ content'[tmp] = session[p]
    BY <1>3 DEF Write, Over
  <2> QED BY <1>3, <2>1, <2>2, <2>3 DEF Write
<1>4. CASE WriteFails(p) \/ Fails(p)
  <2>1. \A q \in Saver : pc'[q] # "idle" => q # p /\ pc[q] # "idle" /\ pc'[q] = pc[q]
    BY <1>4 DEF WriteFails, Fails
  <2>2. \A q \in Saver : pc'[q] # "idle" => ~alone'[q]
    BY <1>4, <2>1, OnlyOne DEF WriteFails, Fails
  <2> QED BY <1>4, <2>2 DEF WriteFails, Fails
<1>5. CASE Rename(p)
  <2>1. \A q \in Saver : pc'[q] # "idle" => q # p /\ pc[q] # "idle" /\ pc'[q] = pc[q]
    BY <1>5 DEF Rename
  <2>2. \A q \in Saver : pc'[q] # "idle" => ~alone'[q]
    BY <1>5, <2>1, OnlyOne DEF Rename
  <2> QED BY <1>5, <2>2 DEF Rename
<1>6. ASSUME NEW s \in Session, Begin(p, s) PROVE AloneInv'
  <2>1. \A q \in Saver : pc'[q] # "idle" /\ alone'[q] => q = p /\ Busy = {}
    BY <1>6 DEF Begin
  <2>2. Busy' = Busy \cup {p}
    BY <1>6 DEF Begin
  <2> QED BY <1>6, <2>1, <2>2 DEF Begin
<1> QED BY <1>1, <1>2, <1>3, <1>4, <1>5, <1>6 DEF SaveStep

LEMMA IInvNext == IInv /\ [Next]_vars => IInv'
<1> SUFFICES ASSUME IInv, [Next]_vars PROVE IInv'
  OBVIOUS
<1>1. TypeOK'
  BY TypeNext DEF IInv
<1>2. CASE Crash
  BY <1>1, <1>2 DEF Crash, IInv, AloneInv, names
<1>3. CASE UNCHANGED vars
  BY <1>1, <1>3 DEF IInv, AloneInv, Busy, vars, save, names
<1> QED BY <1>1, <1>2, <1>3, AloneStep DEF Next, IInv

LEMMA IInvInit == Init => IInv
BY TypeInit DEF Init, IInv, AloneInv

-----------------------------------------------------------------------------
\* Both specifications speak of the same savers.
LEMMA SameBusy == TypeOK => Store!Busy = Busy
BY ContentAssumption DEF TypeOK, Busy, Store!Busy

LEMMA LoadedType == Loaded' \in Session \cup {NoSession}
BY DEF Loaded

\* Starting a save is starting one in the register.
LEMMA SimBegin ==
  ASSUME IInv, NEW p \in Saver, NEW s \in Session, Begin(p, s)
  PROVE  Store!Begin(p, s)
<1>1. Saving' = [Saving EXCEPT ![p] = s]
  BY DEF Begin, Saving, IInv, TypeOK
<1>2. Loaded' = Loaded
  BY DEF Begin, Loaded, names
<1>3. alone' = [q \in Saver |-> IF q = p THEN Store!Busy = {} ELSE alone[q] /\ q \notin Store!Busy]
  BY SameBusy DEF Begin, IInv
<1> QED BY <1>1, <1>2, <1>3 DEF Begin, Store!Begin, Saving, IInv, TypeOK

\* Opening and writing show nothing, or disturb what overlapping saves left.
LEMMA SimFile ==
  ASSUME IInv, NEW p \in Saver, Create(p) \/ Truncate(p) \/ Write(p)
  PROVE  Store!Disturb(p) \/ UNCHANGED <<Loaded, Saving, alone, result>>
<1> USE DEF IInv, TypeOK
<1>1. /\ Saving' = Saving
      /\ alone' = alone /\ result' = result
      /\ Saving[p] # NoSession
  BY ContentAssumption DEF Create, Truncate, Opened, Write, Saving, names
<1>2. CASE Create(p)
  <2>1. Loaded' = Loaded
    BY <1>2 DEF Create, Opened, Free, Loaded
  <2> QED BY <1>1, <2>1
<1>3. CASE Truncate(p)
  <2>1. Loaded' = Loaded
    BY <1>3 DEF Truncate, Opened, Loaded, AloneInv
  <2> QED BY <1>1, <2>1
<1>4. CASE Write(p) /\ alone[p]
  <2>1. fd[p] = tmp /\ tmp # live /\ live' = live
    BY <1>4 DEF Write, AloneInv, names
  <2>2. Loaded' = Loaded
    BY <1>4, <2>1, NameAssumption DEF Write, Loaded
  <2> QED BY <1>1, <2>2
<1>5. CASE ~alone[p]
  BY <1>1, <1>5, LoadedType DEF Store!Disturb, Saving
<1> QED BY <1>2, <1>3, <1>4, <1>5

\* A rename commits, and commits the saver's own session if it ran alone.
LEMMA SimRename ==
  ASSUME IInv, NEW p \in Saver, Rename(p)
  PROVE  Store!Commit(p)
<1> USE DEF IInv, TypeOK
<1>1. Saving' = [Saving EXCEPT ![p] = NoSession] /\ Saving[p] = session[p] /\ session[p] \in Session
  BY DEF Rename, Finish, Saving
<1>2. alone[p] => Loaded' = Saving[p]
  <2>1. SUFFICES ASSUME alone[p] PROVE Loaded' = Saving[p]
    OBVIOUS
  <2>2. content[tmp] = session[p] /\ content' = content /\ live' = tmp /\ tmp # NoInode
    BY <2>1 DEF Rename, AloneInv
  <2> QED BY <1>1, <2>2 DEF Loaded
<1> QED BY <1>1, <1>2, LoadedType, ContentAssumption DEF Rename, Finish, Store!Commit, Saving

\* A failed save gives up, and leaves what is stored alone if it ran alone.
LEMMA SimFails ==
  ASSUME IInv, NEW p \in Saver, Fails(p) \/ WriteFails(p)
  PROVE  Store!GiveUp(p)
<1> USE DEF IInv, TypeOK
<1>1. Saving' = [Saving EXCEPT ![p] = NoSession] /\ Saving[p] = session[p] /\ session[p] \in Session
  <2>1. pc' = [pc EXCEPT ![p] = "idle"] /\ session' = session /\ pc[p] # "idle"
    BY DEF Fails, WriteFails, Finish
  <2> QED BY <2>1 DEF Saving
<1>2. alone[p] => Loaded' = Loaded
  <2>1. CASE Fails(p)
    BY <2>1 DEF Fails, Finish, Loaded, names
  <2>2. CASE WriteFails(p)
    <3>1. alone[p] => fd[p] = tmp /\ tmp # live /\ live' = live
      BY <2>2, NameAssumption DEF WriteFails, AloneInv, names
    <3> QED BY <2>2, <3>1 DEF WriteFails, Loaded
  <2> QED BY <2>1, <2>2
<1> QED BY <1>1, <1>2, LoadedType, ContentAssumption DEF Fails, WriteFails, Finish, Store!GiveUp, Saving

\* A crash forgets the saves and changes nothing that is stored.
LEMMA SimCrash == IInv /\ Crash => Store!Crash
BY DEF Crash, Store!Crash, Loaded, names

LEMMA SimInit == Init => Store!Init
BY DEF Init, Store!Init, Loaded

LEMMA SimNext == IInv /\ [Next]_vars => [Store!Next]_(Store!vars)
<1> SUFFICES ASSUME IInv, [Next]_vars PROVE Store!Next \/ UNCHANGED <<Loaded, Saving, alone, result>>
  BY DEF Store!vars, Saving
<1>1. CASE Crash
  BY <1>1, SimCrash DEF Store!Next
<1>2. CASE UNCHANGED vars
  BY <1>2 DEF vars, save, names, Loaded, Saving
<1>3. ASSUME NEW p \in Saver, SaveStep(p)
      PROVE  Store!Next \/ UNCHANGED <<Loaded, Saving, alone, result>>
  BY <1>3, SimBegin, SimFile, SimRename, SimFails DEF SaveStep, Store!Next
<1> QED BY <1>1, <1>2, <1>3 DEF Next

\* Whatever saves overlap, fail or are killed, the files act as the register:
\* a save that ran alone and reported "saved" is what the next load() returns.
THEOREM Refines == Spec => ActsAsStore
<1>1. Spec => []IInv
  BY IInvInit, IInvNext, PTL DEF Spec
<1>2. IInv /\ [Next]_vars => [Store!Next]_(Store!vars)
  BY SimNext
<1> QED BY <1>1, <1>2, SimInit, PTL DEF Spec, ActsAsStore, Store!Spec

-----------------------------------------------------------------------------
(* Boot.                                                                   *)

\* A step of Boot is a step of the files, or leaves them alone.
LEMMA FileStep == BTypeOK /\ [BNext]_bvars => [Next]_vars
<1> SUFFICES ASSUME BTypeOK, [BNext]_bvars PROVE Next \/ UNCHANGED vars
  OBVIOUS
<1>1. Snapshot \in Session
  BY TunesExist DEF Snapshot, Session, BTypeOK
<1>2. ASSUME NEW p \in Saver, SaveState(p) PROVE Next
  BY <1>1, <1>2 DEF SaveState, Next, SaveStep
<1>3. CASE Stop
  BY <1>1, <1>3, MainSaves DEF Stop, Next, SaveStep
<1>4. ASSUME NEW p \in Saver, SaveWorks(p) \/ SaveEnds(p) PROVE Next
  BY <1>4 DEF SaveWorks, SaveEnds, Next, SaveStep
<1>5. CASE Kill
  BY <1>5 DEF Kill, Next
<1>6. CASE World
  BY <1>6 DEF World, Replug
<1>7. CASE Start
  BY <1>7 DEF Start, Discover, Restore, Resolve, Probe, OpenCapture, CaptureFails
<1>8. CASE Enumerate \/ LoadState \/ (\E d \in Device : Pick(d)) \/ Exit
  BY <1>8 DEF Enumerate, LoadState, Pick, Exit
<1>9. CASE UNCHANGED bvars
  BY <1>9 DEF bvars
<1> QED BY <1>2, <1>3, <1>4, <1>5, <1>6, <1>7, <1>8, <1>9 DEF BNext, Clients, Finishes

LEMMA BTypeInit == BInit => BTypeOK
BY TypeInit, DeviceIds, Cards, BootBounds DEF BInit, BTypeOK, Arrangements

\* The device list holds devices only.
LEMMA EnumeratedType == Enumerated \subseteq Device
BY DeviceIds DEF Enumerated

LEMMA BTypeNext == BTypeOK /\ [BNext]_bvars => BTypeOK'
<1> SUFFICES ASSUME BTypeOK, [BNext]_bvars PROVE BTypeOK'
  OBVIOUS
<1> USE DeviceIds, Cards, BootBounds DEF BTypeOK, process, counts
<1>1. TypeOK'
  BY FileStep, TypeNext
<1>2. ASSUME NEW f \in Arrangements, Replug(f) PROVE BTypeOK'
  <2> DEFINE m == wish.moved \/ (wish.device \in Number /\ f[wish.device] # slots[wish.device])
  <2>1. m \in BOOLEAN
    OBVIOUS
  <2>2. wish' = [wish EXCEPT !.moved = m]
    BY <1>2, Zenon DEF Replug
  <2> HIDE DEF m
  <2> QED BY <1>1, <1>2, <2>1, <2>2 DEF Replug, Arrangements
<1>3. CASE Discover
  BY <1>1, <1>3, EnumeratedType DEF Discover
<1>4. CASE Restore
  BY <1>1, <1>4 DEF Restore, Validated
<1>5. CASE Resolve
  <2>1. HubCard \in Number \cup {NoNumber}
    BY DEF HubCard, Plugged
  <2> QED BY <1>1, <1>5, <2>1 DEF Resolve, RxSource
<1>6. CASE Probe
  BY <1>1, <1>6 DEF Probe, Opens
<1>7. CASE OpenCapture
  BY <1>1, <1>7 DEF OpenCapture, Opens
<1>8. CASE CaptureFails
  BY <1>1, <1>8 DEF CaptureFails
<1>9. CASE Enumerate
  BY <1>1, <1>9, EnumeratedType DEF Enumerate
<1>10. CASE LoadState
  BY <1>1, <1>10 DEF LoadState, Validated
<1>11. ASSUME NEW d \in Device, Pick(d) PROVE BTypeOK'
  <2> DEFINE card == IF d \in Number THEN seen[d] ELSE NoCard
             m == d \in Number /\ slots[d] # card
  <2>1. m \in BOOLEAN /\ card \in Card \cup {NoCard}
    OBVIOUS
  <2>2. wish' = [device |-> d, card |-> card, stage |-> "picked", moved |-> m]
    BY <1>11, Zenon DEF Pick
  <2> HIDE DEF m, card
  <2> QED BY <1>1, <1>11, <2>1, <2>2 DEF Pick, SelectDevice
<1>12. ASSUME NEW p \in Saver, SaveState(p) PROVE BTypeOK'
  BY <1>1, <1>12 DEF SaveState
<1>13. CASE Stop
  BY <1>1, <1>13 DEF Stop
<1>14. CASE Exit
  BY <1>1, <1>14 DEF Exit, Ended
<1>15. CASE Kill
  BY <1>1, <1>15 DEF Kill, Ended
<1>16. ASSUME NEW p \in Saver, SaveWorks(p) PROVE BTypeOK'
  BY <1>1, <1>16 DEF SaveWorks
<1>17. ASSUME NEW p \in Saver, SaveEnds(p) PROVE BTypeOK'
  BY <1>1, <1>17 DEF SaveEnds
<1>18. CASE UNCHANGED bvars
  BY <1>1, <1>18 DEF bvars
<1> QED
  BY <1>2, <1>3, <1>4, <1>5, <1>6, <1>7, <1>8, <1>9, <1>10, <1>11, <1>12, <1>13,
     <1>14, <1>15, <1>16, <1>17, <1>18 DEF BNext, World, Start, Clients, Finishes

\* The process, its list, its capture thread and the wish are well-typed.
THEOREM BootTypeCorrect == BSpec => []BTypeOK
BY BTypeInit, BTypeNext, PTL DEF BSpec

-----------------------------------------------------------------------------
\* Only a process that serves or stops saves, and main only when it stops.
Savers ==
  \A p \in Saver : pc[p] # "idle" => phase \in {"up", "saving"} /\ (p = Main => phase = "saving")

\* The capture thread: none before the probe, a card only while it is open.
Captures ==
  /\ phase \notin {"up", "saving"} => thread = "none"
  /\ thread = "open" <=> capture # NoCard

\* The list shows no number without a card, and a wish's number still names
\* the card it was made for unless that was noticed.
Named ==
  /\ \A n \in Number : n \in listed => seen[n] # NoCard
  /\ wish.stage \in {"picked", "kept"} /\ wish.device \in Number =>
       wish.moved \/ slots[wish.device] = wish.card

\* A pick that is still to be saved is the session's device, and the one that
\* main saves.
Picked ==
  wish.stage = "picked" =>
    /\ phase \in {"up", "saving"} /\ snap = wish.device
    /\ pc[Main] # "idle" => session[Main].device = wish.device

\* A pick that is kept is in the file, in whatever save is under way, and in
\* the process from the moment it has loaded the file.
Kept ==
  wish.stage = "kept" =>
    /\ Loaded # NoSession /\ Loaded.device = wish.device
    /\ \A p \in Saver : pc[p] # "idle" => alone[p] /\ session[p].device = wish.device
    /\ phase = "found" => wish.device \in listed
    /\ phase \notin {"down", "saving"} /\ wish.device \in Number => wish.moved \/ wish.card # NoCard
    /\ phase \in {"loaded", "resolved", "up"} => active = wish.device /\ snap = wish.device
    /\ phase \in {"resolved", "up"} /\ wish.device \in Number => rx = wish.device
    /\ phase = "up" /\ wish.device \in Number /\ ~wish.moved =>
         thread # "none" /\ capture \in {wish.card, NoCard}

BootInv == BTypeOK /\ IInv /\ Savers /\ Captures /\ Named /\ Picked /\ Kept

LEMMA BootInvInit == BInit => BootInv
BY BTypeInit, IInvInit DEF BInit, Init, BootInv, Savers, Captures, Named, Picked, Kept

\* A process that has ended leaves nothing to be wrong about, but for the file.
LEMMA EndedInv ==
  ASSUME BootInv, BTypeOK', IInv', Ended, Loaded' = Loaded, slots' = slots,
         \A p \in Saver : pc'[p] = "idle"
  PROVE  BootInv'
BY DEF Ended, BootInv, BTypeOK, Savers, Captures, Named, Picked, Kept

LEMMA BootInvNext == BootInv /\ [BNext]_bvars => BootInv'
<1> SUFFICES ASSUME BootInv, [BNext]_bvars PROVE BootInv'
  OBVIOUS
<1>0. BTypeOK' /\ IInv'
  BY BTypeNext, IInvNext, FileStep DEF BootInv
<1> USE DEF process, counts
<1>1. UNCHANGED vars => Loaded' = Loaded /\ pc' = pc /\ alone' = alone /\ session' = session
  BY DEF vars, names, save, Loaded
<1>2. ASSUME NEW f \in Arrangements, Replug(f) PROVE BootInv'
  <2>1. Savers' /\ Captures' /\ Picked'
    BY <1>0, <1>1, <1>2 DEF Replug, BootInv, BTypeOK, Savers, Captures, Picked
  <2> QED BY <1>0, <1>1, <1>2, <2>1 DEF Replug, BootInv, BTypeOK, Named, Kept
<1>3. CASE Discover
  BY <1>0, <1>1, <1>3, DeviceIds DEF Discover, Enumerated, BootInv, BTypeOK, Savers, Captures, Named, Picked, Kept
<1>4. CASE Restore
  BY <1>0, <1>1, <1>4 DEF Restore, Validated, BootInv, BTypeOK, Savers, Captures, Named, Picked, Kept
<1>5. CASE Resolve
  BY <1>0, <1>1, <1>5 DEF Resolve, RxSource, BootInv, BTypeOK, Savers, Captures, Named, Picked, Kept
<1>6. CASE Probe
  BY <1>0, <1>1, <1>6, Cards DEF Probe, Opens, BootInv, BTypeOK, Savers, Captures, Named, Picked, Kept
<1>7. CASE OpenCapture
  BY <1>0, <1>1, <1>7, Cards DEF OpenCapture, Opens, BootInv, BTypeOK, Savers, Captures, Named, Picked, Kept
<1>8. CASE CaptureFails
  BY <1>0, <1>1, <1>8 DEF CaptureFails, Plugged, BootInv, BTypeOK, Savers, Captures, Named, Picked, Kept
<1>9. CASE Enumerate
  BY <1>0, <1>1, <1>9, DeviceIds DEF Enumerate, Enumerated, BootInv, BTypeOK, Savers, Captures, Named, Picked, Kept
<1>10. CASE LoadState
  BY <1>0, <1>1, <1>10 DEF LoadState, Validated, BootInv, BTypeOK, Savers, Captures, Named, Picked, Kept
<1>11. ASSUME NEW d \in Device, Pick(d) PROVE BootInv'
  <2>1. /\ wish'.device = d /\ wish'.stage = "picked"
        /\ d \in Number => wish'.card = seen[d] /\ (wish'.moved <=> slots[d] # seen[d])
    BY <1>11 DEF Pick
  <2>2. Savers' /\ Captures'
    BY <1>0, <1>1, <1>11 DEF Pick, SelectDevice, BootInv, Savers, Captures
  <2>3. Named'
    BY <1>1, <1>11, <2>1 DEF Pick, BootInv, Named
  <2>4. Picked' /\ Kept'
    BY <1>1, <1>11, <2>1, MainSaves DEF Pick, SelectDevice, BootInv, Savers, Picked, Kept
  <2> QED BY <1>0, <2>2, <2>3, <2>4 DEF BootInv
<1>12. ASSUME NEW p \in Saver, SaveState(p) PROVE BootInv'
  BY <1>0, <1>12 DEF SaveState, Begin, Snapshot, names, Busy, Loaded, BootInv, BTypeOK, TypeOK,
     Savers, Captures, Named, Picked, Kept
<1>13. CASE Stop
  BY <1>0, <1>13, MainSaves DEF Stop, Begin, Snapshot, names, Busy, Loaded, BootInv, BTypeOK, TypeOK,
     Savers, Captures, Named, Picked, Kept
<1>14. CASE Exit
  BY <1>0, <1>1, <1>14, EndedInv DEF Exit, Busy
<1>15. CASE Kill
  <2>1. Loaded' = Loaded /\ \A p \in Saver : pc'[p] = "idle"
    BY <1>1, <1>15 DEF Kill, Crash, names, Loaded, Busy
  <2> QED BY <1>0, <1>15, <2>1, EndedInv DEF Kill
<1>16. ASSUME NEW p \in Saver, SaveWorks(p) PROVE BootInv'
  <2>1. /\ pc[p] # "idle" /\ session' = session /\ alone' = alone
        /\ pc' \in [Saver -> {"idle", "open", "write", "rename"}]
        /\ \A q \in Saver : q # p => pc'[q] = pc[q]
    BY <1>0, <1>16 DEF SaveWorks, Create, Truncate, Opened, Write, WriteFails, Fails, Finish, names,
       BootInv, IInv, TypeOK
  <2>2. alone[p] => Loaded' = Loaded
    BY <1>16, SimFile, SimFails DEF SaveWorks, BootInv, Store!Disturb, Store!GiveUp
  <2>3. \A q \in Saver : pc'[q] # "idle" => pc[q] # "idle"
    BY <2>1
  <2>4. Savers' /\ Captures' /\ Named' /\ Picked'
    BY <1>16, <2>1, <2>3, MainSaves DEF SaveWorks, BootInv, Savers, Captures, Named, Picked
  <2>5. Kept'
    BY <1>16, <2>1, <2>2, <2>3 DEF SaveWorks, BootInv, Kept
  <2> QED BY <1>0, <2>4, <2>5 DEF BootInv
<1>17. ASSUME NEW p \in Saver, SaveEnds(p) PROVE BootInv'
  <2>1. /\ pc[p] # "idle" /\ session' = session /\ alone' = alone
        /\ pc' = [pc EXCEPT ![p] = "idle"] /\ pc \in [Saver -> {"idle", "open", "write", "rename"}]
    BY <1>17 DEF SaveEnds, Rename, Finish, BootInv, IInv, TypeOK
  <2>2. alone[p] => Loaded' = session[p] /\ session[p] \in Session
    BY <1>17, <2>1, SimRename DEF SaveEnds, BootInv, Store!Commit, IInv, TypeOK
  <2>3. alone[p] => \A q \in Saver : pc[q] # "idle" => q = p
    BY <2>1 DEF BootInv, IInv, AloneInv, Busy
  <2> QED BY <1>0, <1>17, <2>1, <2>2, <2>3, MainSaves, ContentAssumption
       DEF SaveEnds, BootInv, BTypeOK, Savers, Captures, Named, Picked, Kept
<1>18. CASE UNCHANGED bvars
  BY <1>0, <1>1, <1>18 DEF bvars, BootInv, BTypeOK, Savers, Captures, Named, Picked, Kept
<1> QED
  BY <1>2, <1>3, <1>4, <1>5, <1>6, <1>7, <1>8, <1>9, <1>10, <1>11, <1>12, <1>13,
     <1>14, <1>15, <1>16, <1>17, <1>18 DEF BNext, World, Start, Clients, Finishes

\* A pick that main saved alone, and that every start since found in the list,
\* is active again; a sound card that kept its number is the one captured.
THEOREM PicksHonoured == BSpec => []PickHonoured
<1>1. BootInv => PickHonoured
  BY DEF BootInv, Kept, PickHonoured
<1> QED BY <1>1, BootInvInit, BootInvNext, PTL DEF BSpec

\* The session file stays the register of SessionStore when the whole process
\* starts, serves, saves and is killed around it.
THEOREM BootRefines == BSpec => ActsAsStore
<1>1. BInit => Store!Init
  BY SimInit DEF BInit
<1>2. BootInv /\ [BNext]_bvars => [Store!Next]_(Store!vars)
  BY FileStep, SimNext DEF BootInv
<1> QED BY <1>1, <1>2, BootInvInit, BootInvNext, PTL DEF BSpec, ActsAsStore, Store!Spec
=============================================================================
