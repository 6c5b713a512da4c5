-------------------------- MODULE RecorderProofs ---------------------------
(***************************************************************************)
(* Proofs about Recorder, for any clients, files, queue size and numbers   *)
(* of commands, recordings and blocks: its state is well-typed, one writer *)
(* is alive at a time, a client is told when nothing is being recorded, a  *)
(* stopped recording is whole on disk, the controller never waits for a    *)
(* writer that was not told to stop, and statuses come in order.           *)
(***************************************************************************)
EXTENDS Recorder, TLAPS

\* What the controller and the writers publish is a status.
LEMMA StatusValues ==
  /\ Inactive \in Status
  /\ \A r \in Rec, n \in 0..MaxBlocks : Progress(r, n) \in Status
BY BoundAssumption DEF Status, Inactive, Progress

\* Publishing a status keeps the channel and its receivers well-typed.
LEMMA SendTypes ==
  ASSUME NEW v \in Status, TypeOK, Send(v)
  PROVE  status' \in Status /\ unseen' \subseteq Client
BY DEF TypeOK, Send

\* The initial state is well-typed.
LEMMA TypeInit == Init => TypeOK
<1> SUFFICES ASSUME Init PROVE TypeOK
  OBVIOUS
<1>1. queue \in Seq(Cmd) /\ Len(queue) <= QueueSize /\ cmd \in Cmd
  BY BoundAssumption DEF Init, Cmd, Stop
<1>2. status \in Status
  BY StatusValues DEF Init
<1>3. /\ file \in [Path -> File]
      /\ taken \in [Rec -> 0..MaxBlocks] /\ path \in [Rec -> Path \cup {NoPath}]
  BY BoundAssumption DEF Init, File, None
<1>4. issued \in 0..MaxCmds /\ started \in 0..MaxRecs
  BY BoundAssumption DEF Init
<1> QED BY <1>1, <1>2, <1>3, <1>4 DEF Init, TypeOK

\* A step of the controller keeps the types.
LEMMA TypeController == TypeOK /\ Controller => TypeOK'
<1> SUFFICES ASSUME TypeOK, Controller PROVE TypeOK'
  OBVIOUS
<1> USE BoundAssumption DEF Rec, None, TypeOK, channel, control, writers, disk, watch, clients, shutdown
<1>1. CASE Cancelled
  BY <1>1 DEF Cancelled, StopCurrent
<1>2. CASE TakeStart
  <2>1. queue' \in Seq(Cmd) /\ Len(queue') <= QueueSize /\ cmd' \in Cmd
    BY <1>2 DEF TakeStart
  <2> QED BY <1>2, <2>1 DEF TakeStart, StopCurrent
<1>3. CASE TakeStop
  <2>1. queue' \in Seq(Cmd) /\ Len(queue') <= QueueSize /\ cmd' \in Cmd
    BY <1>3 DEF TakeStop
  <2>2. status' \in Status /\ unseen' \subseteq Client
    BY <1>3, StatusValues DEF TakeStop, Send
  <2> QED BY <1>3, <2>1, <2>2 DEF TakeStop, StopCurrent
<1>4. CASE SendersGone
  BY <1>4 DEF SendersGone
<1>5. CASE Joined
  <2>1. status' \in Status /\ unseen' \subseteq Client
    BY <1>5, StatusValues DEF Joined, Send
  <2>2. cmd.op \in {"start", "stop", "cancel"}
    BY DEF Cmd, Cancel
  <2>3. ctl' \in {"select", "join", "start", "done"}
    BY <1>5, <2>2 DEF Joined
  <2> QED BY <1>5, <2>1, <2>3 DEF Joined
<1>6. CASE StartOk
  <2>1. started + 1 \in Rec /\ started' = started + 1
    BY <1>6 DEF StartOk
  <2>2. cmd.path \in Path \cup {NoPath}
    BY DEF Cmd, Cancel
  <2>3. path' \in [Rec -> Path \cup {NoPath}]
    BY <1>6, <2>1, <2>2 DEF StartOk
  <2>4. file' \in [Path -> File]
    <3>1. [rec |-> started', blocks |-> 0] \in File
      BY <2>1 DEF File
    <3> QED BY <1>6, <3>1 DEF StartOk
  <2>5. writer' \in [Rec -> {"none", "spawned", "loop", "flush", "done"}]
    BY <1>6, <2>1 DEF StartOk
  <2> QED BY <1>6, <2>1, <2>3, <2>4, <2>5 DEF StartOk
<1>7. CASE StartFails
  <2>1. status' \in Status /\ unseen' \subseteq Client
    BY <1>7, StatusValues DEF StartFails, Send
  <2> QED BY <1>7, <2>1 DEF StartFails
<1> QED BY <1>1, <1>2, <1>3, <1>4, <1>5, <1>6, <1>7 DEF Controller

\* Setting the blocks of one file leaves files.
LEMMA FileBlocks ==
  ASSUME NEW f \in [Path -> File], NEW p, NEW n \in 0..MaxBlocks
  PROVE  [f EXCEPT ![p].blocks = n] \in [Path -> File]
<1>1. ASSUME p \in Path PROVE [f[p] EXCEPT !.blocks = n] \in File
  BY <1>1 DEF File
<1> QED BY <1>1

Writer(r) ==
  Begin(r) \/ Write(r) \/ WriteError(r) \/ WriterCancelled(r) \/ Closed(r) \/ Flush(r)

\* A step of a writer keeps the types.
LEMMA TypeWriter ==
  ASSUME NEW r \in Rec, TypeOK, Writer(r)
  PROVE  TypeOK'
<1> USE BoundAssumption DEF Rec, None, TypeOK, channel, control, writers, disk, watch, clients, shutdown
<1>1. CASE Begin(r)
  <2>1. status' \in Status /\ unseen' \subseteq Client
    BY <1>1, StatusValues DEF Begin, Send
  <2> QED BY <1>1, <2>1 DEF Begin
<1>2. CASE Write(r)
  <2>1. taken' \in [Rec -> 0..MaxBlocks] /\ taken'[r] \in 0..MaxBlocks
    BY <1>2 DEF Write
  <2>2. status' \in Status /\ unseen' \subseteq Client
    BY <1>2, <2>1, StatusValues DEF Write, Send
  <2>3. file' \in [Path -> File]
    <3>1. [file EXCEPT ![path[r]].blocks = taken'[r]] \in [Path -> File]
      BY <2>1, FileBlocks
    <3> QED BY <1>2, <3>1 DEF Write
  <2> QED BY <1>2, <2>1, <2>2, <2>3 DEF Write
<1>3. CASE WriteError(r) \/ WriterCancelled(r) \/ Closed(r)
  BY <1>3 DEF WriteError, WriterCancelled, Closed
<1>4. CASE Flush(r)
  <2>1. file' \in [Path -> File]
    <3>1. [file EXCEPT ![path[r]].blocks = taken[r]] \in [Path -> File]
      BY FileBlocks
    <3> QED BY <1>4, <3>1 DEF Flush
  <2> QED BY <1>4, <2>1 DEF Flush
<1> QED BY <1>1, <1>2, <1>3, <1>4 DEF Writer

ClientStep(c) == Connect(c) \/ Disconnect(c) \/ Deliver(c) \/ \E m \in Cmd : Issue(c, m)
Around == FireToken \/ DropPipeline

\* A step of a client keeps the types.
LEMMA TypeClient ==
  ASSUME NEW c \in Client, TypeOK, ClientStep(c)
  PROVE  TypeOK'
<1> USE BoundAssumption DEF TypeOK, channel, control, writers, disk, watch, clients, shutdown
<1>1. CASE \E m \in Cmd : Issue(c, m)
  <2> PICK m \in Cmd : Issue(c, m)
    BY <1>1
  <2>1. queue' \in Seq(Cmd) /\ Len(queue') <= QueueSize /\ issued' \in 0..MaxCmds
    BY DEF Issue
  <2> QED BY <2>1 DEF Issue
<1>2. CASE Connect(c) \/ Disconnect(c) \/ Deliver(c)
  BY <1>2 DEF Connect, Disconnect, Deliver
<1> QED BY <1>1, <1>2 DEF ClientStep

\* What a step can be.
LEMMA Steps ==
  ASSUME [Next]_vars
  PROVE  \/ Controller \/ Around \/ UNCHANGED vars
         \/ \E r \in Rec : Writer(r)
         \/ \E c \in Client : ClientStep(c)
BY DEF Next, Writer, ClientStep, Around

\* No step leaves the types.
LEMMA TypeStep == TypeOK /\ [Next]_vars => TypeOK'
<1> SUFFICES ASSUME TypeOK, [Next]_vars PROVE TypeOK'
  OBVIOUS
<1>1. CASE Around
  BY <1>1 DEF Around, FireToken, DropPipeline, TypeOK, channel, control, writers, disk, watch, clients
<1>2. CASE UNCHANGED vars
  BY <1>2 DEF vars, TypeOK, channel, control, writers, disk, watch, clients, shutdown
<1> QED BY <1>1, <1>2, Steps, TypeController, TypeWriter, TypeClient

\* The recorder's state is well-typed (recording.rs).
THEOREM TypeCorrect == Spec => []TypeOK
<1>1. TypeOK /\ [Next]_vars => TypeOK'
  BY TypeStep
<1> QED BY TypeInit, <1>1, PTL DEF Spec

-----------------------------------------------------------------------------
(* One writer.  A writer that is alive is the one the controller holds or  *)
(* the one it is joining; only when every sender of commands is gone does  *)
(* it leave one behind.                                                    *)

OwnInv ==
  /\ ctl # "select" => current = None
  /\ ctl # "join" => joining = None
  /\ ctl = "start" => cmd.op = "start"
  /\ ctl = "select" => cmd # Cancel
  /\ \A r \in Rec : Alive(r) => (ctl = "done" /\ cmd # Cancel) \/ r = current \/ r = joining
  /\ \A r, s \in Rec : Alive(r) /\ Alive(s) => r = s
  /\ \A r \in Rec : writer[r] = "none" <=> r > started

\* It holds initially.
LEMMA OwnInit == Init => OwnInv
BY BoundAssumption DEF Init, OwnInv, Alive, Rec, None, Stop, Cancel

\* A controller's step keeps it.
LEMMA OwnController == TypeOK /\ OwnInv /\ Controller => OwnInv'
<1> SUFFICES ASSUME TypeOK, OwnInv, Controller PROVE OwnInv'
  OBVIOUS
<1> USE BoundAssumption DEF TypeOK, OwnInv, Alive, Rec, None, writers
<1>1. CASE Cancelled
  BY <1>1 DEF Cancelled, StopCurrent
<1>2. CASE TakeStart
  <2>1. cmd'.op = "start"
    BY <1>2 DEF TakeStart
  <2> QED BY <1>2, <2>1 DEF TakeStart, StopCurrent
<1>3. CASE TakeStop
  <2>1. cmd' # Cancel
    BY <1>3 DEF TakeStop, Cancel
  <2> QED BY <1>3, <2>1 DEF TakeStop, StopCurrent
<1>4. CASE SendersGone
  BY <1>4 DEF SendersGone
<1>5. CASE Joined
  <2>1. cmd.op \in {"start", "stop", "cancel"} /\ (cmd.op = "cancel" <=> cmd = Cancel)
    BY DEF Cmd, Cancel
  <2>2. \A r \in Rec : ~Alive(r)
    BY <1>5, <2>1 DEF Joined
  <2>3. /\ ctl' = "start" => cmd'.op = "start"
        /\ ctl' = "select" => cmd' # Cancel
        /\ ctl' # "join" /\ joining' = None /\ current' = None
        /\ writer' = writer /\ started' = started
    BY <1>5, <2>1 DEF Joined
  <2> QED BY <2>2, <2>3
<1>6. CASE StartOk
  <2>1. \A r \in Rec : ~Alive(r)
    BY <1>6 DEF StartOk
  <2>2. /\ started' = started + 1 /\ current' = started + 1 /\ ctl' = "select"
        /\ started + 1 \in Rec /\ joining' = None /\ cmd' = cmd /\ cmd.op = "start"
        /\ writer' = [writer EXCEPT ![started + 1] = "spawned"]
    BY <1>6 DEF StartOk
  <2> QED BY <2>1, <2>2 DEF Cancel
<1>7. CASE StartFails
  BY <1>7 DEF StartFails, Cancel
<1> QED BY <1>1, <1>2, <1>3, <1>4, <1>5, <1>6, <1>7 DEF Controller

\* A writer's step keeps it: no writer comes alive by itself.
LEMMA OwnWriter ==
  ASSUME NEW r \in Rec, TypeOK, OwnInv, Writer(r)
  PROVE  OwnInv'
<1>1. UNCHANGED control
  BY DEF Writer, Begin, Write, WriteError, WriterCancelled, Closed, Flush
<1>2. \E at \in {"loop", "flush", "done"} : writer' = [writer EXCEPT ![r] = at]
  <2>1. CASE Write(r)
    <3>1. writer' = [writer EXCEPT ![r] = "loop"]
      BY <2>1 DEF Write, TypeOK
    <3> QED BY <3>1
  <2>2. CASE ~Write(r)
    BY <2>2 DEF Writer, Begin, WriteError, WriterCancelled, Closed, Flush
  <2> QED BY <2>1, <2>2
<1>3. Alive(r)
  BY DEF Writer, Begin, Write, WriteError, WriterCancelled, Closed, Flush, Alive
<1> QED BY <1>1, <1>2, <1>3 DEF OwnInv, TypeOK, Alive, control

\* No step breaks it.
LEMMA OwnStep == TypeOK /\ OwnInv /\ [Next]_vars => OwnInv'
<1> SUFFICES ASSUME TypeOK, OwnInv, [Next]_vars PROVE OwnInv'
  OBVIOUS
<1>1. ASSUME NEW c \in Client, ClientStep(c) PROVE OwnInv'
  BY <1>1 DEF ClientStep, Connect, Disconnect, Deliver, Issue, OwnInv, Alive, control, writers
<1>2. CASE Around
  BY <1>2 DEF Around, FireToken, DropPipeline, OwnInv, Alive, control, writers
<1>3. CASE UNCHANGED vars
  BY <1>3 DEF vars, OwnInv, Alive, control, writers
<1> QED BY <1>1, <1>2, <1>3, Steps, OwnController, OwnWriter

\* One recording at a time (recording.rs, "one recording at a time").
THEOREM OneAtATime == Spec => []OneWriter
<1>1. Init => TypeOK /\ OwnInv
  BY TypeInit, OwnInit
<1>2. TypeOK /\ OwnInv /\ [Next]_vars => (TypeOK /\ OwnInv)'
  BY TypeStep, OwnStep
<1>3. TypeOK /\ OwnInv => OneWriter
  BY DEF OwnInv, OneWriter, None, Rec, Alive, TypeOK
<1> QED BY <1>1, <1>2, <1>3, PTL DEF Spec

-----------------------------------------------------------------------------
(* What the clients are told.  While nothing is recorded no writer is left *)
(* that could publish, so the controller's "inactive" stays the last word. *)

ToldInv == unseen \subseteq link /\ StoppedIsTold

\* While the controller has no recording no writer is alive.
LEMMA IdleNoWriter ==
  ASSUME TypeOK, OwnInv, Idle
  PROVE  \A r \in Rec : ~Alive(r)
BY DEF OwnInv, Idle, Rec, None

\* Publishing "inactive" makes it what every receiver is still to be told.
LEMMA ToldSend ==
  ASSUME Send(Inactive), UNCHANGED clients
  PROVE  ToldInv'
BY DEF Send, Inactive, clients, ToldInv, StoppedIsTold

\* A step that leaves the channel and the clients alone, and does not bring
\* the controller to rest, keeps it.
LEMMA ToldSame ==
  ASSUME ToldInv, UNCHANGED <<watch, clients>>, Idle' => Idle
  PROVE  ToldInv'
BY DEF ToldInv, StoppedIsTold, watch, clients

\* No step breaks it.
LEMMA ToldStep == TypeOK /\ OwnInv /\ ToldInv /\ [Next]_vars => ToldInv'
<1> SUFFICES ASSUME TypeOK, OwnInv, ToldInv, [Next]_vars PROVE ToldInv'
  OBVIOUS
<1>1. CASE Controller
  <2>1. CASE Cancelled
    <3>1. ~Idle'
      BY <2>1 DEF Cancelled, StopCurrent, Idle
    <3> QED BY <2>1, <3>1, ToldSame DEF Cancelled
  <2>2. CASE TakeStart
    <3>1. ~Idle'
      BY <2>2 DEF TakeStart, StopCurrent, Idle
    <3> QED BY <2>2, <3>1, ToldSame DEF TakeStart
  <2>3. CASE TakeStop
    <3>1. CASE current = None
      BY <2>3, <3>1, ToldSend DEF TakeStop
    <3>2. CASE current # None
      <4>1. ~Idle'
        BY <2>3, <3>2 DEF TakeStop, StopCurrent, Idle
      <4> QED BY <2>3, <3>2, <4>1, ToldSame DEF TakeStop
    <3> QED BY <3>1, <3>2
  <2>4. CASE SendersGone
    BY <2>4, ToldSame DEF SendersGone, Idle
  <2>5. CASE Joined
    <3>1. CASE cmd.op = "stop"
      BY <2>5, <3>1, ToldSend DEF Joined
    <3>2. CASE cmd.op # "stop"
      <4>1. cmd.op \in {"start", "cancel"}
        BY <3>2 DEF TypeOK, Cmd, Cancel
      <4>2. ~Idle'
        BY <2>5, <4>1 DEF Joined, Idle
      <4> QED BY <2>5, <3>2, <4>2, ToldSame DEF Joined
    <3> QED BY <3>1, <3>2
  <2>6. CASE StartOk
    <3>1. ~Idle'
      BY <2>6, BoundAssumption DEF StartOk, Idle, None, TypeOK
    <3> QED BY <2>6, <3>1, ToldSame DEF StartOk
  <2>7. CASE StartFails
    BY <2>7, ToldSend DEF StartFails
  <2> QED BY <1>1, <2>1, <2>2, <2>3, <2>4, <2>5, <2>6, <2>7 DEF Controller
<1>2. ASSUME NEW r \in Rec, Writer(r) PROVE ToldInv'
  <2>1. Alive(r) /\ UNCHANGED <<control, clients>>
    BY <1>2 DEF Writer, Begin, Write, WriteError, WriterCancelled, Closed, Flush, Alive
  <2>2. ~Idle'
    BY <2>1, IdleNoWriter DEF Idle, control
  <2>3. unseen' \in {unseen, link}
    BY <1>2 DEF Writer, Begin, Write, WriteError, WriterCancelled, Closed, Flush, Send, watch
  <2> QED BY <2>1, <2>2, <2>3 DEF ToldInv, StoppedIsTold, clients
<1>3. ASSUME NEW c \in Client, ClientStep(c) PROVE ToldInv'
  <2>1. CASE Connect(c)
    BY <2>1 DEF Connect, ToldInv, StoppedIsTold, Idle, TypeOK, control, watch
  <2>2. CASE Disconnect(c)
    BY <2>2 DEF Disconnect, ToldInv, StoppedIsTold, Idle, control
  <2>3. CASE Deliver(c)
    BY <2>3 DEF Deliver, ToldInv, StoppedIsTold, Idle, TypeOK, control
  <2>4. CASE \E m \in Cmd : Issue(c, m)
    BY <2>4, ToldSame DEF Issue, Idle, control
  <2> QED BY <1>3, <2>1, <2>2, <2>3, <2>4 DEF ClientStep
<1>4. CASE Around
  BY <1>4, ToldSame DEF Around, FireToken, DropPipeline, Idle, control
<1>5. CASE UNCHANGED vars
  BY <1>5, ToldSame DEF vars, Idle, control
<1> QED BY <1>1, <1>2, <1>3, <1>4, <1>5, Steps

\* A client is never left with "active" once a stop was processed: the
\* controller awaits the writer before it publishes (recording.rs:146-160).
THEOREM StopTold == Spec => []StoppedIsTold
<1>1. Init => TypeOK /\ OwnInv /\ ToldInv
  BY TypeInit, OwnInit DEF Init, ToldInv, StoppedIsTold
<1>2. TypeOK /\ OwnInv /\ ToldInv /\ [Next]_vars => (TypeOK /\ OwnInv /\ ToldInv)'
  BY TypeStep, OwnStep, ToldStep
<1>3. ToldInv => StoppedIsTold
  BY DEF ToldInv
<1> QED BY <1>1, <1>2, <1>3, PTL DEF Spec

-----------------------------------------------------------------------------
(* The files.  A recording whose file no later one was given owns it, and  *)
(* when its writer is done, without a disk error, all of it is there.      *)

FileInv ==
  \A r \in Rec :
    IF r > started THEN path[r] = NoPath
    ELSE /\ path[r] \in Path
         /\ \/ Superseded(r)
            \/ /\ file[path[r]].rec = r
               /\ writer[r] = "done" /\ r \notin failed => file[path[r]].blocks = taken[r]

\* It holds initially.
LEMMA FileInit == Init => FileInv
BY BoundAssumption DEF Init, FileInv, Rec

\* Starting a recording keeps it: the file it creates was nobody's, or that
\* of a recording it supersedes.
LEMMA FileStart ==
  ASSUME TypeOK, OwnInv, FileInv, StartOk
  PROVE  FileInv'
<1> DEFINE new == started + 1
           p   == cmd.path
<1>1. /\ new \in Rec /\ started' = new /\ p \in Path /\ failed' = failed /\ taken' = taken
      /\ path' = [path EXCEPT ![new] = p]
      /\ file' = [file EXCEPT ![p] = [rec |-> new, blocks |-> 0]]
      /\ writer' = [writer EXCEPT ![new] = "spawned"]
  BY BoundAssumption DEF StartOk, TypeOK, OwnInv, Rec, Cmd, Cancel
<1> HIDE DEF p
<1>2. path'[new] = p /\ file'[p] = [rec |-> new, blocks |-> 0] /\ writer'[new] = "spawned"
  BY <1>1 DEF TypeOK
<1> SUFFICES ASSUME NEW r \in Rec
             PROVE  IF r > new THEN path'[r] = NoPath
                    ELSE /\ path'[r] \in Path
                         /\ \/ Superseded(r)'
                            \/ /\ file'[path'[r]].rec = r
                               /\ writer'[r] = "done" /\ r \notin failed'
                                    => file'[path'[r]].blocks = taken'[r]
  BY <1>1 DEF FileInv
<1>3. CASE r = new
  BY <1>1, <1>2, <1>3 DEF Rec
<1>4. CASE r # new
  <2>1. path'[r] = path[r] /\ writer'[r] = writer[r]
    BY <1>1, <1>4 DEF TypeOK
  <2>2. CASE r > new
    BY <1>1, <2>1, <2>2, BoundAssumption DEF FileInv, TypeOK, Rec
  <2>3. CASE r < new /\ path[r] = p
    <3>1. Superseded(r)'
      BY <1>1, <1>2, <2>1, <2>3 DEF Superseded
    <3> QED BY <1>1, <2>1, <2>3, <3>1, BoundAssumption DEF Rec, TypeOK
  <2>4. CASE r < new /\ path[r] # p
    <3>1. path[r] \in Path /\ ~(r > started)
      BY <1>1, <2>4, BoundAssumption DEF FileInv, Rec, TypeOK
    <3>2. file'[path[r]] = file[path[r]]
      BY <1>1, <2>4, <3>1 DEF TypeOK
    <3>3. Superseded(r) => Superseded(r)'
      <4>1. ASSUME NEW s \in Rec, s > r, path[s] = path[r] PROVE path'[s] = path'[r]
        <5>1. s # new
          BY <1>1, <3>1, <4>1, BoundAssumption, PathAssumption DEF FileInv, Rec, TypeOK
        <5> QED BY <1>1, <2>1, <4>1, <5>1 DEF TypeOK
      <4> QED BY <4>1 DEF Superseded
    <3> QED BY <1>1, <2>1, <2>4, <3>1, <3>2, <3>3, BoundAssumption DEF FileInv, Rec, TypeOK
  <2> QED BY <1>4, <2>2, <2>3, <2>4, <1>1, BoundAssumption DEF Rec, TypeOK
<1> QED BY <1>3, <1>4

\* A writer's step keeps it: it writes to its own file only.
LEMMA FileWriter ==
  ASSUME NEW w \in Rec, TypeOK, OwnInv, FileInv, Writer(w)
  PROVE  FileInv'
<1>1. /\ Alive(w) /\ path' = path /\ started' = started
      /\ w <= started /\ path[w] \in Path
  BY BoundAssumption DEF Writer, Begin, Write, WriteError, WriterCancelled, Closed, Flush, Alive, disk,
     control, OwnInv, FileInv, Rec, TypeOK
<1>2. /\ \A r \in Rec : r # w => writer'[r] = writer[r] /\ taken'[r] = taken[r]
      /\ failed \subseteq failed' /\ failed' \subseteq failed \cup {w}
  BY DEF Writer, Begin, Write, WriteError, WriterCancelled, Closed, Flush, disk, writers, TypeOK
<1>3. \/ file' = file
      \/ /\ file[path[w]].rec = w
         /\ file' = [file EXCEPT ![path[w]].blocks = taken'[w]]
  BY DEF Writer, Begin, Write, WriteError, WriterCancelled, Closed, Flush, disk, writers
<1>4. \A p \in Path : file'[p].rec = file[p].rec /\ (file[p].rec # w => file'[p] = file[p])
  BY <1>1, <1>3 DEF TypeOK, File
<1>5. writer'[w] = "done" /\ w \notin failed' /\ file[path[w]].rec = w => file'[path[w]].blocks = taken'[w]
  <2>1. CASE Flush(w)
    BY <1>1, <2>1 DEF Flush, TypeOK, File
  <2>2. CASE ~Flush(w)
    BY <2>2 DEF Writer, Begin, Write, WriteError, WriterCancelled, Closed, TypeOK
  <2> QED BY <2>1, <2>2
<1>6. \A r \in Rec : Superseded(r)' <=> Superseded(r)
  BY <1>1 DEF Superseded
<1> QED BY <1>1, <1>2, <1>4, <1>5, <1>6 DEF FileInv

\* No step breaks it.
LEMMA FileStep == TypeOK /\ OwnInv /\ FileInv /\ [Next]_vars => FileInv'
<1> SUFFICES ASSUME TypeOK, OwnInv, FileInv, [Next]_vars PROVE FileInv'
  OBVIOUS
<1>1. ASSUME UNCHANGED <<writers, disk, started>> PROVE FileInv'
  BY <1>1 DEF FileInv, Superseded, writers, disk
<1>2. CASE Controller
  <2>1. CASE StartOk
    BY <2>1, FileStart
  <2>2. CASE ~StartOk
    BY <1>1, <1>2, <2>2 DEF Controller, Cancelled, TakeStart, TakeStop, SendersGone, Joined, StartFails
  <2> QED BY <2>1, <2>2
<1>3. ASSUME NEW c \in Client, ClientStep(c) PROVE FileInv'
  BY <1>1, <1>3 DEF ClientStep, Connect, Disconnect, Deliver, Issue, control
<1>4. CASE Around \/ UNCHANGED vars
  BY <1>1, <1>4 DEF Around, FireToken, DropPipeline, vars, control
<1> QED BY <1>2, <1>3, <1>4, Steps, FileWriter

\* A stopped recording is whole on disk: its writer flushed before the
\* controller went on, and no other writer shared its file meanwhile.
THEOREM Kept == Spec => []RecordingKept
<1>1. Init => TypeOK /\ OwnInv /\ FileInv
  BY TypeInit, OwnInit, FileInit
<1>2. TypeOK /\ OwnInv /\ FileInv /\ [Next]_vars => (TypeOK /\ OwnInv /\ FileInv)'
  BY TypeStep, OwnStep, FileStep
<1>3. TypeOK /\ OwnInv /\ FileInv => RecordingKept
  <2> SUFFICES ASSUME TypeOK, OwnInv, FileInv, Idle \/ Closing, NEW r \in 1..started,
                      r \notin failed, ~Superseded(r)
               PROVE  file[path[r]] = [rec |-> r, blocks |-> taken[r]]
    BY DEF RecordingKept
  <2>1. r \in Rec /\ ~(r > started)
    BY BoundAssumption DEF TypeOK, Rec
  <2>2. ~Alive(r)
    BY <2>1 DEF OwnInv, Idle, Closing, Rec, None
  <2>3. writer[r] = "done"
    BY <2>1, <2>2 DEF OwnInv, TypeOK, Alive
  <2>4. path[r] \in Path /\ file[path[r]].rec = r /\ file[path[r]].blocks = taken[r]
    BY <2>1, <2>3 DEF FileInv
  <2> QED BY <2>4 DEF TypeOK, File
<1> QED BY <1>1, <1>2, <1>3, PTL DEF Spec

-----------------------------------------------------------------------------
(* The controller does not come to wait for a writer that goes on.         *)

\* A writer the controller waits for is about to look at its token, which has
\* fired, or past its loop: blocks that keep coming do not hold it.
JoinMoves ==
  ctl = "join" =>
    \/ writer[joining] \in {"spawned", "flush", "done"}
    \/ writer[joining] = "loop" /\ joining \in fired

\* The recordings the controller has, and what it waits for.
JoinInv ==
  /\ current # None => current <= started
  /\ ctl = "join" => joining # None /\ joining <= started /\ joining \in fired

\* Every step keeps it.
LEMMA JoinStep == TypeOK /\ OwnInv /\ JoinInv /\ [Next]_vars => JoinInv'
<1> SUFFICES ASSUME TypeOK, OwnInv, JoinInv, [Next]_vars PROVE JoinInv'
  OBVIOUS
<1> USE BoundAssumption DEF TypeOK, JoinInv, Rec, None
<1>1. CASE Controller
  <2>1. CASE Cancelled \/ TakeStart \/ TakeStop
    BY <2>1 DEF Cancelled, TakeStart, TakeStop, StopCurrent
  <2>2. CASE SendersGone \/ StartOk \/ StartFails
    BY <2>2 DEF SendersGone, StartOk, StartFails
  <2>3. CASE Joined
    <3>1. ctl' # "join"
      BY <2>3 DEF Joined, Cmd, Cancel
    <3> QED BY <2>3, <3>1 DEF Joined
  <2> QED BY <1>1, <2>1, <2>2, <2>3 DEF Controller
<1>2. ASSUME NEW r \in Rec, Writer(r) PROVE JoinInv'
  BY <1>2 DEF Writer, Begin, Write, WriteError, WriterCancelled, Closed, Flush, control
<1>3. ASSUME NEW c \in Client, ClientStep(c) PROVE JoinInv'
  BY <1>3 DEF ClientStep, Connect, Disconnect, Deliver, Issue, control
<1>4. CASE Around \/ UNCHANGED vars
  BY <1>4 DEF Around, FireToken, DropPipeline, vars, control
<1> QED BY <1>1, <1>2, <1>3, <1>4, Steps

\* The join of ActiveRec::stop (recording.rs:175), which has no deadline, always waits for a
\* writer that was told to stop.
THEOREM JoinNotStuck == Spec => []JoinMoves
<1>1. Init => TypeOK /\ OwnInv /\ JoinInv
  BY TypeInit, OwnInit DEF Init, JoinInv
<1>2. TypeOK /\ OwnInv /\ JoinInv /\ [Next]_vars => (TypeOK /\ OwnInv /\ JoinInv)'
  BY TypeStep, OwnStep, JoinStep
<1>3. TypeOK /\ OwnInv /\ JoinInv => JoinMoves
  <2> SUFFICES ASSUME TypeOK, OwnInv, JoinInv, ctl = "join" PROVE JoinMoves
    BY DEF JoinMoves
  <2>1. joining \in Rec /\ joining <= started /\ joining \in fired
    BY DEF JoinInv, TypeOK
  <2>2. writer[joining] # "none"
    BY <2>1, BoundAssumption DEF OwnInv, TypeOK, Rec
  <2> QED BY <2>1, <2>2 DEF TypeOK, JoinMoves
<1> QED BY <1>1, <1>2, <1>3, PTL DEF Spec

-----------------------------------------------------------------------------
(* The order of the statuses.                                              *)

\* No status of a recording follows one of a later recording: a progress
\* report is that of the recording started last.
StatusInOrder == [][status'.active => status.rec <= status'.rec]_vars

\* A writer that is alive is that of the last recording, and no status is of
\* one still to come.
LastInv ==
  /\ current # None => current = started
  /\ joining # None => joining = started
  /\ \A r \in Rec : Alive(r) => r = started
  /\ status.rec <= started

\* Publishing what the last recording has keeps the status in order.
LEMMA OrderedSend ==
  ASSUME TypeOK, LastInv, NEW v \in Status, v.rec \in {None, started}, Send(v)
  PROVE  status'.rec <= started /\ (status'.active /\ v.rec = started => status.rec <= status'.rec)
<1>1. started \in Nat /\ status.rec \in Nat /\ status.rec <= started
  BY BoundAssumption DEF TypeOK, LastInv, Status, Rec, None
<1>2. status' = status \/ status' = v
  BY DEF Send
<1>3. v.rec <= started
  BY <1>1 DEF None
<1> QED BY <1>1, <1>2, <1>3

\* Every step keeps it.
LEMMA LastStep == TypeOK /\ OwnInv /\ LastInv /\ [Next]_vars => LastInv'
<1> SUFFICES ASSUME TypeOK, OwnInv, LastInv, [Next]_vars PROVE LastInv'
  OBVIOUS
<1>1. Inactive \in Status /\ Inactive.rec = None
  BY StatusValues DEF Inactive
<1>2. CASE Controller
  <2>1. CASE StartOk
    <3>1. \A r \in Rec : ~Alive(r)
      BY <2>1 DEF StartOk, OwnInv, Rec, None
    <3>2. /\ started' = started + 1 /\ current' = started + 1 /\ joining' = None
          /\ started + 1 \in Rec /\ status' = status
          /\ writer' = [writer EXCEPT ![started + 1] = "spawned"]
      BY <2>1, BoundAssumption DEF StartOk, OwnInv, TypeOK, Rec, watch
    <3>3. \A r \in Rec : Alive(r)' => r = started + 1
      BY <3>1, <3>2 DEF Alive, TypeOK
    <3> QED BY <3>2, <3>3, BoundAssumption DEF LastInv, TypeOK, Status, Rec, None
  <2>2. CASE ~StartOk
    <3>1. /\ UNCHANGED <<writers, started>>
          /\ current' \in {None, current} /\ joining' \in {None, current, joining}
          /\ status' = status \/ Send(Inactive)
      BY <1>2, <2>2 DEF Controller, Cancelled, TakeStart, TakeStop, SendersGone, Joined, StartFails,
         StopCurrent, watch
    <3>2. status'.rec <= started
      BY <1>1, <3>1, OrderedSend DEF LastInv
    <3> QED BY <3>1, <3>2 DEF LastInv, Alive, writers
  <2> QED BY <2>1, <2>2
<1>3. ASSUME NEW r \in Rec, Writer(r) PROVE LastInv'
  <2>1. Alive(r) /\ r = started
    BY <1>3 DEF Writer, Begin, Write, WriteError, WriterCancelled, Closed, Flush, Alive, LastInv
  <2>2. UNCHANGED control /\ \A s \in Rec : s # r => writer'[s] = writer[s]
    BY <1>3 DEF Writer, Begin, Write, WriteError, WriterCancelled, Closed, Flush, TypeOK
  <2>3. status' = status \/ \E n \in 0..MaxBlocks : Send(Progress(r, n))
    <3>1. CASE Write(r)
      <4>1. taken'[r] \in 0..MaxBlocks
        BY <3>1, BoundAssumption DEF Write, TypeOK
      <4> QED BY <3>1, <4>1 DEF Write, watch
    <3>2. CASE Begin(r)
      BY <3>2, BoundAssumption DEF Begin
    <3> QED BY <1>3, <3>1, <3>2 DEF Writer, WriteError, WriterCancelled, Closed, Flush, watch
  <2>4. status'.rec <= started
    <3>1. CASE status' = status
      BY <3>1 DEF LastInv
    <3>2. ASSUME NEW n \in 0..MaxBlocks, Send(Progress(r, n)) PROVE status'.rec <= started
      <4>1. Progress(r, n) \in Status /\ Progress(r, n).rec = started
        BY <2>1, StatusValues DEF Progress
      <4> QED BY <3>2, <4>1, OrderedSend
    <3> QED BY <2>3, <3>1, <3>2
  <2> QED BY <2>1, <2>2, <2>4 DEF LastInv, Alive, control
<1>4. ASSUME NEW c \in Client, ClientStep(c) PROVE LastInv'
  BY <1>4 DEF ClientStep, Connect, Disconnect, Deliver, Issue, LastInv, Alive, control, writers, watch
<1>5. CASE Around \/ UNCHANGED vars
  BY <1>5 DEF Around, FireToken, DropPipeline, vars, LastInv, Alive, control, writers, watch
<1> QED BY <1>2, <1>3, <1>4, <1>5, Steps

\* A client never sees the progress of a recording after that of a later one:
\* the writer of the earlier has ended before the later one's is spawned
\* (recording.rs:117-120), so nothing it published can come last.
THEOREM StatusesInOrder == Spec => StatusInOrder
<1>1. Init => TypeOK /\ OwnInv /\ LastInv
  BY TypeInit, OwnInit, BoundAssumption DEF Init, LastInv, Alive, Inactive, None
<1>2. TypeOK /\ OwnInv /\ LastInv /\ [Next]_vars => (TypeOK /\ OwnInv /\ LastInv)'
  BY TypeStep, OwnStep, LastStep
<1>3. TypeOK /\ OwnInv /\ LastInv /\ [Next]_vars => [status'.active => status.rec <= status'.rec]_vars
  <2> SUFFICES ASSUME TypeOK, OwnInv, LastInv, [Next]_vars, status'.active
               PROVE  status.rec <= status'.rec
    OBVIOUS
  <2>1. CASE status' = status
    BY <2>1, BoundAssumption DEF TypeOK, Status, Rec, None
  <2>2. CASE status' # status
    <3>1. ~Send(Inactive)
      BY <2>2 DEF Send, Inactive
    <3>2. PICK r \in Rec : Writer(r)
      <4>1. ~Controller
        BY <2>2, <3>1 DEF Controller, Cancelled, TakeStart, TakeStop, SendersGone, Joined, StartOk,
           StartFails, watch
      <4>2. ASSUME NEW c \in Client, ClientStep(c) PROVE FALSE
        BY <2>2, <4>2 DEF ClientStep, Connect, Disconnect, Deliver, Issue, watch
      <4>3. ~Around /\ ~UNCHANGED vars
        BY <2>2 DEF Around, FireToken, DropPipeline, vars, watch
      <4> QED BY <4>1, <4>2, <4>3, Steps
    <3>3. Alive(r) /\ r = started
      BY <3>2 DEF Writer, Begin, Write, WriteError, WriterCancelled, Closed, Flush, Alive, LastInv
    <3>4. \E n \in 0..MaxBlocks : Send(Progress(r, n))
      <4>1. CASE Write(r)
        <5>1. taken'[r] \in 0..MaxBlocks
          BY <4>1, BoundAssumption DEF Write, TypeOK
        <5> QED BY <2>2, <4>1, <5>1 DEF Write, watch
      <4>2. CASE Begin(r)
        BY <4>2, BoundAssumption DEF Begin
      <4> QED BY <2>2, <3>2, <4>1, <4>2 DEF Writer, WriteError, WriterCancelled, Closed, Flush, watch
    <3>5. PICK n \in 0..MaxBlocks : Send(Progress(r, n))
      BY <3>4
    <3>6. Progress(r, n) \in Status /\ Progress(r, n).rec = started
      BY <3>3, StatusValues DEF Progress
    <3> QED BY <3>5, <3>6, OrderedSend
  <2> QED BY <2>1, <2>2
<1> QED BY <1>1, <1>2, <1>3, PTL DEF Spec, StatusInOrder
=============================================================================
