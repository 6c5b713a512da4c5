----------------------------- MODULE Recorder ------------------------------
(***************************************************************************)
(* The recorder (server/src/recording.rs): one controller task takes the   *)
(* start and stop commands of all clients from a queue, and runs at most   *)
(* one writer task at a time.  Controller and writers publish on the same  *)
(* watch channel, whose latest value each client's downstream task sends   *)
(* to its client (server/src/ws/downstream.rs).                            *)
(*                                                                         *)
(* Recordings are numbered in the order they start.  A file is the         *)
(* recording that last created it and how many of its blocks reached it.   *)
(***************************************************************************)
EXTENDS Naturals, Sequences

CONSTANTS
  Client,      \* WebSocket clients
  Path,        \* files a recording may be given
  NoPath,      \* not one of them
  QueueSize,   \* capacity of the command channel
  MaxCmds,     \* bound: commands sent in a behaviour
  MaxRecs,     \* bound: recordings started in a behaviour
  MaxBlocks    \* bound: blocks of samples a recording receives

ASSUME PathAssumption  == NoPath \notin Path
ASSUME BoundAssumption == /\ QueueSize \in Nat \ {0} /\ MaxCmds \in Nat
                          /\ MaxRecs \in Nat /\ MaxBlocks \in Nat

Rec  == 1..MaxRecs
None == 0                       \* no recording

Cmd    == [op : {"start"}, path : Path] \cup [op : {"stop"}, path : {NoPath}]
Stop   == [op |-> "stop", path |-> NoPath]
Cancel == [op |-> "cancel", path |-> NoPath]    \* the controller was cancelled

Status   == [active : BOOLEAN, rec : Rec \cup {None}, blocks : 0..MaxBlocks]
File   == [rec : Rec \cup {None}, blocks : 0..MaxBlocks]
Inactive == [active |-> FALSE, rec |-> None, blocks |-> 0]

VARIABLES
  queue,     \* the controller's command channel
  issued,    \* commands sent so far
  ctl,       \* where the controller is
  cmd,       \* what it is doing
  current,   \* its active recording
  joining,   \* the recording whose end it awaits
  started,   \* recordings started so far
  fired,     \* recordings whose own token was cancelled
  writer,    \* where each writer task is
  path,      \* per recording: its file
  taken,     \* per recording: blocks its writer has accepted
  failed,    \* recordings whose disk failed them
  file,      \* per path: the last recording that created it, and its blocks
  status,    \* rec_status_tx
  link,      \* clients that are connected
  unseen,    \* connected clients with a status they have not been sent
  told,      \* what each was last sent since it connected
  cancel,    \* the pipeline's token
  dropped    \* the pipeline, and every command sender with it, is gone

channel  == <<queue, issued>>
control  == <<ctl, cmd, current, joining, started, fired>>
writers  == <<writer, taken>>
disk     == <<path, failed, file>>
watch    == <<status, unseen>>
clients  == <<link, told>>
shutdown == <<cancel, dropped>>
vars == <<channel, control, writers, disk, watch, clients, shutdown>>

TypeOK ==
  /\ queue \in Seq(Cmd) /\ Len(queue) <= QueueSize
  /\ issued \in 0..MaxCmds
  /\ ctl \in {"select", "join", "start", "done"}
  /\ cmd \in Cmd \cup {Cancel}
  /\ current \in Rec \cup {None} /\ joining \in Rec \cup {None}
  /\ started \in 0..MaxRecs
  /\ fired \subseteq Rec
  /\ writer \in [Rec -> {"none", "spawned", "loop", "flush", "done"}]
  /\ path \in [Rec -> Path \cup {NoPath}]
  /\ taken \in [Rec -> 0..MaxBlocks]
  /\ failed \subseteq Rec
  /\ file \in [Path -> File]
  /\ status \in Status
  /\ link \subseteq Client /\ unseen \subseteq Client
  /\ told \in [Client -> {"nothing", "active", "inactive"}]
  /\ cancel \in BOOLEAN /\ dropped \in BOOLEAN

Init ==
  /\ queue = <<>> /\ issued = 0
  /\ ctl = "select" /\ cmd = Stop
  /\ current = None /\ joining = None /\ started = 0
  /\ fired = {}
  /\ writer = [r \in Rec |-> "none"]
  /\ path = [r \in Rec |-> NoPath]
  /\ taken = [r \in Rec |-> 0]
  /\ failed = {}
  /\ file = [p \in Path |-> [rec |-> None, blocks |-> 0]]
  /\ status = Inactive
  /\ link = {} /\ unseen = {}
  /\ told = [c \in Client |-> "nothing"]
  /\ cancel = FALSE /\ dropped = FALSE

Alive(r) == writer[r] \in {"spawned", "loop", "flush"}

\* watch::Sender::send: without a receiver it fails and stores nothing.
Send(v) ==
  /\ status' = IF link = {} THEN status ELSE v
  /\ unseen' = link

Progress(r, n) == [active |-> TRUE, rec |-> r, blocks |-> n]

-----------------------------------------------------------------------------
(* The controller.                                                         *)

\* MUTANT of StopCurrent: drops the recording's handle without firing its token.
StopCurrentMutant(next) ==
  /\ joining' = current
  /\ current' = None
  /\ ctl' = IF current = None THEN next ELSE "join"
  /\ UNCHANGED fired

\* ActiveRec::stop on current.take(): fire the recording's token and await
\* its writer; without an active recording go on at once.
StopCurrent(next) ==
  /\ fired' = IF current = None THEN fired ELSE fired \cup {current}
  /\ joining' = current
  /\ current' = None
  /\ ctl' = IF current = None THEN next ELSE "join"

Cancelled ==
  /\ ctl = "select" /\ cancel
  /\ cmd' = Cancel
  /\ StopCurrent("done")
  /\ UNCHANGED <<channel, started, writers, disk, watch, clients, shutdown>>

\* A start command; the previous recording is stopped first.
TakeStart ==
  /\ ctl = "select" /\ queue # <<>>
  /\ Head(queue).op = "start"
  /\ queue' = Tail(queue)
  /\ cmd' = Head(queue)
  /\ StopCurrent("start")
  /\ UNCHANGED <<issued, started, writers, disk, watch, clients, shutdown>>

\* A stop command with a recording to stop, and one without.
TakeStop ==
  /\ ctl = "select" /\ queue # <<>>
  /\ Head(queue).op = "stop"
  /\ queue' = Tail(queue)
  /\ cmd' = Head(queue)
  /\ StopCurrent("select")
  /\ IF current = None THEN Send(Inactive) ELSE UNCHANGED watch
  /\ UNCHANGED <<issued, started, writers, disk, clients, shutdown>>

\* recv returns None.
SendersGone ==
  /\ ctl = "select" /\ queue = <<>> /\ dropped
  /\ ctl' = "done"
  /\ current' = None
  /\ UNCHANGED <<channel, cmd, joining, started, fired, writers, disk, watch, clients, shutdown>>

\* MUTANT of Joined: does not wait for the writer.
JoinedMutant ==
  /\ ctl = "join"
  /\ joining' = None
  /\ ctl' = CASE cmd.op = "start"  -> "start"
              [] cmd.op = "stop"   -> "select"
              [] cmd.op = "cancel" -> "done"
  /\ IF cmd.op = "stop" THEN Send(Inactive) ELSE UNCHANGED watch
  /\ UNCHANGED <<channel, cmd, current, started, fired, writers, disk, clients, shutdown>>

\* The stopped writer has ended; what the command was for happens now.
Joined ==
  /\ ctl = "join" /\ ~Alive(joining)
  /\ joining' = None
  /\ ctl' = CASE cmd.op = "start"  -> "start"
              [] cmd.op = "stop"   -> "select"
              [] cmd.op = "cancel" -> "done"
  /\ IF cmd.op = "stop" THEN Send(Inactive) ELSE UNCHANGED watch
  /\ UNCHANGED <<channel, cmd, current, started, fired, writers, disk, clients, shutdown>>

\* start(): the directory and the file are created (File::create empties a
\* file that exists) and the writer is spawned.
StartOk ==
  /\ ctl = "start" /\ started < MaxRecs
  /\ started' = started + 1
  /\ current' = started'
  /\ path' = [path EXCEPT ![started'] = cmd.path]
  /\ file' = [file EXCEPT ![cmd.path] = [rec |-> started', blocks |-> 0]]
  /\ writer' = [writer EXCEPT ![started'] = "spawned"]
  /\ ctl' = "select"
  /\ UNCHANGED <<channel, cmd, joining, fired, taken, failed, watch, clients, shutdown>>

\* MUTANT of StartFails: logs the error and publishes nothing.
StartFailsMutant ==
  /\ ctl = "start"
  /\ ctl' = "select"
  /\ UNCHANGED <<channel, cmd, current, joining, started, fired, writers, disk, watch, clients, shutdown>>

\* start() fails: no directory, an empty file name, no file.
StartFails ==
  /\ ctl = "start"
  /\ ctl' = "select"
  /\ Send(Inactive)
  /\ UNCHANGED <<channel, cmd, current, joining, started, fired, writers, disk, clients, shutdown>>

-----------------------------------------------------------------------------
(* A writer task (run_iq_writer, run_pcm_writer).                          *)

\* The first status, before the first look at the token.
Begin(r) ==
  /\ writer[r] = "spawned"
  /\ writer' = [writer EXCEPT ![r] = "loop"]
  /\ Send(Progress(r, 0))
  /\ UNCHANGED <<channel, control, taken, disk, clients, shutdown>>

\* A block is written (it may stay in the buffer) and, once a second at
\* most, published.  A Lagged receive changes nothing.
Write(r) ==
  /\ writer[r] = "loop" /\ taken[r] < MaxBlocks
  /\ taken' = [taken EXCEPT ![r] = @ + 1]
  /\ \/ UNCHANGED file
     \/ file[path[r]].rec = r /\ file' = [file EXCEPT ![path[r]].blocks = taken'[r]]
  /\ Send(Progress(r, taken'[r])) \/ UNCHANGED watch
  /\ UNCHANGED <<channel, control, writer, path, failed, clients, shutdown>>

\* write_all fails: the loop ends, and nobody is told.
WriteError(r) ==
  /\ writer[r] = "loop"
  /\ writer' = [writer EXCEPT ![r] = "flush"]
  /\ failed' = failed \cup {r}
  /\ UNCHANGED <<channel, control, taken, path, file, watch, clients, shutdown>>

WriterCancelled(r) ==
  /\ writer[r] = "loop" /\ r \in fired
  /\ writer' = [writer EXCEPT ![r] = "flush"]
  /\ UNCHANGED <<channel, control, taken, disk, watch, clients, shutdown>>

\* The capture task or the audio mux dropped the broadcast channel.
Closed(r) ==
  /\ writer[r] = "loop" /\ dropped
  /\ writer' = [writer EXCEPT ![r] = "flush"]
  /\ UNCHANGED <<channel, control, taken, disk, watch, clients, shutdown>>

\* MUTANT of Flush: the buffer is dropped.
FlushMutant(r) ==
  /\ writer[r] = "flush"
  /\ writer' = [writer EXCEPT ![r] = "done"]
  /\ UNCHANGED <<channel, control, taken, disk, watch, clients, shutdown>>

\* The final flush, which may fail.
Flush(r) ==
  /\ writer[r] = "flush"
  /\ writer' = [writer EXCEPT ![r] = "done"]
  /\ \/ /\ file' = IF file[path[r]].rec = r
                   THEN [file EXCEPT ![path[r]].blocks = taken[r]] ELSE file
        /\ UNCHANGED failed
     \/ failed' = failed \cup {r} /\ UNCHANGED file
  /\ UNCHANGED <<channel, control, taken, path, watch, clients, shutdown>>

-----------------------------------------------------------------------------
(* The clients and the process.                                            *)

\* A client's upstream task sends a command; it waits while the queue is full.
Issue(c, m) ==
  /\ c \in link /\ issued < MaxCmds
  /\ Len(queue) < QueueSize /\ ctl # "done"
  /\ queue' = Append(queue, m)
  /\ issued' = issued + 1
  /\ UNCHANGED <<control, writers, disk, watch, clients, shutdown>>

\* A new subscription has already seen the value the channel holds, and the
\* recording status is not among the messages sent on connection.
Connect(c) ==
  /\ c \notin link /\ ~dropped
  /\ link' = link \cup {c}
  /\ told' = [told EXCEPT ![c] = "nothing"]
  /\ UNCHANGED <<channel, control, writers, disk, watch, shutdown>>

Disconnect(c) ==
  /\ c \in link
  /\ link' = link \ {c}
  /\ unseen' = unseen \ {c}
  /\ UNCHANGED <<channel, control, writers, disk, status, told, shutdown>>

\* The downstream task sends the latest status to its client.
Deliver(c) ==
  /\ c \in unseen
  /\ unseen' = unseen \ {c}
  /\ told' = [told EXCEPT ![c] = IF status.active THEN "active" ELSE "inactive"]
  /\ UNCHANGED <<channel, control, writers, disk, status, link, shutdown>>

FireToken ==
  /\ ~cancel
  /\ cancel' = TRUE
  /\ UNCHANGED <<channel, control, writers, disk, watch, clients, dropped>>

\* SHUTDOWN_TIMEOUT elapses, or the last handler is gone: the pipeline is dropped.
DropPipeline ==
  /\ cancel /\ ~dropped /\ link = {}
  /\ dropped' = TRUE
  /\ UNCHANGED <<channel, control, writers, disk, watch, clients, cancel>>

Controller == Cancelled \/ TakeStart \/ TakeStop \/ SendersGone \/ Joined \/ StartOk \/ StartFails

Next ==
  \/ Controller
  \/ \E r \in Rec :
       Begin(r) \/ Write(r) \/ WriteError(r) \/ WriterCancelled(r) \/ Closed(r) \/ Flush(r)
  \/ \E c \in Client :
       \/ Connect(c) \/ Disconnect(c) \/ Deliver(c)
       \/ \E m \in Cmd : Issue(c, m)
  \/ FireToken \/ DropPipeline

Spec == Init /\ [][Next]_vars

\* Tasks keep running.  select! picks a ready branch at random, so a
\* cancellation that stays ready is taken however many commands arrive.
\* Nobody has to send a command, stay connected or fire the token.
Fairness ==
  /\ WF_vars(Controller) /\ SF_vars(Cancelled)
  /\ \A r \in Rec : WF_vars(Begin(r)) /\ WF_vars(WriterCancelled(r)) /\ WF_vars(Flush(r))
  /\ \A c \in Client : WF_vars(Deliver(c))

FairSpec == Spec /\ Fairness

-----------------------------------------------------------------------------
(* Properties.                                                             *)

\* One recording at a time: no two writer tasks are alive together, and
\* while the controller waits for a command the only one alive is its own.
OneWriter ==
  /\ \A r, s \in Rec : Alive(r) /\ Alive(s) => r = s
  /\ ctl = "select" => \A r \in Rec : Alive(r) => r = current

Idle == ctl = "select" /\ current = None

\* Whenever the controller has no recording, no connected client has been
\* told, or is still to be told, that one is active: the writer's last
\* status cannot land after the controller's.
StoppedIsTold ==
  Idle => \A c \in link : IF c \in unseen THEN ~status.active ELSE told[c] # "active"

Closing == ctl = "done" /\ cmd = Cancel

Superseded(r) == \E s \in Rec : s > r /\ path[s] = path[r]

\* A recording that was stopped, by a command or by the shutdown, is whole on
\* disk: every block its writer accepted, unless the disk failed or a later
\* recording was given the same file.
RecordingKept ==
  Idle \/ Closing =>
    \A r \in 1..started :
      r \in failed \/ Superseded(r) \/ file[path[r]] = [rec |-> r, blocks |-> taken[r]]

\* Once the token fires the controller ends, with no recording left running.
ShutdownEnds == cancel ~> (ctl = "done")

\* A stop command in the queue is obeyed: the time comes when nothing is
\* being recorded, unless the controller was told to end first.
StopObeyed == (\E i \in 1..Len(queue) : queue[i].op = "stop") ~> (Idle \/ ctl = "done")
=============================================================================
