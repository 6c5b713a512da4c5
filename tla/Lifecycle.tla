----------------------------- MODULE Lifecycle -----------------------------
(***************************************************************************)
(* The life of the server process (server/src/main.rs): it loads the saved *)
(* session, serves WebSocket clients, is told to stop by a signal or by a  *)
(* client that selects another device, takes the pipeline back from the    *)
(* client handlers, drains it, saves the session and exits; systemd then   *)
(* starts it again (ws/handler.rs, ws/upstream.rs, pipeline.rs,            *)
(* persistence.rs).                                                        *)
(*                                                                         *)
(* The process ends only when the threads started with spawn_blocking end: *)
(* dropping the tokio runtime waits for them without a limit.  Some watch  *)
(* the pipeline's cancellation token, others wait on a channel until every *)
(* sender of it is gone.                                                   *)
(*                                                                         *)
(* A client's handler runs two tasks, the downstream and the upstream half.*)
(* Only the handler holds the shared state; the upstream half has senders  *)
(* of its own.  When the downstream half ends first the handler aborts the *)
(* upstream half and returns without waiting for it: that half goes on     *)
(* with the messages of the poll it is in after the handler has let go of  *)
(* the shared state.                                                       *)
(***************************************************************************)
EXTENDS Integers

CONSTANTS
  Client,          \* WebSocket clients
  Device,          \* devices discovery can report
  None,            \* no device selected
  Freq,            \* frequencies of the radio
  DefaultFreq,     \* the one of default_snapshot
  TokenThread,     \* run_poll, IQ capture, USB RX: end when the token fires
  ChannelThread,   \* run_commands, USB TX: end when the senders are gone
  MaxBoots,        \* bound: starts of the process in a behaviour
  SaveMayFail      \* whether persistence::save may fail

ASSUME NoneAssumption   == None \notin Device
ASSUME FreqAssumption   == DefaultFreq \in Freq
ASSUME ThreadAssumption == TokenThread \cap ChannelThread = {}
ASSUME BoundAssumption  == MaxBoots \in Nat /\ SaveMayFail \in BOOLEAN

Thread   == TokenThread \cup ChannelThread
Snapshot == [dev : Device \cup {None}, nb : BOOLEAN, freq : Freq]

VARIABLES
  main,      \* where main is; "down" when there is no process
  cancel,    \* main's token, which the client handlers watch
  pcancel,   \* the token Pipeline::start creates for its own tasks
  restart,   \* restart_requested_tx
  handler,   \* per client: where its handler is, see HandlerAt
  copy,      \* per client: the snapshot its upstream half is writing, or None
  thread,    \* the blocking threads still running
  snapshot,  \* snapshot_tx
  final,     \* final_snapshot
  disk,      \* state.toml
  plugged,   \* the devices present
  listed,    \* device_list_tx: the devices the last discovery found
  saved,     \* history: main's own save succeeded
  alone,     \* history: no half was left running when main took its copy
  boots

vars == <<main, cancel, pcancel, restart, handler, copy, thread, snapshot, final,
          disk, plugged, listed, saved, alone, boots>>

halves  == <<handler, copy>>
signals == <<cancel, pcancel, restart>>
files   == <<final, disk>>
world   == <<plugged, listed, saved, alone, boots>>

default_snapshot == [dev |-> None, nb |-> FALSE, freq |-> DefaultFreq]

MainAt == {"down", "bind", "serve", "unwrap", "linger", "grab", "drain", "join", "save",
           "return", "dropping"}

\* closing: the downstream half has ended, the upstream half still runs.
\* leaving: the upstream half has ended.  aborted: the handler has returned
\* and the upstream half is in its last poll.
HandlerAt == {"away", "open", "closing", "leaving", "aborted"}

TypeOK ==
  /\ main \in MainAt
  /\ cancel \in BOOLEAN /\ pcancel \in BOOLEAN /\ restart \in BOOLEAN
  /\ handler \in [Client -> HandlerAt]
  /\ copy \in [Client -> Snapshot \cup {None}]
  /\ thread \subseteq Thread
  /\ snapshot \in Snapshot /\ final \in Snapshot /\ disk \in Snapshot
  /\ plugged \subseteq Device /\ listed \subseteq Device
  /\ saved \in BOOLEAN /\ alone \in BOOLEAN
  /\ boots \in 0..MaxBoots

-----------------------------------------------------------------------------

Away   == [c \in Client |-> "away"]
NoCopy == [c \in Client |-> None]

\* handle_client keeps its Arc<AppState> until it returns.
Held == \E c \in Client : handler[c] \in {"open", "closing", "leaving"}

\* The upstream half of c can take a message.
UpRuns(c) == handler[c] \in {"open", "closing", "aborted"}
UpIdle(c) == UpRuns(c) /\ copy[c] = None

\* A clone of cat_tx and tx_audio_tx is alive: in the pipeline, which main
\* gives up when it leaves join or linger, or in the two halves and the
\* handler of a client.  The clones in rigctld's connections go with the
\* runtime at the latest; until then the threads need not end.
SendersAlive ==
  \/ main \in {"bind", "serve", "unwrap", "linger", "grab", "drain", "join"}
  \/ \E c \in Client : handler[c] # "away"

\* A saved device that is no longer there is cleared.
validate(s, devices) == [s EXCEPT !.dev = IF @ \in devices THEN @ ELSE None]

Init ==
  /\ main = "down"
  /\ cancel = FALSE /\ pcancel = FALSE /\ restart = FALSE
  /\ handler = Away /\ copy = NoCopy
  /\ thread = {}
  /\ snapshot = default_snapshot /\ final = default_snapshot
  /\ disk = default_snapshot
  /\ plugged \in SUBSET Device /\ listed = plugged
  /\ saved = FALSE /\ alone = FALSE
  /\ boots = 0

-----------------------------------------------------------------------------
(* The process: start, serve, stop.                                        *)

\* run() up to the bind: discovery, load, validate, Pipeline::start.  A
\* missing or unreadable state file reads as the default snapshot.
Boot ==
  /\ main = "down" /\ boots < MaxBoots
  /\ main' = "bind"
  /\ cancel' = FALSE /\ pcancel' = FALSE /\ restart' = FALSE
  /\ thread' = Thread
  /\ final' = default_snapshot
  /\ listed' = plugged
  /\ snapshot' = validate(disk, plugged)
  /\ saved' = FALSE /\ alone' = FALSE
  /\ boots' = boots + 1
  /\ UNCHANGED <<halves, plugged, disk>>

Bind ==
  /\ main = "bind"
  /\ main' = "serve"
  /\ UNCHANGED <<halves, thread, snapshot, signals, files, world>>

\* run() returns an error and main calls process::exit(1).
BindFails ==
  /\ main = "bind"
  /\ main' = "down"
  /\ thread' = {}
  /\ UNCHANGED <<halves, snapshot, signals, files, world>>

\* shutdown_signal: SIGINT, SIGTERM or the restart request.
ShutdownSignal ==
  /\ main = "serve" /\ ~cancel
  /\ cancel' = TRUE
  /\ UNCHANGED <<main, pcancel, restart, halves, thread, snapshot, files, world>>

\* MUTANT of RestartSignal: the restart request is not among what is awaited.
RestartSignalMutant == FALSE

\* The part of shutdown_signal that the restart request completes.
RestartSignal == restart /\ ShutdownSignal

\* axum::serve returns.  Connections upgraded to WebSockets are not waited for.
ServeReturns ==
  /\ main = "serve" /\ cancel
  /\ main' = "unwrap"
  /\ UNCHANGED <<halves, thread, snapshot, signals, files, world>>

\* MUTANT of Unwrap: takes the pipeline without being its only owner.
UnwrapMutant ==
  /\ main = "unwrap"
  /\ main' = "grab"
  /\ UNCHANGED <<halves, thread, snapshot, signals, files, world>>

\* Arc::try_unwrap(state).
Unwrap ==
  /\ main = "unwrap"
  /\ main' = IF Held THEN "linger" ELSE "grab"
  /\ UNCHANGED <<halves, thread, snapshot, signals, files, world>>

\* The 500 ms sleep ends and run() returns Ok: nothing was saved and the
\* pipeline's token was never cancelled.
LingerEnds ==
  /\ main = "linger"
  /\ main' = "return"
  /\ UNCHANGED <<halves, thread, snapshot, signals, files, world>>

Grab ==
  /\ main = "grab"
  /\ final' = snapshot
  /\ alone' = (\A c \in Client : handler[c] # "aborted")
  /\ main' = "drain"
  /\ UNCHANGED <<halves, thread, snapshot, disk, signals, plugged, listed, saved, boots>>

\* MUTANT of Drain: forgets that the pipeline has a token of its own.
DrainMutant ==
  /\ main = "drain"
  /\ main' = "join"
  /\ UNCHANGED <<halves, thread, snapshot, signals, files, world>>

\* pipeline.shutdown() cancels the token and starts joining the tasks.
Drain ==
  /\ main = "drain"
  /\ pcancel' = TRUE
  /\ main' = "join"
  /\ UNCHANGED <<cancel, restart, halves, thread, snapshot, files, world>>

\* The tasks are joined, or SHUTDOWN_TIMEOUT elapses; the pipeline, and the
\* senders in it, are dropped either way.
JoinEnds ==
  /\ main = "join"
  /\ main' = "save"
  /\ UNCHANGED <<halves, thread, snapshot, signals, files, world>>

\* MUTANT of Save: writes back what the process had loaded.
SaveMutant ==
  /\ main = "save"
  /\ disk' = disk
  /\ saved' = TRUE
  /\ main' = "return"
  /\ UNCHANGED <<halves, thread, snapshot, final, plugged, listed, alone, boots, signals>>

Save ==
  /\ main = "save"
  /\ disk' = final
  /\ saved' = TRUE
  /\ main' = "return"
  /\ UNCHANGED <<halves, thread, snapshot, final, plugged, listed, alone, boots, signals>>

SaveFails ==
  /\ main = "save" /\ SaveMayFail
  /\ main' = "return"
  /\ UNCHANGED <<halves, thread, snapshot, signals, files, world>>

\* Dropping the runtime: the async tasks go first, client handlers included,
\* except that a worker finishes the poll it is in.
DropRuntime ==
  /\ main = "return"
  /\ handler' \in [Client -> {"away", "aborted"}]
  /\ \A c \in Client : /\ handler'[c] = "aborted" => UpRuns(c)
                       /\ copy[c] # None => handler'[c] = "aborted"
  /\ main' = "dropping"
  /\ UNCHANGED <<copy, thread, snapshot, signals, files, world>>

\* The runtime waits for its workers and for the blocking threads.
Exit ==
  /\ main = "dropping" /\ thread = {} /\ handler = Away
  /\ main' = "down"
  /\ UNCHANGED <<halves, thread, snapshot, signals, files, world>>

ThreadEnds(t) ==
  /\ t \in thread
  /\ \/ t \in TokenThread /\ pcancel
     \/ t \in ChannelThread /\ ~SendersAlive
  /\ thread' = thread \ {t}
  /\ UNCHANGED <<main, halves, snapshot, signals, files, world>>

-----------------------------------------------------------------------------
(* The clients.                                                            *)

Connect(c) ==
  /\ main = "serve" /\ handler[c] = "away"
  /\ handler' = [handler EXCEPT ![c] = "open"]
  /\ UNCHANGED <<main, copy, thread, snapshot, signals, files, world>>

\* The downstream half ends: the client left, or the token fired.
DownEnds(c) ==
  /\ handler[c] = "open"
  /\ handler' = [handler EXCEPT ![c] = "closing"]
  /\ UNCHANGED <<main, copy, thread, snapshot, signals, files, world>>

\* The upstream half ends for the same reasons, at an await.
UpEnds(c) ==
  /\ handler[c] \in {"open", "closing"} /\ copy[c] = None
  /\ handler' = [handler EXCEPT ![c] = "leaving"]
  /\ UNCHANGED <<main, copy, thread, snapshot, signals, files, world>>

\* handle_client aborts the other half, does not wait for it, and returns,
\* dropping its Arc.  An aborted downstream half has nothing but receivers.
Leaves(c) ==
  /\ \/ handler[c] = "closing" /\ handler' = [handler EXCEPT ![c] = "aborted"]
     \/ handler[c] = "leaving" /\ handler' = [handler EXCEPT ![c] = "away"]
  /\ UNCHANGED <<main, copy, thread, snapshot, signals, files, world>>

\* An aborted half comes to the end of its poll and is dropped, its senders
\* with it.
Yields(c) ==
  /\ handler[c] = "aborted" /\ copy[c] = None
  /\ handler' = [handler EXCEPT ![c] = "away"]
  /\ UNCHANGED <<main, copy, thread, snapshot, signals, files, world>>

SelectDevice(c, d) ==
  /\ UpIdle(c)
  /\ snapshot' = [snapshot EXCEPT !.dev = d]
  /\ restart' = TRUE
  /\ UNCHANGED <<main, cancel, pcancel, halves, thread, files, world>>

SetNb(c, on) ==
  /\ UpIdle(c)
  /\ snapshot' = [snapshot EXCEPT !.nb = on]
  /\ UNCHANGED <<main, halves, thread, signals, files, world>>

\* The upstream half copies the snapshot, then writes the file.
SaveState(c) ==
  /\ UpIdle(c)
  /\ copy' = [copy EXCEPT ![c] = snapshot]
  /\ UNCHANGED <<main, handler, thread, snapshot, signals, files, world>>

WriteState(c) ==
  /\ copy[c] # None
  /\ disk' \in {copy[c]} \cup (IF SaveMayFail THEN {disk} ELSE {})
  /\ copy' = [copy EXCEPT ![c] = None]
  /\ UNCHANGED <<main, handler, thread, snapshot, final, signals, world>>

EnumerateDevices(c) ==
  /\ UpIdle(c)
  /\ listed' = plugged
  /\ UNCHANGED <<main, halves, thread, snapshot, plugged, saved, alone, boots, signals, files>>

LoadState(c) ==
  /\ UpIdle(c)
  /\ snapshot' = validate(disk, listed)
  /\ UNCHANGED <<main, halves, thread, signals, files, world>>

-----------------------------------------------------------------------------
(* The rest of the world.                                                  *)

Plug ==
  /\ plugged' \in SUBSET Device
  /\ UNCHANGED <<main, halves, thread, snapshot, listed, saved, alone, boots, signals, files>>

\* The snapshot tracker copies what the CAT tasks publish until the
\* pipeline's token fires or the runtime is dropped.
Track(f) ==
  /\ main \notin {"down", "dropping"} /\ ~pcancel
  /\ snapshot' = [snapshot EXCEPT !.freq = f]
  /\ UNCHANGED <<main, halves, thread, signals, files, world>>

\* SIGKILL, a panic or a power cut.
Kill ==
  /\ main # "down"
  /\ main' = "down"
  /\ handler' = Away /\ copy' = NoCopy
  /\ thread' = {}
  /\ saved' = FALSE
  /\ UNCHANGED <<snapshot, plugged, listed, alone, boots, signals, files>>

Main ==
  \/ Bind \/ BindFails \/ ServeReturns \/ Unwrap \/ LingerEnds \/ Grab \/ Drain
  \/ JoinEnds \/ Save \/ SaveFails \/ DropRuntime \/ Exit

Next ==
  \/ Boot \/ Main \/ ShutdownSignal \/ Plug \/ Kill
  \/ \E t \in Thread : ThreadEnds(t)
  \/ \E c \in Client :
       \/ Connect(c) \/ DownEnds(c) \/ UpEnds(c) \/ Leaves(c) \/ Yields(c)
       \/ SaveState(c) \/ WriteState(c) \/ LoadState(c) \/ EnumerateDevices(c)
       \/ \E d \in Device : SelectDevice(c, d)
       \/ \E on \in BOOLEAN : SetNb(c, on)
  \/ \E f \in Freq : Track(f)

Spec == Init /\ [][Next]_vars

\* main, the threads and the handlers keep running; both halves of a handler
\* watch the token, and shutdown_signal the restart request.  The upstream
\* half's select picks at random between the token and a message, and one poll
\* takes only so many messages.  Nobody has to connect, send a signal or start
\* the process.
Fairness ==
  /\ WF_vars(Main) /\ WF_vars(RestartSignal)
  /\ \A t \in Thread : WF_vars(ThreadEnds(t))
  /\ \A c \in Client :
       /\ WF_vars(cancel /\ DownEnds(c)) /\ SF_vars(cancel /\ UpEnds(c))
       /\ WF_vars(Leaves(c)) /\ SF_vars(Yields(c)) /\ WF_vars(WriteState(c))

FairSpec == Spec /\ Fairness

-----------------------------------------------------------------------------
(* Properties.                                                             *)

\* What main saved is what the clients left, unless an aborted half was in its
\* last poll when main took its copy: try_unwrap shows that every handler is
\* gone, and after a save by main nobody can change the device or a toggle in
\* the session it saved.
SavedIsLastWord ==
  main \in {"return", "dropping"} /\ saved /\ alone =>
    disk.dev = snapshot.dev /\ disk.nb = snapshot.nb

\* A session that main saved, with no half left running, is the one the next
\* process starts with: the toggles as they were left, and the device if it is
\* still there.
SessionSurvives ==
  [][Boot /\ saved /\ alone =>
       /\ snapshot'.nb = snapshot.nb
       /\ snapshot'.dev = IF snapshot.dev \in plugged THEN snapshot.dev ELSE None]_vars

\* Once main owns the pipeline the process ends, every blocking thread with it.
CleanStopEnds == (main = "grab") ~> (main = "down")

\* A client's restart request, and any signal, stops the server.
RestartStopsServing == (restart /\ main = "serve") ~> (main # "serve")

\* What pipeline.rs promises of restart_requested_tx: the process saves the
\* snapshot and exits cleanly, so that systemd brings it back.
SelectDeviceRespawns == (restart /\ main = "serve") ~> (main = "down")
=============================================================================
