--------------------------- MODULE DrmSupervisor ---------------------------
(***************************************************************************)
(* The DRM decoder: the supervisor that brings the DREAM bridge up and     *)
(* down as clients change the mode and the spectrum flip                   *)
(* (run_drm_supervisor, server/src/pipeline.rs), the forwarder that copies *)
(* a bridge's status into the pipeline's, and the bridge task with its     *)
(* null sinks and subprocesses (run_bridge, crates/efd-dsp/src/drm.rs).    *)
(*                                                                         *)
(* Bridges are numbered in the order they are spawned.  A status is the    *)
(* number of the bridge whose frame it is.                                 *)
(***************************************************************************)
EXTENDS Naturals

CONSTANTS
  Child,        \* the subprocesses of a bridge: pacat, dream, and parec
  ConfigFlip,   \* config.drm.flip_spectrum
  MaxChanges,   \* bound: modes and flips sent by clients
  MaxBridges    \* bound: bridges spawned in a behaviour

ASSUME ConfigAssumption == {"pacat", "dream"} \subseteq Child /\ ConfigFlip \in BOOLEAN
ASSUME BoundAssumption == MaxChanges \in Nat /\ MaxBridges \in Nat

Bridge == 1..MaxBridges
None   == 0
Sink   == {"in", "out"}

VARIABLES
  mode,      \* demod_mode_tx is Mode::DRM
  flip,      \* flip_spectrum_tx
  unseen,    \* which of the two the supervisor has not been woken for
  changes,   \* how often clients have sent either
  sup,       \* where the supervisor is
  want,      \* want_drm and want_flip, read before it acts
  active,    \* the active bridge
  activeFlip,
  tearing,   \* the bridge being stopped
  spawned,   \* bridges spawned so far
  fired,     \* bridges whose token was cancelled
  bridge,    \* where each run_bridge is
  alive,     \* per bridge: its subprocesses that run
  hung,      \* bridges whose pacat has stopped reading its input
  pump,      \* the task that writes the audio-IF into pacat
  sink,      \* per bridge: its null sinks
  fresh,     \* bridges with a frame the forwarder has not seen
  fwd,       \* the forwarder of each bridge
  status,    \* drm_status_tx
  cancel     \* the pipeline's token

request == <<mode, flip, changes>>
super   == <<sup, want, active, activeFlip, tearing, spawned>>
process == <<bridge, alive, pump, sink>>
vars == <<request, unseen, super, fired, process, hung, fresh, fwd, status, cancel>>

\* A null sink as its bridge knows it.  held: pactl gave its module number.
\* asked: pactl was started to unload it, and nobody looks at what came of it.
\* lost: the load was given up, but its pactl was not killed or its answer not
\* understood, so that the sink may be there or come later and nobody can
\* unload it.
SinkAt == {"none", "held", "asked", "lost"}

TypeOK ==
  /\ mode \in BOOLEAN /\ flip \in BOOLEAN
  /\ unseen \subseteq {"mode", "flip"}
  /\ changes \in 0..MaxChanges
  /\ sup \in {"look", "forwarder", "bridge", "launch", "wait", "end_forwarder", "end_bridge", "done"}
  /\ want \in [drm : BOOLEAN, flip : BOOLEAN]
  /\ active \in Bridge \cup {None} /\ tearing \in Bridge \cup {None}
  /\ activeFlip \in BOOLEAN
  /\ spawned \in 0..MaxBridges
  /\ fired \subseteq Bridge /\ hung \subseteq Bridge /\ fresh \subseteq Bridge
  /\ bridge \in [Bridge -> {"none", "load_in", "load_out", "unload_in", "spawn", "run", "reap", "join", "done"}]
  /\ alive \in [Bridge -> SUBSET Child]
  /\ pump \in [Bridge -> {"none", "recv", "write", "done"}]
  /\ sink \in [Bridge -> [Sink -> SinkAt]]
  /\ fwd \in [Bridge -> {"none", "wait", "done"}]
  /\ status \in Bridge \cup {None}
  /\ cancel \in BOOLEAN

Init ==
  /\ mode = FALSE /\ flip = ConfigFlip /\ unseen = {} /\ changes = 0
  /\ sup = "look"
  /\ want = [drm |-> FALSE, flip |-> flip]
  /\ active = None /\ activeFlip = flip
  /\ tearing = None /\ spawned = 0
  /\ fired = {} /\ hung = {} /\ fresh = {}
  /\ bridge = [b \in Bridge |-> "none"]
  /\ alive = [b \in Bridge |-> {}]
  /\ pump = [b \in Bridge |-> "none"]
  /\ sink = [b \in Bridge |-> [s \in Sink |-> "none"]]
  /\ fwd = [b \in Bridge |-> "none"]
  /\ status = None
  /\ cancel = FALSE

Running(b) == bridge[b] \notin {"none", "done"}

-----------------------------------------------------------------------------
(* The supervisor.                                                         *)

\* Takes the active bridge, fires its token and goes on to await it.
TearDown(next) ==
  /\ tearing' = active
  /\ active' = None
  /\ fired' = fired \cup {active}
  /\ sup' = next

\* MUTANT of Look: does not compare the flip with the active bridge's.
LookMutant ==
  /\ sup = "look"
  /\ want' = [drm |-> mode, flip |-> flip]
  /\ IF active # None /\ ~mode
       THEN TearDown("forwarder")
       ELSE sup' = "launch" /\ UNCHANGED <<active, tearing, fired>>
  /\ UNCHANGED <<request, unseen, activeFlip, spawned, process, hung, fresh, fwd, status, cancel>>

\* The top of the loop: read both watches; stop the bridge when the mode
\* left DRM or the flip it was spawned with is out of date.
Look ==
  /\ sup = "look"
  /\ want' = [drm |-> mode, flip |-> flip]
  /\ IF active # None /\ (~mode \/ activeFlip # flip)
       THEN TearDown("forwarder")
       ELSE sup' = "launch" /\ UNCHANGED <<active, tearing, fired>>
  /\ UNCHANGED <<request, unseen, activeFlip, spawned, process, hung, fresh, fwd, status, cancel>>

\* MUTANT of ForwarderJoined: does not wait for the forwarder.
ForwarderJoinedMutant ==
  /\ sup \in {"forwarder", "end_forwarder"}
  /\ sup' = IF sup = "forwarder" THEN "bridge" ELSE "end_bridge"
  /\ UNCHANGED <<request, unseen, want, active, activeFlip, tearing, spawned, fired, process, hung,
                 fresh, fwd, status, cancel>>

ForwarderJoined ==
  /\ sup \in {"forwarder", "end_forwarder"} /\ fwd[tearing] = "done"
  /\ sup' = IF sup = "forwarder" THEN "bridge" ELSE "end_bridge"
  /\ UNCHANGED <<request, unseen, want, active, activeFlip, tearing, spawned, fired, process, hung,
                 fresh, fwd, status, cancel>>

\* MUTANT of BridgeJoined: does not wait for the bridge.
BridgeJoinedMutant ==
  /\ sup \in {"bridge", "end_bridge"}
  /\ sup' = IF sup = "bridge" THEN "launch" ELSE "done"
  /\ tearing' = None
  /\ status' = None
  /\ UNCHANGED <<request, unseen, want, active, activeFlip, spawned, fired, process, hung, fresh, fwd, cancel>>

\* The bridge has ended, well or not; the status is reset.
BridgeJoined ==
  /\ sup \in {"bridge", "end_bridge"} /\ bridge[tearing] = "done"
  /\ sup' = IF sup = "bridge" THEN "launch" ELSE "done"
  /\ tearing' = None
  /\ status' = None
  /\ UNCHANGED <<request, unseen, want, active, activeFlip, spawned, fired, process, hung, fresh, fwd, cancel>>

\* Spawns a bridge and its forwarder, for what was wanted at the top of the
\* loop, however long the teardown took since.
Launch ==
  /\ sup = "launch" /\ active = None /\ want.drm /\ spawned < MaxBridges
  /\ spawned' = spawned + 1
  /\ active' = spawned'
  /\ activeFlip' = want.flip
  /\ bridge' = [bridge EXCEPT ![spawned'] = "load_in"]
  /\ fwd' = [fwd EXCEPT ![spawned'] = "wait"]
  /\ sup' = "wait"
  /\ UNCHANGED <<request, unseen, want, tearing, fired, alive, pump, sink, hung, fresh, status, cancel>>

NoLaunch ==
  /\ sup = "launch" /\ (active # None \/ ~want.drm)
  /\ sup' = "wait"
  /\ UNCHANGED <<request, unseen, want, active, activeFlip, tearing, spawned, fired, process, hung,
                 fresh, fwd, status, cancel>>

\* mode_rx.changed() or flip_rx.changed().  Nothing else wakes the
\* supervisor: not the end of the bridge.
Woken(w) ==
  /\ sup = "wait" /\ w \in unseen
  /\ unseen' = unseen \ {w}
  /\ sup' = "look"
  /\ UNCHANGED <<request, want, active, activeFlip, tearing, spawned, fired, process, hung, fresh, fwd,
                 status, cancel>>

\* The token (the senders of the two watches outlive it).
Cancelled ==
  /\ sup = "wait" /\ cancel
  /\ IF active = None
       THEN sup' = "done" /\ UNCHANGED <<active, tearing, fired>>
       ELSE TearDown("end_forwarder")
  /\ UNCHANGED <<request, unseen, want, activeFlip, spawned, process, hung, fresh, fwd, status, cancel>>

-----------------------------------------------------------------------------
(* A forwarder.                                                            *)

Forward(b) ==
  /\ fwd[b] = "wait" /\ b \in fresh
  /\ status' = b
  /\ fresh' = fresh \ {b}
  /\ UNCHANGED <<request, unseen, super, fired, process, hung, fwd, cancel>>

\* The token fired, or the bridge's status task has ended.
ForwarderEnds(b) ==
  /\ fwd[b] = "wait"
  /\ \/ b \in fired
     \/ /\ b \notin fresh
        /\ bridge[b] \in {"run", "reap", "join", "done"} /\ "dream" \notin alive[b]
  /\ fwd' = [fwd EXCEPT ![b] = "done"]
  /\ fresh' = fresh \ {b}
  /\ UNCHANGED <<request, unseen, super, fired, process, hung, status, cancel>>

-----------------------------------------------------------------------------
(* A bridge.  Its setup does not look at the token; every step of it is    *)
(* limited by SUBPROC_SETUP_TIMEOUT.                                       *)

bridgeFrame == <<request, unseen, super, status, cancel, fwd>>

\* The sinks it has the numbers of are asked to be unloaded: by NullSinks::drop
\* without waiting, by create with an answer it ignores.
Released(b) ==
  sink' = [sink EXCEPT ![b] = [s \in Sink |-> IF @[s] = "held" THEN "asked" ELSE @[s]]]

\* pactl_load_null_sink fails: pactl refused, or it was given up after
\* SUBPROC_SETUP_TIMEOUT, or its output is not a number.
GivenUp(b, s) ==
  \E left \in {"none", "lost"} : sink' = [sink EXCEPT ![b][s] = left]

LoadIn(b) ==
  /\ bridge[b] = "load_in"
  /\ sink' = [sink EXCEPT ![b]["in"] = "held"]
  /\ bridge' = [bridge EXCEPT ![b] = "load_out"]
  /\ UNCHANGED <<bridgeFrame, fired, alive, pump, hung, fresh>>

LoadOut(b) ==
  /\ bridge[b] = "load_out"
  /\ sink' = [sink EXCEPT ![b]["out"] = "held"]
  /\ bridge' = [bridge EXCEPT ![b] = "spawn"]
  /\ UNCHANGED <<bridgeFrame, fired, alive, pump, hung, fresh>>

\* The names are refused, or the first sink cannot be loaded.
LoadInFails(b) ==
  /\ bridge[b] = "load_in"
  /\ GivenUp(b, "in")
  /\ bridge' = [bridge EXCEPT ![b] = "done"]
  /\ UNCHANGED <<bridgeFrame, fired, alive, pump, hung, fresh>>

\* MUTANT of LoadOutFails: returns with `?`, before there is a NullSinks.
LoadOutFailsMutant(b) ==
  /\ bridge[b] = "load_out"
  /\ GivenUp(b, "out")
  /\ bridge' = [bridge EXCEPT ![b] = "done"]
  /\ UNCHANGED <<bridgeFrame, fired, alive, pump, hung, fresh>>

LoadOutFails(b) ==
  /\ bridge[b] = "load_out"
  /\ GivenUp(b, "out")
  /\ bridge' = [bridge EXCEPT ![b] = "unload_in"]
  /\ UNCHANGED <<bridgeFrame, fired, alive, pump, hung, fresh>>

\* pactl_unload_module: done, refused, or given up with its pactl running on.
UnloadIn(b) ==
  /\ bridge[b] = "unload_in"
  /\ Released(b)
  /\ bridge' = [bridge EXCEPT ![b] = "done"]
  /\ UNCHANGED <<bridgeFrame, fired, alive, pump, hung, fresh>>

\* pacat, parec and dream are spawned, then the tasks that feed them.
Spawn(b) ==
  /\ bridge[b] = "spawn"
  /\ alive' = [alive EXCEPT ![b] = Child]
  /\ pump' = [pump EXCEPT ![b] = "recv"]
  /\ bridge' = [bridge EXCEPT ![b] = "run"]
  /\ UNCHANGED <<bridgeFrame, fired, sink, hung, fresh>>

\* One of them cannot be spawned: DREAM, the last, never runs then.  Those
\* that were are not killed; they exit by themselves, their pipes being closed.
SpawnFails(b) ==
  /\ bridge[b] = "spawn"
  /\ \E left \in SUBSET (Child \ {"dream"}) :
       /\ left # {} => "pacat" \in left
       /\ alive' = [alive EXCEPT ![b] = left]
  /\ Released(b)
  /\ bridge' = [bridge EXCEPT ![b] = "done"]
  /\ UNCHANGED <<bridgeFrame, fired, pump, hung, fresh>>

\* A complete frame of DREAM's TUI is published, to the forwarder if it is
\* still there.
Frame(b) ==
  /\ bridge[b] = "run" /\ "dream" \in alive[b] /\ fwd[b] = "wait"
  /\ fresh' = fresh \cup {b}
  /\ UNCHANGED <<bridgeFrame, fired, process, hung>>

\* The token fired, or a subprocess has exited.
RunEnds(b) ==
  /\ bridge[b] = "run"
  /\ b \in fired \/ alive[b] # Child
  /\ fired' = fired \cup {b}
  /\ bridge' = [bridge EXCEPT ![b] = "reap"]
  /\ UNCHANGED <<bridgeFrame, alive, pump, sink, hung, fresh>>

\* MUTANT of Reap: joins the tasks before it kills the subprocesses.
ReapMutant(b) ==
  /\ bridge[b] = "reap" /\ pump[b] = "done"
  /\ alive' = [alive EXCEPT ![b] = {}]
  /\ bridge' = [bridge EXCEPT ![b] = "join"]
  /\ hung' = hung \ {b}
  /\ UNCHANGED <<bridgeFrame, fired, pump, sink, fresh>>

\* kill().await on each subprocess.
Reap(b) ==
  /\ bridge[b] = "reap"
  /\ alive' = [alive EXCEPT ![b] = {}]
  /\ bridge' = [bridge EXCEPT ![b] = "join"]
  /\ hung' = hung \ {b}
  /\ UNCHANGED <<bridgeFrame, fired, pump, sink, fresh>>

\* The tasks have ended; run_bridge returns and drops its NullSinks.
TasksJoined(b) ==
  /\ bridge[b] = "join" /\ pump[b] = "done"
  /\ Released(b)
  /\ bridge' = [bridge EXCEPT ![b] = "done"]
  /\ UNCHANGED <<bridgeFrame, fired, alive, pump, hung, fresh>>

\* The writer task takes a block and writes it to pacat, without looking at
\* the token until the write returns.
PumpTakes(b) ==
  /\ pump[b] = "recv" /\ b \notin fired
  /\ pump' = [pump EXCEPT ![b] = "write"]
  /\ UNCHANGED <<bridgeFrame, fired, bridge, alive, sink, hung, fresh>>

PumpWrote(b) ==
  /\ pump[b] = "write" /\ ("pacat" \notin alive[b] \/ b \notin hung)
  /\ pump' = [pump EXCEPT ![b] = IF "pacat" \in alive[b] THEN "recv" ELSE "done"]
  /\ UNCHANGED <<bridgeFrame, fired, bridge, alive, sink, hung, fresh>>

PumpCancelled(b) ==
  /\ pump[b] = "recv" /\ b \in fired
  /\ pump' = [pump EXCEPT ![b] = "done"]
  /\ UNCHANGED <<bridgeFrame, fired, bridge, alive, sink, hung, fresh>>

-----------------------------------------------------------------------------
(* Clients and the world.                                                  *)

\* SetDemodMode, SetDrmFlipSpectrum: send marks the value changed even when
\* it is the same.
SetDemodMode(drm) ==
  /\ changes < MaxChanges
  /\ mode' = drm
  /\ changes' = changes + 1
  /\ unseen' = unseen \cup {"mode"}
  /\ UNCHANGED <<flip, super, fired, process, hung, fresh, fwd, status, cancel>>

SetDrmFlipSpectrum(on) ==
  /\ changes < MaxChanges
  /\ flip' = on
  /\ changes' = changes + 1
  /\ unseen' = unseen \cup {"flip"}
  /\ UNCHANGED <<mode, super, fired, process, hung, fresh, fwd, status, cancel>>

\* A subprocess exits by itself.
ChildDies(b, c) ==
  /\ c \in alive[b]
  /\ alive' = [alive EXCEPT ![b] = @ \ {c}]
  /\ UNCHANGED <<bridgeFrame, fired, bridge, pump, sink, hung, fresh>>

\* PipeWire hangs: pacat is there but takes nothing more.
Hang(b) ==
  /\ Running(b) /\ "pacat" \in alive[b] /\ b \notin hung
  /\ hung' = hung \cup {b}
  /\ UNCHANGED <<bridgeFrame, fired, process, fresh>>

FireToken ==
  /\ ~cancel
  /\ cancel' = TRUE
  /\ UNCHANGED <<request, unseen, super, fired, process, hung, fresh, fwd, status>>

-----------------------------------------------------------------------------

Supervise ==
  Look \/ ForwarderJoined \/ BridgeJoined \/ Launch \/ NoLaunch \/ Cancelled
    \/ \E w \in {"mode", "flip"} : Woken(w)

Setup(b) ==
  LoadIn(b) \/ LoadInFails(b) \/ LoadOut(b) \/ LoadOutFails(b) \/ UnloadIn(b) \/ Spawn(b) \/ SpawnFails(b)

RunBridge(b) == Setup(b) \/ RunEnds(b) \/ Reap(b) \/ TasksJoined(b)

Pump(b) == PumpTakes(b) \/ PumpWrote(b) \/ PumpCancelled(b)

Next ==
  \/ Supervise
  \/ \E b \in Bridge :
       RunBridge(b) \/ Pump(b) \/ Forward(b) \/ ForwarderEnds(b) \/ Frame(b) \/ Hang(b)
  \/ \E b \in Bridge, c \in Child : ChildDies(b, c)
  \/ \E on \in BOOLEAN : SetDemodMode(on) \/ SetDrmFlipSpectrum(on)
  \/ FireToken

Spec == Init /\ [][Next]_vars

\* The tasks run, a setup step that hangs is timed out, and SIGKILL kills.
\* Frames, exits, hangs, client requests and the shutdown need not come.
Fairness ==
  /\ WF_vars(Supervise) /\ SF_vars(Cancelled)
  /\ \A b \in Bridge : /\ WF_vars(RunBridge(b))
                       /\ WF_vars(PumpWrote(b)) /\ WF_vars(PumpCancelled(b))
                       /\ WF_vars(Forward(b)) /\ WF_vars(ForwarderEnds(b))

FairSpec == Spec /\ Fairness

-----------------------------------------------------------------------------
(* Properties.                                                             *)

\* One bridge at a time: a mode or flip that changes again while the old
\* bridge is being stopped never leaves two bridge tasks, or two decoders,
\* running together.  (A pacat or parec that a failed setup left behind may
\* still be exiting.)
OneBridge ==
  \A b, c \in Bridge :
    (Running(b) \/ "dream" \in alive[b]) /\ (Running(c) \/ "dream" \in alive[c]) => b = c

\* The status shown is never that of a bridge that was torn down: while
\* there is no bridge, active or being stopped, there is no status, and a
\* forwarder cannot bring it back.
StatusFromHeldBridge == status # None => status \in {active, tearing}

\* A bridge that has ended, however far its setup came, has asked pactl to
\* unload every null sink it had the number of, and has lost track of one sink
\* at most: of the second only after it asked for the first to be unloaded, and
\* of the first only without a second.  What pactl then does is not looked at,
\* so that this is what the code does about its sinks and not that they are gone.
SinksReleased ==
  \A b \in Bridge : bridge[b] = "done" =>
    /\ \A s \in Sink : sink[b][s] # "held"
    /\ sink[b]["in"] = "lost" => sink[b]["out"] = "none"
    /\ sink[b]["out"] = "lost" => sink[b]["in"] = "asked"

\* Clients that stop changing their minds get what they asked for last: a
\* bridge, with the flip they chose, in DRM mode, and none outside of it.
Agreed == (mode <=> active # None) /\ (active # None => activeFlip = flip)
FollowsMode == <>[](cancel \/ Agreed)

\* A change is never missed, however it falls between the reading of the two
\* watches, the stopping of a bridge and the wait: a supervisor that waits with
\* nothing to wake it has done what was asked.
FollowsAtRest == sup = "wait" /\ unseen = {} => Agreed

\* Stopping a bridge ends, whatever state it is in: setting up, running, or
\* with a pacat that takes nothing more.
TeardownEnds == (tearing # None) ~> (tearing = None)
=============================================================================
