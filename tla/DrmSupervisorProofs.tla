------------------------ MODULE DrmSupervisorProofs ------------------------
(***************************************************************************)
(* Proofs about DrmSupervisor, for any set of subprocesses and any number  *)
(* of changes and bridges: its state is well-typed, one bridge runs at a   *)
(* time, the status is that of a bridge the supervisor holds, a bridge     *)
(* that has ended has asked to unload the sinks it knew of, a supervisor   *)
(* at rest has done what was asked, and a teardown never waits for a task  *)
(* that cannot move.                                                       *)
(***************************************************************************)
EXTENDS DrmSupervisor, TLAPS

\* The steps of a bridge, of its writer and forwarder, and of the world around.
BridgeStep(b) == RunBridge(b) \/ Pump(b) \/ Frame(b) \/ Hang(b) \/ \E c \in Child : ChildDies(b, c)
FwdStep(b) == Forward(b) \/ ForwarderEnds(b)
Outside == FireToken \/ \E on \in BOOLEAN : SetDemodMode(on) \/ SetDrmFlipSpectrum(on)

\* What a step can be.
LEMMA Steps ==
  ASSUME [Next]_vars
  PROVE  \/ Supervise \/ Outside \/ UNCHANGED vars
         \/ \E b \in Bridge : BridgeStep(b) \/ FwdStep(b)
BY DEF Next, BridgeStep, FwdStep, Outside

\* The initial state is well-typed.
LEMMA TypeInit == Init => TypeOK
<1> SUFFICES ASSUME Init PROVE TypeOK
  OBVIOUS
<1>1. /\ alive \in [Bridge -> SUBSET Child]
      /\ sink \in [Bridge -> [Sink -> SinkAt]]
  BY DEF Init, SinkAt
<1>2. want \in [drm : BOOLEAN, flip : BOOLEAN]
  BY ConfigAssumption DEF Init
<1>3. /\ fired \subseteq Bridge /\ hung \subseteq Bridge /\ fresh \subseteq Bridge
      /\ unseen \subseteq {"mode", "flip"}
  BY DEF Init
<1>4. /\ bridge \in [Bridge -> {"none", "load_in", "load_out", "unload_in", "spawn", "run", "reap", "join", "done"}]
      /\ pump \in [Bridge -> {"none", "recv", "write", "done"}]
      /\ fwd \in [Bridge -> {"none", "wait", "done"}]
  BY DEF Init
<1>5. changes \in 0..MaxChanges /\ spawned \in 0..MaxBridges
  BY BoundAssumption DEF Init
<1> QED BY <1>1, <1>2, <1>3, <1>4, <1>5, ConfigAssumption DEF Init, TypeOK, None

\* A step of the supervisor keeps the types.
LEMMA TypeSupervise == TypeOK /\ Supervise => TypeOK'
<1> SUFFICES ASSUME TypeOK, Supervise PROVE TypeOK'
  OBVIOUS
<1> USE BoundAssumption DEF TypeOK, request, super, process, None
<1>1. CASE Look
  <2>1. active # None => active \in Bridge
    OBVIOUS
  <2> QED BY <1>1, <2>1 DEF Look, TearDown
<1>2. CASE ForwarderJoined \/ BridgeJoined
  BY <1>2 DEF ForwarderJoined, BridgeJoined
<1>3. CASE Launch
  <2>1. spawned + 1 \in Bridge /\ spawned' = spawned + 1
    BY <1>3 DEF Launch, Bridge
  <2>2. bridge' = [bridge EXCEPT ![spawned + 1] = "load_in"] /\ fwd' = [fwd EXCEPT ![spawned + 1] = "wait"]
    BY <1>3, <2>1 DEF Launch
  <2> QED BY <1>3, <2>1, <2>2 DEF Launch, Bridge
<1>4. CASE NoLaunch \/ \E w \in {"mode", "flip"} : Woken(w)
  BY <1>4 DEF NoLaunch, Woken
<1>5. CASE Cancelled
  BY <1>5 DEF Cancelled, TearDown
<1> QED BY <1>1, <1>2, <1>3, <1>4, <1>5 DEF Supervise

\* Releasing the sinks of a bridge leaves sinks.
LEMMA ReleasedTypes ==
  ASSUME NEW b \in Bridge, TypeOK, Released(b)
  PROVE  sink' \in [Bridge -> [Sink -> SinkAt]]
BY DEF Released, TypeOK, SinkAt

\* So does what one load comes to.
LEMMA LoadedTypes ==
  ASSUME NEW b \in Bridge, NEW s \in Sink, NEW at \in SinkAt, TypeOK
  PROVE  /\ [sink EXCEPT ![b][s] = at] \in [Bridge -> [Sink -> SinkAt]]
         /\ [sink EXCEPT ![b][s] = at][b][s] = at
         /\ \A t \in Sink : t # s => [sink EXCEPT ![b][s] = at][b][t] = sink[b][t]
         /\ \A c \in Bridge : c # b => [sink EXCEPT ![b][s] = at][c] = sink[c]
<1>1. [sink[b] EXCEPT ![s] = at] \in [Sink -> SinkAt]
  BY DEF TypeOK
<1> QED BY <1>1 DEF TypeOK

\* A load that fails leaves nothing, or something the bridge cannot name.
LEMMA GivenUpTypes ==
  ASSUME NEW b \in Bridge, NEW s \in Sink, TypeOK, GivenUp(b, s)
  PROVE  /\ sink' \in [Bridge -> [Sink -> SinkAt]]
         /\ sink'[b][s] \in {"none", "lost"}
         /\ \A t \in Sink : t # s => sink'[b][t] = sink[b][t]
         /\ \A c \in Bridge : c # b => sink'[c] = sink[c]
<1>1. PICK at \in {"none", "lost"} : sink' = [sink EXCEPT ![b][s] = at]
  BY DEF GivenUp
<1>2. at \in SinkAt
  BY DEF SinkAt
<1> QED BY <1>1, <1>2, LoadedTypes

\* A step of a bridge keeps the types.
LEMMA TypeBridge ==
  ASSUME NEW b \in Bridge, TypeOK, BridgeStep(b)
  PROVE  TypeOK'
<1> USE DEF bridgeFrame, request, super, process
<1>1. CASE Setup(b)
  <2>1. CASE LoadIn(b) \/ LoadOut(b)
    <3>1. sink' \in [Bridge -> [Sink -> SinkAt]]
      BY <2>1, LoadedTypes DEF LoadIn, LoadOut, Sink, SinkAt
    <3> QED BY <2>1, <3>1 DEF LoadIn, LoadOut, TypeOK
  <2>4. CASE LoadInFails(b) \/ LoadOutFails(b)
    <3>1. sink' \in [Bridge -> [Sink -> SinkAt]]
      BY <2>4, GivenUpTypes DEF LoadInFails, LoadOutFails, Sink
    <3> QED BY <2>4, <3>1 DEF LoadInFails, LoadOutFails, TypeOK
  <2>2. CASE UnloadIn(b)
    BY <2>2, ReleasedTypes DEF UnloadIn, TypeOK
  <2>5. CASE SpawnFails(b)
    <3>1. alive' \in [Bridge -> SUBSET Child]
      BY <2>5 DEF SpawnFails, TypeOK
    <3> QED BY <2>5, <3>1, ReleasedTypes DEF SpawnFails, TypeOK
  <2>3. CASE Spawn(b)
    BY <2>3 DEF Spawn, TypeOK
  <2> QED BY <1>1, <2>1, <2>2, <2>3, <2>4, <2>5 DEF Setup
<1>2. CASE RunEnds(b) \/ Reap(b)
  BY <1>2 DEF RunEnds, Reap, TypeOK
<1>3. CASE TasksJoined(b)
  BY <1>3, ReleasedTypes DEF TasksJoined, TypeOK
<1>4. CASE Pump(b)
  BY <1>4 DEF Pump, PumpTakes, PumpWrote, PumpCancelled, TypeOK
<1>5. CASE Frame(b) \/ Hang(b)
  <2>1. CASE Frame(b)
    BY <2>1 DEF Frame, TypeOK
  <2>2. CASE Hang(b)
    <3>1. hung' \subseteq Bridge
      BY <2>2 DEF Hang, TypeOK
    <3> QED BY <2>2, <3>1 DEF Hang, TypeOK
  <2> QED BY <1>5, <2>1, <2>2
<1>6. CASE \E c \in Child : ChildDies(b, c)
  <2> PICK c \in Child : ChildDies(b, c)
    BY <1>6
  <2>1. alive' = [alive EXCEPT ![b] = alive[b] \ {c}] /\ alive[b] \ {c} \in SUBSET Child
    BY DEF ChildDies, TypeOK
  <2> QED BY <2>1 DEF ChildDies, TypeOK
<1> QED BY <1>1, <1>2, <1>3, <1>4, <1>5, <1>6 DEF BridgeStep, RunBridge

\* No step leaves the types.
LEMMA TypeStep == TypeOK /\ [Next]_vars => TypeOK'
<1> SUFFICES ASSUME TypeOK, [Next]_vars PROVE TypeOK'
  OBVIOUS
<1>1. ASSUME NEW b \in Bridge, FwdStep(b) PROVE TypeOK'
  <2>1. CASE Forward(b)
    BY <2>1 DEF Forward, TypeOK, request, super, process
  <2>2. CASE ForwarderEnds(b)
    BY <2>2 DEF ForwarderEnds, TypeOK, request, super, process
  <2> QED BY <1>1, <2>1, <2>2 DEF FwdStep
<1>2. CASE Outside
  <2>1. CASE FireToken
    BY <2>1 DEF FireToken, TypeOK, request, super, process
  <2>2. ASSUME NEW on \in BOOLEAN, SetDemodMode(on) PROVE TypeOK'
    BY <2>2, BoundAssumption DEF SetDemodMode, TypeOK, super, process
  <2>3. ASSUME NEW on \in BOOLEAN, SetDrmFlipSpectrum(on) PROVE TypeOK'
    BY <2>3, BoundAssumption DEF SetDrmFlipSpectrum, TypeOK, super, process
  <2> QED BY <1>2, <2>1, <2>2, <2>3 DEF Outside
<1>3. CASE UNCHANGED vars
  BY <1>3 DEF vars, TypeOK, request, super, process
<1> QED BY <1>1, <1>2, <1>3, Steps, TypeSupervise, TypeBridge

\* The state of the supervisor and of its bridges is well-typed.
THEOREM TypeCorrect == Spec => []TypeOK
<1>1. TypeOK /\ [Next]_vars => TypeOK'
  BY TypeStep
<1> QED BY TypeInit, <1>1, PTL DEF Spec

-----------------------------------------------------------------------------
(* What the supervisor holds.  Every bridge and every forwarder that has   *)
(* not ended is that of the active bridge or of the one being stopped, and *)
(* there is never both.                                                    *)

Stopping == {"forwarder", "bridge", "end_forwarder", "end_bridge"}

HoldInv ==
  /\ sup \in Stopping => active = None /\ tearing # None
  /\ sup \notin Stopping => tearing = None
  /\ sup = "done" => active = None
  /\ active <= spawned /\ tearing <= spawned
  /\ sup \in {"bridge", "end_bridge"} => fwd[tearing] = "done"
  /\ status # None => status \in {active, tearing}
  /\ \A b \in Bridge :
       /\ Running(b) => b \in {active, tearing}
       /\ fwd[b] = "wait" => b \in {active, tearing}
       /\ "dream" \in alive[b] => bridge[b] \in {"run", "reap"}
       /\ b > spawned => bridge[b] = "none" /\ fwd[b] = "none"

\* It holds initially.
LEMMA HoldInit == Init => HoldInv
BY DEF Init, HoldInv, Stopping, Running, None, Bridge

\* A step of the supervisor keeps it.
LEMMA HoldSupervise == TypeOK /\ HoldInv /\ Supervise => HoldInv'
<1> SUFFICES ASSUME TypeOK, HoldInv, Supervise PROVE HoldInv'
  OBVIOUS
<1> USE BoundAssumption DEF TypeOK, HoldInv, Stopping, Running, None, Bridge, request, super, process
<1>1. CASE Look
  BY <1>1 DEF Look, TearDown
<1>2. CASE ForwarderJoined
  BY <1>2 DEF ForwarderJoined
<1>3. CASE BridgeJoined
  <2>1. \A b \in Bridge : ~Running(b) /\ fwd[b] # "wait"
    BY <1>3 DEF BridgeJoined
  <2> QED BY <1>3, <2>1 DEF BridgeJoined
<1>4. CASE Launch
  <2>1. \A b \in Bridge : ~Running(b) /\ fwd[b] # "wait"
    BY <1>4 DEF Launch
  <2>2. status = None /\ tearing = None
    BY <1>4 DEF Launch
  <2>3. /\ spawned + 1 \in Bridge /\ spawned' = spawned + 1 /\ active' = spawned + 1
        /\ bridge' = [bridge EXCEPT ![spawned + 1] = "load_in"]
        /\ fwd' = [fwd EXCEPT ![spawned + 1] = "wait"]
        /\ alive' = alive /\ status' = status /\ tearing' = tearing /\ sup' = "wait"
    BY <1>4 DEF Launch
  <2>4. "dream" \notin alive[spawned + 1]
    <3>1. bridge[spawned + 1] = "none"
      BY <2>3
    <3> QED BY <2>3, <3>1
  <2> QED BY <2>1, <2>2, <2>3, <2>4
<1>5. CASE NoLaunch
  BY <1>5 DEF NoLaunch
<1>6. CASE \E w \in {"mode", "flip"} : Woken(w)
  BY <1>6 DEF Woken
<1>7. CASE Cancelled
  BY <1>7 DEF Cancelled, TearDown
<1> QED BY <1>1, <1>2, <1>3, <1>4, <1>5, <1>6, <1>7 DEF Supervise

\* A step of a bridge keeps it: only a running bridge moves.
LEMMA HoldBridge ==
  ASSUME NEW b \in Bridge, TypeOK, HoldInv, BridgeStep(b)
  PROVE  HoldInv'
<1>1. UNCHANGED <<super, status, fwd>>
  BY DEF BridgeStep, RunBridge, Setup, LoadIn, LoadInFails, LoadOut, LoadOutFails, UnloadIn, Spawn,
     SpawnFails, RunEnds, Reap, TasksJoined, Pump, PumpTakes, PumpWrote, PumpCancelled, Frame, Hang,
     ChildDies, bridgeFrame, process
<1>2. /\ \A c \in Bridge : c # b => bridge'[c] = bridge[c] /\ alive'[c] = alive[c]
      /\ bridge[b] = "none" => bridge'[b] = "none"
      /\ Running(b)' => Running(b)
      /\ "dream" \in alive'[b] => bridge'[b] \in {"run", "reap"}
  <2> USE DEF TypeOK, HoldInv, Running, process
  <2>1. CASE Setup(b)
    BY <2>1 DEF Setup, LoadIn, LoadInFails, LoadOut, LoadOutFails, UnloadIn, Spawn, SpawnFails
  <2>2. CASE RunEnds(b) \/ Reap(b) \/ TasksJoined(b)
    BY <2>2 DEF RunEnds, Reap, TasksJoined
  <2>3. CASE Pump(b) \/ Frame(b) \/ Hang(b)
    BY <2>3 DEF Pump, PumpTakes, PumpWrote, PumpCancelled, Frame, Hang
  <2>4. CASE \E c \in Child : ChildDies(b, c)
    BY <2>4 DEF ChildDies
  <2> QED BY <2>1, <2>2, <2>3, <2>4 DEF BridgeStep, RunBridge
<1> QED BY <1>1, <1>2 DEF HoldInv, Running, super, Stopping

\* No step breaks it.
LEMMA HoldStep == TypeOK /\ HoldInv /\ [Next]_vars => HoldInv'
<1> SUFFICES ASSUME TypeOK, HoldInv, [Next]_vars PROVE HoldInv'
  OBVIOUS
<1>1. ASSUME NEW b \in Bridge, Forward(b) PROVE HoldInv'
  BY <1>1 DEF Forward, HoldInv, Running, Stopping, super, process
<1>2. ASSUME NEW b \in Bridge, ForwarderEnds(b) PROVE HoldInv'
  BY <1>2 DEF ForwarderEnds, HoldInv, Running, Stopping, super, process, TypeOK
<1>3. CASE Outside \/ UNCHANGED vars
  BY <1>3 DEF Outside, FireToken, SetDemodMode, SetDrmFlipSpectrum, vars, HoldInv, Running, Stopping, super, process
<1> QED BY <1>1, <1>2, <1>3, Steps, HoldSupervise, HoldBridge DEF FwdStep

\* One bridge at a time (pipeline.rs:1343), its subprocesses included.
THEOREM OneAtATime == Spec => []OneBridge
<1>1. Init => TypeOK /\ HoldInv
  BY TypeInit, HoldInit
<1>2. TypeOK /\ HoldInv /\ [Next]_vars => (TypeOK /\ HoldInv)'
  BY TypeStep, HoldStep
<1>3. TypeOK /\ HoldInv => OneBridge
  BY DEF HoldInv, OneBridge, Running, Stopping, TypeOK, Bridge, None
<1> QED BY <1>1, <1>2, <1>3, PTL DEF Spec

\* No forwarder brings back the status of a bridge that was torn down.
THEOREM StatusHeld == Spec => []StatusFromHeldBridge
<1>1. Init => TypeOK /\ HoldInv
  BY TypeInit, HoldInit
<1>2. TypeOK /\ HoldInv /\ [Next]_vars => (TypeOK /\ HoldInv)'
  BY TypeStep, HoldStep
<1>3. HoldInv => StatusFromHeldBridge
  BY DEF HoldInv, StatusFromHeldBridge
<1> QED BY <1>1, <1>2, <1>3, PTL DEF Spec

-----------------------------------------------------------------------------
(* The null sinks: how far the setup of a bridge has come says which of    *)
(* them it has the number of.                                              *)

SinkInv ==
  \A b \in Bridge :
    /\ bridge[b] \in {"none", "load_in"} => sink[b]["in"] = "none" /\ sink[b]["out"] = "none"
    /\ bridge[b] = "load_out" => sink[b]["in"] = "held" /\ sink[b]["out"] = "none"
    /\ bridge[b] = "unload_in" => sink[b]["in"] = "held" /\ sink[b]["out"] \in {"none", "lost"}
    /\ bridge[b] \in {"spawn", "run", "reap", "join"} =>
         sink[b]["in"] = "held" /\ sink[b]["out"] = "held"
    /\ bridge[b] = "done" =>
         \/ sink[b]["in"] \in {"none", "lost"} /\ sink[b]["out"] = "none"
         \/ sink[b]["in"] = "asked" /\ sink[b]["out"] \in {"none", "lost", "asked"}

\* What Released does to the two sinks of its bridge, and to the others.
LEMMA ReleasedSinks ==
  ASSUME NEW b \in Bridge, TypeOK, Released(b)
  PROVE  /\ \A s \in Sink : sink'[b][s] = IF sink[b][s] = "held" THEN "asked" ELSE sink[b][s]
         /\ \A c \in Bridge : c # b => sink'[c] = sink[c]
BY DEF Released, TypeOK

\* A step of a bridge keeps it.
LEMMA SinkBridge ==
  ASSUME NEW b \in Bridge, TypeOK, SinkInv, BridgeStep(b)
  PROVE  SinkInv'
<1> USE DEF Sink
<1>1. CASE LoadIn(b)
  <2>1. /\ sink'[b]["in"] = "held" /\ sink'[b]["out"] = sink[b]["out"]
        /\ \A c \in Bridge : c # b => sink'[c] = sink[c]
    BY <1>1, LoadedTypes DEF LoadIn, SinkAt
  <2> QED BY <1>1, <2>1 DEF LoadIn, SinkInv, TypeOK
<1>2. CASE LoadOut(b)
  <2>1. /\ sink'[b]["out"] = "held" /\ sink'[b]["in"] = sink[b]["in"]
        /\ \A c \in Bridge : c # b => sink'[c] = sink[c]
    BY <1>2, LoadedTypes DEF LoadOut, SinkAt
  <2> QED BY <1>2, <2>1 DEF LoadOut, SinkInv, TypeOK
<1>3. CASE LoadInFails(b)
  <2>1. /\ sink'[b]["in"] \in {"none", "lost"} /\ sink'[b]["out"] = sink[b]["out"]
        /\ \A c \in Bridge : c # b => sink'[c] = sink[c]
    BY <1>3, GivenUpTypes DEF LoadInFails
  <2> QED BY <1>3, <2>1 DEF LoadInFails, SinkInv, TypeOK
<1>4. CASE LoadOutFails(b)
  <2>1. /\ sink'[b]["out"] \in {"none", "lost"} /\ sink'[b]["in"] = sink[b]["in"]
        /\ \A c \in Bridge : c # b => sink'[c] = sink[c]
    BY <1>4, GivenUpTypes DEF LoadOutFails
  <2> QED BY <1>4, <2>1 DEF LoadOutFails, SinkInv, TypeOK
<1>5. CASE UnloadIn(b)
  BY <1>5, ReleasedSinks DEF UnloadIn, SinkInv, TypeOK
<1>6. CASE SpawnFails(b)
  BY <1>6, ReleasedSinks DEF SpawnFails, SinkInv, TypeOK
<1>7. CASE TasksJoined(b)
  BY <1>7, ReleasedSinks DEF TasksJoined, SinkInv, TypeOK
<1>8. CASE Spawn(b) \/ RunEnds(b) \/ Reap(b)
  BY <1>8 DEF Spawn, RunEnds, Reap, SinkInv, TypeOK
<1>9. CASE Pump(b) \/ Frame(b) \/ Hang(b) \/ \E c \in Child : ChildDies(b, c)
  BY <1>9 DEF Pump, PumpTakes, PumpWrote, PumpCancelled, Frame, Hang, ChildDies, SinkInv, process
<1> QED
  BY <1>1, <1>2, <1>3, <1>4, <1>5, <1>6, <1>7, <1>8, <1>9 DEF BridgeStep, RunBridge, Setup

\* No step breaks it.
LEMMA SinkStep == TypeOK /\ HoldInv /\ SinkInv /\ [Next]_vars => SinkInv'
<1> SUFFICES ASSUME TypeOK, HoldInv, SinkInv, [Next]_vars PROVE SinkInv'
  OBVIOUS
<1>1. CASE Launch
  <2>1. /\ spawned + 1 \in Bridge /\ bridge[spawned + 1] = "none"
        /\ bridge' = [bridge EXCEPT ![spawned + 1] = "load_in"] /\ sink' = sink
    BY <1>1, BoundAssumption DEF Launch, HoldInv, TypeOK, Bridge
  <2> QED BY <2>1 DEF SinkInv, TypeOK
<1>2. CASE Supervise /\ ~Launch
  BY <1>2 DEF Supervise, Look, ForwarderJoined, BridgeJoined, NoLaunch, Woken, Cancelled, SinkInv, process
<1>3. ASSUME NEW b \in Bridge, FwdStep(b) PROVE SinkInv'
  BY <1>3 DEF FwdStep, Forward, ForwarderEnds, SinkInv, process
<1>4. CASE Outside \/ UNCHANGED vars
  BY <1>4 DEF Outside, FireToken, SetDemodMode, SetDrmFlipSpectrum, vars, SinkInv, process
<1> QED BY <1>1, <1>2, <1>3, <1>4, Steps, SinkBridge

\* However far its setup came, a bridge that has ended has asked for the unload
\* of every sink it knew of and lost track of one at most (drm.rs:780-829).
THEOREM SinksAsked == Spec => []SinksReleased
<1>1. Init => TypeOK /\ HoldInv /\ SinkInv
  BY TypeInit, HoldInit DEF Init, SinkInv, Sink
<1>2. TypeOK /\ HoldInv /\ SinkInv /\ [Next]_vars => (TypeOK /\ HoldInv /\ SinkInv)'
  BY TypeStep, HoldStep, SinkStep
<1>3. SinkInv => SinksReleased
  BY DEF SinkInv, SinksReleased, Sink
<1> QED BY <1>1, <1>2, <1>3, PTL DEF Spec

-----------------------------------------------------------------------------
(* What is asked, and what was read of it: as long as no change waits to   *)
(* be seen, what the supervisor goes by is the two watches.                *)

RestInv ==
  unseen = {} =>
    /\ sup = "wait" => Agreed
    /\ sup \in {"forwarder", "bridge", "launch"} => want = [drm |-> mode, flip |-> flip]
    /\ sup = "launch" /\ active # None => mode /\ activeFlip = flip

\* A step of the supervisor keeps it.
LEMMA RestSupervise == TypeOK /\ HoldInv /\ RestInv /\ Supervise => RestInv'
<1> SUFFICES ASSUME TypeOK, HoldInv, RestInv, Supervise PROVE RestInv'
  OBVIOUS
<1>1. CASE Look
  BY <1>1 DEF Look, TearDown, RestInv, request
<1>2. CASE ForwarderJoined
  BY <1>2 DEF ForwarderJoined, RestInv, request
<1>3. CASE BridgeJoined
  BY <1>3 DEF BridgeJoined, HoldInv, Stopping, RestInv, request
<1>4. CASE Launch
  <2>1. spawned \in Nat /\ active' = spawned + 1 /\ active' # None
    BY <1>4, BoundAssumption DEF Launch, TypeOK, None
  <2> QED BY <1>4, <2>1 DEF Launch, RestInv, Agreed, request
<1>5. CASE NoLaunch
  BY <1>5 DEF NoLaunch, RestInv, Agreed, request
<1>6. CASE \E w \in {"mode", "flip"} : Woken(w)
  BY <1>6 DEF Woken, RestInv
<1>7. CASE Cancelled
  BY <1>7 DEF Cancelled, TearDown, RestInv
<1> QED BY <1>1, <1>2, <1>3, <1>4, <1>5, <1>6, <1>7 DEF Supervise

\* No step breaks it: a change of a watch waits to be seen.
LEMMA RestStep == TypeOK /\ HoldInv /\ RestInv /\ [Next]_vars => RestInv'
<1> SUFFICES ASSUME TypeOK, HoldInv, RestInv, [Next]_vars PROVE RestInv'
  OBVIOUS
<1>1. ASSUME NEW b \in Bridge, BridgeStep(b) \/ FwdStep(b) PROVE RestInv'
  <2>1. UNCHANGED <<request, unseen, super>>
    BY <1>1 DEF BridgeStep, FwdStep, Forward, ForwarderEnds, RunBridge, Setup, LoadIn, LoadInFails, LoadOut,
       LoadOutFails, UnloadIn, Spawn, SpawnFails, RunEnds, Reap, TasksJoined, Pump, PumpTakes, PumpWrote,
       PumpCancelled, Frame, Hang, ChildDies, bridgeFrame
  <2> QED BY <2>1 DEF RestInv, Agreed, request, super
<1>2. CASE Outside
  BY <1>2 DEF Outside, FireToken, SetDemodMode, SetDrmFlipSpectrum, RestInv, Agreed, request, super
<1>3. CASE UNCHANGED vars
  BY <1>3 DEF vars, RestInv, Agreed, request, super
<1> QED BY <1>1, <1>2, <1>3, Steps, RestSupervise

\* A supervisor at rest has the bridge that was asked for last (the wait of
\* run_drm_supervisor, pipeline.rs:1419).
THEOREM RestsAgreed == Spec => []FollowsAtRest
<1>1. Init => TypeOK /\ HoldInv /\ RestInv
  BY TypeInit, HoldInit DEF Init, RestInv
<1>2. TypeOK /\ HoldInv /\ RestInv /\ [Next]_vars => (TypeOK /\ HoldInv /\ RestInv)'
  BY TypeStep, HoldStep, RestStep
<1>3. RestInv => FollowsAtRest
  BY DEF RestInv, FollowsAtRest
<1> QED BY <1>1, <1>2, <1>3, PTL DEF Spec

-----------------------------------------------------------------------------
(* The teardown: whoever it waits for can move.                            *)

\* The pacat, the parec and the decoder of a bridge are killed before its
\* tasks are joined, and its token is fired before that.
EndInv ==
  /\ tearing # None => tearing \in fired
  /\ \A b \in Bridge :
       /\ b <= spawned => bridge[b] # "none" /\ fwd[b] # "none"
       /\ bridge[b] \in {"run", "reap", "join"} => pump[b] # "none"
       /\ bridge[b] \in {"reap", "join"} => b \in fired
       /\ bridge[b] = "join" => alive[b] = {}

\* The task that the teardown waits for has a step to take: the forwarder,
\* whose token has fired; the bridge, in its set-up, at its run, whose token
\* has fired, or at the kills; or its writer, whose wait has ended with the
\* token and whose write with pacat.
TeardownMoves ==
  tearing # None =>
    LET b == tearing IN
    \/ /\ sup \in {"forwarder", "end_forwarder"}
       /\ \/ fwd[b] = "done"
          \/ fwd[b] = "wait" /\ b \in fired
    \/ /\ sup \in {"bridge", "end_bridge"}
       /\ \/ bridge[b] \in {"load_in", "load_out", "unload_in", "spawn", "reap", "done"}
          \/ bridge[b] = "run" /\ b \in fired
          \/ /\ bridge[b] = "join"
             /\ \/ pump[b] = "done"
                \/ pump[b] = "recv" /\ b \in fired
                \/ pump[b] = "write" /\ "pacat" \notin alive[b]

\* A step of the supervisor keeps it.
LEMMA EndSupervise == TypeOK /\ HoldInv /\ EndInv /\ Supervise => EndInv'
<1> SUFFICES ASSUME TypeOK, HoldInv, EndInv, Supervise PROVE EndInv'
  OBVIOUS
<1>1. CASE Look \/ Cancelled
  BY <1>1 DEF Look, Cancelled, TearDown, EndInv, process
<1>2. CASE ForwarderJoined \/ BridgeJoined \/ NoLaunch \/ \E w \in {"mode", "flip"} : Woken(w)
  BY <1>2 DEF ForwarderJoined, BridgeJoined, NoLaunch, Woken, EndInv, process
<1>3. CASE Launch
  <2>1. /\ spawned + 1 \in Bridge /\ spawned' = spawned + 1 /\ spawned \in Nat
        /\ bridge' = [bridge EXCEPT ![spawned + 1] = "load_in"]
        /\ fwd' = [fwd EXCEPT ![spawned + 1] = "wait"]
        /\ UNCHANGED <<tearing, fired, pump, alive>>
    BY <1>3, BoundAssumption DEF Launch, TypeOK, Bridge
  <2>2. \A b \in Bridge : b <= spawned + 1 => b <= spawned \/ b = spawned + 1
    BY <2>1 DEF Bridge
  <2> QED BY <2>1, <2>2 DEF EndInv, TypeOK
<1> QED BY <1>1, <1>2, <1>3 DEF Supervise

\* A step of a bridge keeps it.
LEMMA EndBridge ==
  ASSUME NEW b \in Bridge, TypeOK, HoldInv, EndInv, BridgeStep(b)
  PROVE  EndInv'
<1>1. /\ UNCHANGED <<tearing, spawned, fwd>> /\ fired \subseteq fired'
      /\ \A c \in Bridge : c # b => bridge'[c] = bridge[c] /\ alive'[c] = alive[c] /\ pump'[c] = pump[c]
  BY DEF BridgeStep, RunBridge, Setup, LoadIn, LoadInFails, LoadOut, LoadOutFails, UnloadIn, Spawn,
     SpawnFails, RunEnds, Reap, TasksJoined, Pump, PumpTakes, PumpWrote, PumpCancelled, Frame, Hang,
     ChildDies, bridgeFrame, process, super, TypeOK
<1>2. /\ bridge[b] # "none" => bridge'[b] # "none"
      /\ bridge'[b] \in {"run", "reap", "join"} => pump'[b] # "none"
      /\ bridge'[b] \in {"reap", "join"} => b \in fired'
      /\ bridge'[b] = "join" => alive'[b] = {}
  <2> USE DEF EndInv, TypeOK, process
  <2>1. CASE Setup(b)
    BY <2>1 DEF Setup, LoadIn, LoadInFails, LoadOut, LoadOutFails, UnloadIn, Spawn, SpawnFails
  <2>2. CASE RunEnds(b) \/ Reap(b) \/ TasksJoined(b)
    BY <2>2 DEF RunEnds, Reap, TasksJoined
  <2>3. CASE Pump(b) \/ Frame(b) \/ Hang(b)
    BY <2>3 DEF Pump, PumpTakes, PumpWrote, PumpCancelled, Frame, Hang
  <2>4. CASE \E c \in Child : ChildDies(b, c)
    BY <2>4 DEF ChildDies
  <2> QED BY <2>1, <2>2, <2>3, <2>4 DEF BridgeStep, RunBridge
<1> QED BY <1>1, <1>2 DEF EndInv

\* No step breaks it.
LEMMA EndStep == TypeOK /\ HoldInv /\ EndInv /\ [Next]_vars => EndInv'
<1> SUFFICES ASSUME TypeOK, HoldInv, EndInv, [Next]_vars PROVE EndInv'
  OBVIOUS
<1>1. ASSUME NEW b \in Bridge, FwdStep(b) PROVE EndInv'
  BY <1>1 DEF FwdStep, Forward, ForwarderEnds, EndInv, TypeOK, super, process
<1>2. CASE Outside \/ UNCHANGED vars
  BY <1>2 DEF Outside, FireToken, SetDemodMode, SetDrmFlipSpectrum, vars, EndInv, super, process
<1> QED BY <1>1, <1>2, Steps, EndSupervise, EndBridge

\* Stopping a bridge never comes to wait for a task that cannot move, not even
\* with a pacat that takes nothing more: the kills come before the joins
\* (drm.rs:549).
THEOREM TeardownNotStuck == Spec => []TeardownMoves
<1>1. Init => TypeOK /\ HoldInv /\ EndInv
  <2>1. Init => EndInv
    BY DEF Init, EndInv, Bridge, None
  <2> QED BY <2>1, TypeInit, HoldInit
<1>2. TypeOK /\ HoldInv /\ EndInv /\ [Next]_vars => (TypeOK /\ HoldInv /\ EndInv)'
  BY TypeStep, HoldStep, EndStep
<1>3. TypeOK /\ HoldInv /\ EndInv => TeardownMoves
  <2> SUFFICES ASSUME TypeOK, HoldInv, EndInv, tearing # None PROVE TeardownMoves
    BY DEF TeardownMoves
  <2>1. tearing \in Bridge /\ tearing <= spawned /\ sup \in Stopping /\ tearing \in fired
    BY DEF TypeOK, HoldInv, EndInv
  <2>2. bridge[tearing] # "none" /\ fwd[tearing] # "none"
    BY <2>1 DEF EndInv
  <2> QED BY <2>1, <2>2 DEF EndInv, TypeOK, TeardownMoves, Stopping
<1> QED BY <1>1, <1>2, <1>3, PTL DEF Spec
=============================================================================
