------------------------------- MODULE Tuning -------------------------------
(***************************************************************************)
(* Who tunes what, and who is told.  Commands from a client's control bar, *)
(* from the two rigctld fronts and from the radio's own panel meet at the  *)
(* radio; each poll publishes its state on a broadcast channel, from which *)
(* the tuning forwarder and the snapshot tracker take it in their own time *)
(* (server/src/pipeline.rs, server/src/ws/upstream.rs,                     *)
(* client/src/ui/controls.rs).                                             *)
(*                                                                         *)
(* The CAT tasks appear as the channel and the commands carried out in     *)
(* order; CatTasks has their detail.                                       *)
(***************************************************************************)
EXTENDS Rigctld

CONSTANTS
  BarMode,   \* modes with a button in the mode bar
  Lag,       \* capacity of the state broadcast channel (16)
  FirstFreq, \* bound: the frequencies and
  Start,     \* modes the radio may be at to begin with; AGC is off there and
             \* on in the file, so that the two differ
  MaxInputs  \* bound: things people, programs and failures do

ASSUME BarAssumption == BarMode \subseteq RadioMode \cup SoftMode
ASSUME TuningAssumption == Start \subseteq RadioMode /\ FirstFreq \subseteq Freq /\ Lag \in Nat \ {0} /\ MaxInputs \in Nat

Target     == {"Radio", "DemodMirrorFreq"} \* control_target_for the FDM-DUO
Subscriber == {"forwarder", "tracker"}
Upstream   == [kind : {"demod"}, mode : Mode] \cup [kind : {"cat"}, cmd : Command]

VARIABLES
  target,   \* control_target, fixed at start
  radio,    \* what the radio is set to
  agc,      \* its AGC
  own,      \* history: the mode and AGC it would have but for the client
  news,     \* per subscriber: states published and not taken
  tuning,   \* demod_tuning_tx
  snapshot, \* freq and mode of the session snapshot
  snapDue,  \* the client's downstream has the snapshot to send
  caps,     \* the client has the capabilities of this connection
  bar,      \* pressed mode buttons
  saved,    \* agc of sdr_params
  wire,     \* messages from the client the server has not handled
  crossed,  \* history: a command was lost, or another than the client set the mode
  inputs

server == <<target, radio, agc, own, news, tuning, snapshot, snapDue, crossed>>
ui     == <<caps, bar, saved, wire>>
rest   == <<target, radio, agc, own, news, tuning, snapshot, snapDue,
            caps, bar, saved, wire, crossed, inputs>>
vars   == <<rig, rest>>

NoTuning == [mode |-> None, freq |-> 0]
Tunings  == [mode : Mode, freq : Freq] \cup {NoTuning}

TypeOK ==
  /\ RigTypeOK
  /\ target \in Target /\ radio \in State /\ agc \in BOOLEAN
  /\ own \in [mode : RadioMode, agc : BOOLEAN]
  /\ news \in [Subscriber -> Seq(State)] /\ \A s \in Subscriber : Len(news[s]) <= Lag
  /\ tuning \in Tunings
  /\ snapshot \in State /\ snapDue \in BOOLEAN
  /\ caps \in BOOLEAN /\ bar \in SUBSET BarMode /\ Cardinality(bar) <= 1
  /\ saved \in BOOLEAN
  /\ wire \in Seq(Upstream)
  /\ crossed \in BOOLEAN /\ inputs \in 0..MaxInputs

Init ==
  /\ RigInit
  /\ target \in Target
  /\ radio \in [freq : FirstFreq, mode : Start] /\ agc = FALSE
  /\ own = [mode |-> radio.mode, agc |-> agc]
  /\ news = [s \in Subscriber |-> <<>>]
  /\ tuning = NoTuning
  /\ snapshot = radio /\ snapDue = TRUE
  /\ caps = FALSE /\ bar = {} /\ saved = TRUE /\ wire = <<>>
  /\ crossed = FALSE /\ inputs = 0

Input == inputs < MaxInputs /\ inputs' = inputs + 1

-----------------------------------------------------------------------------
(* The radio.                                                              *)

\* Broadcast: a subscriber that lags loses the oldest.
Published(st) ==
  news' = [s \in Subscriber |->
             LET q == Append(news[s], st) IN IF Len(q) > Lag THEN Tail(q) ELSE q]

Poll ==
  /\ ~cancelled
  /\ Published(radio)
  /\ UNCHANGED <<rig, target, radio, agc, own, tuning, snapshot, snapDue, crossed, ui, inputs>>

\* The command task takes a command and publishes the state after it.
CatRun ==
  /\ cat # <<>> /\ catOpen /\ cat' = Tail(cat)
  /\ LET k == Head(cat)
         \* r with the register of k set to its value, if r has it.
         After(r) == IF k.reg \in DOMAIN r THEN [r EXCEPT ![k.reg] = k.val] ELSE r IN
       /\ radio' = After(radio)
       /\ own' = IF k.by = "client" THEN own ELSE After(own)
       /\ agc' = IF k.reg = "agc" THEN k.val ELSE agc
       /\ crossed' = (crossed \/ (k.by = "program" /\ k.reg = "mode"))
  /\ Published(radio')
  /\ UNCHANGED <<conn, catOpen, override, cancelled,
                 target, tuning, snapshot, snapDue, ui, inputs>>

\* A command the radio does not answer is logged and forgotten.
CatLost ==
  /\ Input
  /\ cat # <<>> /\ catOpen /\ cat' = Tail(cat)
  /\ crossed' = TRUE
  /\ UNCHANGED <<conn, catOpen, override, cancelled,
                 target, radio, agc, own, news, tuning, snapshot, snapDue, ui>>

\* The operator at the radio; the frequency or the mode changes.
Panel ==
  /\ Input
  /\ radio' \in State \ {radio}
  /\ own' = IF radio'.mode = radio.mode THEN own ELSE [own EXCEPT !.mode = radio'.mode]
  /\ crossed' = TRUE
  /\ UNCHANGED <<rig, target, agc, news, tuning, snapshot, snapDue, ui>>

-----------------------------------------------------------------------------
(* The tasks of the pipeline that take the published states.               *)

Took(s) == news[s] # <<>> /\ news' = [news EXCEPT ![s] = Tail(@)]

\* The demodulator's mode: the client's, or else the radio's.
InForce(st) == IF override = None THEN st.mode ELSE override

\* MUTANT of Forward: the radio's mode wins over the client's.
ForwardMutant ==
  /\ ~cancelled /\ Took("forwarder")
  /\ LET st == Head(news["forwarder"]) IN
       tuning' = st
  /\ UNCHANGED <<rig, target, radio, agc, own, snapshot, snapDue, crossed, ui, inputs>>

\* The tuning forwarder.
Forward ==
  /\ ~cancelled /\ Took("forwarder")
  /\ LET st == Head(news["forwarder"]) IN
       tuning' = [freq |-> st.freq, mode |-> InForce(st)]
  /\ UNCHANGED <<rig, target, radio, agc, own, snapshot, snapDue, crossed, ui, inputs>>

\* The snapshot tracker: send_if_modified.
Track ==
  /\ ~cancelled /\ Took("tracker")
  /\ snapshot' = Head(news["tracker"])
  /\ snapDue' = (snapDue \/ snapshot' # snapshot)
  /\ UNCHANGED <<rig, target, radio, agc, own, tuning, crossed, ui, inputs>>

-----------------------------------------------------------------------------
(* Upstream.                                                               *)

\* MUTANT of Routed: every command goes to the radio.
RoutedMutant(cmd) == TRUE

\* cat_route_for.
Routed(cmd) == target = "Radio" \/ cmd.reg = "freq"

UpDemod ==
  /\ ~cancelled /\ wire # <<>> /\ Head(wire).kind = "demod"
  /\ override' = Head(wire).mode
  /\ wire' = Tail(wire)
  /\ UNCHANGED <<conn, cat, catOpen, cancelled, server, caps, bar, saved, inputs>>

UpCat ==
  /\ ~cancelled /\ wire # <<>> /\ Head(wire).kind = "cat"
  /\ IF Routed(Head(wire).cmd)
       THEN catOpen /\ Len(cat) < CatCapacity /\ cat' = Append(cat, Head(wire).cmd)
       ELSE UNCHANGED cat
  /\ wire' = Tail(wire)
  /\ UNCHANGED <<conn, catOpen, override, cancelled, server, caps, bar, saved, inputs>>

-----------------------------------------------------------------------------
(* The control bar.                                                        *)

Cat(cmd) == [kind |-> "cat", cmd |-> cmd]
Agc(on)  == Cat(Set("client", "agc", on))

\* apply_capabilities: the AGC of sdr_params goes to the radio, again at
\* every connection.
Greet ==
  /\ ~cancelled /\ ~caps /\ caps' = TRUE
  /\ wire' = IF target = "Radio" THEN Append(wire, Agc(saved)) ELSE wire
  /\ UNCHANGED <<rig, server, bar, saved, inputs>>

\* The connection is lost and made again; the messages still to be sent
\* stay queued in the client.
Reconnect ==
  /\ Input
  /\ caps' = FALSE /\ snapDue' = TRUE
  /\ UNCHANGED <<rig, target, radio, agc, own, news, tuning, snapshot, crossed,
                 bar, saved, wire>>

\* build_mode_buttons: a click on the pressed button presses it again.
ClickMode(m) ==
  /\ Input
  /\ IF m \in bar THEN UNCHANGED <<bar, wire>>
     ELSE bar' = {m} /\ wire' = wire \o <<[kind |-> "demod", mode |-> m], Cat(Set("client", "mode", ModeToCat(m)))>>
  /\ UNCHANGED <<rig, server, caps, saved>>

EnterFreq(f) ==
  /\ Input
  /\ wire' = Append(wire, Cat(Set("client", "freq", f)))
  /\ UNCHANGED <<rig, server, caps, bar, saved>>

\* The AGC tile can be clicked before the capabilities say otherwise.
EnterAgc(on) ==
  /\ Input
  /\ caps => target = "Radio"
  /\ saved' = on
  /\ wire' = Append(wire, Agc(on))
  /\ UNCHANGED <<rig, server, caps, bar>>

\* apply_snapshot, with the toggle handlers suppressed.
ShowSnapshot ==
  /\ ~cancelled /\ caps /\ snapDue /\ snapDue' = FALSE
  /\ bar' = {snapshot.mode} \cap BarMode
  /\ UNCHANGED <<rig, target, radio, agc, own, news, tuning, snapshot, crossed,
                 caps, saved, wire, inputs>>

-----------------------------------------------------------------------------
(* Programs and the end of the pipeline.                                   *)

\* A program connects, writes a line, goes away.
Program(c) ==
  /\ Accept(c) \/ WriteFails(c) \/ (~cancelled /\ EndConn(c))
  /\ UNCHANGED rest

Write(c, l) ==
  /\ Input /\ ReadLine(c, l)
  /\ UNCHANGED <<server, ui>>

\* An answer is written: at once, or when the program has read others.
Answer(c) == Answered(c) /\ UNCHANGED rest

\* What a task of a connection owes.
Conclude(c) ==
  /\ Sent(c) \/ (cancelled /\ EndConn(c))
  /\ UNCHANGED rest

Cancel ==
  /\ Input
  /\ ~cancelled /\ cancelled' = TRUE
  /\ UNCHANGED <<conn, cat, catOpen, override, server, ui>>

\* run_commands sees the token between two batches; its receiver goes with it.
CatEnds ==
  /\ cancelled /\ catOpen /\ catOpen' = FALSE
  /\ cat' = <<>>
  /\ UNCHANGED <<conn, override, cancelled, rest>>

User == Reconnect \/ (\E m \in BarMode : ClickMode(m)) \/ (\E f \in Freq : EnterFreq(f))
        \/ (\E on \in BOOLEAN : EnterAgc(on))

Next ==
  \/ Poll \/ CatRun \/ CatLost \/ Panel
  \/ Forward \/ Track \/ UpDemod \/ UpCat
  \/ Greet \/ ShowSnapshot \/ User
  \/ \E c \in Client : Program(c) \/ Answer(c) \/ Conclude(c) \/ \E l \in Line : Write(c, l)
  \/ Cancel \/ CatEnds

\* Every task of the server and the client's loop keep running, and a program
\* that reads its answers makes room for the next; people, other programs and
\* failures owe nothing.
Fairness ==
  /\ WF_vars(Poll) /\ WF_vars(CatRun)
  /\ WF_vars(Forward) /\ WF_vars(Track)
  /\ WF_vars(UpDemod \/ UpCat) /\ WF_vars(Greet) /\ WF_vars(ShowSnapshot)
  /\ WF_vars(CatEnds) /\ \A c \in Client : WF_vars(Conclude(c))
  /\ \A c \in Reader : WF_vars(Answer(c))

Spec == Init /\ [][Next]_vars /\ Fairness

-----------------------------------------------------------------------------
(* Properties.                                                             *)

\* While the demodulator is what the client controls, nothing the client
\* does, reconnecting included, changes the radio's mode or AGC: "we don't
\* want the user's click to silently alter the radio's hidden state".
HiddenRadioKept ==
  target = "DemodMirrorFreq" => radio.mode = own.mode /\ agc = own.agc

\* What everyone shows and uses is the radio's state: the demodulator works
\* with the mode in force and the radio's frequency, and where the
\* radio is controlled the pressed mode button is one for the radio's mode.
Agree ==
  /\ wire = <<>> /\ cat = <<>>
  /\ tuning = [freq |-> radio.freq, mode |-> InForce(radio)]
  /\ target = "Radio" /\ ~crossed => \E m \in bar : ModeToCat(m) = radio.mode

\* Once people stop, everyone agrees for good, whatever overtook what on the
\* ways a state is spread (the bar only if none but the client set the
\* mode: the tracker may miss a mode that did not last).
AllAgree == <>[](cancelled \/ Agree)

\* After cancellation no connection lingers, not even one that waits for room
\* in the CAT channel, where it does not watch the token; but for one whose
\* program leaves its answers unread, which the token does not reach either.
ConnsEnd ==
  cancelled ~> \A c \in Client :
                 conn[c] = NoConn \/ (c \notin Reader /\ conn[c] = Answering)
=============================================================================
