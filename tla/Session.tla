------------------------------ MODULE Session ------------------------------
(***************************************************************************)
(* What several clients see and change of one server: the toggles of the   *)
(* session snapshot, the device list and the recording status.             *)
(*                                                                         *)
(* On the server (server/src/ws) each client has an upstream task, which   *)
(* takes its messages in order and changes the shared watch channels, and  *)
(* a downstream task, which greets it with the current values and then     *)
(* sends each channel's latest value when it has changed.  On the client   *)
(* (client/src/ws.rs, main.rs, ui/controls.rs) a thread keeps the          *)
(* connection, with a queue of messages to send that outlives it and a     *)
(* bounded inbox; the GTK loop empties the inbox into the widgets, whose   *)
(* handlers send a message when the user, and not the server, moves them.  *)
(*                                                                         *)
(* A SelectDevice ends in a new process (see Lifecycle, which has the      *)
(* steps of the stop); state.toml is one register here (see StateFile).    *)
(***************************************************************************)
EXTENDS Naturals, Sequences

CONSTANTS
  Client,
  Toggle,      \* noise blanker, filters, decoders: what the snapshot switches
  Device, NoDevice,
  Nothing,     \* no value of a channel, no saved session, nothing in hand
  MaxActs,     \* bound: what users and the world do in a behaviour
  MaxFaults    \* bound: connections lost and inboxes that overflow

\* The watch channels a client follows, with the widgets that show them.
Kind    == {"devices", "snapshot", "recording"}
Greeted == {"devices", "snapshot"}            \* those it is told on connecting

Snapshot == [on : SUBSET Toggle, device : Device \cup {NoDevice}]
Devices  == [present : SUBSET Device, active : Device \cup {NoDevice}]
ValueOf(k) == CASE k = "devices" -> Devices [] k = "snapshot" -> SUBSET Toggle [] k = "recording" -> BOOLEAN
Msg == [op : {"set"}, toggle : Toggle, on : BOOLEAN] \cup [op : {"record"}, on : BOOLEAN]
         \cup [op : {"select"}, device : Device] \cup [op : {"enumerate", "save", "load"}]

ASSUME NothingAssumption ==
  /\ \A s \in Snapshot : s # Nothing
  /\ \A k \in Kind : \A v \in ValueOf(k) : v # Nothing
ASSUME NoDeviceAssumption == NoDevice \notin Device
ASSUME BoundAssumption   == MaxActs \in Nat /\ MaxFaults \in Nat

VARIABLES
  snap,      \* snapshot_tx
  devs,      \* device_list_tx
  rec,       \* whether the recorder records (rec_status_tx)
  restart,   \* restart_requested_tx
  saved,     \* state.toml
  plugged,   \* devices discovery would find
  link,      \* per client: whether it is connected
  hand,      \* per client: the device list its upstream task is about to send
  due,       \* per client: what its downstream task has to send
  out,       \* per client: messages not yet handled, oldest first
  inbox,     \* per client: the latest value of each channel in its inbox
  lost,      \* per client: channels whose latest value its inbox forgot
  shown,     \* per client: what its widgets show
  clicked,   \* per client: where its user last put each toggle
  replaced,  \* the snapshot was replaced or a message lost
  acts, faults

shared  == <<snap, devs, rec, restart, saved>>
session == <<link, hand, due>>
client  == <<out, inbox, lost, shown>>
history == <<clicked, replaced>>
bounds  == <<acts, faults>>
vars    == <<shared, plugged, session, client, history, bounds>>

\* The latest value of a channel, as far as clients show it.
Latest(k) == CASE k = "devices" -> devs [] k = "snapshot" -> snap.on [] k = "recording" -> rec

\* validate: a saved device that is not in the list is cleared.
Validated(s, present) == [s EXCEPT !.device = IF @ \in present THEN @ ELSE NoDevice]

\* The session and the device list of a process that starts.
Resumed(s) == IF s = Nothing THEN [on |-> {}, device |-> NoDevice] ELSE Validated(s, plugged)
Discovered(s) == [present |-> plugged, active |-> Resumed(s).device]

Init ==
  /\ saved \in {Nothing} \cup Snapshot /\ plugged = Device
  /\ snap = Resumed(saved) /\ devs = Discovered(saved)
  /\ rec = FALSE /\ restart = FALSE
  /\ link = [c \in Client |-> "down"] /\ hand = [c \in Client |-> Nothing]
  /\ due = [c \in Client |-> {}] /\ out = [c \in Client |-> <<>>]
  /\ inbox = [c \in Client |-> [k \in Kind |-> Nothing]] /\ lost = [c \in Client |-> {}]
  /\ shown = [c \in Client |-> [k \in Kind |->
       CASE k = "devices"   -> [present |-> {}, active |-> NoDevice]
         [] k = "snapshot"  -> {}
         [] k = "recording" -> FALSE]]
  /\ clicked = [c \in Client |-> [t \in Toggle |-> "none"]] /\ replaced = FALSE
  /\ acts = 0 /\ faults = 0

-----------------------------------------------------------------------------
(* The user of a client, and other programs that speak its protocol.       *)

Act == acts < MaxActs /\ acts' = acts + 1 /\ UNCHANGED faults

Switched(S, t) == IF t \in S THEN S \ {t} ELSE S \cup {t}

\* The user presses a toggle: the button moves and its handler queues a message.
Click(c, t) ==
  /\ Act
  /\ LET on == t \notin shown[c]["snapshot"] IN
       /\ out' = [out EXCEPT ![c] = Append(@, [op |-> "set", toggle |-> t, on |-> on])]
       /\ clicked' = [clicked EXCEPT ![c][t] = IF on THEN "on" ELSE "off"]
  /\ shown' = [shown EXCEPT ![c]["snapshot"] = Switched(@, t)]
  /\ UNCHANGED <<shared, plugged, session, inbox, lost, replaced>>

PressRec(c) ==
  /\ Act
  /\ out' = [out EXCEPT ![c] = Append(@, [op |-> "record", on |-> ~shown[c]["recording"]])]
  /\ shown' = [shown EXCEPT ![c]["recording"] = ~@]
  /\ UNCHANGED <<shared, plugged, session, inbox, lost, history>>

\* The device picker offers the list last received.
Pick(c, d) ==
  /\ Act
  /\ d \in shown[c]["devices"].present
  /\ out' = [out EXCEPT ![c] = Append(@, [op |-> "select", device |-> d])]
  /\ UNCHANGED <<shared, plugged, session, inbox, lost, shown, history>>

\* The messages of the protocol that have no widget.
Ask(c, op) ==
  /\ Act
  /\ out' = [out EXCEPT ![c] = Append(@, [op |-> op])]
  /\ UNCHANGED <<shared, plugged, session, inbox, lost, shown, history>>

\* A device comes or goes.
Plug(d) ==
  /\ Act
  /\ plugged' = Switched(plugged, d)
  /\ UNCHANGED <<shared, session, client, history>>

-----------------------------------------------------------------------------
(* The upstream task.                                                      *)

\* A change of a channel is noticed by every connected client's downstream.
Changed(K) == due' = [c \in Client |-> IF link[c] = "up" THEN due[c] \cup K ELSE due[c]]

\* The next message of a client, taken when the one before has been handled.
Receive(c, op) ==
  /\ link[c] = "up" /\ hand[c] = Nothing /\ out[c] # <<>> /\ Head(out[c]).op = op
  /\ out' = [out EXCEPT ![c] = Tail(@)]

Set(c) ==
  /\ Receive(c, "set")
  /\ LET m == Head(out[c]) IN
       snap' = [snap EXCEPT !.on = IF m.on THEN @ \cup {m.toggle} ELSE @ \ {m.toggle}]
  /\ Changed({"snapshot"})
  /\ UNCHANGED <<devs, rec, restart, saved, plugged, link, hand, inbox, lost, shown, history, bounds>>

\* The recorder publishes a status after a start, also one that fails, and
\* after a stop.
Record(c) ==
  /\ Receive(c, "record")
  /\ rec' \in {FALSE, Head(out[c]).on} /\ Changed({"recording"})
  /\ UNCHANGED <<snap, devs, restart, saved, plugged, link, hand, inbox, lost, shown, history, bounds>>

Select(c) ==
  /\ Receive(c, "select")
  /\ LET d == Head(out[c]).device IN
       snap' = [snap EXCEPT !.device = d] /\ devs' = [devs EXCEPT !.active = d]
  /\ restart' = TRUE /\ Changed({"snapshot", "devices"})
  /\ UNCHANGED <<rec, saved, plugged, link, hand, inbox, lost, shown, history, bounds>>

\* The active device is read with the fresh list and sent in a second step.
Enumerate(c) ==
  /\ Receive(c, "enumerate")
  /\ hand' = [hand EXCEPT ![c] = [present |-> plugged, active |-> devs.active]]
  /\ UNCHANGED <<shared, plugged, link, due, inbox, lost, shown, history, bounds>>

SendDevices(c) ==
  /\ hand[c] # Nothing
  /\ devs' = hand[c] /\ hand' = [hand EXCEPT ![c] = Nothing]
  /\ Changed({"devices"})
  /\ UNCHANGED <<snap, rec, restart, saved, plugged, link, client, history, bounds>>

SaveState(c) ==
  /\ Receive(c, "save")
  /\ saved' \in {saved, snap}
  /\ UNCHANGED <<snap, devs, rec, restart, plugged, session, inbox, lost, shown, history, bounds>>

LoadState(c) ==
  /\ Receive(c, "load") /\ saved # Nothing
  /\ snap' = Validated(saved, devs.present) /\ replaced' = TRUE
  /\ Changed({"snapshot"})
  /\ UNCHANGED <<devs, rec, restart, saved, plugged, link, hand, inbox, lost, shown, clicked, bounds>>

NothingToLoad(c) ==
  /\ Receive(c, "load") /\ saved = Nothing
  /\ UNCHANGED <<shared, plugged, session, inbox, lost, shown, history, bounds>>

Upstream(c) ==
  \/ Set(c) \/ Record(c) \/ Select(c) \/ Enumerate(c) \/ SendDevices(c)
  \/ SaveState(c) \/ LoadState(c) \/ NothingToLoad(c)

-----------------------------------------------------------------------------
(* The downstream task and the client's connection and GTK loop.           *)

\* MUTANT of Connect: a new client hears of changes only, as with the recording status.
ConnectMutant(c) ==
  /\ link[c] = "down" /\ hand[c] = Nothing /\ ~restart
  /\ link' = [link EXCEPT ![c] = "up"] /\ due' = [due EXCEPT ![c] = {}]
  /\ UNCHANGED <<shared, plugged, hand, client, history, bounds>>

\* handle_client subscribes to the channels, the greeting comes after.
Connect(c) ==
  /\ link[c] = "down" /\ hand[c] = Nothing /\ ~restart
  /\ link' = [link EXCEPT ![c] = "up"] /\ due' = [due EXCEPT ![c] = {"greeting"}]
  /\ UNCHANGED <<shared, plugged, hand, client, history, bounds>>

\* Values reach the inbox, where each makes older ones of its channel moot.
Arrive(c, K) ==
  /\ inbox' = [inbox EXCEPT ![c] = [k \in Kind |-> IF k \in K THEN Latest(k) ELSE @[k]]]
  /\ lost' = [lost EXCEPT ![c] = @ \ K]

Greet(c) ==
  /\ "greeting" \in due[c]
  /\ Arrive(c, Greeted) /\ due' = [due EXCEPT ![c] = @ \ ({"greeting"} \cup Greeted)]
  /\ UNCHANGED <<shared, plugged, link, hand, out, shown, history, bounds>>

Push(c, k) ==
  /\ "greeting" \notin due[c] /\ k \in due[c]
  /\ Arrive(c, {k}) /\ due' = [due EXCEPT ![c] = @ \ {k}]
  /\ UNCHANGED <<shared, plugged, link, hand, out, shown, history, bounds>>

\* MUTANT of Apply: the widgets' handlers stay on, so a toggle that is moved by the
\* server's news sends them back.
ApplyMutant(c) ==
  /\ \E k \in Kind : inbox[c][k] # Nothing
  /\ shown' = [shown EXCEPT ![c] = [k \in Kind |-> IF inbox[c][k] = Nothing THEN @[k] ELSE inbox[c][k]]]
  /\ inbox' = [inbox EXCEPT ![c] = [k \in Kind |-> Nothing]]
  /\ \E echo \in {<<>>} \cup {<<[op |-> "set", toggle |-> t, on |-> t \in shown'[c]["snapshot"]]>> :
                                t \in {u \in Toggle : (u \in shown[c]["snapshot"]) # (u \in shown'[c]["snapshot"])}} :
       out' = [out EXCEPT ![c] = @ \o echo]
  /\ UNCHANGED <<shared, plugged, session, lost, history, bounds>>

\* The GTK loop empties the inbox into the widgets, with their handlers off.
Apply(c) ==
  /\ \E k \in Kind : inbox[c][k] # Nothing
  /\ shown' = [shown EXCEPT ![c] = [k \in Kind |-> IF inbox[c][k] = Nothing THEN @[k] ELSE inbox[c][k]]]
  /\ inbox' = [inbox EXCEPT ![c] = [k \in Kind |-> Nothing]]
  /\ UNCHANGED <<shared, plugged, session, out, lost, history, bounds>>

Fault == faults < MaxFaults /\ faults' = faults + 1 /\ UNCHANGED acts

\* Audio and spectrum frames fill the inbox while the GTK loop stands still,
\* and the older half of it is dropped, with whatever is in that half.
Overflow(c) ==
  /\ Fault
  /\ \E K \in SUBSET {k \in Kind : inbox[c][k] # Nothing} \ {{}} :
       /\ inbox' = [inbox EXCEPT ![c] = [k \in Kind |-> IF k \in K THEN Nothing ELSE @[k]]]
       /\ lost' = [lost EXCEPT ![c] = @ \cup K]
  /\ UNCHANGED <<shared, plugged, session, out, shown, history>>

\* The connection fails, the server gives a slow client up or stops: what was on
\* its way is gone, the rest of the client's queue waits for the next connection.
Drop(c) ==
  /\ link[c] = "up"
  /\ IF restart THEN UNCHANGED bounds ELSE Fault
  /\ \E n \in 0..Len(out[c]) :
       /\ out' = [out EXCEPT ![c] = SubSeq(@, n + 1, Len(@))]
       /\ replaced' = (replaced \/ n > 0)
  /\ link' = [link EXCEPT ![c] = "down"] /\ due' = [due EXCEPT ![c] = {}]
  /\ UNCHANGED <<shared, plugged, hand, inbox, lost, shown, clicked>>

\* The process ends and systemd starts another: it loads what was saved, which
\* may or may not be the last snapshot, and records nothing.
Respawn ==
  /\ restart /\ \A c \in Client : link[c] = "down" /\ hand[c] = Nothing
  /\ restart' = FALSE
  /\ saved' \in {saved, snap}
  /\ snap' = Resumed(saved') /\ devs' = Discovered(saved')
  /\ rec' = FALSE
  /\ replaced' = TRUE
  /\ UNCHANGED <<plugged, session, client, clicked, bounds>>

Downstream(c) == Greet(c) \/ \E k \in Kind : Push(c, k)

UserStep(c) ==
  \/ PressRec(c)
  \/ \E t \in Toggle : Click(c, t)
  \/ \E d \in Device : Pick(c, d)
  \/ \E op \in {"enumerate", "save", "load"} : Ask(c, op)

Next ==
  \/ Respawn \/ \E d \in Device : Plug(d)
  \/ \E c \in Client : Upstream(c) \/ Downstream(c) \/ Connect(c) \/ Apply(c)
                         \/ Overflow(c) \/ Drop(c) \/ UserStep(c)

Spec == Init /\ [][Next]_vars

-----------------------------------------------------------------------------
(* Properties.                                                             *)

TypeOK ==
  /\ snap \in Snapshot /\ devs \in Devices /\ rec \in BOOLEAN
  /\ restart \in BOOLEAN
  /\ saved \in Snapshot \cup {Nothing} /\ plugged \subseteq Device
  /\ link \in [Client -> {"up", "down"}] /\ hand \in [Client -> Devices \cup {Nothing}]
  /\ due \in [Client -> SUBSET (Kind \cup {"greeting"})]
  /\ out \in [Client -> Seq(Msg)]
  /\ \A c \in Client, k \in Kind : inbox[c][k] = Nothing \/ inbox[c][k] \in ValueOf(k)
  /\ \A c \in Client, k \in Kind : shown[c][k] \in ValueOf(k)
  /\ lost \in [Client -> SUBSET Kind]
  /\ clicked \in [Client -> [Toggle -> {"none", "on", "off"}]] /\ replaced \in BOOLEAN
  /\ acts \in 0..MaxActs /\ faults \in 0..MaxFaults

\* Nothing of a client is under way in either direction.
Quiet(c) ==
  /\ link[c] = "up" /\ out[c] = <<>> /\ hand[c] = Nothing
  /\ due[c] = {} /\ \A k \in Kind : inbox[c][k] = Nothing

\* Whoever changed what, whatever was clicked meanwhile, lost on the way or
\* replayed after it: a client with nothing under way shows the toggles and the
\* device list as the server has them, unless its own inbox forgot them.
ShowsSession ==
  \A c \in Client : Quiet(c) => \A k \in Greeted \ lost[c] : shown[c][k] = Latest(k)

\* Nobody's widgets talk back: once everything said is handled, a toggle that
\* was clicked is where the last click of one of the users put it.
ClicksStand ==
  (\A c \in Client : out[c] = <<>>) /\ ~replaced =>
    \A t \in Toggle :
      \/ \A c \in Client : clicked[c][t] = "none"
      \/ \E c \in Client : clicked[c][t] = IF t \in snap.on THEN "on" ELSE "off"
=============================================================================
