--------------------------- MODULE SessionProofs ---------------------------
(***************************************************************************)
(* Proofs about Session, for any clients, toggles and devices: its state   *)
(* is well-typed, and a client with nothing under way shows the session.   *)
(***************************************************************************)
EXTENDS Session, TLAPS

\* What TypeOK says of the values in the inboxes and the widgets, as functions.
Shaped ==
  /\ inbox = [c \in Client |-> [k \in Kind |-> inbox[c][k]]]
  /\ shown = [c \in Client |-> [k \in Kind |-> shown[c][k]]]

Typed == TypeOK /\ Shaped

LEMMA ResumedType ==
  ASSUME NEW s, s \in Snapshot \cup {Nothing}, plugged \subseteq Device
  PROVE  Resumed(s) \in Snapshot /\ Discovered(s) \in Devices
BY DEF Resumed, Discovered, Validated, Snapshot, Devices

LEMMA TypeInit == Init => Typed
<1> SUFFICES ASSUME Init PROVE Typed
  OBVIOUS
<1>1. snap \in Snapshot /\ devs \in Devices /\ saved \in Snapshot \cup {Nothing} /\ plugged \subseteq Device
  BY ResumedType DEF Init
<1>2. \A c \in Client, k \in Kind : inbox[c][k] = Nothing /\ shown[c][k] \in ValueOf(k)
  <2> SUFFICES ASSUME NEW c \in Client, NEW k \in Kind
               PROVE  inbox[c][k] = Nothing /\ shown[c][k] \in ValueOf(k)
    OBVIOUS
  <2>1. inbox[c][k] = Nothing
    BY DEF Init
  <2>2. shown[c][k] = CASE k = "devices"   -> [present |-> {}, active |-> NoDevice]
                        [] k = "snapshot"  -> {}
                        [] k = "recording" -> FALSE
    BY DEF Init
  <2>3. CASE k = "devices"
    BY <2>1, <2>2, <2>3 DEF ValueOf, Devices
  <2>4. CASE k = "snapshot"
    BY <2>1, <2>2, <2>4 DEF ValueOf
  <2>5. CASE k = "recording"
    BY <2>1, <2>2, <2>5 DEF ValueOf
  <2> QED BY <2>3, <2>4, <2>5 DEF Kind
<1>3. Shaped
  <2>1. inbox = [c \in Client |-> [k \in Kind |-> inbox[c][k]]]
    <3>1. inbox = [c \in Client |-> [k \in Kind |-> Nothing]]
      BY DEF Init
    <3> QED BY <3>1, Zenon
  <2>2. shown = [c \in Client |-> [k \in Kind |-> shown[c][k]]]
    <3> DEFINE first(k) == CASE k = "devices"   -> [present |-> {}, active |-> NoDevice]
                             [] k = "snapshot"  -> {}
                             [] k = "recording" -> FALSE
    <3>1. shown = [c \in Client |-> [k \in Kind |-> first(k)]]
      BY DEF Init
    <3> HIDE DEF first
    <3> QED BY <3>1, Zenon
  <2> QED BY <2>1, <2>2 DEF Shaped
<1>4. clicked \in [Client -> [Toggle -> {"none", "on", "off"}]]
  BY DEF Init
<1>5. due \in [Client -> SUBSET (Kind \cup {"greeting"})] /\ lost \in [Client -> SUBSET Kind]
        /\ out \in [Client -> Seq(Msg)] /\ hand \in [Client -> Devices \cup {Nothing}]
        /\ link \in [Client -> {"up", "down"}]
  BY DEF Init
<1>6. rec \in BOOLEAN /\ restart \in BOOLEAN /\ replaced \in BOOLEAN
  BY Zenon DEF Init
<1>7. acts \in 0..MaxActs /\ faults \in 0..MaxFaults
  <2>1. acts = 0 /\ faults = 0
    BY Zenon DEF Init
  <2> QED BY <2>1, BoundAssumption
<1> QED BY <1>1, <1>2, <1>3, <1>4, <1>5, <1>6, <1>7 DEF Typed, TypeOK

-----------------------------------------------------------------------------
\* A widget that is moved keeps the others as they are.
LEMMA MoveType ==
  ASSUME Typed, NEW c \in Client, NEW k \in {"snapshot", "recording"}, NEW v \in ValueOf(k),
         shown' = [shown EXCEPT ![c][k] = v], inbox' = inbox
  PROVE  /\ Shaped'
         /\ \A d \in Client, j \in Kind : shown'[d][j] = IF d = c /\ j = k THEN v ELSE shown[d][j]
         /\ \A d \in Client, j \in Kind : shown'[d][j] \in ValueOf(j)
<1>1. shown' = [d \in Client |-> [j \in Kind |-> IF d = c /\ j = k THEN v ELSE shown[d][j]]]
  BY DEF Typed, Shaped, Kind
<1>2. \A d \in Client, j \in Kind : shown'[d][j] = IF d = c /\ j = k THEN v ELSE shown[d][j]
  BY <1>1
<1>3. shown' = [d \in Client |-> [j \in Kind |-> shown'[d][j]]]
  BY <1>1, Zenon
<1>4. inbox' = [d \in Client |-> [j \in Kind |-> inbox'[d][j]]]
  BY DEF Typed, Shaped
<1>5. \A d \in Client, j \in Kind : shown'[d][j] \in ValueOf(j)
  BY <1>2 DEF Typed, TypeOK
<1> QED BY <1>2, <1>3, <1>4, <1>5 DEF Shaped

\* The user's steps keep the types.
LEMMA TypeUser ==
  ASSUME Typed, NEW c \in Client, UserStep(c)
  PROVE  Typed'
<1> USE BoundAssumption DEF Typed, TypeOK, Act, shared, session, history
<1>1. ASSUME NEW t \in Toggle, Click(c, t) PROVE Typed'
  <2>1. out' \in [Client -> Seq(Msg)]
    <3>1. [op |-> "set", toggle |-> t, on |-> t \notin shown[c]["snapshot"]] \in Msg
      BY DEF Msg
    <3> QED BY <1>1, <3>1 DEF Click
  <2>2. Shaped' /\ \A d \in Client, k \in Kind : shown'[d][k] \in ValueOf(k)
    <3>1. shown[c]["snapshot"] \in ValueOf("snapshot")
      BY DEF Kind
    <3>2. Switched(shown[c]["snapshot"], t) \in ValueOf("snapshot")
      BY <3>1 DEF ValueOf, Switched
    <3>3. shown' = [shown EXCEPT ![c]["snapshot"] = Switched(shown[c]["snapshot"], t)] /\ inbox' = inbox
      BY <1>1 DEF Click
    <3> QED BY <3>2, <3>3, MoveType
  <2>3. clicked' \in [Client -> [Toggle -> {"none", "on", "off"}]]
    BY <1>1 DEF Click
  <2> QED BY <1>1, <2>1, <2>2, <2>3 DEF Click
<1>2. CASE PressRec(c)
  <2>1. [op |-> "record", on |-> ~shown[c]["recording"]] \in Msg
    BY DEF Msg, Kind, ValueOf
  <2>2. Shaped' /\ \A d \in Client, k \in Kind : shown'[d][k] \in ValueOf(k)
    <3> DEFINE v == ~shown[c]["recording"]
    <3>1. v \in ValueOf("recording")
      <4>1. ValueOf("recording") = BOOLEAN
        BY DEF ValueOf
      <4> QED BY <4>1, Zenon
    <3>2. shown' = [shown EXCEPT ![c]["recording"] = v] /\ inbox' = inbox
      BY <1>2 DEF PressRec
    <3> HIDE DEF v
    <3> QED BY <3>1, <3>2, MoveType
  <2> QED BY <1>2, <2>1, <2>2 DEF PressRec
<1>3. ASSUME NEW d \in Device, Pick(c, d) PROVE Typed'
  <2>1. [op |-> "select", device |-> d] \in Msg
    BY DEF Msg
  <2> QED BY <1>3, <2>1 DEF Pick, Shaped
<1>4. ASSUME NEW op \in {"enumerate", "save", "load"}, Ask(c, op) PROVE Typed'
  <2>1. [op |-> op] \in Msg
    BY DEF Msg
  <2> QED BY <1>4, <2>1 DEF Ask, Shaped
<1> QED BY <1>1, <1>2, <1>3, <1>4 DEF UserStep

\* Taking the next message leaves the queue one of messages.
LEMMA ReceiveType ==
  ASSUME TypeOK, NEW c \in Client, NEW op, Receive(c, op)
  PROVE  Head(out[c]) \in Msg /\ out' \in [Client -> Seq(Msg)]
BY DEF TypeOK, Receive

\* The steps of an upstream task keep the types.
LEMMA TypeUpstream ==
  ASSUME Typed, NEW c \in Client, Upstream(c)
  PROVE  Typed'
<1> USE BoundAssumption DEF Typed, TypeOK, shared, session, history, bounds, client, Shaped
<1>d. ASSUME NEW K \in SUBSET Kind, Changed(K)
      PROVE  due' \in [Client -> SUBSET (Kind \cup {"greeting"})]
  BY <1>d DEF Changed
<1>k. {"snapshot"} \in SUBSET Kind /\ {"devices"} \in SUBSET Kind /\ {"recording"} \in SUBSET Kind
        /\ {"snapshot", "devices"} \in SUBSET Kind
  BY DEF Kind
<1>1. CASE Set(c)
  <2>1. snap' \in Snapshot
    <3>1. Head(out[c]).toggle \in Toggle
      BY <1>1, ReceiveType DEF Set, Receive, Msg
    <3> QED BY <1>1, <3>1 DEF Set, Snapshot
  <2> QED BY <1>1, <1>d, <1>k, <2>1, ReceiveType DEF Set
<1>2. CASE Record(c)
  <2>1. Head(out[c]).on \in BOOLEAN
    BY <1>2, ReceiveType DEF Record, Receive, Msg
  <2> QED BY <1>2, <1>d, <1>k, <2>1, ReceiveType DEF Record
<1>3. CASE Select(c)
  <2>1. snap' \in Snapshot /\ devs' \in Devices
    <3>1. Head(out[c]).device \in Device
      BY <1>3, ReceiveType DEF Select, Receive, Msg
    <3> QED BY <1>3, <3>1 DEF Select, Snapshot, Devices
  <2> QED BY <1>3, <1>d, <1>k, <2>1, ReceiveType DEF Select
<1>4. CASE Enumerate(c)
  <2>1. [present |-> plugged, active |-> devs.active] \in Devices
    BY DEF Devices
  <2> QED BY <1>4, <2>1, ReceiveType DEF Enumerate
<1>5. CASE SendDevices(c)
  BY <1>5, <1>d, <1>k DEF SendDevices
<1>6. CASE SaveState(c)
  BY <1>6, ReceiveType DEF SaveState
<1>7. CASE LoadState(c)
  <2>1. snap' \in Snapshot
    BY <1>7 DEF LoadState, Validated, Snapshot
  <2> QED BY <1>7, <1>d, <1>k, <2>1, ReceiveType DEF LoadState
<1>8. CASE NothingToLoad(c)
  BY <1>8, ReceiveType DEF NothingToLoad
<1> QED BY <1>1, <1>2, <1>3, <1>4, <1>5, <1>6, <1>7, <1>8 DEF Upstream

\* What a channel carries is a value of its kind.
LEMMA LatestType ==
  ASSUME TypeOK, NEW k \in Kind
  PROVE  Latest(k) \in ValueOf(k) /\ Latest(k) # Nothing
BY NothingAssumption DEF TypeOK, Latest, ValueOf, Kind, Snapshot

\* Values that arrive keep the inboxes typed.
LEMMA ArriveType ==
  ASSUME Typed, NEW c \in Client, NEW K, Arrive(c, K)
  PROVE  /\ inbox' = [d \in Client |-> [k \in Kind |-> inbox'[d][k]]]
         /\ \A d \in Client, k \in Kind : inbox'[d][k] = Nothing \/ inbox'[d][k] \in ValueOf(k)
         /\ lost' \in [Client -> SUBSET Kind]
         /\ \A d \in Client, k \in Kind :
              inbox'[d][k] = IF d = c /\ k \in K THEN Latest(k) ELSE inbox[d][k]
         /\ \A d \in Client : lost'[d] = IF d = c THEN lost[d] \ K ELSE lost[d]
<1>1. inbox' = [d \in Client |-> [k \in Kind |-> IF d = c /\ k \in K THEN Latest(k) ELSE inbox[d][k]]]
  BY DEF Arrive, Typed, Shaped
<1>2. lost' \in [Client -> SUBSET Kind] /\ \A d \in Client : lost'[d] = IF d = c THEN lost[d] \ K ELSE lost[d]
  BY DEF Arrive, Typed, TypeOK
<1>3. \A d \in Client, k \in Kind : inbox[d][k] = Nothing \/ inbox[d][k] \in ValueOf(k)
  BY DEF Typed, TypeOK
<1> QED BY <1>1, <1>2, <1>3, LatestType DEF Typed

\* The steps of a downstream task and of the client's own threads keep the types.
LEMMA TypeDownstream ==
  ASSUME Typed, NEW c \in Client,
         Downstream(c) \/ Connect(c) \/ Apply(c) \/ Overflow(c) \/ Drop(c)
  PROVE  Typed'
<1> USE BoundAssumption DEF Typed, TypeOK, shared, session, history, bounds, client
<1>1. CASE Greet(c)
  BY <1>1, ArriveType DEF Greet, Shaped
<1>2. ASSUME NEW k \in Kind, Push(c, k) PROVE Typed'
  BY <1>2, ArriveType DEF Push, Shaped
<1>3. CASE Connect(c)
  BY <1>3 DEF Connect, Shaped
<1>4. CASE Apply(c)
  <2>1. Shaped'
    BY <1>4 DEF Apply, Shaped
  <2>2. \A d \in Client, k \in Kind : shown'[d][k] \in ValueOf(k)
    BY <1>4 DEF Apply, Shaped
  <2>3. \A d \in Client, k \in Kind : inbox'[d][k] = Nothing \/ inbox'[d][k] \in ValueOf(k)
    BY <1>4 DEF Apply, Shaped
  <2> QED BY <1>4, <2>1, <2>2, <2>3 DEF Apply
<1>5. CASE Overflow(c)
  <2>0. PICK K \in SUBSET Kind :
          inbox' = [inbox EXCEPT ![c] = [k \in Kind |-> IF k \in K THEN Nothing ELSE inbox[c][k]]]
    BY <1>5 DEF Overflow
  <2>4. inbox' = [d \in Client |-> [k \in Kind |-> IF d = c /\ k \in K THEN Nothing ELSE inbox[d][k]]]
    BY <2>0 DEF Shaped
  <2>1. Shaped'
    <3>1. inbox' = [d \in Client |-> [k \in Kind |-> inbox'[d][k]]]
      BY <2>4, Zenon
    <3> QED BY <1>5, <3>1 DEF Overflow, Shaped
  <2>2. \A d \in Client, k \in Kind : inbox'[d][k] = Nothing \/ inbox'[d][k] \in ValueOf(k)
    BY <2>4
  <2>3. lost' \in [Client -> SUBSET Kind]
    BY <1>5 DEF Overflow
  <2> QED BY <1>5, <2>1, <2>2, <2>3 DEF Overflow, Fault
<1>6. CASE Drop(c)
  <2>1. out' \in [Client -> Seq(Msg)]
    <3>1. PICK n \in 0..Len(out[c]) : out' = [out EXCEPT ![c] = SubSeq(@, n + 1, Len(@))]
      BY <1>6 DEF Drop
    <3>2. SubSeq(out[c], n + 1, Len(out[c])) \in Seq(Msg)
      OBVIOUS
    <3> QED BY <3>1, <3>2
  <2> QED BY <1>6, <2>1 DEF Drop, Fault, Shaped
<1> QED BY <1>1, <1>2, <1>3, <1>4, <1>5, <1>6 DEF Downstream

LEMMA TypeNext == Typed /\ [Next]_vars => Typed'
<1> SUFFICES ASSUME Typed, [Next]_vars PROVE Typed'
  OBVIOUS
<1>1. CASE Respawn
  <2>1. saved' \in Snapshot \cup {Nothing} /\ plugged \subseteq Device
    BY <1>1 DEF Respawn, Typed, TypeOK
  <2>2. snap' \in Snapshot /\ devs' \in Devices
    BY <1>1, <2>1, ResumedType DEF Respawn
  <2> QED BY <1>1, <2>1, <2>2 DEF Respawn, Typed, TypeOK, Shaped, session, client, bounds
<1>2. ASSUME NEW d \in Device, Plug(d) PROVE Typed'
  BY <1>2, BoundAssumption DEF Plug, Act, Switched, Typed, TypeOK, Shaped, shared, session, client, history
<1>3. CASE UNCHANGED vars
  BY <1>3 DEF Typed, TypeOK, Shaped, vars, shared, session, client, history, bounds
<1> QED BY <1>1, <1>2, <1>3, TypeUser, TypeUpstream, TypeDownstream DEF Next

\* The server's channels, the connections and the clients are well-typed
\* whatever is said, lost and restarted.
THEOREM TypeCorrect == Spec => []TypeOK
<1>1. Typed => TypeOK
  BY DEF Typed
<1> QED BY TypeInit, TypeNext, <1>1, PTL DEF Spec
-----------------------------------------------------------------------------
\* The client is connected, and has nothing of the channel coming or forgotten.
Told(c, k) == link[c] = "up" /\ "greeting" \notin due[c] /\ k \notin due[c] /\ k \notin lost[c]

\* A message of the queue will still set the toggle.
Pending(q, t) == \E i \in 1..Len(q) : q[i].op = "set" /\ q[i].toggle = t

DevicesAgree(c) ==
  Told(c, "devices") =>
    IF inbox[c]["devices"] = Nothing THEN shown[c]["devices"] = devs
                                     ELSE inbox[c]["devices"] = devs

TogglesAgree(c) ==
  Told(c, "snapshot") =>
    IF inbox[c]["snapshot"] = Nothing
      THEN \A t \in Toggle : (t \in shown[c]["snapshot"] <=> t \in snap.on) \/ Pending(out[c], t)
      ELSE inbox[c]["snapshot"] = snap.on

\* Why ShowsSession holds: the last value of a channel that was sent is in the
\* inbox or in the widgets, but for toggles clicked since, whose messages are
\* still queued.
Agrees == \A c \in Client : DevicesAgree(c) /\ TogglesAgree(c)

LEMMA PendingAppend ==
  ASSUME NEW q \in Seq(Msg), NEW m \in Msg, NEW t, Pending(q, t)
  PROVE  Pending(Append(q, m), t)
BY DEF Pending

LEMMA PendingLast ==
  ASSUME NEW q \in Seq(Msg), NEW m \in Msg, m.op = "set"
  PROVE  Pending(Append(q, m), m.toggle)
<1>1. Append(q, m)[Len(q) + 1] = m /\ Len(q) + 1 \in 1..Len(Append(q, m))
  OBVIOUS
<1> QED BY <1>1 DEF Pending

\* Taking a message that does not set a toggle leaves it pending.
LEMMA PendingTail ==
  ASSUME NEW q \in Seq(Msg), q # <<>>, NEW t, Pending(q, t),
         ~(Head(q).op = "set" /\ Head(q).toggle = t)
  PROVE  Pending(Tail(q), t)
<1>1. PICK i \in 1..Len(q) : q[i].op = "set" /\ q[i].toggle = t
  BY DEF Pending
<1>2. i # 1
  BY <1>1
<1>3. i - 1 \in 1..Len(Tail(q)) /\ Tail(q)[i - 1] = q[i]
  BY <1>2
<1> QED BY <1>1, <1>3 DEF Pending

\* A client of which a step changes nothing that Agrees speaks of, but that
\* there may be more to tell it or more pending.
LEMMA Same ==
  ASSUME NEW c, DevicesAgree(c), TogglesAgree(c),
         Told(c, "devices")' => Told(c, "devices") /\ devs' = devs,
         Told(c, "snapshot")' => Told(c, "snapshot") /\ snap' = snap
                                   /\ \A t \in Toggle : Pending(out[c], t) => Pending(out[c], t)',
         inbox'[c] = inbox[c], shown'[c] = shown[c]
  PROVE  DevicesAgree(c)' /\ TogglesAgree(c)'
<1>1. DevicesAgree(c)'
  BY DEF DevicesAgree
<1>2. TogglesAgree(c)'
  BY DEF TogglesAgree
<1> QED BY <1>1, <1>2

LEMMA AgreesUser ==
  ASSUME Typed, Agrees, NEW c \in Client, UserStep(c)
  PROVE  Agrees'
<1> SUFFICES ASSUME NEW d \in Client PROVE DevicesAgree(d)' /\ TogglesAgree(d)'
  BY DEF Agrees
<1>a. DevicesAgree(d) /\ TogglesAgree(d)
  BY DEF Agrees
<1>q. out[d] \in Seq(Msg) /\ out \in [Client -> Seq(Msg)]
  BY DEF Typed, TypeOK
<1>1. ASSUME NEW t \in Toggle, Click(c, t) PROVE DevicesAgree(d)' /\ TogglesAgree(d)'
  <2> DEFINE m == [op |-> "set", toggle |-> t, on |-> t \notin shown[c]["snapshot"]]
  <2>1. m \in Msg /\ m.op = "set" /\ m.toggle = t
    BY DEF Msg
  <2>2. out' = [out EXCEPT ![c] = Append(@, m)]
    BY <1>1 DEF Click
  <2> HIDE DEF m
  <2>3. Pending(out[c], t)' /\ \A u \in Toggle : Pending(out[d], u) => Pending(out[d], u)'
    BY <1>q, <2>1, <2>2, PendingAppend, PendingLast
  <2>4. /\ shown'[d]["devices"] = shown[d]["devices"]
        /\ \A u \in Toggle : d # c \/ u # t =>
             (u \in shown'[d]["snapshot"] <=> u \in shown[d]["snapshot"])
    <3>1. shown' = [shown EXCEPT ![c]["snapshot"] = Switched(shown[c]["snapshot"], t)] /\ inbox' = inbox
      BY <1>1 DEF Click
    <3>2. Switched(shown[c]["snapshot"], t) \in ValueOf("snapshot")
      <4>1. shown[c]["snapshot"] \in ValueOf("snapshot")
        BY DEF Typed, TypeOK, Kind
      <4> QED BY <4>1 DEF ValueOf, Switched
    <3>3. \A k \in Kind : shown'[d][k] = IF d = c /\ k = "snapshot" THEN Switched(shown[c]["snapshot"], t) ELSE shown[d][k]
      BY <3>1, <3>2, MoveType
    <3> QED BY <3>3 DEF Switched, Kind
  <2>5. UNCHANGED <<link, due, lost, inbox, devs, snap>>
    BY <1>1 DEF Click, session, shared
  <2>6. DevicesAgree(d)'
    BY <1>a, <2>4, <2>5 DEF DevicesAgree, Told
  <2>7. TogglesAgree(d)'
    BY <1>a, <2>3, <2>4, <2>5 DEF TogglesAgree, Told
  <2> QED BY <2>6, <2>7
<1>2. ASSUME NEW m \in Msg, out' = [out EXCEPT ![c] = Append(@, m)],
             UNCHANGED <<link, due, lost, inbox, devs, snap>>,
             shown'[d]["devices"] = shown[d]["devices"], shown'[d]["snapshot"] = shown[d]["snapshot"]
      PROVE  DevicesAgree(d)' /\ TogglesAgree(d)'
  <2>1. \A u \in Toggle : Pending(out[d], u) => Pending(out[d], u)'
    BY <1>q, <1>2, PendingAppend
  <2>2. DevicesAgree(d)'
    BY <1>a, <1>2 DEF DevicesAgree, Told
  <2>3. TogglesAgree(d)'
    BY <1>a, <1>2, <2>1 DEF TogglesAgree, Told
  <2> QED BY <2>2, <2>3
<1>3. CASE PressRec(c)
  <2> DEFINE v == ~shown[c]["recording"]
  <2>1. [op |-> "record", on |-> v] \in Msg
    BY DEF Msg
  <2>2. v \in ValueOf("recording")
    <3>1. ValueOf("recording") = BOOLEAN
      BY DEF ValueOf
    <3> QED BY <3>1, Zenon
  <2>3. shown' = [shown EXCEPT ![c]["recording"] = v] /\ inbox' = inbox
    BY <1>3 DEF PressRec
  <2>4. out' = [out EXCEPT ![c] = Append(@, [op |-> "record", on |-> v])]
    BY <1>3 DEF PressRec
  <2> HIDE DEF v
  <2>5. shown'[d]["devices"] = shown[d]["devices"] /\ shown'[d]["snapshot"] = shown[d]["snapshot"]
    BY <2>2, <2>3, MoveType DEF Kind
  <2>6. UNCHANGED <<link, due, lost, inbox, devs, snap>>
    BY <1>3 DEF PressRec, session, shared
  <2> QED BY <1>2, <2>1, <2>4, <2>5, <2>6
<1>4. ASSUME NEW e \in Device, Pick(c, e) PROVE DevicesAgree(d)' /\ TogglesAgree(d)'
  <2>1. [op |-> "select", device |-> e] \in Msg
    BY DEF Msg
  <2> QED BY <1>2, <1>4, <2>1 DEF Pick, session, shared
<1>5. ASSUME NEW op \in {"enumerate", "save", "load"}, Ask(c, op) PROVE DevicesAgree(d)' /\ TogglesAgree(d)'
  <2>1. [op |-> op] \in Msg
    BY DEF Msg
  <2> QED BY <1>2, <1>5, <2>1 DEF Ask, session, shared
<1> QED BY <1>1, <1>3, <1>4, <1>5 DEF UserStep

LEMMA AgreesUpstream ==
  ASSUME Typed, Agrees, NEW c \in Client, Upstream(c)
  PROVE  Agrees'
<1> SUFFICES ASSUME NEW d \in Client PROVE DevicesAgree(d)' /\ TogglesAgree(d)'
  BY DEF Agrees
<1>a. DevicesAgree(d) /\ TogglesAgree(d)
  BY DEF Agrees
<1>q. out \in [Client -> Seq(Msg)] /\ due \in [Client -> SUBSET (Kind \cup {"greeting"})]
  BY DEF Typed, TypeOK
<1>p. ASSUME NEW op, op # "set", Receive(c, op)
      PROVE  \A t \in Toggle : Pending(out[d], t) => Pending(out[d], t)'
  BY <1>q, <1>p, PendingTail DEF Receive
<1>c. ASSUME NEW K, Changed(K), link' = link, lost' = lost
      PROVE  \A k : Told(d, k)' => Told(d, k) /\ k \notin K
  BY <1>q, <1>c DEF Changed, Told
<1>u. ASSUME UNCHANGED <<link, due, lost>> PROVE \A k : Told(d, k)' => Told(d, k)
  BY <1>u DEF Told
<1>1. CASE Set(c)
  <2>1. \A k : Told(d, k)' => Told(d, k) /\ k # "snapshot"
    BY <1>1, <1>c DEF Set
  <2>2. inbox' = inbox /\ shown' = shown /\ devs' = devs
    BY <1>1 DEF Set
  <2> QED BY <1>a, <2>1, <2>2, Same
<1>2. CASE Record(c)
  <2>1. \A k : Told(d, k)' => Told(d, k)
    BY <1>2, <1>c DEF Record
  <2>2. inbox' = inbox /\ shown' = shown /\ devs' = devs /\ snap' = snap
    BY <1>2 DEF Record
  <2>3. \A t \in Toggle : Pending(out[d], t) => Pending(out[d], t)'
    BY <1>2, <1>p DEF Record
  <2> QED BY <1>a, <2>1, <2>2, <2>3, Same
<1>3. CASE Select(c)
  <2>1. \A k : Told(d, k)' => Told(d, k) /\ k # "snapshot" /\ k # "devices"
    BY <1>3, <1>c DEF Select
  <2>2. inbox' = inbox /\ shown' = shown
    BY <1>3 DEF Select
  <2> QED BY <1>a, <2>1, <2>2, Same
<1>4. CASE Enumerate(c)
  <2>1. \A t \in Toggle : Pending(out[d], t) => Pending(out[d], t)'
    BY <1>4, <1>p DEF Enumerate
  <2> QED BY <1>4, <1>a, <1>u, <2>1, Same DEF Enumerate, shared
<1>5. CASE SendDevices(c)
  <2>1. \A k : Told(d, k)' => Told(d, k) /\ k # "devices"
    BY <1>5, <1>c DEF SendDevices, client
  <2>2. inbox' = inbox /\ shown' = shown /\ snap' = snap /\ out' = out
    BY <1>5 DEF SendDevices, client
  <2> QED BY <1>a, <2>1, <2>2, Same
<1>6. CASE SaveState(c)
  <2>1. \A t \in Toggle : Pending(out[d], t) => Pending(out[d], t)'
    BY <1>6, <1>p DEF SaveState
  <2> QED BY <1>6, <1>a, <1>u, <2>1, Same DEF SaveState, session
<1>7. CASE LoadState(c)
  <2>1. \A k : Told(d, k)' => Told(d, k) /\ k # "snapshot"
    BY <1>7, <1>c DEF LoadState
  <2>2. inbox' = inbox /\ shown' = shown /\ devs' = devs
    BY <1>7 DEF LoadState
  <2> QED BY <1>a, <2>1, <2>2, Same
<1>8. CASE NothingToLoad(c)
  <2>1. \A t \in Toggle : Pending(out[d], t) => Pending(out[d], t)'
    BY <1>8, <1>p DEF NothingToLoad
  <2> QED BY <1>8, <1>a, <1>u, <2>1, Same DEF NothingToLoad, session, shared
<1> QED BY <1>1, <1>2, <1>3, <1>4, <1>5, <1>6, <1>7, <1>8 DEF Upstream

LEMMA AgreesArrive ==
  ASSUME Typed, Agrees, NEW c \in Client, NEW K,
         Arrive(c, K), due' = [due EXCEPT ![c] = @ \ ({"greeting"} \cup K)],
         "greeting" \in due[c] => K = Greeted,
         UNCHANGED <<shared, link, out, shown>>
  PROVE  Agrees'
<1> SUFFICES ASSUME NEW d \in Client PROVE DevicesAgree(d)' /\ TogglesAgree(d)'
  BY DEF Agrees
<1>a. DevicesAgree(d) /\ TogglesAgree(d)
  BY DEF Agrees
<1>1. \A k \in Kind : inbox'[d][k] = IF d = c /\ k \in K THEN Latest(k) ELSE inbox[d][k]
  BY ArriveType
<1>2. \A k \in Greeted : Told(d, k)' => Told(d, k) \/ (d = c /\ k \in K)
  <2>1. lost'[d] = IF d = c THEN lost[d] \ K ELSE lost[d]
    <3>1. \A e \in Client : lost'[e] = IF e = c THEN lost[e] \ K ELSE lost[e]
      BY ArriveType
    <3> QED BY <3>1
  <2>2. due'[d] = IF d = c THEN due[d] \ ({"greeting"} \cup K) ELSE due[d]
    BY DEF Typed, TypeOK
  <2>3. CASE d # c
    BY <2>1, <2>2, <2>3 DEF Told
  <2>4. CASE d = c
    <3>1. \A k \in Greeted \ K : k \notin due[c]' => k \notin due[c]
      BY <2>2, <2>4
    <3>2. \A k \in Greeted \ K : k \notin lost[c]' => k \notin lost[c]
      BY <2>1, <2>4
    <3>3. K = Greeted \/ "greeting" \notin due[c]
      OBVIOUS
    <3> QED BY <2>4, <3>1, <3>2, <3>3 DEF Told
  <2> QED BY <2>3, <2>4
<1>3. \A k \in Kind : Latest(k) # Nothing
  BY LatestType DEF Typed
<1>4. Latest("devices") = devs /\ Latest("snapshot") = snap.on
  BY DEF Latest
<1>5. devs' = devs /\ snap' = snap /\ out' = out /\ shown' = shown
  BY DEF shared
<1>6. DevicesAgree(d)'
  BY <1>a, <1>1, <1>2, <1>3, <1>4, <1>5 DEF DevicesAgree, Greeted, Kind
<1>7. TogglesAgree(d)'
  BY <1>a, <1>1, <1>2, <1>3, <1>4, <1>5 DEF TogglesAgree, Greeted, Kind, Pending
<1> QED BY <1>6, <1>7

LEMMA AgreesDownstream ==
  ASSUME Typed, Agrees, NEW c \in Client,
         Downstream(c) \/ Connect(c) \/ Apply(c) \/ Overflow(c) \/ Drop(c)
  PROVE  Agrees'
<1>1. CASE Greet(c)
  BY <1>1, AgreesArrive DEF Greet
<1>2. ASSUME NEW k \in Kind, Push(c, k) PROVE Agrees'
  <2>1. due' = [due EXCEPT ![c] = @ \ ({"greeting"} \cup {k})]
    BY <1>2 DEF Push, Typed, TypeOK
  <2> QED BY <1>2, <2>1, AgreesArrive DEF Push
<1> SUFFICES ASSUME NEW d \in Client, Connect(c) \/ Apply(c) \/ Overflow(c) \/ Drop(c)
             PROVE  DevicesAgree(d)' /\ TogglesAgree(d)'
  BY <1>1, <1>2 DEF Downstream, Agrees
<1>a. DevicesAgree(d) /\ TogglesAgree(d)
  BY DEF Agrees
<1>3. CASE Connect(c)
  <2>1. \A k : Told(d, k)' => Told(d, k)
    BY <1>3 DEF Connect, client, Told, Typed, TypeOK
  <2> QED BY <1>3, <1>a, <2>1, Same DEF Connect, client, shared
<1>4. CASE Apply(c)
  <2>1. \A k \in Kind :
          /\ inbox'[d][k] = IF d = c THEN Nothing ELSE inbox[d][k]
          /\ shown'[d][k] = IF d = c /\ inbox[c][k] # Nothing THEN inbox[c][k] ELSE shown[d][k]
    BY <1>4 DEF Apply, Typed, Shaped
  <2>2. devs' = devs /\ snap' = snap /\ out' = out /\ link' = link /\ due' = due /\ lost' = lost
    BY <1>4 DEF Apply, shared, session
  <2>3. DevicesAgree(d)'
    BY <1>a, <2>1, <2>2 DEF DevicesAgree, Told, Kind
  <2>4. TogglesAgree(d)'
    BY <1>a, <2>1, <2>2 DEF TogglesAgree, Told, Kind, Pending
  <2> QED BY <2>3, <2>4
<1>5. CASE Overflow(c)
  <2>1. PICK K \in SUBSET Kind :
          /\ inbox' = [inbox EXCEPT ![c] = [k \in Kind |-> IF k \in K THEN Nothing ELSE inbox[c][k]]]
          /\ lost' = [lost EXCEPT ![c] = @ \cup K]
    BY <1>5 DEF Overflow
  <2>2. \A k \in Kind : inbox'[d][k] = IF d = c /\ k \in K THEN Nothing ELSE inbox[d][k]
    BY <2>1 DEF Typed, Shaped
  <2>3. \A k : Told(d, k)' => Told(d, k) /\ (d = c => k \notin K)
    BY <1>5, <2>1 DEF Overflow, Told, Typed, TypeOK, session
  <2>4. devs' = devs /\ snap' = snap /\ out' = out /\ shown' = shown
    BY <1>5 DEF Overflow, shared
  <2>5. DevicesAgree(d)'
    BY <1>a, <2>2, <2>3, <2>4 DEF DevicesAgree, Kind
  <2>6. TogglesAgree(d)'
    BY <1>a, <2>2, <2>3, <2>4 DEF TogglesAgree, Kind, Pending
  <2> QED BY <2>5, <2>6
<1>6. CASE Drop(c)
  <2>1. \A k : Told(d, k)' => Told(d, k) /\ d # c
    BY <1>6 DEF Drop, Told, Typed, TypeOK
  <2>2. PICK n : out' = [out EXCEPT ![c] = SubSeq(@, n + 1, Len(@))]
    BY <1>6 DEF Drop
  <2>3. d # c => \A t \in Toggle : Pending(out[d], t) => Pending(out[d], t)'
    BY <2>2 DEF Pending, Typed, TypeOK
  <2> QED BY <1>6, <1>a, <2>1, <2>3, Same DEF Drop, shared
<1> QED BY <1>3, <1>4, <1>5, <1>6

LEMMA AgreesNext == Typed /\ Agrees /\ [Next]_vars => Agrees'
<1> SUFFICES ASSUME Typed, Agrees, [Next]_vars PROVE Agrees'
  OBVIOUS
<1>1. CASE Respawn
  <2>1. \A d \in Client, k \in Kind : ~Told(d, k)'
    BY <1>1 DEF Respawn, session, Told
  <2> QED BY <2>1 DEF Agrees, DevicesAgree, TogglesAgree, Kind
<1>2. CASE (\E d \in Device : Plug(d)) \/ UNCHANGED vars
  <2> SUFFICES ASSUME NEW d \in Client PROVE DevicesAgree(d)' /\ TogglesAgree(d)'
    BY DEF Agrees
  <2>1. UNCHANGED <<shared, session, client>>
    BY <1>2 DEF Plug, vars
  <2> QED BY <2>1, Same DEF Agrees, Told, Pending, shared, session, client
<1> QED BY <1>1, <1>2, AgreesUser, AgreesUpstream, AgreesDownstream DEF Next

LEMMA AgreesInit == Init => Agrees
BY DEF Init, Agrees, DevicesAgree, TogglesAgree, Told

\* A client with nothing under way shows the toggles and the device list of the
\* server, whatever its users and others did, lost and restarted.
THEOREM ShowsTheSession == Spec => []ShowsSession
<1>1. Typed /\ Agrees => ShowsSession
  <2> SUFFICES ASSUME Typed, Agrees, NEW c \in Client, Quiet(c), NEW k \in Greeted \ lost[c]
               PROVE  shown[c][k] = Latest(k)
    BY DEF ShowsSession
  <2>1. Told(c, k) /\ inbox[c][k] = Nothing
    BY DEF Quiet, Told, Greeted, Kind
  <2>2. CASE k = "devices"
    BY <2>1, <2>2 DEF Agrees, DevicesAgree, Latest
  <2>3. CASE k = "snapshot"
    <3>1. \A t \in Toggle : ~Pending(out[c], t)
      BY DEF Quiet, Pending
    <3>2. shown[c]["snapshot"] \in SUBSET Toggle /\ snap.on \in SUBSET Toggle
      <4>1. shown[c]["snapshot"] \in ValueOf("snapshot") /\ snap \in Snapshot
        BY DEF Typed, TypeOK, Kind
      <4> QED BY <4>1 DEF ValueOf, Snapshot
    <3>3. \A t \in Toggle : t \in shown[c]["snapshot"] <=> t \in snap.on
      BY <2>1, <2>3, <3>1 DEF Agrees, TogglesAgree
    <3>4. shown[c]["snapshot"] = snap.on
      BY <3>2, <3>3
    <3> QED BY <2>3, <3>4 DEF Latest
  <2> QED BY <2>2, <2>3 DEF Greeted
<1> QED BY TypeInit, TypeNext, AgreesInit, AgreesNext, <1>1, PTL DEF Spec

-----------------------------------------------------------------------------
\* The last message of a queue that sets a toggle has it where it was clicked.
LastSets(q, where) ==
  \A i \in 1..Len(q), t \in Toggle :
    /\ q[i].op = "set" /\ q[i].toggle = t
    /\ \A j \in 1..Len(q) : j > i => ~(q[j].op = "set" /\ q[j].toggle = t)
    => where[t] = IF q[i].on THEN "on" ELSE "off"

\* Some user left the toggle where the server has it, or none has touched it.
Stands(t) ==
  \/ \A c \in Client : clicked[c][t] = "none"
  \/ \E c \in Client : clicked[c][t] = IF t \in snap.on THEN "on" ELSE "off"

\* Why ClicksStand holds: every queue ends in what its user wants, and a toggle
\* that no queue is still to set stands.
Clicks ==
  ~replaced =>
    /\ \A c \in Client : LastSets(out[c], clicked[c])
    /\ \A t \in Toggle : (\A c \in Client : ~Pending(out[c], t)) => Stands(t)

LEMMA LastTail ==
  ASSUME NEW q \in Seq(Msg), q # <<>>, NEW where, LastSets(q, where)
  PROVE  LastSets(Tail(q), where)
<1> SUFFICES ASSUME NEW i \in 1..Len(Tail(q)), NEW t \in Toggle,
                    Tail(q)[i].op = "set", Tail(q)[i].toggle = t,
                    \A j \in 1..Len(Tail(q)) : j > i => ~(Tail(q)[j].op = "set" /\ Tail(q)[j].toggle = t)
             PROVE  where[t] = IF Tail(q)[i].on THEN "on" ELSE "off"
  BY DEF LastSets
<1>1. i + 1 \in 1..Len(q) /\ Tail(q)[i] = q[i + 1]
  OBVIOUS
<1>2. ASSUME NEW j \in 1..Len(q), j > i + 1 PROVE ~(q[j].op = "set" /\ q[j].toggle = t)
  <2>1. j - 1 \in 1..Len(Tail(q)) /\ j - 1 > i /\ Tail(q)[j - 1] = q[j]
    BY <1>2
  <2> QED BY <2>1
<1> QED BY <1>1, <1>2 DEF LastSets

LEMMA LastAppend ==
  ASSUME NEW q \in Seq(Msg), NEW m \in Msg, NEW where \in [Toggle -> {"none", "on", "off"}],
         NEW where2, LastSets(q, where),
         \/ m.op # "set" /\ where2 = where
         \/ m.op = "set" /\ where2 = [where EXCEPT ![m.toggle] = IF m.on THEN "on" ELSE "off"]
  PROVE  LastSets(Append(q, m), where2)
<1> DEFINE r == Append(q, m)
<1>0. Len(r) = Len(q) + 1 /\ r[Len(q) + 1] = m /\ \A i \in 1..Len(q) : r[i] = q[i]
  OBVIOUS
<1> HIDE DEF r
<1> SUFFICES ASSUME NEW i \in 1..Len(r), NEW t \in Toggle,
                    r[i].op = "set", r[i].toggle = t,
                    \A j \in 1..Len(r) : j > i => ~(r[j].op = "set" /\ r[j].toggle = t)
             PROVE  where2[t] = IF r[i].on THEN "on" ELSE "off"
  BY DEF LastSets, r
<1>1. CASE i = Len(q) + 1
  BY <1>0, <1>1
<1>2. CASE i # Len(q) + 1
  <2>1. i \in 1..Len(q) /\ Len(q) + 1 \in 1..Len(r) /\ Len(q) + 1 > i
    BY <1>0, <1>2
  <2>2. where2[t] = where[t]
    BY <1>0, <2>1
  <2>3. \A j \in 1..Len(q) : j > i => ~(q[j].op = "set" /\ q[j].toggle = t)
    BY <1>0
  <2> QED BY <1>0, <2>1, <2>2, <2>3 DEF LastSets
<1> QED BY <1>1, <1>2

\* A set that no other of its toggle follows has it where it was clicked.
LEMMA LastHead ==
  ASSUME NEW q \in Seq(Msg), q # <<>>, NEW where, LastSets(q, where), NEW t \in Toggle,
         Head(q).op = "set", Head(q).toggle = t, ~Pending(Tail(q), t)
  PROVE  where[t] = IF Head(q).on THEN "on" ELSE "off"
<1>1. ASSUME NEW j \in 1..Len(q), j > 1 PROVE ~(q[j].op = "set" /\ q[j].toggle = t)
  <2>1. j - 1 \in 1..Len(Tail(q)) /\ Tail(q)[j - 1] = q[j]
    BY <1>1
  <2> QED BY <2>1 DEF Pending
<1>2. 1 \in 1..Len(q) /\ Head(q) = q[1]
  OBVIOUS
<1> QED BY <1>1, <1>2 DEF LastSets

\* A step after which every queue is what it was, or lacks a message that sets
\* nothing, or has another that sets nothing.
LEMMA ClicksSame ==
  ASSUME Clicks, clicked' = clicked, replaced' = replaced, snap'.on = snap.on,
         \A c \in Client : LastSets(out[c], clicked[c]) => LastSets(out[c], clicked[c])',
         \A c \in Client, t \in Toggle : Pending(out[c], t) => Pending(out[c], t)'
  PROVE  Clicks'
<1>1. \A t \in Toggle : Stands(t) => Stands(t)'
  BY DEF Stands
<1> QED BY <1>1 DEF Clicks

LEMMA ClicksUser ==
  ASSUME Typed, Clicks, NEW c \in Client, UserStep(c)
  PROVE  Clicks'
<1>q. out \in [Client -> Seq(Msg)] /\ clicked \in [Client -> [Toggle -> {"none", "on", "off"}]]
  BY DEF Typed, TypeOK
<1>1. ASSUME NEW t \in Toggle, Click(c, t) PROVE Clicks'
  <2> DEFINE m == [op |-> "set", toggle |-> t, on |-> t \notin shown[c]["snapshot"]]
  <2>1. m \in Msg /\ m.op = "set" /\ m.toggle = t
    BY DEF Msg
  <2>2. out' = [out EXCEPT ![c] = Append(@, m)]
    BY <1>1 DEF Click
  <2>3. clicked' = [clicked EXCEPT ![c] = [clicked[c] EXCEPT ![m.toggle] = IF m.on THEN "on" ELSE "off"]]
    BY <1>1, <1>q DEF Click
  <2> HIDE DEF m
  <2>4. \A d \in Client, u \in Toggle : Pending(out[d], u) => Pending(out[d], u)'
    BY <1>q, <2>1, <2>2, PendingAppend
  <2>5. Pending(out[c], t)'
    BY <1>q, <2>1, <2>2, PendingLast
  <2>6. \A d \in Client : LastSets(out[d], clicked[d]) => LastSets(out[d], clicked[d])'
    BY <1>q, <2>1, <2>2, <2>3, LastAppend
  <2>7. \A u \in Toggle : u # t /\ Stands(u) => Stands(u)'
    BY <1>1, <1>q, <2>1, <2>3 DEF Stands, Click, shared
  <2>8. replaced' = replaced
    BY <1>1 DEF Click
  <2> QED BY <2>4, <2>5, <2>6, <2>7, <2>8 DEF Clicks
<1>2. ASSUME NEW m \in Msg, m.op # "set", out' = [out EXCEPT ![c] = Append(@, m)],
             UNCHANGED <<shared, history>>
      PROVE  Clicks'
  <2>1. \A d \in Client, u \in Toggle : Pending(out[d], u) => Pending(out[d], u)'
    BY <1>q, <1>2, PendingAppend
  <2>2. \A d \in Client : LastSets(out[d], clicked[d]) => LastSets(out[d], clicked[d])'
    BY <1>q, <1>2, LastAppend DEF history
  <2> QED BY <1>2, <2>1, <2>2, ClicksSame DEF shared, history
<1>3. CASE PressRec(c)
  <2> DEFINE v == ~shown[c]["recording"]
  <2>1. [op |-> "record", on |-> v] \in Msg
    BY DEF Msg
  <2>2. out' = [out EXCEPT ![c] = Append(@, [op |-> "record", on |-> v])]
    BY <1>3 DEF PressRec
  <2> HIDE DEF v
  <2> QED BY <1>2, <1>3, <2>1, <2>2 DEF PressRec
<1>4. ASSUME NEW e \in Device, Pick(c, e) PROVE Clicks'
  <2>1. [op |-> "select", device |-> e] \in Msg
    BY DEF Msg
  <2> QED BY <1>2, <1>4, <2>1 DEF Pick
<1>5. ASSUME NEW op \in {"enumerate", "save", "load"}, Ask(c, op) PROVE Clicks'
  <2>1. [op |-> op] \in Msg
    BY DEF Msg
  <2> QED BY <1>2, <1>5, <2>1 DEF Ask
<1> QED BY <1>1, <1>3, <1>4, <1>5 DEF UserStep

LEMMA ClicksUpstream ==
  ASSUME Typed, Clicks, NEW c \in Client, Upstream(c)
  PROVE  Clicks'
<1>q. out \in [Client -> Seq(Msg)] /\ snap \in Snapshot
  BY DEF Typed, TypeOK
<1>r. ASSUME NEW op, Receive(c, op)
      PROVE  /\ \A d \in Client : LastSets(out[d], clicked[d]) => LastSets(out'[d], clicked[d])
             /\ op # "set" => \A d \in Client, t \in Toggle : Pending(out[d], t) => Pending(out[d], t)'
  BY <1>q, <1>r, LastTail, PendingTail DEF Receive
<1>1. CASE Set(c)
  <2> DEFINE m == Head(out[c])
  <2>1. m.op = "set" /\ m.toggle \in Toggle /\ out' = [out EXCEPT ![c] = Tail(@)] /\ out[c] # <<>>
    BY <1>1, ReceiveType DEF Set, Receive, Msg, Typed
  <2>2. snap'.on = IF m.on THEN snap.on \cup {m.toggle} ELSE snap.on \ {m.toggle}
    BY <1>1, <1>q DEF Set, Snapshot
  <2>3. clicked' = clicked /\ replaced' = replaced
    BY <1>1 DEF Set, history
  <2>4. \A d \in Client : LastSets(out[d], clicked[d]) => LastSets(out[d], clicked[d])'
    BY <1>1, <1>r, <2>3 DEF Set
  <2> HIDE DEF m
  <2>5. ASSUME ~replaced', NEW t \in Toggle, \A d \in Client : ~Pending(out'[d], t)
        PROVE  Stands(t)'
    <3>1. CASE t = m.toggle
      <4>1. clicked[c][t] = IF m.on THEN "on" ELSE "off"
        BY <1>q, <2>1, <2>3, <2>5, <3>1, LastHead DEF m, Clicks
      <4> QED BY <2>2, <2>3, <3>1, <4>1 DEF Stands
    <3>2. CASE t # m.toggle
      <4>1. \A d \in Client : ~Pending(out[d], t)
        BY <1>q, <2>1, <2>5, <3>2, PendingTail DEF m
      <4>2. Stands(t)
        BY <2>3, <2>5, <4>1 DEF Clicks
      <4>3. t \in snap'.on <=> t \in snap.on
        BY <2>2, <3>2
      <4> QED BY <2>3, <4>2, <4>3 DEF Stands
    <3> QED BY <3>1, <3>2
  <2> QED BY <2>3, <2>4, <2>5 DEF Clicks
<1>2. ASSUME NEW op, op # "set", Receive(c, op), UNCHANGED history, snap'.on = snap.on
      PROVE  Clicks'
  BY <1>2, <1>r, ClicksSame DEF history
<1>3. CASE Record(c)
  BY <1>2, <1>3 DEF Record
<1>4. CASE Select(c)
  BY <1>2, <1>4, <1>q DEF Select, Snapshot
<1>5. CASE Enumerate(c)
  BY <1>2, <1>5 DEF Enumerate, shared
<1>6. CASE SendDevices(c)
  BY <1>6, ClicksSame DEF SendDevices, client, history
<1>7. CASE SaveState(c)
  BY <1>2, <1>7 DEF SaveState
<1>8. CASE LoadState(c)
  BY <1>8 DEF LoadState, Clicks
<1>9. CASE NothingToLoad(c)
  BY <1>2, <1>9 DEF NothingToLoad, shared
<1> QED BY <1>1, <1>3, <1>4, <1>5, <1>6, <1>7, <1>8, <1>9 DEF Upstream

LEMMA ClicksNext == Typed /\ Clicks /\ [Next]_vars => Clicks'
<1> SUFFICES ASSUME Typed, Clicks, [Next]_vars PROVE Clicks'
  OBVIOUS
<1>1. ASSUME UNCHANGED <<snap, out, clicked, replaced>> PROVE Clicks'
  BY <1>1, ClicksSame
<1>2. CASE Respawn
  BY <1>2 DEF Respawn, Clicks
<1>3. ASSUME NEW d \in Device, Plug(d) PROVE Clicks'
  BY <1>1, <1>3 DEF Plug, shared, client, history
<1>4. ASSUME NEW c \in Client, Downstream(c) \/ Connect(c) \/ Apply(c) \/ Overflow(c) PROVE Clicks'
  BY <1>1, <1>4 DEF Downstream, Greet, Push, Connect, Apply, Overflow, shared, client, history
<1>5. ASSUME NEW c \in Client, Drop(c) PROVE Clicks'
  <2>1. PICK n \in 0..Len(out[c]) : /\ out' = [out EXCEPT ![c] = SubSeq(@, n + 1, Len(@))]
                                    /\ replaced' = (replaced \/ n > 0)
    BY <1>5 DEF Drop
  <2>2. CASE n > 0
    BY <2>1, <2>2 DEF Clicks
  <2>3. CASE n = 0
    <3>1. out \in [Client -> Seq(Msg)] /\ replaced \in BOOLEAN
      BY DEF Typed, TypeOK
    <3>2. SubSeq(out[c], 1, Len(out[c])) = out[c]
      BY <3>1
    <3> QED BY <1>1, <1>5, <2>1, <2>3, <3>1, <3>2 DEF Drop, shared
  <2> QED BY <2>2, <2>3
<1>6. CASE UNCHANGED vars
  BY <1>1, <1>6 DEF vars, shared, client, history
<1> QED BY <1>2, <1>3, <1>4, <1>5, <1>6, ClicksUser, ClicksUpstream DEF Next

LEMMA ClicksInit == Init => Clicks
<1> SUFFICES ASSUME Init PROVE Clicks
  OBVIOUS
<1>1. \A c \in Client : out[c] = <<>> /\ \A t \in Toggle : clicked[c][t] = "none"
  BY DEF Init
<1> QED BY <1>1 DEF Clicks, LastSets, Stands

\* A toggle that was clicked ends where the last click of one of the users put
\* it: what the server tells a client never comes back as that client's wish.
THEOREM ClicksAlwaysStand == Spec => []ClicksStand
<1>1. Clicks => ClicksStand
  <2>1. \A c \in Client, t \in Toggle : out[c] = <<>> => ~Pending(out[c], t)
    BY DEF Pending
  <2> QED BY <2>1 DEF Clicks, ClicksStand, Stands
<1> QED BY TypeInit, TypeNext, ClicksInit, ClicksNext, <1>1, PTL DEF Spec
=============================================================================
