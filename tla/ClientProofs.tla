---------------------------- MODULE ClientProofs ----------------------------
(***************************************************************************)
(* Proofs about the client, for any programs, modes, frequencies, bands,   *)
(* devices and bounds.                                                     *)
(*                                                                         *)
(* Display: the screen always shows what came last from the server, drawn  *)
(* in the order it was recorded; the view is a whole window of the         *)
(* spectrum; the panel never offers IQ under an audio device.  Its queues, *)
(* its ring and the view's zoom steps are recursive functions, so their    *)
(* lemmas are by induction, on the least number where one would fail.      *)
(*                                                                         *)
(* Tuning: a client in IQ mode never changes what the radio is set to      *)
(* behind its demodulator, no step of the system's own ends an agreement,  *)
(* and a rigctld connection only ends once the token has fired.            *)
(***************************************************************************)
EXTENDS Tuning, Display, FiniteSetTheorems, SequenceTheorems, WellFoundedInduction, TLAPS

-----------------------------------------------------------------------------
(* Tuning.                                                                 *)

LEMMA Commands ==
  /\ \A who \in Sender, f \in Freq : Set(who, "freq", f) \in Command
  /\ \A who \in Sender, m \in RadioMode : Set(who, "mode", m) \in Command
  /\ \A who \in Sender, on \in BOOLEAN : Set(who, "agc", on) \in Command /\ Set(who, "ptt", on) \in Command
BY DEF Set, Command

LEMMA Parks == \A m \in Mode : ModeToCat(m) \in RadioMode
BY ModeAssumption DEF Mode, ModeToCat

LEMMA EmptyQueue == <<>> \in Seq(Command) /\ Len(<<>>) <= CatCapacity
<1>1. \A S : <<>> \in Seq(S) /\ Len(<<>>) = 0
  OBVIOUS
<1> QED BY <1>1, ConnAssumption

LEMMA BarSize == \A x, S : Cardinality({x}) <= 1 /\ Cardinality({}) <= 1 /\ Cardinality({x} \cap S) <= 1
<1> TAKE x, S
<1>1. Cardinality({x}) = 1
  BY FS_Singleton
<1>2. Cardinality({}) = 0
  BY FS_EmptySet
<1>3. {x} \cap S = {x} \/ {x} \cap S = {}
  OBVIOUS
<1> QED BY <1>1, <1>2, <1>3

\* What a command leaves in the radio, and what it would leave without the client.
LEMMA AfterType ==
  ASSUME TypeOK, NEW k \in Command
  PROVE  /\ (IF k.reg \in DOMAIN radio THEN [radio EXCEPT ![k.reg] = k.val] ELSE radio) \in State
         /\ (IF k.reg \in DOMAIN own THEN [own EXCEPT ![k.reg] = k.val] ELSE own)
              \in [mode : RadioMode, agc : BOOLEAN]
<1>1. radio \in State /\ own \in [mode : RadioMode, agc : BOOLEAN]
  BY DEF TypeOK
<1>2. DOMAIN radio = {"freq", "mode"} /\ DOMAIN own = {"mode", "agc"}
  BY <1>1 DEF State
<1>3. CASE k \in [by : Sender, reg : {"freq"}, val : Freq]
  BY <1>1, <1>2, <1>3 DEF State
<1>4. CASE k \in [by : Sender, reg : {"mode"}, val : RadioMode]
  BY <1>1, <1>2, <1>4 DEF State
<1>5. CASE k \in [by : Sender, reg : {"agc", "ptt"}, val : BOOLEAN]
  BY <1>1, <1>2, <1>5 DEF State
<1> QED BY <1>3, <1>4, <1>5 DEF Command

LEMMA PublishedType ==
  ASSUME TypeOK, NEW st \in State, Published(st)
  PROVE  news' \in [Subscriber -> Seq(State)] /\ \A s \in Subscriber : Len(news'[s]) <= Lag
<1> SUFFICES ASSUME NEW s \in Subscriber
             PROVE  LET q == Append(news[s], st) IN
                      (IF Len(q) > Lag THEN Tail(q) ELSE q) \in Seq(State)
                      /\ Len(IF Len(q) > Lag THEN Tail(q) ELSE q) <= Lag
  BY DEF Published
<1> DEFINE q == Append(news[s], st)
<1>1. news[s] \in Seq(State) /\ Len(news[s]) <= Lag
  BY DEF TypeOK
<1>2. q \in Seq(State) /\ Len(q) = Len(news[s]) + 1 /\ Len(q) \in Nat /\ q # <<>>
  BY <1>1
<1>3. Tail(q) \in Seq(State) /\ Len(Tail(q)) = Len(q) - 1
  BY <1>2
<1> QED BY <1>1, <1>2, <1>3, TuningAssumption

-----------------------------------------------------------------------------
LEMMA TypeInit == Init => TypeOK
<1> SUFFICES ASSUME Init PROVE TypeOK
  OBVIOUS
<1>1. RigTypeOK
  <2>1. RigInit
    BY DEF Init
  <2>2. conn \in [Client -> {NoConn, OpenConn, Answering} \cup {Sending(k) : k \in Command}]
    BY <2>1 DEF RigInit
  <2>3. cat \in Seq(Command) /\ Len(cat) <= CatCapacity
    BY <2>1, EmptyQueue DEF RigInit
  <2> QED BY <2>1, <2>2, <2>3 DEF RigInit, RigTypeOK
<1>2. radio \in State /\ snapshot \in State /\ own \in [mode : RadioMode, agc : BOOLEAN]
  BY TuningAssumption DEF Init, State
<1>3. \A s \in Subscriber : Len(news[s]) <= Lag
  BY TuningAssumption DEF Init
<1>4. news \in [Subscriber -> Seq(State)] /\ wire \in Seq(Upstream)
  BY DEF Init
<1>5. bar \in SUBSET BarMode /\ Cardinality(bar) <= 1
  BY BarSize DEF Init
<1>6. tuning \in Tunings /\ inputs \in 0..MaxInputs
  BY TuningAssumption DEF Init, Tunings
<1>7. agc \in BOOLEAN /\ snapDue \in BOOLEAN /\ caps \in BOOLEAN /\ saved \in BOOLEAN /\ crossed \in BOOLEAN
  BY DEF Init
<1>8. target \in Target
  BY DEF Init
<1> QED BY <1>1, <1>2, <1>3, <1>4, <1>5, <1>6, <1>7, <1>8 DEF TypeOK

\* The radio's steps keep the types.
LEMMA TypeRadio ==
  ASSUME TypeOK, Poll \/ CatRun \/ CatLost \/ Panel
  PROVE  TypeOK'
<1> USE TuningAssumption
<1>1. CASE Poll
  <2>1. news' \in [Subscriber -> Seq(State)] /\ \A s \in Subscriber : Len(news'[s]) <= Lag
    BY <1>1, PublishedType DEF Poll, TypeOK
  <2> QED BY <1>1, <2>1 DEF Poll, TypeOK, RigTypeOK, rig, ui
<1>2. CASE CatRun
  <2> DEFINE k == Head(cat)
  <2>1. k \in Command /\ cat' \in Seq(Command) /\ Len(cat') <= CatCapacity
    BY <1>2, ConnAssumption DEF CatRun, TypeOK, RigTypeOK
  <2>2. radio' \in State /\ own' \in [mode : RadioMode, agc : BOOLEAN]
    <3>1. radio' = (IF k.reg \in DOMAIN radio THEN [radio EXCEPT ![k.reg] = k.val] ELSE radio)
      BY <1>2 DEF CatRun
    <3>2. own' = own \/ own' = (IF k.reg \in DOMAIN own THEN [own EXCEPT ![k.reg] = k.val] ELSE own)
      BY <1>2 DEF CatRun
    <3>3. own \in [mode : RadioMode, agc : BOOLEAN]
      BY DEF TypeOK
    <3> HIDE DEF k
    <3> QED BY <2>1, <3>1, <3>2, <3>3, AfterType
  <2>3. news' \in [Subscriber -> Seq(State)] /\ \A s \in Subscriber : Len(news'[s]) <= Lag
    <3>1. Published(radio')
      BY <1>2 DEF CatRun
    <3> QED BY <2>2, <3>1, PublishedType
  <2>4. agc' \in BOOLEAN
    <3>1. agc' = IF k.reg = "agc" THEN k.val ELSE agc
      BY <1>2 DEF CatRun
    <3>2. k.reg = "agc" => k.val \in BOOLEAN
      BY <2>1 DEF Command
    <3> QED BY <3>1, <3>2 DEF TypeOK
  <2>5. crossed' \in BOOLEAN
    <3>1. crossed' = (crossed \/ (k.by = "program" /\ k.reg = "mode"))
      BY <1>2 DEF CatRun
    <3> QED BY <3>1
  <2> HIDE DEF k
  <2> QED BY <1>2, <2>1, <2>2, <2>3, <2>4, <2>5 DEF CatRun, TypeOK, RigTypeOK, ui
<1>3. CASE CatLost
  <2>1. cat' \in Seq(Command) /\ Len(cat') <= CatCapacity
    BY <1>3, ConnAssumption DEF CatLost, TypeOK, RigTypeOK
  <2> QED BY <1>3, <2>1 DEF CatLost, Input, TypeOK, RigTypeOK, ui
<1>4. CASE Panel
  <2>1. radio' \in State /\ own' \in [mode : RadioMode, agc : BOOLEAN]
    BY <1>4 DEF Panel, TypeOK, State
  <2> QED BY <1>4, <2>1 DEF Panel, Input, TypeOK, RigTypeOK, rig, ui
<1> QED BY <1>1, <1>2, <1>3, <1>4

\* The steps of the pipeline's tasks and of the upstream handler.
LEMMA TypeServer ==
  ASSUME TypeOK, Forward \/ Track \/ UpDemod \/ UpCat
  PROVE  TypeOK'
<1>1. ASSUME NEW s \in Subscriber, Took(s)
      PROVE  /\ Head(news[s]) \in State
             /\ news' \in [Subscriber -> Seq(State)] /\ \A t \in Subscriber : Len(news'[t]) <= Lag
  <2>1. news[s] \in Seq(State) /\ news[s] # <<>> /\ Len(news[s]) <= Lag
    BY <1>1 DEF Took, TypeOK
  <2>2. Head(news[s]) \in State /\ Tail(news[s]) \in Seq(State) /\ Len(Tail(news[s])) <= Lag
    BY <2>1, TuningAssumption
  <2> QED BY <1>1, <2>2 DEF Took, TypeOK
<1>2. CASE Forward
  <2>1. Took("forwarder")
    BY <1>2 DEF Forward
  <2>2. tuning' \in Tunings
    <3>1. Head(news["forwarder"]) \in State
      BY <1>1, <2>1 DEF Subscriber
    <3>2. InForce(Head(news["forwarder"])) \in Mode
      BY <3>1 DEF InForce, TypeOK, RigTypeOK, State, Mode
    <3> QED BY <1>2, <3>1, <3>2 DEF Forward, Tunings, State
  <2> QED BY <1>1, <1>2, <2>1, <2>2 DEF Forward, Subscriber, TypeOK, RigTypeOK, rig, ui
<1>3. CASE Track
  <2>1. Took("tracker")
    BY <1>3 DEF Track
  <2>2. snapDue' \in BOOLEAN
    BY <1>3 DEF Track
  <2>3. snapshot' \in State
    BY <1>1, <1>3, <2>1 DEF Track, Subscriber
  <2> QED BY <1>1, <1>3, <2>1, <2>2, <2>3 DEF Track, Subscriber, TypeOK, RigTypeOK, rig, ui
<1>4. ASSUME wire # <<>>
      PROVE  Head(wire) \in Upstream /\ Tail(wire) \in Seq(Upstream)
  BY <1>4 DEF TypeOK
<1>5. CASE UpDemod
  <2>1. Head(wire) \in Upstream /\ wire' \in Seq(Upstream) /\ Head(wire).kind = "demod"
    BY <1>4, <1>5 DEF UpDemod
  <2>2. override' \in Mode
    BY <1>5, <2>1 DEF UpDemod, Upstream
  <2> QED BY <1>5, <2>1, <2>2 DEF UpDemod, TypeOK, RigTypeOK, server
<1>6. CASE UpCat
  <2>1. Head(wire) \in Upstream /\ wire' \in Seq(Upstream) /\ Head(wire).kind = "cat"
    BY <1>4, <1>6 DEF UpCat
  <2>2. Head(wire).cmd \in Command
    BY <2>1 DEF Upstream
  <2>3. cat' \in Seq(Command) /\ Len(cat') <= CatCapacity
    <3>1. cat \in Seq(Command) /\ Len(cat) <= CatCapacity
      BY DEF TypeOK, RigTypeOK
    <3>2. CASE cat' = cat
      BY <3>1, <3>2
    <3>3. CASE cat' = Append(cat, Head(wire).cmd) /\ Len(cat) < CatCapacity
      BY <2>2, <3>1, <3>3, ConnAssumption
    <3> QED BY <1>6, <3>2, <3>3 DEF UpCat
  <2> QED BY <1>6, <2>1, <2>3 DEF UpCat, TypeOK, RigTypeOK, server
<1> QED BY <1>2, <1>3, <1>5, <1>6

\* The client's steps.
LEMMA TypeClient ==
  ASSUME TypeOK, Greet \/ ShowSnapshot \/ User
  PROVE  TypeOK'
<1>1. \A k \in Command : Cat(k) \in Upstream
  BY DEF Cat, Upstream
<1>2. \A on \in BOOLEAN : Agc(on) \in Upstream
  BY <1>1, Commands DEF Agc, Sender
<1>3. CASE Greet
  <2>1. wire' \in Seq(Upstream)
    BY <1>2, <1>3 DEF Greet, TypeOK
  <2> QED BY <1>3, <2>1 DEF Greet, TypeOK, RigTypeOK, rig, server
<1>4. CASE ShowSnapshot
  <2>1. bar' \in SUBSET BarMode /\ Cardinality(bar') <= 1
    BY <1>4, BarSize DEF ShowSnapshot
  <2> QED BY <1>4, <2>1 DEF ShowSnapshot, TypeOK, RigTypeOK, rig
<1>5. CASE Reconnect
  <2>1. caps' \in BOOLEAN /\ snapDue' \in BOOLEAN
    BY <1>5 DEF Reconnect
  <2>2. inputs' \in 0..MaxInputs
    BY <1>5, TuningAssumption DEF Reconnect, Input, TypeOK
  <2> QED BY <1>5, <2>1, <2>2 DEF Reconnect, TypeOK, RigTypeOK, rig
<1>6. ASSUME NEW m \in BarMode, ClickMode(m) PROVE TypeOK'
  <2>1. m \in Mode
    BY BarAssumption DEF Mode
  <2>2. Cat(Set("client", "mode", ModeToCat(m))) \in Upstream
    BY <1>1, <2>1, Commands, Parks DEF Sender
  <2>3. [kind |-> "demod", mode |-> m] \in Upstream
    BY <2>1 DEF Upstream
  <2>4. wire' \in Seq(Upstream)
    <3>1. wire \in Seq(Upstream)
      BY DEF TypeOK
    <3> DEFINE two == <<[kind |-> "demod", mode |-> m], Cat(Set("client", "mode", ModeToCat(m)))>>
    <3>2. two \in Seq(Upstream)
      BY <2>2, <2>3
    <3>3. wire' = wire \/ wire' = wire \o two
      BY <1>6 DEF ClickMode
    <3> HIDE DEF two
    <3> QED BY <3>1, <3>2, <3>3, ConcatProperties
  <2>5. bar' \in SUBSET BarMode /\ Cardinality(bar') <= 1
    <3>1. bar' = bar \/ bar' = {m}
      BY <1>6 DEF ClickMode
    <3> QED BY <3>1, BarSize DEF TypeOK
  <2> QED BY <1>6, <2>4, <2>5, TuningAssumption DEF ClickMode, Input, TypeOK, RigTypeOK, rig, server
<1>7. ASSUME NEW f \in Freq, EnterFreq(f) PROVE TypeOK'
  <2>1. Cat(Set("client", "freq", f)) \in Upstream
    BY <1>1, Commands DEF Sender
  <2>2. wire' \in Seq(Upstream)
    BY <1>7, <2>1 DEF EnterFreq, TypeOK
  <2> QED BY <1>7, <2>2, TuningAssumption DEF EnterFreq, Input, TypeOK, RigTypeOK, rig, server
<1>8. ASSUME NEW on \in BOOLEAN, EnterAgc(on) PROVE TypeOK'
  <2>1. wire' \in Seq(Upstream)
    BY <1>2, <1>8 DEF EnterAgc, TypeOK
  <2> QED BY <1>8, <2>1, TuningAssumption DEF EnterAgc, Input, TypeOK, RigTypeOK, rig, server
<1> QED BY <1>3, <1>4, <1>5, <1>6, <1>7, <1>8 DEF User

\* The steps of the connections and of the end.
LEMMA TypeRig ==
  ASSUME TypeOK, (\E c \in Client : Program(c) \/ Answer(c) \/ Conclude(c) \/ \E l \in Line : Write(c, l)) \/ Cancel \/ CatEnds
  PROVE  TypeOK'
<1> DEFINE Conns == {NoConn, OpenConn, Answering} \cup {Sending(k) : k \in Command}
<1>1. ASSUME NEW c \in Client, NEW x \in Conns, conn' = [conn EXCEPT ![c] = x]
      PROVE  conn' \in [Client -> Conns]
  <2>1. conn \in [Client -> Conns]
    BY DEF TypeOK, RigTypeOK
  <2> HIDE DEF Conns
  <2> QED BY <1>1, <2>1
<1>2. ASSUME NEW c \in Client, Program(c) \/ Answer(c) PROVE TypeOK'
  <2>1. conn' \in [Client -> Conns]
    <3>1. conn' = [conn EXCEPT ![c] = OpenConn] \/ conn' = [conn EXCEPT ![c] = NoConn]
      BY <1>2 DEF Program, Answer, Accept, Answered, WriteFails, EndConn
    <3> QED BY <1>1, <3>1
  <2> QED BY <1>2, <2>1 DEF Program, Answer, Accept, Answered, WriteFails, EndConn, TypeOK, RigTypeOK, rest
<1>3. ASSUME NEW c \in Client, conn[c].at = "sending" PROVE conn[c].cmd \in Command
  <2>1. conn[c] \in Conns
    BY DEF TypeOK, RigTypeOK
  <2>2. PICK k \in Command : conn[c] = Sending(k)
    BY <1>3, <2>1 DEF NoConn, OpenConn, Answering
  <2> QED BY <2>2 DEF Sending
<1>4. ASSUME NEW c \in Client, Conclude(c) PROVE TypeOK'
  <2>1. conn' \in [Client -> Conns]
    <3>1. conn' = [conn EXCEPT ![c] = Answering] \/ conn' = [conn EXCEPT ![c] = NoConn]
      BY <1>4 DEF Conclude, Sent, EndConn
    <3> QED BY <1>1, <3>1
  <2>2. cat' \in Seq(Command) /\ Len(cat') <= CatCapacity
    <3>1. cat \in Seq(Command) /\ Len(cat) <= CatCapacity
      BY DEF TypeOK, RigTypeOK
    <3>2. CASE Sent(c)
      BY <1>3, <3>1, <3>2, ConnAssumption DEF Sent
    <3>3. CASE EndConn(c)
      BY <3>1, <3>3 DEF EndConn
    <3> QED BY <1>4, <3>2, <3>3 DEF Conclude
  <2> QED BY <1>4, <2>1, <2>2 DEF Conclude, Sent, EndConn, TypeOK, RigTypeOK, rest
<1>5. ASSUME NEW c \in Client, NEW l \in Line, Write(c, l) PROVE TypeOK'
  <2>1. CatOf(c, l) \subseteq Command
    <3>1. CASE l.op = "F"
      <4>1. l.arg \in Freq
        BY <3>1 DEF Line
      <4> QED BY <3>1, <4>1, Commands DEF CatOf, Sender
    <3>2. CASE l.op = "M"
      <4>1. l.arg \in RadioMode
        BY <3>2 DEF Line
      <4>2. ModeToCat(l.arg) \in RadioMode
        BY <4>1, Parks DEF Mode
      <4> QED BY <3>2, <4>2, Commands DEF CatOf, Sender
    <3>3. CASE l.op \in {"T", "other"}
      <4>1. l.arg \in BOOLEAN
        BY <3>3 DEF Line
      <4> QED BY <3>3, <4>1, Commands DEF CatOf, Sender
    <3> QED BY <3>1, <3>2, <3>3 DEF Line
  <2>2. conn' \in [Client -> Conns]
    <3>1. CASE conn' = [conn EXCEPT ![c] = Answering]
      BY <1>1, <3>1
    <3>2. ASSUME NEW k \in CatOf(c, l), conn' = [conn EXCEPT ![c] = Sending(k)]
          PROVE  conn' \in [Client -> Conns]
      BY <1>1, <2>1, <3>2
    <3> QED BY <1>5, <3>1, <3>2 DEF Write, ReadLine
  <2>3. override' \in Mode \cup {None}
    <3>1. l.op = "M" => l.arg \in Mode
      BY DEF Line, Mode
    <3> QED BY <1>5, <3>1 DEF Write, ReadLine, TypeOK, RigTypeOK
  <2> QED BY <1>5, <2>2, <2>3, TuningAssumption DEF Write, ReadLine, Input, TypeOK, RigTypeOK, server, ui
<1>6. CASE Cancel
  BY <1>6, TuningAssumption DEF Cancel, Input, TypeOK, RigTypeOK, server, ui
<1>7. CASE CatEnds
  BY <1>7, EmptyQueue DEF CatEnds, TypeOK, RigTypeOK, rest
<1> QED BY <1>2, <1>4, <1>5, <1>6, <1>7

LEMMA TypeStep == TypeOK /\ [Next]_vars => TypeOK'
<1> SUFFICES ASSUME TypeOK, [Next]_vars PROVE TypeOK'
  OBVIOUS
<1>1. CASE UNCHANGED vars
  BY <1>1 DEF TypeOK, RigTypeOK, vars, rig, rest
<1> QED BY <1>1, TypeRadio, TypeServer, TypeClient, TypeRig DEF Next

\* The state of the server, the client and the connections is well-typed, and
\* no channel holds more than its capacity.
THEOREM TypeCorrect == Spec => []TypeOK
<1>1. Init => TypeOK
  BY TypeInit
<1>2. TypeOK /\ [Next]_vars => TypeOK'
  BY TypeStep
<1> QED BY <1>1, <1>2, PTL DEF Spec

-----------------------------------------------------------------------------
(* A client in IQ mode and the radio.                                      *)

\* A command that may pass: another than the client sends it, or it tunes.
Passes(k) == k.by = "client" => k.reg = "freq"

\* HiddenRadioKept alone is not inductive: a command already on its way would
\* break it.  Every command between the filter and the radio is one that may
\* pass, also those that connections wait to send.
Hidden ==
  target = "DemodMirrorFreq" =>
    /\ radio.mode = own.mode /\ agc = own.agc
    /\ \A i \in 1..Len(cat) : Passes(cat[i])
    /\ \A c \in Client : conn[c].at = "sending" => Passes(conn[c].cmd)

LEMMA HiddenInit == Init => Hidden
BY DEF Init, RigInit, Hidden, NoConn

\* What the channel holds still passes after the first is taken or one that
\* passes is added.
LEMMA ChannelPasses ==
  ASSUME NEW q \in Seq(Command), \A i \in 1..Len(q) : Passes(q[i])
  PROVE  /\ q # <<>> => Passes(Head(q)) /\ \A i \in 1..Len(Tail(q)) : Passes(Tail(q)[i])
         /\ \A k \in Command : Passes(k) =>
              \A i \in 1..Len(Append(q, k)) : Passes(Append(q, k)[i])
<1>1. ASSUME q # <<>>
      PROVE  Passes(Head(q)) /\ \A i \in 1..Len(Tail(q)) : Passes(Tail(q)[i])
  <2>1. Len(q) >= 1 /\ Head(q) = q[1] /\ Len(Tail(q)) = Len(q) - 1
    BY <1>1
  <2>2. \A i \in 1..Len(Tail(q)) : Tail(q)[i] = q[i + 1] /\ i + 1 \in 1..Len(q)
    BY <1>1, <2>1
  <2> QED BY <2>1, <2>2
<1>2. ASSUME NEW k \in Command, Passes(k), NEW i \in 1..Len(Append(q, k))
      PROVE  Passes(Append(q, k)[i])
  BY <1>2
<1> QED BY <1>1, <1>2

\* The radio's steps.
LEMMA HiddenRadio ==
  ASSUME TypeOK, Hidden, CatRun \/ CatLost \/ Panel
  PROVE  Hidden'
<1> SUFFICES ASSUME target' = "DemodMirrorFreq"
             PROVE  /\ radio'.mode = own'.mode /\ agc' = own'.agc
                    /\ \A i \in 1..Len(cat') : Passes(cat'[i])
                    /\ \A c \in Client : conn'[c].at = "sending" => Passes(conn'[c].cmd)
  BY DEF Hidden, Passes
<1>1. target = "DemodMirrorFreq"
  BY DEF CatRun, CatLost, Panel
<1>2. radio \in State /\ own \in [mode : RadioMode, agc : BOOLEAN] /\ cat \in Seq(Command)
  BY DEF TypeOK, RigTypeOK
<1>3. conn' = conn
  BY DEF CatRun, CatLost, Panel, rig
<1>4. \A c \in Client : conn'[c].at = "sending" => Passes(conn'[c].cmd)
  BY <1>1, <1>3 DEF Hidden
<1>5. CASE CatRun
  <2> DEFINE k == Head(cat)
  <2>1. k \in Command /\ Passes(k) /\ \A i \in 1..Len(cat') : Passes(cat'[i])
    BY <1>1, <1>2, <1>5, ChannelPasses DEF CatRun, Hidden
  <2>2. /\ radio' = (IF k.reg \in DOMAIN radio THEN [radio EXCEPT ![k.reg] = k.val] ELSE radio)
        /\ own' = (IF k.by = "client" THEN own
                   ELSE IF k.reg \in DOMAIN own THEN [own EXCEPT ![k.reg] = k.val] ELSE own)
        /\ agc' = IF k.reg = "agc" THEN k.val ELSE agc
    BY <1>5 DEF CatRun
  <2>3. DOMAIN radio = {"freq", "mode"} /\ DOMAIN own = {"mode", "agc"}
    BY <1>2 DEF State
  <2>4. radio.mode = own.mode /\ agc = own.agc
    BY <1>1 DEF Hidden
  <2> HIDE DEF k
  <2>5. k.by = "client" => k.reg = "freq"
    BY <2>1 DEF Passes
  <2>6. k.reg \in {"freq", "mode", "agc", "ptt"}
    BY <2>1 DEF Command
  <2>7. radio'.mode = own'.mode /\ agc' = own'.agc
    <3>1. CASE k.reg = "freq"
      <4>1. radio' = [radio EXCEPT !["freq"] = k.val] /\ own' = own /\ agc' = agc
        BY <2>2, <2>3, <3>1
      <4>2. radio'.mode = radio.mode
        BY <1>2, <4>1 DEF State
      <4> QED BY <2>4, <4>1, <4>2
    <3>2. CASE k.reg = "mode"
      <4>1. radio' = [radio EXCEPT !["mode"] = k.val] /\ own' = [own EXCEPT !["mode"] = k.val] /\ agc' = agc
        BY <2>2, <2>3, <2>5, <3>2
      <4>2. radio'.mode = k.val /\ own'.mode = k.val /\ own'.agc = own.agc
        BY <1>2, <4>1 DEF State
      <4> QED BY <2>4, <4>1, <4>2
    <3>3. CASE k.reg = "agc"
      <4>1. radio' = radio /\ own' = [own EXCEPT !["agc"] = k.val] /\ agc' = k.val
        BY <2>2, <2>3, <2>5, <3>3
      <4>2. own'.mode = own.mode /\ own'.agc = k.val
        BY <1>2, <4>1 DEF State
      <4> QED BY <2>4, <4>1, <4>2
    <3>4. CASE k.reg = "ptt"
      BY <2>2, <2>3, <2>4, <3>4
    <3> QED BY <2>6, <3>1, <3>2, <3>3, <3>4
  <2> QED BY <1>4, <2>1, <2>7
<1>6. CASE CatLost
  BY <1>1, <1>2, <1>4, <1>6, ChannelPasses DEF CatLost, Hidden
<1>7. CASE Panel
  <2>1. radio'.mode = own'.mode /\ agc' = own'.agc
    BY <1>1, <1>2, <1>7 DEF Panel, Hidden
  <2> QED BY <1>1, <1>4, <1>7, <2>1 DEF Panel, Hidden, rig
<1> QED BY <1>5, <1>6, <1>7

\* The upstream handler lets only what may pass into the channel.
LEMMA HiddenUp ==
  ASSUME TypeOK, Hidden, UpCat
  PROVE  Hidden'
<1> SUFFICES ASSUME target = "DemodMirrorFreq"
             PROVE  \A i \in 1..Len(cat') : Passes(cat'[i])
  BY DEF UpCat, server, Hidden
<1>1. cat \in Seq(Command) /\ wire \in Seq(Upstream)
  BY DEF TypeOK, RigTypeOK
<1>2. \A i \in 1..Len(cat) : Passes(cat[i])
  BY DEF Hidden
<1>3. Head(wire).cmd \in Command
  <2>1. Head(wire) \in Upstream /\ Head(wire).kind = "cat"
    BY <1>1 DEF UpCat
  <2> QED BY <2>1 DEF Upstream
<1>4. CASE Routed(Head(wire).cmd)
  <2>1. cat' = Append(cat, Head(wire).cmd)
    BY <1>4 DEF UpCat
  <2>2. Passes(Head(wire).cmd)
    BY <1>4 DEF Routed, Passes
  <2> QED BY <1>1, <1>2, <1>3, <2>1, <2>2, ChannelPasses
<1>5. CASE ~Routed(Head(wire).cmd)
  BY <1>2, <1>5 DEF UpCat
<1> QED BY <1>4, <1>5

\* The programs' commands are not the client's.
LEMMA HiddenRig ==
  ASSUME TypeOK, Hidden, (\E c \in Client : Program(c) \/ Answer(c) \/ Conclude(c) \/ \E l \in Line : Write(c, l)) \/ CatEnds
  PROVE  Hidden'
<1> SUFFICES ASSUME target = "DemodMirrorFreq"
             PROVE  /\ \A i \in 1..Len(cat') : Passes(cat'[i])
                    /\ \A c \in Client : conn'[c].at = "sending" => Passes(conn'[c].cmd)
  BY DEF Program, Answer, Conclude, Write, CatEnds, server, rest, Hidden
<1>1. cat \in Seq(Command) /\ conn \in [Client -> {NoConn, OpenConn, Answering} \cup {Sending(k) : k \in Command}]
  BY DEF TypeOK, RigTypeOK
<1>2. /\ \A i \in 1..Len(cat) : Passes(cat[i])
      /\ \A c \in Client : conn[c].at = "sending" => Passes(conn[c].cmd)
  BY DEF Hidden
<1>3. ASSUME NEW c \in Client, NEW x \in {NoConn, OpenConn, Answering}, conn' = [conn EXCEPT ![c] = x]
      PROVE  \A d \in Client : conn'[d].at = "sending" => Passes(conn'[d].cmd)
  BY <1>1, <1>2, <1>3 DEF OpenConn, NoConn, Answering
<1>4. ASSUME NEW c \in Client, Program(c) \/ Answer(c)
      PROVE  /\ \A i \in 1..Len(cat') : Passes(cat'[i])
             /\ \A d \in Client : conn'[d].at = "sending" => Passes(conn'[d].cmd)
  BY <1>2, <1>3, <1>4 DEF Program, Answer, Accept, Answered, WriteFails, EndConn
<1>5. ASSUME NEW c \in Client, Conclude(c)
      PROVE  /\ \A i \in 1..Len(cat') : Passes(cat'[i])
             /\ \A d \in Client : conn'[d].at = "sending" => Passes(conn'[d].cmd)
  <2>1. \A d \in Client : conn'[d].at = "sending" => Passes(conn'[d].cmd)
    BY <1>3, <1>5 DEF Conclude, Sent, EndConn
  <2>2. CASE Sent(c)
    <3>1. conn[c].at = "sending" /\ Passes(conn[c].cmd)
      BY <1>2, <2>2 DEF Sent
    <3>2. conn[c].cmd \in Command
      <4>1. PICK k \in Command : conn[c] = Sending(k)
        BY <1>1, <3>1 DEF NoConn, OpenConn, Answering
      <4> QED BY <4>1 DEF Sending
    <3>3. cat' = cat \/ cat' = Append(cat, conn[c].cmd)
      BY <2>2 DEF Sent
    <3> QED BY <1>1, <1>2, <2>1, <3>1, <3>2, <3>3, ChannelPasses
  <2>3. CASE EndConn(c)
    BY <1>2, <2>1, <2>3 DEF EndConn
  <2> QED BY <1>5, <2>2, <2>3 DEF Conclude
<1>6. ASSUME NEW c \in Client, NEW l \in Line, Write(c, l)
      PROVE  /\ \A i \in 1..Len(cat') : Passes(cat'[i])
             /\ \A d \in Client : conn'[d].at = "sending" => Passes(conn'[d].cmd)
  <2>1. \A k \in CatOf(c, l) : Passes(k)
    BY DEF CatOf, Set, Passes
  <2>2. CASE conn' = [conn EXCEPT ![c] = Answering]
    BY <1>2, <1>3, <1>6, <2>2 DEF Write, ReadLine
  <2>3. ASSUME NEW k \in CatOf(c, l), conn' = [conn EXCEPT ![c] = Sending(k)]
        PROVE  \A d \in Client : conn'[d].at = "sending" => Passes(conn'[d].cmd)
    <3>1. Passes(k)
      BY <2>1
    <3> QED BY <1>1, <1>2, <2>3, <3>1 DEF Sending
  <2> QED BY <1>2, <1>6, <2>2, <2>3 DEF Write, ReadLine
<1>7. CASE CatEnds
  BY <1>2, <1>7 DEF CatEnds
<1> QED BY <1>4, <1>5, <1>6, <1>7

LEMMA HiddenStep == TypeOK /\ Hidden /\ [Next]_vars => Hidden'
<1> SUFFICES ASSUME TypeOK, Hidden, [Next]_vars PROVE Hidden'
  OBVIOUS
<1>1. CASE CatRun \/ CatLost \/ Panel
  BY <1>1, HiddenRadio
<1>2. CASE UpCat
  BY <1>2, HiddenUp
<1>3. CASE (\E c \in Client : Program(c) \/ Answer(c) \/ Conclude(c) \/ \E l \in Line : Write(c, l)) \/ CatEnds
  BY <1>3, HiddenRig
<1>4. CASE Poll \/ Forward \/ Track \/ UpDemod \/ Cancel
  BY <1>4 DEF Poll, Forward, Track, UpDemod, Cancel, rig, server, Hidden
<1>5. CASE Greet \/ ShowSnapshot \/ User
  BY <1>5 DEF Greet, ShowSnapshot, User, Reconnect, ClickMode, EnterFreq, EnterAgc, rig, server, Hidden
<1>6. CASE UNCHANGED vars
  BY <1>6 DEF vars, rig, rest, Hidden
<1> QED BY <1>1, <1>2, <1>3, <1>4, <1>5, <1>6 DEF Next

\* Whatever the client clicks, reconnects or remembers, the mode and AGC of a
\* radio that only feeds its demodulator are what the others set.
THEOREM HiddenKept == Spec => []HiddenRadioKept
<1>1. Init => TypeOK /\ Hidden
  BY TypeInit, HiddenInit
<1>2. TypeOK /\ Hidden /\ [Next]_vars => (TypeOK /\ Hidden)'
  BY TypeStep, HiddenStep
<1>3. Hidden => HiddenRadioKept
  BY DEF Hidden, HiddenRadioKept
<1> QED BY <1>1, <1>2, <1>3, PTL DEF Spec

-----------------------------------------------------------------------------
(* Agreement, once there.                                                  *)

\* Everyone agrees and nothing is under way: the states still to be taken are
\* the radio's, the snapshot is, no program's command waits, and a snapshot
\* still to be shown has a button.
Calm ==
  /\ Agree /\ caps
  /\ snapshot = radio /\ (snapDue => radio.mode \in BarMode)
  /\ \A s \in Subscriber : \A i \in 1..Len(news[s]) : news[s][i] = radio
  /\ \A c \in Client : conn[c].at # "sending"

\* Only people, programs and failures end it: no poll, echo, snapshot or end
\* of a task does.
AgreementStays == [][Calm /\ inputs' = inputs => Calm']_vars

\* Publishing the radio's state adds only that to what is to be taken.
LEMMA PublishedRadio ==
  ASSUME TypeOK, Published(radio),
         \A s \in Subscriber : \A i \in 1..Len(news[s]) : news[s][i] = radio
  PROVE  \A s \in Subscriber : \A i \in 1..Len(news'[s]) : news'[s][i] = radio
<1> SUFFICES ASSUME NEW s \in Subscriber
             PROVE  \A i \in 1..Len(news'[s]) : news'[s][i] = radio
  OBVIOUS
<1> DEFINE q == Append(news[s], radio)
<1>1. news[s] \in Seq(State) /\ radio \in State
  BY DEF TypeOK
<1>2. \A i \in 1..Len(q) : q[i] = radio
  BY <1>1
<1>3. Len(q) >= 1 /\ q \in Seq(State)
  BY <1>1
<1>4. news'[s] = IF Len(q) > Lag THEN Tail(q) ELSE q
  BY DEF Published
<1> HIDE DEF q
<1>5. Len(Tail(q)) = Len(q) - 1 /\ \A i \in 1..Len(Tail(q)) : Tail(q)[i] = q[i + 1]
  BY <1>3
<1> QED BY <1>2, <1>3, <1>4, <1>5

\* A subscriber that takes a state takes the radio's, and leaves no other.
LEMMA TookRadio ==
  ASSUME TypeOK, NEW s \in Subscriber, Took(s),
         \A t \in Subscriber : \A i \in 1..Len(news[t]) : news[t][i] = radio
  PROVE  /\ Head(news[s]) = radio
         /\ \A t \in Subscriber : \A i \in 1..Len(news'[t]) : news'[t][i] = radio
<1>1. news \in [Subscriber -> Seq(State)] /\ news[s] # <<>> /\ news' = [news EXCEPT ![s] = Tail(@)]
  BY DEF TypeOK, Took
<1> DEFINE q == news[s]
<1>2. q \in Seq(State) /\ q # <<>> /\ \A i \in 1..Len(q) : q[i] = radio
  BY <1>1
<1> HIDE DEF q
<1>3. /\ Len(q) >= 1 /\ Head(q) = q[1] /\ Len(Tail(q)) = Len(q) - 1
      /\ \A i \in 1..Len(Tail(q)) : Tail(q)[i] = q[i + 1]
  BY <1>2
<1>4. Head(q) = radio /\ \A i \in 1..Len(Tail(q)) : Tail(q)[i] = radio
  BY <1>2, <1>3
<1>5. news'[s] = Tail(q) /\ \A t \in Subscriber : t # s => news'[t] = news[t]
  BY <1>1 DEF q
<1> QED BY <1>4, <1>5 DEF q

\* No step of the system's own leaves it.
LEMMA CalmStep ==
  ASSUME TypeOK, Calm, [Next]_vars, inputs' = inputs
  PROVE  Calm'
<1>1. /\ wire = <<>> /\ cat = <<>> /\ caps /\ snapshot = radio
      /\ tuning = [freq |-> radio.freq, mode |-> InForce(radio)]
      /\ (target = "Radio" /\ ~crossed => \E m \in bar : ModeToCat(m) = radio.mode)
      /\ inputs \in Nat
  BY TuningAssumption DEF Calm, Agree, TypeOK
<1>2. ~Input
  BY <1>1 DEF Input
<1>3. CASE Poll
  <2>1. UNCHANGED <<rig, target, radio, tuning, snapshot, snapDue, crossed, ui>>
    BY <1>3 DEF Poll
  <2>2. \A s \in Subscriber : \A i \in 1..Len(news'[s]) : news'[s][i] = radio
    BY <1>3, PublishedRadio DEF Poll, Calm
  <2> QED BY <2>1, <2>2 DEF Calm, Agree, InForce, rig, ui
<1>4. CASE Forward
  <2>1. UNCHANGED <<rig, target, radio, snapshot, snapDue, crossed, ui>>
    BY <1>4 DEF Forward
  <2>2. /\ Head(news["forwarder"]) = radio
        /\ \A s \in Subscriber : \A i \in 1..Len(news'[s]) : news'[s][i] = radio
    BY <1>4, TookRadio DEF Forward, Calm, Subscriber
  <2>3. tuning' = [freq |-> radio.freq, mode |-> InForce(radio)]
    BY <1>4, <2>2 DEF Forward
  <2> QED BY <2>1, <2>2, <2>3 DEF Calm, Agree, InForce, rig, ui
<1>5. CASE Track
  <2>1. UNCHANGED <<rig, target, radio, tuning, crossed, ui>>
    BY <1>5 DEF Track
  <2>2. /\ Head(news["tracker"]) = radio
        /\ \A s \in Subscriber : \A i \in 1..Len(news'[s]) : news'[s][i] = radio
    BY <1>5, TookRadio DEF Track, Calm, Subscriber
  <2>3. snapshot' = radio /\ snapDue' = snapDue
    BY <1>1, <1>5, <2>2 DEF Track, TypeOK
  <2> QED BY <2>1, <2>2, <2>3 DEF Calm, Agree, InForce, rig, ui
<1>6. CASE ShowSnapshot
  <2>1. UNCHANGED <<rig, target, radio, news, tuning, snapshot, crossed, caps, wire>>
    BY <1>6 DEF ShowSnapshot
  <2>2. radio.mode \in bar' /\ ~snapDue'
    BY <1>1, <1>6 DEF ShowSnapshot, Calm
  <2>3. ModeToCat(radio.mode) = radio.mode
    BY ModeAssumption DEF ModeToCat, TypeOK, State
  <2> QED BY <2>1, <2>2, <2>3 DEF Calm, Agree, InForce, rig
<1>7. ASSUME NEW c \in Client, Program(c) \/ Answer(c) \/ Conclude(c) PROVE Calm'
  <2>1. UNCHANGED <<rest, cat, override>>
    BY <1>7 DEF Program, Answer, Conclude, Accept, Answered, WriteFails, EndConn, Sent, Calm
  <2>2. PICK x \in {NoConn, OpenConn} : conn' = [conn EXCEPT ![c] = x]
    BY <1>7 DEF Program, Answer, Conclude, Accept, Answered, WriteFails, EndConn, Sent, Calm
  <2>3. \A d \in Client : conn'[d].at # "sending"
    BY <2>2 DEF Calm, TypeOK, RigTypeOK, OpenConn, NoConn
  <2> QED BY <2>1, <2>3 DEF Calm, Agree, InForce, rest
<1>8. CASE CatEnds
  BY <1>8 DEF CatEnds, Calm, Agree, InForce, rest
<1>9. CASE UNCHANGED vars
  BY <1>9 DEF vars, rig, rest, Calm, Agree, InForce
<1>10. ~(CatRun \/ CatLost \/ Panel \/ UpDemod \/ UpCat \/ Greet \/ User \/ Cancel)
  BY <1>1, <1>2 DEF CatRun, CatLost, Panel, UpDemod, UpCat, Greet, User, Reconnect, ClickMode, EnterFreq,
     EnterAgc, Cancel
<1>11. ~\E c \in Client, l \in Line : Write(c, l)
  BY <1>2 DEF Write
<1> QED BY <1>3, <1>4, <1>5, <1>6, <1>7, <1>8, <1>9, <1>10, <1>11 DEF Next

\* What the radio says comes back through the poll, the forwarder, the tracker
\* and the client's widgets without anything being sent in return
\* (controls.rs, apply_snapshot): the ways a state is spread do not feed back.
THEOREM AgreementLasts == Spec => AgreementStays
<1>1. TypeOK /\ [Next]_vars => [Calm /\ inputs' = inputs => Calm']_vars
  BY CalmStep
<1>2. Init => TypeOK
  BY TypeInit
<1>3. TypeOK /\ [Next]_vars => TypeOK'
  BY TypeStep
<1> QED BY <1>1, <1>2, <1>3, PTL DEF Spec, AgreementStays

\* What a connection does once the token has fired: nothing, or it gets out of
\* the CAT channel, has its answer written, or ends.
OnlyEnds(c) ==
  \/ conn'[c] = conn[c]
  \/ conn[c].at = "sending" /\ conn'[c] = Answering
  \/ conn[c] = Answering /\ conn'[c] \in {OpenConn, NoConn}
  \/ conn[c] = OpenConn /\ conn'[c] = NoConn

\* After cancellation no connection is accepted, none reads another line, and the
\* CAT channel stays closed: a connection has three steps left at most.
ConnsOnlyEnd ==
  [][cancelled => /\ cancelled' /\ (catOpen' => catOpen)
                  /\ \A c \in Client : OnlyEnds(c)]_vars

\* The listener and handle_conn look at the token before they take more
\* (responder.rs); only the line in hand is still carried out and answered.
THEOREM ConnsHaveThreeSteps == Spec => ConnsOnlyEnd
<1>1. ASSUME TypeOK, [Next]_vars, cancelled
      PROVE  /\ cancelled' /\ (catOpen' => catOpen)
             /\ \A c \in Client : OnlyEnds(c)
  <2>1. CASE \E c \in Client : Program(c) \/ Answer(c) \/ Conclude(c)
    <3>1. PICK c \in Client : Sent(c) \/ Answered(c) \/ WriteFails(c) \/ EndConn(c)
      BY <1>1, <2>1 DEF Program, Answer, Conclude, Accept
    <3>2. /\ UNCHANGED <<catOpen, cancelled>>
          /\ \/ conn[c].at = "sending" /\ conn' = [conn EXCEPT ![c] = Answering]
             \/ conn[c] = Answering /\ conn' = [conn EXCEPT ![c] = OpenConn]
             \/ conn[c] = Answering /\ conn' = [conn EXCEPT ![c] = NoConn]
             \/ conn[c] = OpenConn /\ conn' = [conn EXCEPT ![c] = NoConn]
      BY <3>1 DEF Sent, Answered, WriteFails, EndConn
    <3>3. conn \in [Client -> {NoConn, OpenConn, Answering} \cup {Sending(k) : k \in Command}]
      BY <1>1 DEF TypeOK, RigTypeOK
    <3>4. \A d \in Client : d # c => conn'[d] = conn[d]
      BY <3>2, <3>3
    <3>5. OnlyEnds(c)
      BY <3>2, <3>3 DEF OnlyEnds
    <3> QED BY <1>1, <3>2, <3>4, <3>5 DEF OnlyEnds
  <2>2. CASE ~\E c \in Client : Program(c) \/ Answer(c) \/ Conclude(c)
    <3> SUFFICES conn' = conn /\ cancelled' = cancelled /\ (catOpen' = FALSE \/ catOpen' = catOpen)
      BY <1>1 DEF OnlyEnds
    <3>1. \A c \in Client, l \in Line : ~Write(c, l)
      BY <1>1 DEF Write, ReadLine
    <3>2. CASE CatEnds \/ UNCHANGED vars
      BY <1>1, <3>2 DEF CatEnds, vars, rig
    <3>3. CASE Poll \/ CatRun \/ CatLost \/ Panel
      BY <1>1, <3>3 DEF Poll, CatRun, CatLost, Panel, rig
    <3>4. CASE User
      BY <1>1, <3>4 DEF User, Reconnect, ClickMode, EnterFreq, EnterAgc, rig
    <3>5. ~(Forward \/ Track \/ UpDemod \/ UpCat \/ Greet \/ ShowSnapshot \/ Cancel)
      BY <1>1 DEF Forward, Track, UpDemod, UpCat, Greet, ShowSnapshot, Cancel
    <3> QED BY <1>1, <2>2, <3>1, <3>2, <3>3, <3>4, <3>5 DEF Next
  <2> QED BY <2>1, <2>2
<1> QED BY <1>1, TypeCorrect, PTL DEF Spec, ConnsOnlyEnd

-----------------------------------------------------------------------------
(* Induction, and integer division.                                        *)

\* The relation of NatLessThanWellFounded, written out.
LEMMA NatWellFounded == IsWellFoundedOn({ss \in Nat \X Nat : ss[1] < ss[2]}, Nat)
  BY NatLessThanWellFounded DEF OpToRel

\* Induction over 0..N, with the set of the numbers it has reached for the
\* predicate.
LEMMA UpTo ==
  ASSUME NEW N \in Nat, NEW T, 0 \in T, \A n \in 0..(N - 1) : n \in T => n + 1 \in T
  PROVE  \A n \in 0..N : n \in T
<1> DEFINE R == {ss \in Nat \X Nat : ss[1] < ss[2]}
           Left == {n \in 0..N : n \notin T}
<1>1. SUFFICES ASSUME Left # {} PROVE FALSE
  OBVIOUS
<1>2. IsWellFoundedOn(R, Nat)
  BY NatWellFounded
<1>3. Left \subseteq Nat
  OBVIOUS
<1> HIDE DEF R
<1>4. PICK x \in Left : \A y \in Left : ~ (<<y, x>> \in R)
  <2> HIDE DEF Left
  <2> QED BY <1>1, <1>2, <1>3, WFMin
<1>5. x \in 0..N /\ x # 0 /\ x - 1 \in 0..(N - 1)
  OBVIOUS
<1>6. <<x - 1, x>> \in R
  BY <1>5 DEF R
<1>7. x - 1 \in T
  BY <1>4, <1>5, <1>6
<1>8. x \in T
  BY <1>5, <1>7
<1> QED BY <1>8

\* The function that starts at base and takes step n to its nth value.
Iterates(f, N, S, base, step) ==
  /\ f \in [0..N -> S] /\ f[0] = base
  /\ \A n \in 1..N : f[n] = step[<<n, f[n - 1]>>]

\* It exists for every number of steps.
LEMMA Recursion ==
  ASSUME NEW N \in Nat, NEW S, NEW base \in S, NEW step \in [(0..N) \X S -> S]
  PROVE  \E f : Iterates(f, N, S, base, step)
<1> DEFINE Solves(f, k) ==
             /\ f \in [0..N -> S] /\ f[0] = base
             /\ \A n \in 1..k : f[n] = step[<<n, f[n - 1]>>]
           T == {k \in 0..N : \E f \in [0..N -> S] : Solves(f, k)}
<1>1. 0 \in T
  <2>1. Solves([n \in 0..N |-> base], 0)
    OBVIOUS
  <2>2. [n \in 0..N |-> base] \in [0..N -> S] /\ 0 \in 0..N
    OBVIOUS
  <2> HIDE DEF Solves
  <2> QED BY <2>1, <2>2
<1>2. ASSUME NEW k \in 0..(N - 1), k \in T PROVE k + 1 \in T
  <2>1. PICK f \in [0..N -> S] : Solves(f, k)
    BY <1>2
  <2> DEFINE v == step[<<k + 1, f[k]>>]
             g == [f EXCEPT ![k + 1] = v]
  <2>2. k \in 0..N /\ k + 1 \in 1..N /\ f[k] \in S
    BY <2>1
  <2>3. v \in S
    BY <2>2
  <2> HIDE DEF v
  <2>4. g \in [0..N -> S] /\ g[0] = base
    BY <2>1, <2>2, <2>3
  <2>5. ASSUME NEW n \in 1..(k + 1) PROVE g[n] = step[<<n, g[n - 1]>>]
    <3>1. n \in 0..N /\ n - 1 \in 0..N /\ n - 1 # k + 1
      BY <2>2
    <3>2. g[n - 1] = f[n - 1]
      BY <3>1
    <3>3. CASE n = k + 1
      BY <3>1, <3>2, <3>3, <2>2 DEF v
    <3>4. CASE n \in 1..k
      BY <3>1, <3>2, <3>4, <2>1
    <3> QED BY <3>3, <3>4
  <2>6. g \in [0..N -> S] /\ Solves(g, k + 1)
    BY <2>4, <2>5
  <2>7. k + 1 \in 0..N
    BY <2>2
  <2> HIDE DEF Solves, g
  <2> QED BY <2>4, <2>6, <2>7
<1>3. N \in T
  <2> HIDE DEF T
  <2> QED BY <1>1, <1>2, UpTo
<1> QED BY <1>3 DEF Iterates

\* Integer division, and a product with the same factor on both sides.
LEMMA Division ==
  ASSUME NEW x \in Int, NEW y \in Nat \ {0}
  PROVE  /\ x \div y \in Int
         /\ (x \div y) * y <= x /\ x < (x \div y) * y + y
OBVIOUS

LEMMA Growing ==
  ASSUME NEW a \in Int, NEW b \in Int, NEW k \in Nat, a <= b
  PROVE  a * k <= b * k
OBVIOUS

-----------------------------------------------------------------------------
(* What the GTK loop does to the screen's data.                            *)

\* The k lines pushed so far leave the last of them waiting in p.
Waiting(p, k) ==
  /\ p \in Seq(Nat) /\ Len(p) <= MaxPending /\ Len(p) <= k
  /\ \A i \in 1..Len(p) : p[i] = k - Len(p) + i

LEMMA PushWaiting ==
  ASSUME NEW k \in Nat, NEW p, Waiting(p, k)
  PROVE  LET q == PushLine(p, k + 1) IN
           Waiting(q, k + 1) /\ q # <<>> /\ k - Len(p) <= k + 1 - Len(q)
<1> DEFINE n    == Len(p)
           d    == IF n >= MaxPending THEN n \div 2 ELSE 0
           kept == IF n >= MaxPending THEN SubSeq(p, n \div 2 + 1, n) ELSE p
           q    == Append(kept, k + 1)
<1>1. p \in Seq(Nat) /\ n \in Nat /\ n <= MaxPending /\ n <= k /\ MaxPending \in Nat /\ MaxPending > 1
  BY SizeAssumption DEF Waiting
<1>2. d \in Nat /\ d <= n /\ n - d < MaxPending
  BY <1>1
<1>3. kept \in Seq(Nat) /\ Len(kept) = n - d /\ \A i \in 1..(n - d) : kept[i] = p[d + i]
  <2>1. CASE n >= MaxPending
    <3>1. \A i \in (n \div 2 + 1)..n : p[i] \in Nat
      BY <1>1, ElementOfSeq
    <3> DEFINE c == SubSeq(p, n \div 2 + 1, n)
               a == n \div 2 + 1
    <3>2. a \in Int /\ n \in Int /\ a <= n
      BY <1>1, <2>1
    <3>3. /\ c \in Seq(Nat) /\ Len(c) = n - a + 1
          /\ \A i \in 1..(n - a + 1) : c[i] = p[a + i - 1]
      <4> HIDE DEF n, a
      <4>1. /\ SubSeq(p, a, n) \in Seq(Nat) /\ Len(SubSeq(p, a, n)) = IF a <= n THEN n - a + 1 ELSE 0
            /\ \A i \in 1..(n - a + 1) : SubSeq(p, a, n)[i] = p[a + i - 1]
        BY <3>1, <3>2, SubSeqProperties DEF a
      <4> QED BY <3>2, <4>1 DEF a
    <3>4. a = d + 1 /\ kept = c
      BY <2>1
    <3> HIDE DEF c, a, kept, d, n
    <3> QED BY <1>1, <1>2, <3>3, <3>4
  <2>2. CASE ~ (n >= MaxPending)
    <3>1. kept = p /\ d = 0
      BY <2>2
    <3> HIDE DEF kept, d
    <3> QED BY <1>1, <3>1
  <2> QED BY <2>1, <2>2
<1>4. PushLine(p, k + 1) = q
  BY DEF PushLine
<1> HIDE DEF kept
<1>5. /\ q \in Seq(Nat) /\ q # <<>> /\ Len(q) = n - d + 1
      /\ \A i \in 1..(n - d) : q[i] = kept[i]
      /\ q[n - d + 1] = k + 1
  <2> HIDE DEF d, n
  <2>1. k + 1 \in Nat
    OBVIOUS
  <2>2. /\ q \in Seq(Nat) /\ q # <<>> /\ Len(q) = Len(kept) + 1
        /\ \A i \in 1..Len(kept) : q[i] = kept[i]
        /\ q[Len(kept) + 1] = k + 1
    BY <1>3, <2>1, AppendProperties
  <2>3. Len(kept) = n - d
    BY <1>3
  <2> HIDE DEF q
  <2> QED BY <2>2, <2>3
<1>6. ASSUME NEW i \in 1..Len(q) PROVE q[i] = k + 1 - Len(q) + i
  <2>1. CASE i \in 1..(n - d)
    <3>1. q[i] = p[d + i] /\ d + i \in 1..Len(p)
      <4> HIDE DEF q, d
      <4> QED BY <1>1, <1>2, <1>3, <1>5, <2>1
    <3>2. p[d + i] = k - n + (d + i)
      BY <3>1 DEF Waiting
    <3> HIDE DEF q, d, n
    <3> QED BY <1>1, <1>2, <1>5, <3>1, <3>2
  <2>2. CASE i = n - d + 1
    <3>1. q[i] = k + 1
      BY <1>5, <2>2
    <3> HIDE DEF q, d, n
    <3> QED BY <1>1, <1>2, <1>5, <2>2, <3>1
  <2>3. i \in 1..(n - d) \/ i = n - d + 1
    <3> HIDE DEF q, d, n
    <3> QED BY <1>1, <1>2, <1>5
  <2> QED BY <2>1, <2>2, <2>3
<1>7. Waiting(q, k + 1) /\ k - n <= k + 1 - Len(q)
  <2> HIDE DEF q, d, n
  <2> QED BY <1>1, <1>2, <1>5, <1>6 DEF Waiting
<1> HIDE DEF q
<1> QED BY <1>4, <1>5, <1>7

\* What the messages of one tick can make of the screen's data: the lines that
\* wait are the last ones, none comes back, and only a push makes them wait.
Screens(from) ==
  {s \in [fft : BOOLEAN, pending : Seq(Nat), pushed : Nat] :
     /\ Waiting(s.pending, s.pushed)
     /\ from.pushed - Len(from.pending) <= s.pushed - Len(s.pending)
     /\ s.pending = <<>> => from.pending = <<>> /\ s.pushed = from.pushed}

LEMMA ShowKeeps ==
  ASSUME NEW from \in [fft : BOOLEAN, pending : Seq(Nat), pushed : Nat],
         NEW s \in Screens(from), NEW m \in Message
  PROVE  Show(s, m) \in Screens(from)
<1> DEFINE Shape == [fft : BOOLEAN, pending : Seq(Nat), pushed : Nat]
<1>1. s \in Shape /\ Waiting(s.pending, s.pushed)
  BY DEF Screens
<1>2. CASE m = "fft"
  <2> DEFINE q == PushLine(s.pending, s.pushed + 1)
  <2>1. /\ Waiting(q, s.pushed + 1) /\ q # <<>>
        /\ s.pushed - Len(s.pending) <= s.pushed + 1 - Len(q)
    BY <1>1, PushWaiting
  <2>2. Show(s, m) = [fft |-> TRUE, pending |-> q, pushed |-> s.pushed + 1]
    BY <1>2 DEF Show
  <2> HIDE DEF q
  <2>3. q \in Seq(Nat) /\ Len(q) \in Nat /\ Len(s.pending) \in Nat /\ Len(from.pending) \in Nat
    BY <1>1, <2>1 DEF Waiting
  <2>4. Show(s, m) \in Shape
    BY <1>1, <2>2, <2>3
  <2>5. from.pushed - Len(from.pending) <= s.pushed - Len(s.pending)
    BY DEF Screens
  <2>6. Show(s, m).pending = q /\ Show(s, m).pushed = s.pushed + 1
    BY <2>2
  <2>7. from.pushed - Len(from.pending) <= s.pushed + 1 - Len(q)
    BY <1>1, <2>1, <2>3, <2>5
  <2> HIDE DEF Shape
  <2> QED BY <2>1, <2>4, <2>6, <2>7 DEF Screens, Shape
<1>3. CASE m # "fft"
  <2>1. Show(s, m) = [s EXCEPT !.fft = FALSE] \/ Show(s, m) = s
    BY <1>3 DEF Show
  <2>2. Show(s, m) \in Shape /\ Show(s, m).pending = s.pending /\ Show(s, m).pushed = s.pushed
    BY <1>1, <2>1
  <2> HIDE DEF Shape
  <2> QED BY <2>2 DEF Screens, Shape
<1> QED BY <1>2, <1>3

\* The screen's data after each message.
Showing(after, s, msgs) ==
  /\ after \in [0..Len(msgs) -> Screens(s)] /\ after[0] = s
  /\ \A n \in 1..Len(msgs) : after[n] = Show(after[n - 1], msgs[n])

LEMMA ShownAfter ==
  ASSUME NEW s, s \in Screens(s), NEW msgs \in Seq(Message)
  PROVE  \E after : Showing(after, s, msgs) /\ Shown(s, msgs) = after[Len(msgs)]
<1> DEFINE N    == Len(msgs)
           S    == Screens(s)
           step == [x \in (0..N) \X S |-> IF x[1] = 0 THEN s ELSE Show(x[2], msgs[x[1]])]
           Solves(f) == f = [n \in 0..N |-> IF n = 0 THEN s ELSE Show(f[n - 1], msgs[n])]
<1>1. N \in Nat /\ s \in [fft : BOOLEAN, pending : Seq(Nat), pushed : Nat]
  BY DEF Screens
<1>2. ASSUME NEW n \in 1..N, NEW t \in S PROVE Show(t, msgs[n]) \in S
  <2>1. msgs[n] \in Message
    BY <1>2, ElementOfSeq
  <2> QED BY <1>1, <2>1, ShowKeeps
<1> HIDE DEF S
<1>3. s \in S
  BY DEF S
<1> HIDE DEF N
<1>4. step \in [(0..N) \X S -> S]
  <2>1. ASSUME NEW x \in (0..N) \X S
        PROVE  (IF x[1] = 0 THEN s ELSE Show(x[2], msgs[x[1]])) \in S
    <3>1. x[1] \in 0..N /\ x[2] \in S /\ (x[1] # 0 => x[1] \in 1..N)
      BY <1>1, <2>1
    <3> QED BY <1>2, <1>3, <3>1
  <2> QED BY <2>1
<1>5. PICK f : Iterates(f, N, S, s, step)
  <2> HIDE DEF step
  <2> QED BY <1>1, <1>3, <1>4, Recursion
<1>6. /\ f \in [0..N -> S] /\ f[0] = s
      /\ \A n \in 1..N : f[n] = step[<<n, f[n - 1]>>]
  <2> HIDE DEF step
  <2> QED BY <1>5 DEF Iterates
<1>7. ASSUME NEW n \in 1..N PROVE f[n] = Show(f[n - 1], msgs[n])
  <2>1. n \in 0..N /\ n - 1 \in 0..N /\ n # 0
    BY <1>1
  <2>2. f[n - 1] \in S
    BY <1>6, <2>1
  <2>3. step[<<n, f[n - 1]>>] = Show(f[n - 1], msgs[n])
    BY <2>1, <2>2
  <2> HIDE DEF step
  <2> QED BY <1>6, <2>3
<1> HIDE DEF step
<1>8. \E g : Solves(g)
  <2>1. ASSUME NEW n \in 0..N PROVE f[n] = IF n = 0 THEN s ELSE Show(f[n - 1], msgs[n])
    <3>1. n = 0 \/ n \in 1..N
      BY <1>1
    <3> QED BY <1>6, <1>7, <3>1
  <2> QED BY <1>6, <2>1
<1> DEFINE g == CHOOSE x : Solves(x)
<1>9. Solves(g)
  <2> HIDE DEF Solves
  <2> QED BY <1>8
<1>10. Shown(s, msgs) = g[N]
  BY Zenon DEF Shown, N
<1> HIDE DEF g
<1>11. g[0] = s /\ \A n \in 1..N : g[n] = Show(g[n - 1], msgs[n])
  BY <1>1, <1>9
<1>12. \A n \in 0..N : g[n] \in S
  <2> DEFINE T == {n \in 0..N : g[n] \in S}
  <2>1. 0 \in T
    BY <1>1, <1>3, <1>11
  <2>2. ASSUME NEW n \in 0..(N - 1), n \in T PROVE n + 1 \in T
    <3>1. n + 1 \in 1..N /\ n + 1 \in 0..N /\ (n + 1) - 1 = n
      BY <1>1
    <3> QED BY <1>2, <1>11, <2>2, <3>1
  <2> HIDE DEF T
  <2>3. \A n \in 0..N : n \in T
    BY <1>1, <2>1, <2>2, UpTo
  <2> QED BY <2>3 DEF T
<1>13. g \in [0..N -> S]
  <2> HIDE DEF S
  <2> QED BY <1>9, <1>12
<1> QED BY <1>10, <1>11, <1>13 DEF Showing, N, S

LEMMA ShownKeeps ==
  ASSUME NEW s, s \in Screens(s), NEW msgs \in Seq(Message)
  PROVE  Shown(s, msgs) \in Screens(s)
<1>1. PICK after : Showing(after, s, msgs) /\ Shown(s, msgs) = after[Len(msgs)]
  BY ShownAfter
<1>2. Len(msgs) \in 0..Len(msgs)
  OBVIOUS
<1> QED BY <1>1, <1>2 DEF Showing

\* Handling msgs takes the IQ spectrum off a screen that shows it (on): an
\* audio device is listed in it and no frame follows, or there never was one.
Clears(on, msgs) ==
  \E i \in 0..Len(msgs) :
    /\ IF i = 0 THEN ~on ELSE msgs[i] \in AudioKind
    /\ \A j \in (i + 1)..Len(msgs) : msgs[j] # "fft"

LEMMA ShownClears ==
  ASSUME NEW s, s \in Screens(s), NEW msgs \in Seq(Message), Clears(s.fft, msgs)
  PROVE  ~Shown(s, msgs).fft
<1>1. PICK after : Showing(after, s, msgs) /\ Shown(s, msgs) = after[Len(msgs)]
  BY ShownAfter
<1> DEFINE N == Len(msgs)
<1>2. PICK i \in 0..N : /\ IF i = 0 THEN ~s.fft ELSE msgs[i] \in AudioKind
                        /\ \A j \in (i + 1)..N : msgs[j] # "fft"
  BY DEF Clears
<1>3. N \in Nat
  OBVIOUS
<1> HIDE DEF N
<1>4. \A n \in 0..N : after[n] \in [fft : BOOLEAN, pending : Seq(Nat), pushed : Nat]
  BY <1>1 DEF Showing, Screens, N
<1> DEFINE T == {n \in 0..N : n < i \/ ~after[n].fft}
<1>5. 0 \in T
  BY <1>1, <1>2, <1>3 DEF Showing
<1>6. ASSUME NEW n \in 0..(N - 1), n \in T PROVE n + 1 \in T
  <2>1. n \in 0..N /\ n + 1 \in 1..N /\ n + 1 \in 0..N /\ (n + 1) - 1 = n
    BY <1>3
  <2>2. after[n + 1] = Show(after[n], msgs[n + 1])
    BY <1>1, <2>1 DEF Showing, N
  <2>3. CASE n + 1 < i
    BY <2>1, <2>3
  <2>4. CASE n + 1 = i
    <3>1. msgs[n + 1] \in AudioKind /\ msgs[n + 1] # "fft"
      BY <1>2, <1>3, <2>1, <2>4, DeviceAssumption
    <3>2. after[n + 1] = [after[n] EXCEPT !.fft = FALSE]
      BY <2>2, <3>1 DEF Show, Class
    <3>3. ~after[n + 1].fft
      BY <1>4, <2>1, <3>2
    <3> QED BY <2>1, <3>3
  <2>5. CASE n + 1 > i
    <3>1. ~after[n].fft
      BY <1>6, <2>1, <2>5, <1>2
    <3>2. msgs[n + 1] # "fft"
      BY <1>2, <1>3, <2>1, <2>5
    <3>3. after[n + 1] = [after[n] EXCEPT !.fft = FALSE] \/ after[n + 1] = after[n]
      BY <2>2, <3>2 DEF Show
    <3>4. ~after[n + 1].fft
      BY <1>4, <2>1, <3>1, <3>3
    <3> QED BY <2>1, <3>4
  <2> QED BY <1>2, <2>1, <2>3, <2>4, <2>5
<1> HIDE DEF T
<1>7. \A n \in 0..N : n \in T
  BY <1>3, <1>5, <1>6, UpTo
<1>8. N \in T
  BY <1>3, <1>7
<1> QED BY <1>1, <1>2, <1>3, <1>8 DEF T, N

-----------------------------------------------------------------------------
(* What a render does to the texture.                                      *)

Gl == [realized : BOOLEAN, rows : Texture, write : 1..Height, resized : BOOLEAN]

\* Row i of the screen of the texture g, from the bottom.
Row(g, i) == g.rows[((g.write - 1 + i - 1) % Height) + 1]

\* No row is later than line top, and the rows are in order.
Ordered(g, top) ==
  /\ \A r \in 1..Height : g.rows[r] <= top
  /\ \A i \in 1..(Height - 1) : Row(g, i) < Row(g, i + 1) \/ Row(g, i) = Blank

\* A ring of n places, walked round once.
LEMMA Ring ==
  ASSUME NEW n \in Nat \ {0}, NEW x \in 0..(2 * n - 1)
  PROVE  x % n = IF x < n THEN x ELSE x - n
<1>1. CASE x < n
  BY <1>1
<1>2. CASE x >= n
  BY <1>2
<1> QED BY <1>1, <1>2

\* A line that is uploaded is the top row and moves the others one down.
LEMMA UploadOrdered ==
  ASSUME NEW g \in Gl, NEW top \in Nat, Ordered(g, top)
  PROVE  LET h == Upload(g, top + 1) IN
           h \in Gl /\ Ordered(h, top + 1) /\ Row(h, Height) = top + 1
<1> DEFINE line == top + 1
           w == g.write
           v == (w % Height) + 1
           rows == [g.rows EXCEPT ![w] = line]
           h == Upload(g, line)
<1>1. /\ Height \in Nat \ {0} /\ w \in 1..Height /\ w \in Nat /\ line \in Nat
      /\ g.rows \in [1..Height -> Nat]
  BY SizeAssumption DEF Gl, Texture
<1>2. v = IF w = Height THEN 1 ELSE w + 1
  <2>1. w % Height = IF w < Height THEN w ELSE w - Height
    <3> HIDE DEF w
    <3>1. w \in 0..(2 * Height - 1)
      BY <1>1
    <3> QED BY <1>1, <3>1, Ring
  <2> HIDE DEF w
  <2> QED BY <1>1, <2>1
<1>3. v \in 1..Height /\ rows \in [1..Height -> Nat]
  <2> HIDE DEF w, v, line
  <2> QED BY <1>1, <1>2
<1>4. h.rows = rows /\ h.write = v /\ h \in Gl
  <2>1. h = [g EXCEPT !.rows = rows, !.write = v]
    BY DEF Upload
  <2> HIDE DEF rows, v, h
  <2> QED BY <1>3, <2>1 DEF Gl, Texture
<1> HIDE DEF h
<1>5. ASSUME NEW i \in 1..(Height - 1)
      PROVE  Row(h, i) = Row(g, i + 1) /\ Row(g, i + 1) <= top
  <2> DEFINE x == w + i - 1
             k == x % Height
  <2>1. k = IF x < Height THEN x ELSE x - Height
    <3>1. x \in 0..(2 * Height - 1)
      <4> HIDE DEF w
      <4> QED BY <1>1
    <3> HIDE DEF x
    <3> QED BY <1>1, <3>1, Ring
  <2>2. (v - 1 + i - 1) % Height = k
    <3> DEFINE y == v - 1 + i - 1
    <3>1. y \in 0..(2 * Height - 1) /\ (y = x \/ (y < Height /\ y = x - Height))
      <4> HIDE DEF w, v
      <4> QED BY <1>1, <1>2
    <3>2. y % Height = IF y < Height THEN y ELSE y - Height
      <4> HIDE DEF y
      <4> QED BY <1>1, <3>1, Ring
    <3> HIDE DEF w, v, k
    <3> QED BY <1>1, <2>1, <3>1, <3>2
  <2>3. k + 1 \in 1..Height /\ k + 1 # w
    <3> HIDE DEF w, k
    <3> QED BY <1>1, <2>1
  <2>4. Row(h, i) = rows[k + 1]
    <3> HIDE DEF rows, v, k
    <3> QED BY <1>4, <2>2 DEF Row
  <2>5. Row(g, i + 1) = g.rows[k + 1]
    <3>1. g.write - 1 + (i + 1) - 1 = x
      BY <1>1
    <3> HIDE DEF x
    <3> QED BY <3>1 DEF Row
  <2>6. rows[k + 1] = g.rows[k + 1] /\ g.rows[k + 1] <= top
    <3> HIDE DEF k, w, line
    <3> QED BY <1>1, <2>3 DEF Ordered
  <2> QED BY <2>4, <2>5, <2>6
<1>6. Row(h, Height) = line
  <2> DEFINE y == v - 1 + Height - 1
  <2>1. y \in 0..(2 * Height - 1)
    <3> HIDE DEF w, v
    <3> QED BY <1>1, <1>3
  <2>2. y % Height = IF y < Height THEN y ELSE y - Height
    <3> HIDE DEF y
    <3> QED BY <1>1, <2>1, Ring
  <2>3. (y % Height) + 1 = w
    <3> HIDE DEF w, v
    <3> QED BY <1>1, <1>2, <2>2
  <2>4. rows[w] = line
    <3> HIDE DEF w, line
    <3> QED BY <1>1
  <2> HIDE DEF rows, v, w
  <2> QED BY <1>4, <2>3, <2>4 DEF Row
<1>7. \A r \in 1..Height : h.rows[r] <= line
  <2>1. \A r \in 1..Height : rows[r] = line \/ rows[r] = g.rows[r]
    <3> HIDE DEF w, line
    <3> QED BY <1>1
  <2>2. \A r \in 1..Height : g.rows[r] \in Nat /\ g.rows[r] <= top
    BY <1>1 DEF Ordered
  <2> HIDE DEF rows
  <2> QED BY <1>1, <1>4, <2>1, <2>2
<1>8. ASSUME NEW i \in 1..(Height - 1)
      PROVE  Row(h, i) < Row(h, i + 1) \/ Row(h, i) = Blank
  <2>1. CASE i + 1 = Height
    <3>1. Row(h, i) <= top /\ Row(h, i) = Row(g, Height)
      BY <1>5, <2>1
    <3>2. Row(g, Height) \in Nat
      <4>1. ((g.write - 1 + Height - 1) % Height) + 1 \in 1..Height
        BY <1>1
      <4> QED BY <1>1, <4>1 DEF Row
    <3> QED BY <1>1, <1>6, <2>1, <3>1, <3>2
  <2>2. CASE i + 1 \in 1..(Height - 1)
    <3>1. Row(h, i) = Row(g, i + 1) /\ Row(h, i + 1) = Row(g, (i + 1) + 1)
      BY <1>5, <2>2
    <3>2. Row(g, i + 1) < Row(g, (i + 1) + 1) \/ Row(g, i + 1) = Blank
      BY <2>2 DEF Ordered
    <3> QED BY <3>1, <3>2
  <2> QED BY <1>1, <2>1, <2>2
<1>9. Ordered(h, line)
  BY <1>7, <1>8 DEF Ordered
<1> QED BY <1>4, <1>6, <1>9 DEF h

\* A texture nothing was written to is in order.
LEMMA EmptyOrdered ==
  ASSUME NEW g \in Gl, g.rows = Empty, NEW top \in Nat
  PROVE  Ordered(g, top) /\ \A i \in 1..Height : Row(g, i) = Blank
<1>1. Height \in Nat \ {0} /\ g.write \in 1..Height
  BY SizeAssumption DEF Gl
<1>2. ASSUME NEW i \in 1..Height PROVE Row(g, i) = Blank
  <2>1. ((g.write - 1 + i - 1) % Height) + 1 \in 1..Height
    BY <1>1
  <2> QED BY <2>1 DEF Row, Empty
<1>3. \A i \in 1..(Height - 1) : i \in 1..Height
  BY <1>1
<1>4. \A r \in 1..Height : g.rows[r] <= top
  BY DEF Empty, Blank
<1> QED BY <1>2, <1>3, <1>4 DEF Ordered

\* Uploading the lines that wait keeps the rows in order and ends at the last.
LEMMA UploadedOrdered ==
  ASSUME NEW g \in Gl, NEW k \in Nat, NEW lines, Waiting(lines, k), Ordered(g, k - Len(lines))
  PROVE  LET h == Uploaded(g, lines) IN
           /\ h \in Gl /\ Ordered(h, k) /\ h.realized = g.realized
           /\ lines = <<>> => h = g
           /\ lines # <<>> => Row(h, Height) = k
<1> DEFINE N    == Len(lines)
           step == [x \in (0..N) \X Gl |-> IF x[1] = 0 THEN g ELSE Upload(x[2], lines[x[1]])]
           Solves(f) == f = [n \in 0..N |-> IF n = 0 THEN g ELSE Upload(f[n - 1], lines[n])]
<1>1. N \in Nat /\ lines \in Seq(Nat) /\ N <= k
  BY DEF Waiting
<1>2. ASSUME NEW n \in 1..N, NEW t \in Gl
      PROVE  Upload(t, lines[n]) \in Gl /\ Upload(t, lines[n]).realized = t.realized
  <2>1. lines[n] \in Nat
    BY <1>1, <1>2, ElementOfSeq
  <2>2. t.write \in 1..Height /\ (t.write % Height) + 1 \in 1..Height /\ t.rows \in [1..Height -> Nat]
    BY SizeAssumption DEF Gl, Texture
  <2> DEFINE rows  == [t.rows EXCEPT ![t.write] = lines[n]]
             write == (t.write % Height) + 1
  <2>3. Upload(t, lines[n]) = [t EXCEPT !.rows = rows, !.write = write]
    BY DEF Upload
  <2>4. rows \in [1..Height -> Nat] /\ write \in 1..Height
    BY <2>1, <2>2
  <2> HIDE DEF rows, write
  <2> QED BY <2>3, <2>4 DEF Gl, Texture
<1> HIDE DEF N
<1>3. step \in [(0..N) \X Gl -> Gl]
  <2>1. ASSUME NEW x \in (0..N) \X Gl
        PROVE  (IF x[1] = 0 THEN g ELSE Upload(x[2], lines[x[1]])) \in Gl
    <3>1. x[1] \in 0..N /\ x[2] \in Gl /\ (x[1] # 0 => x[1] \in 1..N)
      BY <1>1, <2>1
    <3> QED BY <1>2, <3>1
  <2> QED BY <2>1
<1>4. PICK f : Iterates(f, N, Gl, g, step)
  <2> HIDE DEF step
  <2> QED BY <1>1, <1>3, Recursion
<1>5. /\ f \in [0..N -> Gl] /\ f[0] = g
      /\ \A n \in 1..N : f[n] = step[<<n, f[n - 1]>>]
  <2> HIDE DEF step
  <2> QED BY <1>4 DEF Iterates
<1>6. ASSUME NEW n \in 1..N PROVE f[n] = Upload(f[n - 1], lines[n])
  <2>1. n \in 0..N /\ n - 1 \in 0..N /\ n # 0
    BY <1>1
  <2>2. f[n - 1] \in Gl
    BY <1>5, <2>1
  <2>3. step[<<n, f[n - 1]>>] = Upload(f[n - 1], lines[n])
    BY <2>1, <2>2
  <2> HIDE DEF step
  <2> QED BY <1>5, <2>3
<1> HIDE DEF step
<1>7. \E c : Solves(c)
  <2>1. ASSUME NEW n \in 0..N PROVE f[n] = IF n = 0 THEN g ELSE Upload(f[n - 1], lines[n])
    <3>1. n = 0 \/ n \in 1..N
      BY <1>1
    <3> QED BY <1>5, <1>6, <3>1
  <2> QED BY <1>5, <2>1
<1> DEFINE c == CHOOSE x : Solves(x)
<1>8. Solves(c)
  <2> HIDE DEF Solves
  <2> QED BY <1>7
<1>9. Uploaded(g, lines) = c[N]
  BY Zenon DEF Uploaded, N
<1> HIDE DEF c
<1>10. c[0] = g /\ \A n \in 1..N : c[n] = Upload(c[n - 1], lines[n])
  BY <1>1, <1>8
<1> DEFINE base == k - N
           T == {n \in 0..N : /\ c[n] \in Gl /\ Ordered(c[n], base + n) /\ c[n].realized = g.realized
                              /\ n = 0 \/ Row(c[n], Height) = base + n}
<1>11. base \in Nat /\ base + 0 = base
  BY <1>1
<1>12. 0 \in T
  <2>1. Ordered(g, base + 0)
    BY <1>11 DEF N
  <2> QED BY <1>1, <1>10, <2>1
<1>13. ASSUME NEW n \in 0..(N - 1), n \in T PROVE n + 1 \in T
  <2>1. n + 1 \in 1..N /\ n + 1 \in 0..N /\ (n + 1) - 1 = n /\ n \in Nat
    BY <1>1
  <2>2. c[n] \in Gl /\ Ordered(c[n], base + n) /\ c[n].realized = g.realized
    BY <1>13
  <2>3. lines[n + 1] = k - N + (n + 1)
    BY <2>1 DEF Waiting, N
  <2>4. c[n + 1] = Upload(c[n], (base + n) + 1) /\ base + (n + 1) = (base + n) + 1 /\ base + n \in Nat
    BY <1>1, <1>10, <1>11, <2>1, <2>3
  <2> HIDE DEF base
  <2>5. /\ c[n + 1] \in Gl /\ Ordered(c[n + 1], base + (n + 1))
        /\ Row(c[n + 1], Height) = base + (n + 1)
    BY <2>2, <2>4, UploadOrdered
  <2>6. c[n + 1].realized = g.realized
    <3>1. c[n + 1] = Upload(c[n], lines[n + 1])
      BY <1>10, <2>1
    <3>2. Upload(c[n], lines[n + 1]).realized = c[n].realized
      BY <1>2, <2>1, <2>2
    <3> QED BY <2>2, <3>1, <3>2
  <2> QED BY <2>1, <2>5, <2>6
<1> HIDE DEF T
<1>14. N \in T
  <2>1. \A n \in 0..N : n \in T
    BY <1>1, <1>12, <1>13, UpTo
  <2> QED BY <1>1, <2>1
<1>15. base + N = k
  BY <1>1
<1>16. /\ c[N] \in Gl /\ Ordered(c[N], k) /\ c[N].realized = g.realized
       /\ N = 0 \/ Row(c[N], Height) = k
  <2> HIDE DEF base
  <2> QED BY <1>14, <1>15 DEF T
<1>17. lines = <<>> => c[N] = g
  BY <1>10 DEF N
<1>18. lines # <<>> => N # 0
  BY <1>1 DEF N
<1> QED BY <1>9, <1>16, <1>17, <1>18

-----------------------------------------------------------------------------
(* Zoom and pan.                                                           *)

Size(p) == IF p < 0 THEN -p ELSE p

\* The views clamp_pan leaves: beyond the edge by 0.0001 at most.
Inside ==
  {v \in [zoom : ZoomMin..ZoomMax, pan : Int] : 10 * (Size(v.pan) * v.zoom - MaxPan(v.zoom)) <= v.zoom}

LEMMA MovedInside ==
  ASSUME NEW z \in ZoomMin..ZoomMax, NEW p \in Int
  PROVE  Moved(z, p) \in Inside
<1>1. z \in Nat \ {0} /\ z >= 10 /\ MaxPan(z) \in Nat
  BY ViewAssumption DEF ZoomMin, MaxPan
<1> DEFINE q == MaxPan(z) \div z
<1>2. q \in Int /\ q * z <= MaxPan(z) /\ MaxPan(z) < q * z + z
  <2> HIDE DEF q
  <2> QED BY <1>1, Division DEF q
<1>3. q >= 0
  <2>1. ASSUME q <= -1 PROVE FALSE
    <3>1. q * z <= (-1) * z
      <4> HIDE DEF q
      <4> QED BY <1>1, <1>2, <2>1, Growing
    <3> QED BY <1>1, <1>2, <3>1
  <2> HIDE DEF q
  <2> QED BY <1>2, <2>1
<1>4. Trunc(MaxPan(z), z) = q
  BY <1>1 DEF Trunc
<1>5. Size(p) \in Nat /\ Size(p) * z \in Int
  BY <1>1 DEF Size
<1>6. CASE 10 * (Size(p) * z - MaxPan(z)) <= z
  <2>1. Clamped(p, z) = p
    BY <1>6 DEF Clamped, Size
  <2> QED BY <1>6, <2>1 DEF Inside, Moved
<1>7. CASE ~ (10 * (Size(p) * z - MaxPan(z)) <= z)
  <2>1. Clamped(p, z) \in {q, -q}
    BY <1>4, <1>7 DEF Clamped, Size
  <2> HIDE DEF q
  <2>2. Clamped(p, z) \in Int /\ Size(Clamped(p, z)) = q
    BY <1>2, <1>3, <2>1 DEF Size
  <2>3. 10 * (q * z - MaxPan(z)) <= z
    BY <1>1, <1>2
  <2> QED BY <2>2, <2>3 DEF Inside, Moved
<1> QED BY <1>6, <1>7

\* A button leads from such a view to such views.
LEMMA KnobInside ==
  ASSUME NEW v \in Inside
  PROVE  {v, ZoomIn(v), ZoomOut(v)} \cup PanBy(v, 1) \cup PanBy(v, -1) \subseteq Inside
<1>1. v.zoom \in ZoomMin..ZoomMax /\ v.zoom \in Nat \ {0} /\ v.pan \in Int
  BY ViewAssumption DEF Inside, ZoomMin
<1>2. ZoomIn(v) \in Inside
  <2>1. Least(v.zoom + ZoomStep, ZoomMax) \in ZoomMin..ZoomMax
    BY <1>1, ViewAssumption DEF Least, ZoomStep, ZoomMin
  <2> QED BY <1>1, <2>1, MovedInside DEF ZoomIn
<1>3. ZoomOut(v) \in Inside
  <2>1. Greatest(v.zoom - ZoomStep, ZoomMin) \in ZoomMin..ZoomMax
    BY <1>1, ViewAssumption DEF Greatest, ZoomStep, ZoomMin
  <2> QED BY <1>1, <2>1, MovedInside DEF ZoomOut
<1>4. ASSUME NEW x \in Int PROVE Trunc(x, v.zoom) \in Int
  BY <1>1, Division DEF Trunc
<1>5. ASSUME NEW sign \in {1, -1} PROVE PanBy(v, sign) \subseteq Inside
  <2> DEFINE p == v.pan * v.zoom + sign * 1000
  <2>1. p \in Int
    BY <1>1
  <2>2. ASSUME NEW lost \in {0, 1}
        PROVE  Moved(v.zoom, Trunc(IF p > 0 THEN p - lost ELSE p + lost, v.zoom)) \in Inside
    <3> HIDE DEF p
    <3>1. (IF p > 0 THEN p - lost ELSE p + lost) \in Int
      BY <2>1
    <3> QED BY <1>1, <1>4, <3>1, MovedInside
  <2> QED BY <2>2 DEF PanBy
<1> QED BY <1>2, <1>3, <1>5

\* In such a view the window and the bins drawn of it are whole.
LEMMA InsideWhole ==
  ASSUME NEW v \in Inside
  PROVE  Whole(v)
<1> DEFINE z     == v.zoom
           scale == 1000 * v.zoom
           shift == v.pan * v.zoom
           lo    == scale \div 2 + shift - 5000
           hi    == scale \div 2 + shift + 5000
           l     == Greatest(lo, 0)
           h     == Least(hi, scale)
<1>1. z \in Nat /\ z >= 10 /\ v.pan \in Int /\ scale \in Nat \ {0} /\ Bins \in Nat \ {0}
  BY ViewAssumption DEF Inside, ZoomMin
<1>2. shift \in Int /\ scale \div 2 = 500 * z
  BY <1>1
<1>3. 10 * (shift - 500 * (z - 10)) <= z /\ 10 * (-shift - 500 * (z - 10)) <= z
  <2>1. 10 * (Size(v.pan) * z - 500 * (z - 10)) <= z
    BY DEF Inside, MaxPan
  <2>2. CASE v.pan < 0
    <3>1. Size(v.pan) * z = -shift /\ shift <= 0
      BY <1>1, <2>2 DEF Size
    <3> HIDE DEF z, shift
    <3> QED BY <1>1, <1>2, <2>1, <3>1
  <2>3. CASE ~ (v.pan < 0)
    <3>1. Size(v.pan) * z = shift /\ shift >= 0
      BY <1>1, <2>3 DEF Size
    <3> HIDE DEF z, shift
    <3> QED BY <1>1, <1>2, <2>1, <3>1
  <2> QED BY <2>2, <2>3
<1>4. /\ lo \in Int /\ hi \in Int /\ l \in Nat /\ h \in Int
      /\ 10 * lo >= -z /\ 10 * (hi - scale) <= z /\ h <= hi /\ h <= scale /\ (h = hi \/ h = scale)
  <2>1. scale = 1000 * z
    OBVIOUS
  <2> HIDE DEF z, shift, scale
  <2> QED BY <1>1, <1>2, <1>3, <2>1 DEF Greatest, Least
<1>5. BinLow(l, scale) * scale <= l * Bins
  <2> DEFINE x == l * Bins
             q == x \div scale
  <2>1. x \in Nat
    <3> HIDE DEF l
    <3> QED BY <1>1, <1>4
  <2>2. q \in Int /\ q * scale <= x
    <3> HIDE DEF x, scale
    <3> QED BY <1>1, <2>1, Division
  <2>3. (q - 1) * scale = q * scale - scale
    <3> HIDE DEF q, scale
    <3> QED BY <1>1, <2>2
  <2> HIDE DEF q
  <2>4. BinLow(l, scale) \in {q - 1, 0}
    BY DEF BinLow, Greatest, q
  <2> HIDE DEF x, scale
  <2> QED BY <1>1, <2>1, <2>2, <2>3, <2>4 DEF x
<1>6. BinHigh(h, scale) = Bins \/ (BinHigh(h, scale) - 1) * scale >= hi * Bins
  <2> DEFINE x == h * Bins
             q == x \div scale
  <2>1. x \in Int
    <3> HIDE DEF h
    <3> QED BY <1>1, <1>4
  <2>2. q \in Int /\ x < q * scale + scale
    <3> HIDE DEF x, scale
    <3> QED BY <1>1, <2>1, Division
  <2>3. (q + 1) * scale = q * scale + scale
    <3> HIDE DEF q, scale
    <3> QED BY <1>1, <2>2
  <2>4. BinHigh(h, scale) = Bins \/ BinHigh(h, scale) = q + 2
    BY DEF BinHigh, Least
  <2>5. CASE h = hi
    <3>1. CASE BinHigh(h, scale) = q + 2
      <4>1. (BinHigh(h, scale) - 1) * scale = (q + 1) * scale
        BY <2>2, <3>1
      <4>2. (q + 1) * scale >= x /\ x = hi * Bins
        <5> HIDE DEF q, scale, hi, x
        <5> QED BY <1>1, <2>1, <2>2, <2>3, <2>5 DEF x
      <4> HIDE DEF q, scale, hi, x
      <4> QED BY <4>1, <4>2
    <3> QED BY <2>4, <3>1
  <2>6. CASE h = scale
    <3>1. x = Bins * scale
      <4> HIDE DEF h, scale
      <4> QED BY <1>1, <2>6
    <3>2. q >= Bins
      <4>1. ASSUME q + 1 <= Bins PROVE FALSE
        <5>1. (q + 1) * scale <= Bins * scale
          <6> HIDE DEF q, scale
          <6> QED BY <1>1, <2>2, <4>1, Growing
        <5> HIDE DEF q, x, scale
        <5> QED BY <1>1, <2>1, <2>2, <2>3, <3>1, <5>1
      <4> HIDE DEF q
      <4> QED BY <1>1, <2>2, <4>1
    <3>3. BinHigh(h, scale) = Bins
      <4>1. BinHigh(h, scale) = IF q + 2 < Bins THEN q + 2 ELSE Bins
        BY DEF BinHigh, Least
      <4> HIDE DEF q, h, scale
      <4> QED BY <1>1, <2>2, <3>2, <4>1
    <3> QED BY <3>3
  <2> QED BY <1>4, <2>5, <2>6
<1>7. Whole(v) <=> /\ 10 * lo >= -z /\ 10 * (hi - scale) <= z
                   /\ BinLow(l, scale) * scale <= l * Bins
                   /\ BinHigh(h, scale) = Bins \/ (BinHigh(h, scale) - 1) * scale >= hi * Bins
  BY DEF Whole
<1> QED BY <1>4, <1>5, <1>6, <1>7

\* The views n buttons lead to are among them.
LEMMA ViewsInside == \A n \in 0..MaxKnobs : Views[n] \in SUBSET Inside
<1> DEFINE Wider(V) == UNION {{v, ZoomIn(v), ZoomOut(v)} \cup PanBy(v, 1) \cup PanBy(v, -1) : v \in V}
           S        == SUBSET Inside
           base     == {[zoom |-> ZoomMin, pan |-> 0]}
           step     == [x \in (0..MaxKnobs) \X S |-> Wider(x[2])]
           Solves(f) == f = [n \in 0..MaxKnobs |-> IF n = 0 THEN base ELSE Wider(f[n - 1])]
<1>1. MaxKnobs \in Nat
  BY ViewAssumption
<1>2. base \in S
  BY ViewAssumption DEF Inside, ZoomMin, MaxPan, Size
<1>3. ASSUME NEW V \in S PROVE Wider(V) \in S
  BY <1>3, KnobInside
<1> HIDE DEF Wider, base
<1>4. step \in [(0..MaxKnobs) \X S -> S]
  BY <1>3
<1>5. \E f : Solves(f)
  <2>0. PICK f : Iterates(f, MaxKnobs, S, base, step)
    <3> HIDE DEF S, step
    <3> QED BY <1>1, <1>2, <1>4, Recursion
  <2>1. /\ f \in [0..MaxKnobs -> S] /\ f[0] = base
        /\ \A n \in 1..MaxKnobs : f[n] = step[<<n, f[n - 1]>>]
    <3> HIDE DEF S, step
    <3> QED BY <2>0 DEF Iterates
  <2>2. ASSUME NEW n \in 1..MaxKnobs PROVE step[<<n, f[n - 1]>>] = Wider(f[n - 1])
    <3>1. f[n - 1] \in S
      <4> HIDE DEF S
      <4> QED BY <1>1, <2>1, <2>2
    <3> HIDE DEF S
    <3> QED BY <3>1
  <2>3. Solves(f)
    <3> HIDE DEF S, step
    <3>1. ASSUME NEW n \in 0..MaxKnobs
          PROVE  f[n] = IF n = 0 THEN base ELSE Wider(f[n - 1])
      <4>1. n = 0 \/ n \in 1..MaxKnobs
        BY <1>1
      <4> QED BY <4>1, <2>1, <2>2
    <3> QED BY <2>1, <3>1
  <2> QED BY <2>3
<1>6. Solves(Views)
  <2>1. Views = CHOOSE f : Solves(f)
    BY Zenon DEF Views, Wider, base
  <2> HIDE DEF Solves
  <2> QED BY <1>5, <2>1
<1> DEFINE T == {n \in 0..MaxKnobs : Views[n] \in S}
<1>7. 0 \in T
  BY <1>1, <1>2, <1>6
<1>8. ASSUME NEW n \in 0..(MaxKnobs - 1), n \in T PROVE n + 1 \in T
  <2>1. n + 1 \in 0..MaxKnobs /\ n + 1 # 0 /\ (n + 1) - 1 = n
    BY <1>1
  <2>2. Views[n + 1] = Wider(Views[n])
    <3> HIDE DEF S, T
    <3> QED BY <1>6, <2>1
  <2> QED BY <1>3, <1>8, <2>1, <2>2
<1> HIDE DEF T
<1>9. \A n \in 0..MaxKnobs : n \in T
  BY <1>1, <1>7, <1>8, UpTo
<1> QED BY <1>9 DEF T

LEMMA EveryViewWhole == AllWhole
<1>1. MaxKnobs \in 0..MaxKnobs
  BY ViewAssumption
<1> QED BY <1>1, ViewsInside, InsideWhole DEF AllWhole

-----------------------------------------------------------------------------
(* Display: type correctness and the waterfall.                            *)

\* What a received message does to the inbox.
LEMMA ReceivedLast ==
  ASSUME inbox \in Seq(Message), Len(inbox) <= MaxQueue, missed \in BOOLEAN,
         NEW m \in Message, Received(m)
  PROVE  /\ inbox' \in Seq(Message) /\ Len(inbox') <= MaxQueue
         /\ Len(inbox') >= 1 /\ inbox'[Len(inbox')] = m
         /\ missed' \in BOOLEAN
<1> DEFINE n    == Len(inbox)
           kept == IF n >= MaxQueue THEN SubSeq(inbox, n \div 2 + 1, n) ELSE inbox
<1>1. n \in Nat /\ n <= MaxQueue /\ MaxQueue \in Nat /\ MaxQueue > 1
  BY SizeAssumption
<1>2. kept \in Seq(Message) /\ Len(kept) < MaxQueue
  <2>1. CASE n >= MaxQueue
    <3> DEFINE a == n \div 2 + 1
    <3>1. a \in Int /\ n \in Int /\ a <= n /\ a > 1
      BY <1>1, <2>1
    <3>2. \A i \in a..n : inbox[i] \in Message
      BY <1>1, ElementOfSeq
    <3>3. SubSeq(inbox, a, n) \in Seq(Message) /\ Len(SubSeq(inbox, a, n)) = IF a <= n THEN n - a + 1 ELSE 0
      <4> HIDE DEF a, n
      <4> QED BY <3>1, <3>2, SubSeqProperties
    <3>4. kept = SubSeq(inbox, a, n)
      BY <2>1
    <3> HIDE DEF a, n, kept
    <3> QED BY <1>1, <3>1, <3>3, <3>4
  <2>2. CASE ~ (n >= MaxQueue)
    BY <1>1, <2>2
  <2> QED BY <2>1, <2>2
<1>3. inbox' = Append(kept, m)
  BY DEF Received
<1>4. missed' \in BOOLEAN
  <2>1. CASE m # "fft"
    BY <2>1 DEF Received
  <2>2. CASE m = "fft"
    BY <2>2 DEF Received
  <2> QED BY <2>1, <2>2
<1> HIDE DEF kept
<1>5. /\ inbox' \in Seq(Message) /\ Len(inbox') = Len(kept) + 1
      /\ inbox'[Len(kept) + 1] = m
  BY <1>2, <1>3, AppendProperties
<1>6. Len(kept) \in Nat
  BY <1>2
<1> QED BY <1>1, <1>2, <1>4, <1>5, <1>6

\* The inductive invariant of what the client draws: the lines that wait are
\* the last ones pushed, no row of the texture is later than those, and once
\* none waits the top row is the last.
ScreenInv ==
  /\ fft \in BOOLEAN /\ gl \in Gl /\ pushed \in Nat
  /\ Waiting(pending, pushed)
  /\ Ordered(gl, pushed - Len(pending))
  /\ pending = <<>> => Row(gl, Height) \in {Blank, pushed}

LEMMA ScreenInit == DInit => ScreenInv
<1> SUFFICES ASSUME DInit PROVE ScreenInv
  OBVIOUS
<1>1. fft = FALSE /\ pending = <<>> /\ pushed = 0
  BY DEF DInit
<1>2. Height \in Nat \ {0} /\ MaxPending \in Nat
  BY SizeAssumption
<1>3. gl \in Gl /\ gl.rows = Empty
  BY <1>2 DEF DInit, Gl, Texture, Empty, Blank
<1>4. Waiting(pending, pushed)
  BY <1>1, <1>2 DEF Waiting
<1>5. Ordered(gl, 0) /\ Row(gl, Height) = Blank
  <2>1. 0 \in Nat /\ Height \in 1..Height
    BY <1>2
  <2>2. Ordered(gl, 0) /\ \A i \in 1..Height : Row(gl, i) = Blank
    BY <1>3, <2>1, EmptyOrdered
  <2> QED BY <2>1, <2>2
<1>6. pushed - Len(pending) = 0
  <2>1. Len(<<>>) = 0
    OBVIOUS
  <2>2. Len(pending) = 0
    BY <1>1, <2>1
  <2>3. pushed = 0
    BY <1>1
  <2> QED BY <2>2, <2>3
<1> QED BY <1>1, <1>3, <1>4, <1>5, <1>6 DEF ScreenInv

LEMMA ServerLeavesScreen == Server => UNCHANGED screen
BY DEF Server, Window, PassFrame, SendList, ViewerReconnects, Respawn, SelectSource, SelectDevice,
       PickLost, screen

LEMMA ScreenStep ==
  ASSUME ScreenInv, inbox \in Seq(Message), [DNext]_dvars
  PROVE  ScreenInv'
<1>1. /\ fft \in BOOLEAN /\ gl \in Gl /\ pushed \in Nat /\ pending \in Seq(Nat)
      /\ Len(pending) \in Nat /\ Waiting(pending, pushed) /\ Len(pending) <= pushed
      /\ Ordered(gl, pushed - Len(pending))
      /\ pending = <<>> => Row(gl, Height) \in {Blank, pushed}
  BY DEF ScreenInv, Waiting
<1>2. Height \in Nat \ {0} /\ MaxPending \in Nat /\ pushed - Len(pending) \in Nat
  BY <1>1, SizeAssumption
<1>3. CASE UNCHANGED screen
  <2>1. fft' = fft /\ pending' = pending /\ gl' = gl /\ pushed' = pushed
    BY <1>3 DEF screen
  <2> QED BY <2>1, <1>1 DEF ScreenInv, Waiting, Ordered, Row
<1>4. CASE Tick
  <2> DEFINE s == [fft |-> fft, pending |-> pending, pushed |-> pushed]
             t == Shown(s, inbox)
  <2>1. fft' = t.fft /\ pending' = t.pending /\ pushed' = t.pushed /\ gl' = gl
    BY <1>4 DEF Tick
  <2>2. s \in [fft : BOOLEAN, pending : Seq(Nat), pushed : Nat] /\ s.pending = pending /\ s.pushed = pushed
    BY <1>1
  <2> HIDE DEF s
  <2>3. s \in Screens(s)
    BY <1>1, <2>2 DEF Screens
  <2>4. t \in Screens(s)
    BY <2>3, ShownKeeps
  <2> HIDE DEF t
  <2>5. /\ fft' \in BOOLEAN /\ pushed' \in Nat /\ Waiting(pending', pushed')
        /\ pushed - Len(pending) <= pushed' - Len(pending')
        /\ pending' = <<>> => pending = <<>> /\ pushed' = pushed
    BY <2>1, <2>2, <2>4 DEF Screens
  <2>6. Len(pending') \in Nat
    BY <2>5 DEF Waiting
  <2>7. Ordered(gl, pushed' - Len(pending'))
    <3>1. \A r \in 1..Height : gl.rows[r] \in Nat
      BY <1>1 DEF Gl, Texture
    <3> QED BY <1>1, <1>2, <2>5, <2>6, <3>1 DEF Ordered
  <2>8. pending' = <<>> => Row(gl, Height) \in {Blank, pushed'}
    BY <1>1, <2>5
  <2> QED BY <1>1, <2>1, <2>5, <2>7, <2>8 DEF ScreenInv, Waiting, Ordered, Row
<1>5. ASSUME gl' \in Gl, gl'.rows = Empty, fft' = fft, pending' = pending, pushed' = pushed
      PROVE  ScreenInv'
  <2> DEFINE h == gl'
  <2>1. h \in Gl /\ h.rows = Empty
    BY <1>5
  <2>2. Ordered(h, pushed - Len(pending)) /\ Row(h, Height) = Blank
    <3> HIDE DEF h
    <3> QED BY <1>2, <2>1, EmptyOrdered
  <2> QED BY <1>1, <1>5, <2>2 DEF ScreenInv, Waiting, Ordered, Row
<1>6. CASE Realize
  <2>1. gl' \in Gl /\ gl'.rows = Empty
    BY <1>6, <1>2 DEF Realize, Gl, Texture, Empty, Blank
  <2> QED BY <1>5, <1>6, <2>1 DEF Realize
<1>7. CASE Unrealize \/ Resize
  <2>1. /\ gl' = [gl EXCEPT !.realized = FALSE] \/ gl' = [gl EXCEPT !.resized = TRUE]
        /\ fft' = fft /\ pending' = pending /\ pushed' = pushed
    BY <1>7 DEF Unrealize, Resize
  <2>2. gl' \in Gl /\ gl'.rows = gl.rows /\ gl'.write = gl.write
    BY <1>1, <2>1 DEF Gl
  <2> QED BY <1>1, <2>1, <2>2 DEF ScreenInv, Waiting, Ordered, Row
<1>8. CASE Render
  <2> DEFINE g == Resized(gl)
             h == Uploaded(g, pending)
  <2>1. gl' = h /\ pending' = <<>> /\ fft' = fft /\ pushed' = pushed
    BY <1>8 DEF Render
  <2>2. /\ g \in Gl /\ Ordered(g, pushed - Len(pending))
        /\ pending = <<>> => Row(g, Height) \in {Blank, pushed}
    <3>1. CASE gl.resized
      <4>1. g = [gl EXCEPT !.rows = Empty, !.write = 1, !.resized = FALSE]
        BY <3>1 DEF Resized
      <4> HIDE DEF g
      <4>2. Empty \in Texture /\ 1 \in 1..Height
        BY <1>2 DEF Texture, Empty, Blank
      <4>3. g \in Gl /\ g.rows = Empty
        BY <1>1, <4>1, <4>2 DEF Gl
      <4>4. Height \in 1..Height
        BY <1>2
      <4>5. Ordered(g, pushed - Len(pending)) /\ Row(g, Height) = Blank
        BY <1>2, <4>3, <4>4, EmptyOrdered
      <4> QED BY <4>3, <4>5
    <3>2. CASE ~gl.resized
      <4>1. g = gl
        BY <3>2 DEF Resized
      <4> HIDE DEF g
      <4> QED BY <1>1, <4>1
    <3> QED BY <3>1, <3>2
  <2> HIDE DEF g
  <2>3. /\ h \in Gl /\ Ordered(h, pushed)
        /\ pending = <<>> => h = g
        /\ pending # <<>> => Row(h, Height) = pushed
    BY <1>1, <2>2, UploadedOrdered
  <2> HIDE DEF h
  <2>4. Row(h, Height) \in {Blank, pushed}
    BY <2>2, <2>3
  <2>5. Waiting(<<>>, pushed) /\ pushed - Len(<<>>) = pushed
    BY <1>1, <1>2 DEF Waiting
  <2> QED BY <1>1, <2>1, <2>3, <2>4, <2>5 DEF ScreenInv, Waiting, Ordered, Row
<1>9. UNCHANGED screen \/ Tick \/ Realize \/ Unrealize \/ Resize \/ Render
  BY ServerLeavesScreen DEF DNext, Gtk, dvars, screen
<1> QED BY <1>3, <1>4, <1>6, <1>7, <1>8, <1>9

\* What the type invariant says of the server and of what is on its way.
ServingType ==
  /\ routing \in {"RadioUsb", "SoftwareDemod"} /\ device \in Device
  /\ restart \in BOOLEAN /\ picking \in SUBSET Device
  /\ windows \in 0..(Averaging - 1) /\ queued \in 0..FftQueue /\ listDue \in BOOLEAN
  /\ inbox \in Seq(Message) /\ Len(inbox) <= MaxQueue
  /\ missed \in BOOLEAN /\ half \in BOOLEAN
  /\ frames \in 0..MaxFrames /\ picks \in 0..MaxPicks /\ faults \in 0..MaxFaults

LEMMA TypeByParts == ServingType /\ ScreenInv => DTypeOK
<1> SUFFICES ASSUME ServingType, ScreenInv PROVE DTypeOK
  OBVIOUS
<1>1. pending \in Seq(Nat) /\ Len(pending) \in Nat /\ Len(pending) <= pushed /\ pushed \in Nat
  BY DEF ScreenInv, Waiting
<1>2. \A i \in 1..Len(pending) : pending[i] \in 1..pushed
  BY <1>1 DEF ScreenInv, Waiting
<1>3. pending \in Seq(1..pushed)
  BY <1>1, <1>2
<1> QED BY <1>1, <1>3 DEF ServingType, ScreenInv, Waiting, DTypeOK, Gl

LEMMA ServingInit == DInit => ServingType
<1> SUFFICES ASSUME DInit PROVE ServingType
  OBVIOUS
<1>1. routing \in {"RadioUsb", "SoftwareDemod"} /\ device \in Device
  BY DEF DInit, InitialRouting
<1>2. /\ restart = FALSE /\ picking = {} /\ half = FALSE /\ windows = 0
      /\ listDue = TRUE /\ queued = 0 /\ inbox = <<>> /\ missed = FALSE
      /\ frames = 0 /\ picks = 0 /\ faults = 0
  BY DEF DInit
<1>3. Averaging \in Nat \ {0} /\ FftQueue \in Nat \ {0} /\ MaxQueue \in Nat
  BY SizeAssumption
<1>4. inbox \in Seq(Message) /\ Len(inbox) = 0
  BY <1>2
<1>5. windows \in 0..(Averaging - 1) /\ queued \in 0..FftQueue
  BY <1>2, <1>3
<1>6. picking \in SUBSET Device
  BY <1>2
<1>7. Len(inbox) <= MaxQueue
  BY <1>3, <1>4
<1>8. frames \in 0..MaxFrames /\ picks \in 0..MaxPicks /\ faults \in 0..MaxFaults
  BY <1>2, CountAssumption
<1> QED BY <1>1, <1>2, <1>4, <1>5, <1>6, <1>7, <1>8 DEF ServingType

LEMMA ServingStep ==
  ASSUME ServingType, [DNext]_dvars
  PROVE  ServingType'
<1> USE DEF ServingType
<1>1. Averaging \in Nat \ {0} /\ FftQueue \in Nat \ {0}
  BY SizeAssumption
<1>2. CASE Window
  BY <1>1, <1>2, CountAssumption DEF Window, screen
<1>3. CASE PassFrame
  <2>1. queued' \in 0..FftQueue
    BY <1>1, <1>3 DEF PassFrame
  <2>2. inbox' \in Seq(Message) /\ Len(inbox') <= MaxQueue /\ missed' \in BOOLEAN
    <3>1. "fft" \in Message
      BY DEF Message
    <3>2. CASE routing = "RadioUsb"
      BY <1>3, <3>2 DEF PassFrame
    <3>3. CASE routing # "RadioUsb"
      <4>1. Received("fft")
        BY <1>3, <3>3 DEF PassFrame
      <4> QED BY <3>1, <4>1, ReceivedLast
    <3> QED BY <3>2, <3>3
  <2> QED BY <1>3, <2>1, <2>2 DEF PassFrame
<1>4. CASE SendList
  <2>1. device \in Message /\ Received(device)
    BY <1>4 DEF SendList, Message
  <2>2. inbox' \in Seq(Message) /\ Len(inbox') <= MaxQueue /\ missed' \in BOOLEAN
    BY <2>1, ReceivedLast
  <2> QED BY <1>4, <2>2 DEF SendList
<1>5. CASE ViewerReconnects
  BY <1>1, <1>5, CountAssumption DEF ViewerReconnects, Reconnected
<1>6. CASE Respawn
  <2>1. routing' \in {"RadioUsb", "SoftwareDemod"}
    BY <1>6 DEF Respawn, InitialRouting
  <2>2. /\ restart' = FALSE /\ picking' = {} /\ half' = FALSE /\ windows' = 0
        /\ listDue' = TRUE /\ queued' = 0
        /\ UNCHANGED <<device, frames, picks, inbox, missed, faults>>
    BY <1>6 DEF Respawn, Reconnected
  <2>3. windows' \in 0..(Averaging - 1) /\ queued' \in 0..FftQueue
    BY <1>1, <2>2
  <2>4. picking' \in SUBSET Device
    BY <2>2
  <2> QED BY <2>1, <2>2, <2>3, <2>4
<1>7. CASE \E d \in Device : SelectSource(d)
  BY <1>7, CountAssumption DEF SelectSource, InitialRouting
<1>8. CASE \E d \in Device : SelectDevice(d)
  BY <1>8 DEF SelectDevice
<1>9. CASE \E d \in Device : PickLost(d)
  BY <1>9, CountAssumption DEF PickLost
<1>10. CASE Tick
  BY <1>10, SizeAssumption DEF Tick, serving
<1>11. CASE Realize \/ Unrealize \/ Resize \/ Render
  BY <1>11 DEF Realize, Unrealize, Resize, Render, serving
<1>12. CASE UNCHANGED dvars
  BY <1>12 DEF dvars
<1> QED BY <1>2, <1>3, <1>4, <1>5, <1>6, <1>7, <1>8, <1>9, <1>10, <1>11, <1>12 DEF DNext, Server, Gtk

LEMMA DisplayInvariant == DSpec => [](ServingType /\ ScreenInv)
<1>1. ServingType /\ ScreenInv /\ [DNext]_dvars => ServingType' /\ ScreenInv'
  BY ServingStep, ScreenStep DEF ServingType
<1> QED BY <1>1, ServingInit, ScreenInit, PTL DEF DSpec

\* The data of the display are of their types: the server's and the client's
\* queues keep to their bounds, and what waits are lines that were pushed.
THEOREM DisplayTypeCorrect == DSpec => []DTypeOK
BY DisplayInvariant, TypeByParts, PTL

\* Lines are lost from the old end only: what waits for the waterfall is the
\* last lines pushed, without a gap.
THEOREM WaitingIsRecent == DSpec => []PendingIsRecent
<1>1. ASSUME ScreenInv PROVE PendingIsRecent
  <2>1. pending \in Seq(Nat) /\ DOMAIN pending = 1..Len(pending)
    BY <1>1 DEF ScreenInv, Waiting
  <2> QED BY <1>1, <2>1 DEF ScreenInv, Waiting, PendingIsRecent
<1> QED BY <1>1, DisplayInvariant, PTL

\* The waterfall runs downwards whatever was resized, hidden or skipped, for
\* any height of the texture and any number of lines that may wait.
THEOREM RowsAreInOrder == DSpec => []RowsInOrder
<1>1. ScreenInv => RowsInOrder
  BY DEF ScreenInv, Ordered, Row, RowsInOrder, OnScreen
<1> QED BY <1>1, DisplayInvariant, PTL

\* However zoom and pan were combined, the window shown is whole, for any bins
\* of a frame, any largest zoom and any number of buttons.
THEOREM WindowIsWhole == DSpec => []WindowWhole
<1>1. WindowWhole
  BY EveryViewWhole DEF WindowWhole
<1> QED BY <1>1, PTL

-----------------------------------------------------------------------------
(* Display: no IQ spectrum stays under an audio device.                    *)

\* No pick is under way, half done or waiting for the restart it asked for.
Settled == ~restart /\ ~half /\ picking = {}

\* Then the routing is the device's own; and under an audio device the list is
\* still to be sent, or was forgotten, or is in the inbox with no frame behind
\* it, or was handled, for no frame is passed on since.
LiveInv ==
  Settled =>
    /\ routing = InitialRouting(device)
    /\ device \in AudioKind => listDue \/ missed \/ Clears(fft, inbox)

LEMMA LiveInit == DInit => LiveInv
BY DEF DInit, LiveInv

LEMMA LiveStep ==
  ASSUME ServingType, ScreenInv, LiveInv, [DNext]_dvars
  PROVE  LiveInv'
<1> SUFFICES ASSUME Settled'
             PROVE  /\ routing' = InitialRouting(device')
                    /\ device' \in AudioKind => listDue' \/ missed' \/ Clears(fft', inbox')
  BY DEF LiveInv
<1>0. ~restart' /\ ~half' /\ picking' = {}
  BY DEF Settled
<1>1. CASE Respawn \/ ViewerReconnects
  <2>1. listDue'
    BY <1>1 DEF Respawn, ViewerReconnects, Reconnected
  <2>2. CASE Respawn
    BY <2>1, <2>2 DEF Respawn, InitialRouting
  <2>3. CASE ViewerReconnects
    <3>1. Settled /\ routing' = routing /\ device' = device
      BY <1>0, <2>3 DEF ViewerReconnects, Settled
    <3> QED BY <2>1, <3>1 DEF LiveInv
  <2> QED BY <1>1, <2>2, <2>3
<1>2. CASE \E d \in Device : SelectSource(d) \/ SelectDevice(d) \/ PickLost(d)
  BY <1>0, <1>2 DEF SelectSource, SelectDevice, PickLost
<1>3. CASE SendList
  <2>1. Settled /\ routing' = routing /\ device' = device /\ fft' = fft /\ Received(device)
    BY <1>0, <1>3 DEF SendList, Settled, screen
  <2>2. /\ inbox' \in Seq(Message) /\ Len(inbox') >= 1 /\ inbox'[Len(inbox')] = device
    BY <2>1, ReceivedLast DEF ServingType, Message
  <2>3. ASSUME device \in AudioKind PROVE Clears(fft', inbox')
    <3> DEFINE n == Len(inbox')
    <3>1. n \in 0..n /\ n # 0 /\ inbox'[n] \in AudioKind /\ \A j \in (n + 1)..n : inbox'[j] # "fft"
      BY <2>2, <2>3
    <3> HIDE DEF n
    <3> QED BY <3>1 DEF Clears, n
  <2> QED BY <2>1, <2>3 DEF LiveInv
<1>4. CASE PassFrame
  <2>1. Settled /\ routing' = routing /\ device' = device /\ fft' = fft /\ listDue' = listDue
    BY <1>0, <1>4 DEF PassFrame, Settled, screen
  <2>2. ASSUME device \in AudioKind PROVE inbox' = inbox /\ missed' = missed
    <3>1. routing = "RadioUsb"
      BY <2>1, <2>2, DeviceAssumption DEF LiveInv, InitialRouting
    <3> QED BY <1>4, <3>1 DEF PassFrame
  <2> QED BY <2>1, <2>2 DEF LiveInv
<1>5. CASE Tick
  <2>1. /\ Settled /\ routing' = routing /\ device' = device /\ listDue' = listDue
        /\ missed' = missed /\ inbox' = <<>>
    BY <1>0, <1>5 DEF Tick, serving, Settled
  <2>2. ASSUME Clears(fft, inbox) PROVE Clears(fft', inbox')
    <3> DEFINE s == [fft |-> fft, pending |-> pending, pushed |-> pushed]
    <3>1. fft' = Shown(s, inbox).fft
      BY <1>5 DEF Tick
    <3>2. s \in [fft : BOOLEAN, pending : Seq(Nat), pushed : Nat] /\ s.pending = pending /\ s.pushed = pushed
      BY DEF ScreenInv, Waiting
    <3>3. s.fft = fft
      OBVIOUS
    <3> HIDE DEF s
    <3>4. s \in Screens(s)
      BY <3>2 DEF Screens, ScreenInv, Waiting
    <3>5. ~Shown(s, inbox).fft
      BY <2>2, <3>3, <3>4, ShownClears DEF ServingType
    <3>6. ~fft'
      BY <3>1, <3>5
    <3> QED BY <2>1, <3>6 DEF Clears
  <2> QED BY <2>1, <2>2 DEF LiveInv
<1>6. CASE Window \/ Realize \/ Unrealize \/ Resize \/ Render
  <2>1. /\ Settled /\ routing' = routing /\ device' = device /\ listDue' = listDue
        /\ missed' = missed /\ inbox' = inbox /\ fft' = fft
    BY <1>0, <1>6 DEF Window, Realize, Unrealize, Resize, Render, serving, screen, Settled
  <2> QED BY <2>1 DEF LiveInv
<1>7. CASE UNCHANGED dvars
  <2>1. /\ Settled /\ routing' = routing /\ device' = device /\ listDue' = listDue
        /\ missed' = missed /\ inbox' = inbox /\ fft' = fft
    BY <1>0, <1>7 DEF dvars, Settled
  <2> QED BY <2>1 DEF LiveInv
<1> QED BY <1>1, <1>2, <1>3, <1>4, <1>5, <1>6, <1>7 DEF DNext, Server, Gtk

\* Once an audio device is active, its routing in place and every message to
\* the client handled, no IQ spectrum is left on the screen, for any devices,
\* users, picks, faults and sizes of the inbox.
THEOREM NoIqUnderAnAudioDevice == DSpec => []NoIqUnderAudio
<1>1. ServingType /\ ScreenInv /\ LiveInv /\ [DNext]_dvars => LiveInv'
  BY LiveStep
<1>2. ServingType /\ LiveInv => NoIqUnderAudio
  <2> SUFFICES ASSUME ServingType, LiveInv, Class(device) = "audio", Settled,
                      ~listDue, inbox = <<>>, ~missed
               PROVE  ~fft
    BY DEF NoIqUnderAudio, Settled
  <2>1. device \in AudioKind
    BY DEF Class
  <2>2. Clears(fft, inbox)
    BY <2>1 DEF LiveInv
  <2> QED BY <2>2 DEF Clears
<1> QED BY <1>1, <1>2, LiveInit, DisplayInvariant, PTL DEF DSpec

=============================================================================
