---------------------------- MODULE ServerProofs ----------------------------
(***************************************************************************)
(* Proofs about the server's process and its audio path, for any number of *)
(* clients, devices and threads, and any sizes of frames, blocks and       *)
(* channels.                                                               *)
(*                                                                         *)
(* Lifecycle: what main saves is what the clients left, and the next       *)
(* process starts from it, unless an aborted half of a handler was still   *)
(* running; nobody else can come between; a process that saved does not    *)
(* hang.                                                                   *)
(* AudioPath: no channel holds more than its capacity, and no Opus frame   *)
(* mixes two sources once the mux has handled the switch between them;     *)
(* after the token nobody waits in a circle, and little is left to do.     *)
(***************************************************************************)
EXTENDS Lifecycle, AudioPath, SequenceTheorems, TLAPS

-----------------------------------------------------------------------------
(* The server process.                                                     *)

\* The snapshot after one field is set, or after validation, is a snapshot.
LEMMA SnapshotFields ==
  ASSUME NEW s \in Snapshot
  PROVE  /\ \A d \in Device : [s EXCEPT !.dev = d] \in Snapshot
         /\ \A on \in BOOLEAN : [s EXCEPT !.nb = on] \in Snapshot
         /\ \A f \in Freq : [s EXCEPT !.freq = f] \in Snapshot
         /\ \A devices \in SUBSET Device : validate(s, devices) \in Snapshot
BY DEF Snapshot, validate

\* The default snapshot is a snapshot.
LEMMA DefaultSnapshot == default_snapshot \in Snapshot
BY FreqAssumption DEF default_snapshot, Snapshot

\* The initial state is well-typed.
LEMMA TypeInit == Init => TypeOK
<1> SUFFICES ASSUME Init PROVE TypeOK
  OBVIOUS
<1>1. snapshot \in Snapshot /\ final \in Snapshot /\ disk \in Snapshot
  BY DefaultSnapshot DEF Init
<1>2. /\ handler \in [Client -> HandlerAt] /\ copy \in [Client -> Snapshot \cup {None}]
      /\ thread \subseteq Thread
  BY DEF Init, Away, NoCopy, HandlerAt
<1>3. plugged \subseteq Device /\ listed \subseteq Device
  BY DEF Init
<1>4. boots \in 0..MaxBoots
  BY BoundAssumption DEF Init
<1> QED BY <1>1, <1>2, <1>3, <1>4 DEF Init, TypeOK, MainAt

\* No step leaves the types.
LEMMA TypeStep == TypeOK /\ [Next]_vars => TypeOK'
<1> SUFFICES ASSUME TypeOK, [Next]_vars PROVE TypeOK'
  OBVIOUS
<1> USE BoundAssumption, SnapshotFields DEF TypeOK, MainAt, HandlerAt, Thread
<1>1. CASE Boot
  <2>1. snapshot' \in Snapshot /\ final' \in Snapshot
    BY <1>1, DefaultSnapshot DEF Boot
  <2>2. boots' \in 0..MaxBoots
    BY <1>1 DEF Boot
  <2> QED BY <1>1, <2>1, <2>2 DEF Boot, halves
<1>2. CASE Main
  <2>1. CASE Grab
    BY <2>1 DEF Grab, halves, signals
  <2>2. CASE DropRuntime
    <3>1. handler' \in [Client -> HandlerAt]
      BY <2>2 DEF DropRuntime
    <3> QED BY <2>2, <3>1 DEF DropRuntime, signals, files, world
  <2>3. CASE \/ Bind \/ BindFails \/ ServeReturns \/ Unwrap \/ LingerEnds \/ Drain \/ JoinEnds
             \/ Save \/ SaveFails \/ Exit
    BY <2>3 DEF Bind, BindFails, ServeReturns, Unwrap, LingerEnds, Drain, JoinEnds, Save, SaveFails,
       Exit, halves, signals, files, world
  <2> QED BY <1>2, <2>1, <2>2, <2>3 DEF Main
<1>3. CASE ShutdownSignal \/ Plug
  BY <1>3 DEF ShutdownSignal, Plug, halves, signals, files, world
<1>4. CASE Kill
  BY <1>4 DEF Kill, Away, NoCopy, signals, files, world
<1>5. ASSUME NEW t \in Thread, ThreadEnds(t) PROVE TypeOK'
  BY <1>5 DEF ThreadEnds, halves, signals, files, world
<1>6. ASSUME NEW c \in Client, Connect(c) \/ DownEnds(c) \/ UpEnds(c) \/ Leaves(c) \/ Yields(c)
      PROVE  TypeOK'
  <2>1. handler' \in [Client -> HandlerAt]
    BY <1>6 DEF Connect, DownEnds, UpEnds, Leaves, Yields
  <2>2. UNCHANGED <<main, copy, thread, snapshot, signals, files, world>>
    BY <1>6 DEF Connect, DownEnds, UpEnds, Leaves, Yields
  <2> QED BY <2>1, <2>2 DEF signals, files, world
<1>7. ASSUME NEW c \in Client, SaveState(c) PROVE TypeOK'
  BY <1>7 DEF SaveState, signals, files, world
<1>8. ASSUME NEW c \in Client, WriteState(c) PROVE TypeOK'
  <2>1. disk' \in Snapshot /\ copy' \in [Client -> Snapshot \cup {None}]
    BY <1>8 DEF WriteState
  <2> QED BY <1>8, <2>1 DEF WriteState, signals, world
<1>9. ASSUME NEW c \in Client, LoadState(c) \/ EnumerateDevices(c) PROVE TypeOK'
  BY <1>9 DEF LoadState, EnumerateDevices, halves, signals, files, world
<1>10. ASSUME NEW c \in Client, NEW d \in Device, SelectDevice(c, d) PROVE TypeOK'
  BY <1>10 DEF SelectDevice, halves, signals, files, world
<1>11. ASSUME NEW c \in Client, NEW on \in BOOLEAN, SetNb(c, on) PROVE TypeOK'
  BY <1>11 DEF SetNb, halves, signals, files, world
<1>12. ASSUME NEW f \in Freq, Track(f) PROVE TypeOK'
  BY <1>12 DEF Track, halves, signals, files, world
<1>13. CASE UNCHANGED vars
  BY <1>13 DEF vars
<1> QED BY <1>1, <1>2, <1>3, <1>4, <1>5, <1>6, <1>7, <1>8, <1>9, <1>10, <1>11, <1>12, <1>13 DEF Next

\* Type correctness of Lifecycle.
THEOREM TypeCorrect == Spec => []TypeOK
BY TypeInit, TypeStep, PTL DEF Spec

-----------------------------------------------------------------------------
(* From try_unwrap on only a half caught in its last poll, and main, can    *)
(* reach the session.                                                      *)

\* Two snapshots agree on everything clients set.
Agree(s, t) == s.dev = t.dev /\ s.nb = t.nb

\* Main has the pipeline, and the copy of the session it is going to write.
Owns  == main \in {"grab", "drain", "join", "save"}
Holds == main \in {"drain", "join", "save"}

\* No half of a handler runs; alone says it of the moment of the copy.
Nobody == \A c \in Client : handler[c] = "away"

OwnInv ==
  /\ TypeOK
  /\ \A c \in Client : copy[c] # None => UpRuns(c)
  /\ Owns \/ saved \/ main = "dropping" => ~Held
  /\ saved => main \in {"return", "dropping", "down"}
  /\ (Holds \/ saved) /\ alone => Nobody
  /\ Holds /\ alone => Agree(final, snapshot)
  /\ saved /\ alone => Agree(disk, snapshot)

\* What a client does takes a half that runs.
LEMMA HalfStep ==
  ASSUME OwnInv, TypeOK', NEW c \in Client, UpRuns(c), copy' = copy, handler' = handler,
         UNCHANGED <<main, saved, alone, final, disk>>
  PROVE  OwnInv'
<1>1. ~ Nobody /\ ~ ((Holds \/ saved) /\ alone)
  BY DEF OwnInv, Nobody, UpRuns
<1> QED BY <1>1 DEF OwnInv, Owns, Holds, UpRuns, Held, Nobody

\* So it does when a half begins or ends a save.
LEMMA SaveStep ==
  ASSUME OwnInv, TypeOK', NEW c \in Client, SaveState(c) \/ WriteState(c)
  PROVE  OwnInv'
<1>1. UpRuns(c)
  BY DEF OwnInv, SaveState, UpIdle, WriteState
<1>2. ~ Nobody /\ ~ ((Holds \/ saved) /\ alone)
  BY <1>1 DEF OwnInv, Nobody, UpRuns
<1>3. UNCHANGED <<main, handler, saved, alone>>
  BY DEF SaveState, WriteState, world
<1>4. ASSUME NEW d \in Client, copy'[d] # None PROVE UpRuns(d)'
  <2>1. CASE d = c
    BY <1>1, <1>3, <2>1 DEF UpRuns
  <2>2. CASE d # c
    <3>1. copy'[d] = copy[d]
      BY <2>2 DEF OwnInv, TypeOK, SaveState, WriteState
    <3> QED BY <1>3, <1>4, <3>1 DEF OwnInv, UpRuns
  <2> QED BY <2>1, <2>2
<1> QED BY <1>2, <1>3, <1>4 DEF OwnInv, Owns, Holds, Held, Nobody

\* When a half or a handler ends, no more of them run than before.
LEMMA EndStep ==
  ASSUME OwnInv, TypeOK', NEW c \in Client, DownEnds(c) \/ UpEnds(c) \/ Leaves(c) \/ Yields(c)
  PROVE  OwnInv'
<1>1. UNCHANGED <<main, copy, saved, alone, final, disk, snapshot>>
  BY DEF DownEnds, UpEnds, Leaves, Yields, files, world
<1>2. handler[c] # "away" /\ ~ ((Holds \/ saved) /\ alone)
  BY DEF OwnInv, Nobody, DownEnds, UpEnds, Leaves, Yields
<1>3. \A d \in Client : d # c => handler'[d] = handler[d]
  BY DEF OwnInv, TypeOK, DownEnds, UpEnds, Leaves, Yields
<1>4. ~Held => ~Held'
  <2> SUFFICES ASSUME ~Held PROVE ~Held'
    OBVIOUS
  <2>1. Yields(c)
    BY DEF Held, DownEnds, UpEnds, Leaves
  <2>2. handler'[c] = "away"
    BY <2>1 DEF Yields, OwnInv, TypeOK
  <2> QED BY <1>3, <2>2 DEF Held
<1>5. ASSUME copy[c] # None PROVE UpRuns(c)'
  <2>1. DownEnds(c) \/ (Leaves(c) /\ handler[c] = "closing")
    BY <1>5 DEF OwnInv, UpRuns, UpEnds, Leaves, Yields
  <2> QED BY <2>1 DEF UpRuns, DownEnds, Leaves, OwnInv, TypeOK
<1>6. \A d \in Client : copy'[d] # None => UpRuns(d)'
  BY <1>1, <1>3, <1>5 DEF OwnInv, UpRuns
<1> QED BY <1>1, <1>2, <1>4, <1>6 DEF OwnInv, Owns, Holds

\* Every step of main keeps it.
LEMMA MainStep ==
  ASSUME OwnInv, TypeOK', Main
  PROVE  OwnInv'
<1> USE DEF OwnInv, Owns, Holds
<1>1. CASE Unwrap
  BY <1>1 DEF Unwrap, Held, Nobody, UpRuns, halves, files, world
<1>2. CASE Grab
  <2>1. handler' = handler /\ copy' = copy /\ main' = "drain" /\ saved' = saved /\ ~saved
    BY <1>2 DEF Grab, halves
  <2>2. alone' => Nobody
    BY <1>2 DEF Grab, Nobody, Held, TypeOK, HandlerAt
  <2>3. final' = snapshot /\ snapshot' = snapshot
    BY <1>2 DEF Grab
  <2> QED BY <1>2, <2>1, <2>2, <2>3 DEF Grab, Held, Nobody, UpRuns, Agree
<1>3. CASE Drain \/ JoinEnds
  BY <1>3 DEF Drain, JoinEnds, Held, Nobody, UpRuns, halves, files, world
<1>4. CASE Save
  BY <1>4 DEF Save, Held, Nobody, UpRuns, Agree, halves
<1>5. CASE DropRuntime
  <2>1. handler' \in [Client -> {"away", "aborted"}] /\ copy' = copy
    BY <1>5 DEF DropRuntime
  <2>2. ~Held'
    BY <2>1 DEF Held
  <2>3. \A c \in Client : copy'[c] # None => UpRuns(c)'
    BY <1>5, <2>1 DEF DropRuntime, UpRuns
  <2>4. Nobody => Nobody'
    BY <1>5, <2>1 DEF DropRuntime, UpRuns, Nobody
  <2> QED BY <1>5, <2>2, <2>3, <2>4 DEF DropRuntime, files, world
<1>6. CASE Bind \/ BindFails \/ ServeReturns \/ LingerEnds \/ SaveFails \/ Exit
  BY <1>6 DEF Bind, BindFails, ServeReturns, LingerEnds, SaveFails, Exit, Held, Nobody, UpRuns,
     halves, files, world
<1> QED BY <1>1, <1>2, <1>3, <1>4, <1>5, <1>6 DEF Main

\* Every step keeps main's ownership of the session it is saving.
LEMMA OwnStep == OwnInv /\ [Next]_vars => OwnInv'
<1> SUFFICES ASSUME OwnInv, [Next]_vars PROVE OwnInv'
  OBVIOUS
<1>0. TypeOK'
  BY TypeStep DEF OwnInv
<1> USE <1>0
<1>1. CASE Boot
  BY <1>1 DEF Boot, OwnInv, Owns, Holds, UpRuns, halves
<1>2. CASE Main
  BY <1>2, MainStep
<1>3. CASE ShutdownSignal \/ Plug
  BY <1>3 DEF ShutdownSignal, Plug, OwnInv, Owns, Holds, Held, Nobody, UpRuns, halves, files, world
<1>4. CASE Kill
  BY <1>4 DEF Kill, Away, NoCopy, OwnInv, Owns, Holds
<1>5. ASSUME NEW t \in Thread, ThreadEnds(t) PROVE OwnInv'
  BY <1>5 DEF ThreadEnds, OwnInv, Owns, Holds, Held, Nobody, UpRuns, halves, files, world
<1>6. ASSUME NEW c \in Client, Connect(c) PROVE OwnInv'
  <2>1. main = "serve" /\ ~saved /\ UNCHANGED <<main, copy, saved, alone>>
    BY <1>6 DEF Connect, OwnInv, world
  <2>2. \A d \in Client : copy[d] # None => UpRuns(d)'
    BY <1>6 DEF Connect, OwnInv, UpRuns, TypeOK
  <2> QED BY <2>1, <2>2 DEF OwnInv, Owns, Holds
<1>7. ASSUME NEW c \in Client, DownEnds(c) \/ UpEnds(c) \/ Leaves(c) \/ Yields(c) PROVE OwnInv'
  BY <1>7, EndStep
<1>8. ASSUME NEW c \in Client, SaveState(c) \/ WriteState(c) PROVE OwnInv'
  BY <1>8, SaveStep
<1>9. ASSUME NEW c \in Client, LoadState(c) \/ EnumerateDevices(c) PROVE OwnInv'
  BY <1>9, HalfStep DEF LoadState, EnumerateDevices, UpIdle, halves, files, world
<1>10. ASSUME NEW c \in Client, NEW d \in Device, SelectDevice(c, d) PROVE OwnInv'
  BY <1>10, HalfStep DEF SelectDevice, UpIdle, halves, files, world
<1>11. ASSUME NEW c \in Client, NEW on \in BOOLEAN, SetNb(c, on) PROVE OwnInv'
  BY <1>11, HalfStep DEF SetNb, UpIdle, halves, files, world
<1>12. ASSUME NEW f \in Freq, Track(f) PROVE OwnInv'
  <2>1. snapshot'.dev = snapshot.dev /\ snapshot'.nb = snapshot.nb
    BY <1>12 DEF Track, OwnInv, TypeOK, Snapshot
  <2> QED BY <1>12, <2>1 DEF Track, OwnInv, Owns, Holds, Held, Nobody, UpRuns, Agree, halves, files, world
<1>13. CASE UNCHANGED vars
  BY <1>13 DEF vars, OwnInv, Owns, Holds, Held, Nobody, UpRuns
<1> QED BY <1>1, <1>2, <1>3, <1>4, <1>5, <1>6, <1>7, <1>8, <1>9, <1>10, <1>11, <1>12, <1>13 DEF Next

\* The invariant holds at the start.
LEMMA OwnInit == Init => OwnInv
BY TypeInit DEF Init, OwnInv, Owns, Holds, NoCopy, Away, Held

\* What main saved is what the clients left, if no aborted half of a handler
\* was in its last poll when main took its copy (main.rs:136-164).
THEOREM SavedLastWord == Spec => []SavedIsLastWord
<1>1. OwnInv => SavedIsLastWord
  BY DEF OwnInv, Agree, SavedIsLastWord
<1> QED BY OwnInit, OwnStep, <1>1, PTL DEF Spec

\* The next process starts with the toggles and, if it is still there, the
\* device of a session that main saved while no aborted half was left.
THEOREM SessionKept == Spec => SessionSurvives
<1>1. OwnInv /\ [Next]_vars =>
        [Boot /\ saved /\ alone =>
           /\ snapshot'.nb = snapshot.nb
           /\ snapshot'.dev = IF snapshot.dev \in plugged THEN snapshot.dev ELSE None]_vars
  BY DEF OwnInv, Agree, Boot, validate, TypeOK, Snapshot
<1> QED BY OwnInit, OwnStep, <1>1, PTL DEF Spec, SessionSurvives

\* Once main has the pipeline, a step that changes what the clients set, or the
\* state file, is main's own save or one of a half caught in its last poll.
OnlyLateHalves ==
  [][Owns /\ (~ Agree(snapshot', snapshot) \/ disk' # disk) =>
       Save \/ \E c \in Client : handler[c] = "aborted"]_vars

\* After try_unwrap nothing but an aborted half that nobody waited for can come
\* between main's copy of the session and the file (handler.rs:118-128).
THEOREM LateHalves == Spec => OnlyLateHalves
<1>1. ASSUME OwnInv, Next, Owns, ~ Agree(snapshot', snapshot) \/ disk' # disk
      PROVE  Save \/ \E c \in Client : handler[c] = "aborted"
  <2>1. ASSUME NEW c \in Client, UpRuns(c) PROVE handler[c] = "aborted"
    BY <1>1, <2>1 DEF OwnInv, Held, UpRuns
  <2>2. CASE Main \/ Boot
    BY <1>1, <2>2 DEF Main, Boot, Bind, BindFails, ServeReturns, Unwrap, LingerEnds, Grab, Drain,
       JoinEnds, SaveFails, DropRuntime, Exit, Agree, Owns, files
  <2>3. CASE ShutdownSignal \/ Plug \/ Kill
    BY <1>1, <2>3 DEF ShutdownSignal, Plug, Kill, Agree, files
  <2>4. ASSUME NEW t \in Thread, ThreadEnds(t) PROVE FALSE
    BY <1>1, <2>4 DEF ThreadEnds, Agree, files
  <2>5. ASSUME NEW c \in Client,
               Connect(c) \/ DownEnds(c) \/ UpEnds(c) \/ Leaves(c) \/ Yields(c)
        PROVE  FALSE
    BY <1>1, <2>5 DEF Connect, DownEnds, UpEnds, Leaves, Yields, Agree, files
  <2>6. ASSUME NEW c \in Client,
               SaveState(c) \/ WriteState(c) \/ LoadState(c) \/ EnumerateDevices(c)
        PROVE  handler[c] = "aborted"
    BY <1>1, <2>1, <2>6 DEF SaveState, WriteState, LoadState, EnumerateDevices, UpIdle, OwnInv
  <2>7. ASSUME NEW c \in Client, NEW d \in Device, SelectDevice(c, d) PROVE handler[c] = "aborted"
    BY <2>1, <2>7 DEF SelectDevice, UpIdle
  <2>8. ASSUME NEW c \in Client, NEW on \in BOOLEAN, SetNb(c, on) PROVE handler[c] = "aborted"
    BY <2>1, <2>8 DEF SetNb, UpIdle
  <2>9. ASSUME NEW f \in Freq, Track(f) PROVE FALSE
    BY <1>1, <2>9 DEF Track, Agree, OwnInv, TypeOK, Snapshot, files
  <2> QED BY <1>1, <2>2, <2>3, <2>4, <2>5, <2>6, <2>7, <2>8, <2>9 DEF Next
<1>2. OwnInv /\ [Next]_vars =>
        [Owns /\ (~ Agree(snapshot', snapshot) \/ disk' # disk) =>
           Save \/ \E c \in Client : handler[c] = "aborted"]_vars
  BY <1>1
<1> QED BY OwnInit, OwnStep, <1>2, PTL DEF Spec, OnlyLateHalves

-----------------------------------------------------------------------------
(* A process that saved its session ends.                                  *)

\* In a process that saved its session and drops its runtime, every thread
\* still running has what it ends for: its token has fired, or the senders of
\* its channel are gone but for those of halves in their last poll.
SavedNeverHangs ==
  main = "dropping" /\ saved =>
    \A t \in thread :
      \/ t \in TokenThread /\ pcancel
      \/ t \in ChannelThread /\ \A c \in Client : handler[c] \in {"away", "aborted"}

\* A process that saved has fired the pipeline's token before.
FiredInv == main \in {"join", "save"} \/ (main \in {"return", "dropping"} /\ saved) => pcancel

\* Every step keeps it.
LEMMA FiredStep == OwnInv /\ FiredInv /\ [Next]_vars => FiredInv'
<1> SUFFICES ASSUME OwnInv, FiredInv, [Next]_vars PROVE FiredInv'
  OBVIOUS
<1> USE DEF FiredInv
<1>1. CASE Main
  <2>1. CASE Drain \/ JoinEnds \/ Save \/ SaveFails
    BY <2>1 DEF Drain, JoinEnds, Save, SaveFails, signals, files, world
  <2>2. CASE LingerEnds
    BY <2>2 DEF LingerEnds, OwnInv, signals, files, world
  <2>3. CASE Bind \/ BindFails \/ ServeReturns \/ Unwrap \/ Grab \/ DropRuntime \/ Exit
    BY <2>3 DEF Bind, BindFails, ServeReturns, Unwrap, Grab, DropRuntime, Exit, signals, files, world
  <2> QED BY <1>1, <2>1, <2>2, <2>3 DEF Main
<1>2. CASE Boot \/ ShutdownSignal \/ Plug \/ Kill
  BY <1>2 DEF Boot, ShutdownSignal, Plug, Kill, signals, files, world
<1>3. ASSUME UNCHANGED <<main, pcancel, saved>> PROVE FiredInv'
  BY <1>3
<1>4. ASSUME NEW t \in Thread, ThreadEnds(t) PROVE FiredInv'
  BY <1>3, <1>4 DEF ThreadEnds, signals, world
<1>5. ASSUME NEW c \in Client,
             \/ Connect(c) \/ DownEnds(c) \/ UpEnds(c) \/ Leaves(c) \/ Yields(c)
             \/ SaveState(c) \/ WriteState(c) \/ LoadState(c) \/ EnumerateDevices(c)
      PROVE  FiredInv'
  BY <1>3, <1>5 DEF Connect, DownEnds, UpEnds, Leaves, Yields, SaveState, WriteState, LoadState,
     EnumerateDevices, signals, files, world
<1>6. ASSUME NEW c \in Client, NEW d \in Device, SelectDevice(c, d) PROVE FiredInv'
  BY <1>3, <1>6 DEF SelectDevice, files, world
<1>7. ASSUME NEW c \in Client, NEW on \in BOOLEAN, SetNb(c, on) PROVE FiredInv'
  BY <1>3, <1>7 DEF SetNb, signals, files, world
<1>8. ASSUME NEW f \in Freq, Track(f) PROVE FiredInv'
  BY <1>3, <1>8 DEF Track, signals, files, world
<1>9. CASE UNCHANGED vars
  BY <1>9 DEF vars
<1> QED BY <1>1, <1>2, <1>4, <1>5, <1>6, <1>7, <1>8, <1>9 DEF Next

\* The runtime's drop, which waits for every blocking thread without a limit,
\* can hang only in a process that did not save: on the path through
\* try_unwrap the token is fired and the senders go (main.rs:136-164).
THEOREM SavedProcessEnds == Spec => []SavedNeverHangs
<1>1. Init => OwnInv /\ FiredInv
  BY OwnInit DEF Init, FiredInv
<1>2. OwnInv /\ FiredInv /\ [Next]_vars => (OwnInv /\ FiredInv)'
  BY OwnStep, FiredStep
<1>3. OwnInv /\ FiredInv => SavedNeverHangs
  BY DEF OwnInv, FiredInv, TypeOK, Thread, HandlerAt, Held, SavedNeverHangs
<1> QED BY <1>1, <1>2, <1>3, PTL DEF Spec

\* Integer division, and a product with the same factor on both sides.
LEMMA Division ==
  ASSUME NEW x \in Int, NEW y \in Nat \ {0}
  PROVE  /\ x \div y \in Int
         /\ (x \div y) * y <= x /\ x < (x \div y) * y + y
OBVIOUS

LEMMA Growing ==
  ASSUME NEW a \in Int, NEW b \in Int, NEW k \in Nat, a <= b
  PROVE  a * k <= b * k
OBVIOUS

-----------------------------------------------------------------------------
(* The audio path.                                                         *)

LEMMA BroadcastRoom ==
  ASSUME NEW n \in 0..Lag, NEW more \in Nat, NEW receiver
  PROVE  Broadcast(n, more, receiver) \in 0..Lag
BY QueueAssumption DEF Broadcast

\* What encode_samples keeps is less than a frame, and of the old parts and
\* the new.
LEMMA EncodeKeeps ==
  ASSUME ATypeOK, NEW s \in Source, NEW n \in 1..FrameSize, Encode(s, n)
  PROVE  /\ buf' \in Seq(Source) /\ Len(buf') < FrameSize /\ chunks' \in 0..Lag
         /\ \A i \in 1..Len(buf') : buf'[i] = s \/ \E j \in 1..Len(buf) : buf'[i] = buf[j]
<1> DEFINE new   == [i \in 1..n |-> s]
           parts == buf \o new
           m     == Len(parts)
           whole == m \div FrameSize
           a     == whole * FrameSize + 1
<1>1. FrameSize \in Nat \ {0} /\ n \in Nat /\ buf \in Seq(Source) /\ Len(buf) \in Nat
  BY SizeAssumption DEF ATypeOK
<1>2. new \in Seq(Source) /\ Len(new) = n /\ \A i \in 1..n : new[i] = s
  BY <1>1
<1> HIDE DEF new
<1>3. /\ parts \in Seq(Source) /\ m = Len(buf) + n
      /\ \A i \in 1..m : parts[i] = IF i <= Len(buf) THEN buf[i] ELSE new[i - Len(buf)]
  BY <1>1, <1>2, ConcatProperties
<1> HIDE DEF parts
<1>4. m \in Nat /\ whole \in Int /\ whole * FrameSize <= m /\ m < whole * FrameSize + FrameSize
  <2>1. m \in Nat
    BY <1>1, <1>3
  <2> HIDE DEF m
  <2> QED BY <1>1, <2>1, Division
<1>5. whole \in Nat
  <2>1. ASSUME whole <= -1 PROVE FALSE
    <3>1. whole * FrameSize <= (-1) * FrameSize
      <4> HIDE DEF whole
      <4> QED BY <1>1, <1>4, <2>1, Growing
    <3> HIDE DEF whole, m
    <3> QED BY <1>1, <1>4, <3>1
  <2> HIDE DEF whole
  <2> QED BY <1>4, <2>1
<1>6. a \in Nat /\ a >= 1 /\ a <= m + 1 /\ m - a + 1 < FrameSize /\ m - a + 1 >= 0
  <2> DEFINE p == whole * FrameSize
  <2>1. p \in Nat
    <3> HIDE DEF whole
    <3> QED BY <1>1, <1>5
  <2> HIDE DEF whole, m
  <2> HIDE DEF p
  <2>2. a = p + 1
    BY DEF p
  <2>3. p <= m /\ m < p + FrameSize
    BY <1>4 DEF p
  <2> HIDE DEF a
  <2> QED BY <1>1, <1>4, <2>1, <2>2, <2>3
<1>7. buf' = SubSeq(parts, a, m) /\ chunks' = Broadcast(chunks, whole, bridge)
  BY DEF Encode, parts, new
<1> HIDE DEF a, m, whole
<1>8. \A i \in a..m : parts[i] \in Source
  <2>1. \A i \in 1..m : parts[i] \in Source
    BY <1>3, ElementOfSeq DEF m
  <2> QED BY <1>4, <1>6, <2>1
<1>9. /\ buf' \in Seq(Source) /\ Len(buf') = IF a <= m THEN m - a + 1 ELSE 0
      /\ \A i \in 1..(m - a + 1) : buf'[i] = parts[a + i - 1]
  BY <1>4, <1>6, <1>7, <1>8, SubSeqProperties
<1>10. Len(buf') = m - a + 1
  BY <1>4, <1>6, <1>9
<1>11. ASSUME NEW i \in 1..Len(buf')
       PROVE  buf'[i] = s \/ \E j \in 1..Len(buf) : buf'[i] = buf[j]
  <2> DEFINE k == a + i - 1
  <2>1. k \in 1..m /\ buf'[i] = parts[k]
    BY <1>4, <1>6, <1>9, <1>10
  <2> HIDE DEF k
  <2>2. parts[k] = IF k <= Len(buf) THEN buf[k] ELSE new[k - Len(buf)]
    BY <1>3, <2>1 DEF m
  <2>3. CASE k <= Len(buf)
    <3>1. k \in 1..Len(buf)
      BY <1>1, <2>1, <2>3
    <3> QED BY <2>1, <2>2, <2>3, <3>1
  <2>4. CASE ~ (k <= Len(buf))
    <3>1. k - Len(buf) \in 1..n
      BY <1>1, <1>3, <2>1, <2>4, <1>4 DEF m
    <3> QED BY <1>2, <2>1, <2>2, <2>4, <3>1
  <2> QED BY <2>3, <2>4
<1>12. chunks' \in 0..Lag
  <2>1. chunks \in 0..Lag
    BY DEF ATypeOK
  <2> QED BY <1>5, <1>7, <2>1, BroadcastRoom
<1> QED BY <1>6, <1>9, <1>10, <1>11, <1>12

\* Blocks that are put into a channel, and taken from it.
LEMMA QueueGrows ==
  ASSUME NEW q \in [Source -> Seq(1..FrameSize)], NEW s \in Source, NEW n \in 1..FrameSize,
         \A t \in Source : Len(q[t]) <= Capacity, Len(q[s]) < Capacity
  PROVE  LET r == [q EXCEPT ![s] = Append(@, n)] IN
           r \in [Source -> Seq(1..FrameSize)] /\ \A t \in Source : Len(r[t]) <= Capacity
<1>1. q[s] \in Seq(1..FrameSize) /\ Len(q[s]) \in Nat /\ Capacity \in Nat
  BY QueueAssumption
<1>2. Append(q[s], n) \in Seq(1..FrameSize) /\ Len(Append(q[s], n)) = Len(q[s]) + 1
  BY <1>1, AppendProperties
<1> QED BY <1>1, <1>2

LEMMA QueueShrinks ==
  ASSUME NEW q \in [Source -> Seq(1..FrameSize)], NEW s \in Source, q[s] # <<>>,
         \A t \in Source : Len(q[t]) <= Capacity
  PROVE  LET r == [q EXCEPT ![s] = Tail(@)] IN
           /\ r \in [Source -> Seq(1..FrameSize)] /\ \A t \in Source : Len(r[t]) <= Capacity
           /\ Head(q[s]) \in 1..FrameSize
<1>1. q[s] \in Seq(1..FrameSize) /\ Len(q[s]) \in Nat /\ Capacity \in Nat
  BY QueueAssumption
<1>2. /\ Head(q[s]) \in 1..FrameSize /\ Tail(q[s]) \in Seq(1..FrameSize)
      /\ Len(Tail(q[s])) = Len(q[s]) - 1
  BY <1>1, HeadTailProperties
<1> QED BY <1>1, <1>2

LEMMA AudioInit == AInit => ATypeOK
<1> SUFFICES ASSUME AInit PROVE ATypeOK
  OBVIOUS
<1>1. FrameSize \in Nat \ {0} /\ Capacity \in Nat \ {0} /\ Lag \in Nat \ {0}
  BY SizeAssumption, QueueAssumption
<1>2. \A S : <<>> \in Seq(S) /\ Len(<<>>) = 0
  OBVIOUS
<1>3. queue \in [Source -> Seq(1..FrameSize)] /\ \A s \in Source : Len(queue[s]) <= Capacity
  BY <1>1, <1>2 DEF AInit
<1>4. alive \in [Source -> BOOLEAN]
  BY DEF AInit
<1>5. buf \in Seq(Source) /\ Len(buf) < FrameSize
  BY <1>1, <1>2 DEF AInit
<1>6. clean \in 0..Lag /\ chunks \in 0..Lag /\ speaker \in 0..Capacity
  <2>1. clean = 0 /\ chunks = 0 /\ speaker = 0
    BY DEF AInit
  <2> QED BY <1>1, <2>1
<1>7. /\ iq \in {"open", "run", "done"} /\ nb \in {"run", "done"} /\ demod \in {"run", "done"}
      /\ drm \in {"run", "done"} /\ mux \in {"run", "done"} /\ usb \in {"read", "send", "done"}
      /\ bridge \in {"recv", "send", "done"} /\ alsa \in {"run", "done"}
  BY DEF AInit
<1>8. routing \in Source /\ source \in Source /\ seen \in BOOLEAN /\ cancelled \in BOOLEAN
  <2>1. routing \in Source /\ source = routing
    BY DEF AInit
  <2>2. seen \in BOOLEAN
    BY DEF AInit
  <2>3. cancelled \in BOOLEAN
    BY DEF AInit
  <2> QED BY <2>1, <2>2, <2>3
<1> QED BY <1>3, <1>4, <1>5, <1>6, <1>7, <1>8 DEF ATypeOK

LEMMA EffectiveSource ==
  ASSUME routing' \in Source, NEW open \in [Source -> BOOLEAN]
  PROVE  Effective(open) \in Source
BY DEF Effective, Other, Source

LEMMA AudioStep ==
  ASSUME ATypeOK, [ANext]_avars
  PROVE  ATypeOK'
<1>0. FrameSize \in Nat \ {0} /\ DemodSize \in 1..FrameSize /\ Capacity \in Nat \ {0} /\ Lag \in Nat \ {0}
  BY SizeAssumption, QueueAssumption
<1>1. CASE IqOpen \/ IqFails \/ IqCancelled \/ NbEnds \/ DrmEnds
  BY <1>1 DEF IqOpen, IqFails, IqCancelled, NbEnds, DrmEnds, ATypeOK, mixer, play
<1>2. CASE IqBlock
  <2>1. clean' \in 0..Lag
    BY <1>2, BroadcastRoom DEF IqBlock, ATypeOK
  <2> QED BY <1>2, <2>1 DEF IqBlock, ATypeOK, mixer, play
<1>3. CASE Demodulate
  <2>1. demod' \in {"run", "done"}
    BY <1>3 DEF Demodulate, AtTop
  <2>2. clean' \in 0..Lag
    BY <1>0, <1>3 DEF Demodulate, ATypeOK
  <2>3. queue' \in [Source -> Seq(1..FrameSize)] /\ \A t \in Source : Len(queue'[t]) <= Capacity
    <3>1. CASE mux = "run" /\ Len(queue["demod"]) < Capacity
      <4>1. queue' = [queue EXCEPT !["demod"] = Append(@, DemodSize)] /\ "demod" \in Source
        BY <1>3, <3>1 DEF Demodulate, Source
      <4> QED BY <1>0, <3>1, <4>1, QueueGrows DEF ATypeOK
    <3>2. CASE ~ (mux = "run" /\ Len(queue["demod"]) < Capacity)
      BY <1>3, <3>2 DEF Demodulate, ATypeOK
    <3> QED BY <3>1, <3>2
  <2> QED BY <1>3, <2>1, <2>2, <2>3 DEF Demodulate, ATypeOK, mixer, play
<1>4. CASE DemodClosed
  BY <1>4 DEF DemodClosed, ATypeOK, mixer, play
<1>5. CASE UsbRead \/ UsbCancelled \/ UsbEnds
  BY <1>5 DEF UsbRead, UsbCancelled, UsbEnds, ATypeOK, capture, mixer, play
<1>6. CASE UsbSent
  <2>1. usb' \in {"read", "send", "done"}
    BY <1>6 DEF UsbSent
  <2>2. queue' \in [Source -> Seq(1..FrameSize)] /\ \A t \in Source : Len(queue'[t]) <= Capacity
    <3>1. CASE UNCHANGED queue
      BY <3>1 DEF ATypeOK
    <3>2. CASE mux = "run" /\ Len(queue["usb"]) < Capacity
               /\ \E n \in 1..FrameSize : queue' = [queue EXCEPT !["usb"] = Append(@, n)]
      <4>1. PICK n \in 1..FrameSize : queue' = [queue EXCEPT !["usb"] = Append(@, n)]
        BY <3>2
      <4>2. "usb" \in Source
        BY DEF Source
      <4> QED BY <3>2, <4>1, <4>2, QueueGrows DEF ATypeOK
    <3> QED BY <1>6, <3>1, <3>2 DEF UsbSent
  <2> QED BY <1>6, <2>1, <2>2 DEF UsbSent, ATypeOK, capture, mixer, play
<1>7. CASE \E s \in Source : Select(s)
  BY <1>7 DEF Select, ATypeOK, capture, play
<1>8. CASE \E s \in Source : MuxBlock(s)
  <2>1. PICK s \in Source : MuxBlock(s)
    BY <1>8
  <2>2. queue[s] # <<>> /\ queue' = [queue EXCEPT ![s] = Tail(@)] /\ routing' = routing
    BY <2>1 DEF MuxBlock
  <2>3. /\ queue' \in [Source -> Seq(1..FrameSize)] /\ \A t \in Source : Len(queue'[t]) <= Capacity
        /\ Head(queue[s]) \in 1..FrameSize
    BY <2>2, QueueShrinks DEF ATypeOK
  <2>4. source' \in Source
    BY <2>1, <2>2, EffectiveSource DEF MuxBlock, ATypeOK
  <2>5. buf' \in Seq(Source) /\ Len(buf') < FrameSize /\ chunks' \in 0..Lag
    <3>1. CASE s = source
      BY <2>1, <2>3, <3>1, EncodeKeeps DEF MuxBlock
    <3>2. CASE s # source
      BY <2>1, <3>2 DEF MuxBlock, ATypeOK
    <3> QED BY <3>1, <3>2
  <2> QED BY <2>1, <2>3, <2>4, <2>5 DEF MuxBlock, ATypeOK, capture, play
<1>9. CASE \E s \in Source : MuxClosed(s)
  <2>1. PICK s \in Source : MuxClosed(s)
    BY <1>9
  <2>2. alive' \in [Source -> BOOLEAN] /\ routing' \in Source
    BY <2>1 DEF MuxClosed, ATypeOK
  <2>3. source' \in Source
    BY <2>1, <2>2, EffectiveSource DEF MuxClosed
  <2> QED BY <2>1, <2>2, <2>3 DEF MuxClosed, ATypeOK, capture, play
<1>10. CASE MuxSwitch
  <2>1. source' \in Source
    BY <1>10, EffectiveSource DEF MuxSwitch, ATypeOK
  <2>2. buf' \in Seq(Source) /\ Len(buf') < FrameSize
    <3>1. buf' = <<>>
      BY <1>10 DEF MuxSwitch
    <3>2. <<>> \in Seq(Source) /\ Len(<<>>) = 0
      OBVIOUS
    <3> QED BY <1>0, <3>1, <3>2
  <2> QED BY <1>10, <2>1, <2>2 DEF MuxSwitch, ATypeOK, capture, play
<1>11. CASE MuxEnds
  <2>1. \A S : <<>> \in Seq(S) /\ Len(<<>>) = 0
    OBVIOUS
  <2>2. queue' \in [Source -> Seq(1..FrameSize)] /\ \A s \in Source : Len(queue'[s]) <= Capacity
    BY <1>0, <1>11, <2>1 DEF MuxEnds
  <2>3. buf' \in Seq(Source) /\ Len(buf') < FrameSize
    BY <1>0, <1>11, <2>1 DEF MuxEnds
  <2>4. alive' \in [Source -> BOOLEAN] /\ routing' \in Source /\ source' \in Source /\ seen' \in BOOLEAN
    BY <1>11 DEF MuxEnds, Source
  <2> QED BY <1>11, <2>2, <2>3, <2>4 DEF MuxEnds, ATypeOK, capture, play
<1>12. CASE BridgeRecv
  BY <1>0, <1>12 DEF BridgeRecv, ATypeOK, capture, mixer
<1>13. CASE BridgeSent
  BY <1>0, <1>13 DEF BridgeSent, ATypeOK, capture, mixer
<1>14. CASE AlsaPlay
  BY <1>0, <1>14 DEF AlsaPlay, AtTop, ATypeOK, capture, mixer
<1>15. CASE AlsaFails
  BY <1>0, <1>15 DEF AlsaFails, ATypeOK, capture, mixer
<1>16. CASE Cancel
  BY <1>16 DEF Cancel, ATypeOK, capture, mixer, play
<1>17. CASE UNCHANGED avars
  BY <1>17 DEF avars, ATypeOK, capture, mixer, play
<1> QED BY <1>1, <1>2, <1>3, <1>4, <1>5, <1>6, <1>7, <1>8, <1>9, <1>10, <1>11, <1>12, <1>13,
           <1>14, <1>15, <1>16, <1>17 DEF ANext

\* The audio path is well-typed for any sizes of frames and blocks: frame_buf
\* never holds a whole frame, and every channel keeps to its bound.
THEOREM AudioTypeCorrect == ASpec => []ATypeOK
BY AudioInit, AudioStep, PTL DEF ASpec

\* With no change of the routing still to be handled, the mux encodes the
\* source that the routing and the closed channels leave it, and frame_buf
\* has parts of that one, or of one that was closed.
SwitchInv ==
  mux = "run" /\ seen =>
    /\ source = (IF alive[routing] THEN routing ELSE Other(routing))
    /\ \A i \in 1..Len(buf) : buf[i] = source \/ ~alive[buf[i]]

LEMMA SwitchInit == AInit => SwitchInv
<1> SUFFICES ASSUME AInit PROVE SwitchInv
  OBVIOUS
<1>1. alive[routing] /\ source = routing /\ buf = <<>>
  BY DEF AInit
<1>2. Len(<<>>) = 0
  OBVIOUS
<1> QED BY <1>1, <1>2 DEF SwitchInv

LEMMA SwitchStep ==
  ASSUME ATypeOK, SwitchInv, [ANext]_avars
  PROVE  SwitchInv'
<1> SUFFICES ASSUME mux' = "run", seen'
             PROVE  /\ source' = (IF alive'[routing'] THEN routing' ELSE Other(routing'))
                    /\ \A i \in 1..Len(buf') : buf'[i] = source' \/ ~alive'[buf'[i]]
  BY DEF SwitchInv
<1>1. CASE UNCHANGED mixer
  BY <1>1 DEF mixer, SwitchInv
<1>2. CASE \E s \in Source : Select(s)
  BY <1>2 DEF Select
<1>3. CASE \E s \in Source : MuxBlock(s)
  <2>1. PICK s \in Source : MuxBlock(s)
    BY <1>3
  <2>2. /\ mux = "run" /\ seen /\ alive' = alive /\ routing' = routing
        /\ source' = (IF alive[routing] THEN routing ELSE Other(routing))
    BY <2>1 DEF MuxBlock, Effective
  <2>3. source' = source /\ \A i \in 1..Len(buf) : buf[i] = source \/ ~alive[buf[i]]
    BY <2>2 DEF SwitchInv
  <2>4. CASE s = source
    <3>1. Head(queue[s]) \in 1..FrameSize
      BY <2>1, QueueShrinks DEF MuxBlock, ATypeOK
    <3>2. Encode(s, Head(queue[s]))
      BY <2>1, <2>4 DEF MuxBlock
    <3>3. \A i \in 1..Len(buf') : buf'[i] = s \/ \E j \in 1..Len(buf) : buf'[i] = buf[j]
      BY <3>1, <3>2, EncodeKeeps
    <3> QED BY <2>2, <2>3, <2>4, <3>3
  <2>5. CASE s # source
    <3>1. buf' = buf
      BY <2>1, <2>5 DEF MuxBlock
    <3> QED BY <2>2, <2>3, <3>1
  <2> QED BY <2>4, <2>5
<1>4. CASE \E s \in Source : MuxClosed(s)
  <2>1. PICK s \in Source : MuxClosed(s)
    BY <1>4
  <2>2. /\ mux = "run" /\ seen /\ routing' = routing /\ buf' = buf
        /\ alive' = [alive EXCEPT ![s] = FALSE]
        /\ source' = (IF alive'[routing] THEN routing ELSE Other(routing))
    BY <2>1 DEF MuxClosed, Effective
  <2>3. /\ source = (IF alive[routing] THEN routing ELSE Other(routing))
        /\ \A i \in 1..Len(buf) : buf[i] = source \/ ~alive[buf[i]]
    BY <2>2 DEF SwitchInv
  <2>4. alive \in [Source -> BOOLEAN] /\ routing \in Source /\ buf \in Seq(Source)
    BY DEF ATypeOK
  <2>5. source' = source \/ ~alive'[source]
    BY <2>2, <2>3, <2>4
  <2>6. \A t \in Source : ~alive[t] => ~alive'[t]
    BY <2>2, <2>4
  <2>7. \A i \in 1..Len(buf) : buf[i] \in Source
    BY <2>4, ElementOfSeq
  <2> QED BY <2>2, <2>3, <2>5, <2>6, <2>7
<1>5. CASE MuxSwitch
  <2>1. buf' = <<>> /\ alive' = alive /\ source' = (IF alive[routing'] THEN routing' ELSE Other(routing'))
    BY <1>5 DEF MuxSwitch, Effective
  <2>2. Len(<<>>) = 0
    OBVIOUS
  <2> QED BY <2>1, <2>2
<1>6. CASE MuxEnds
  BY <1>6 DEF MuxEnds
<1>7. UNCHANGED mixer \/ (\E s \in Source : Select(s) \/ MuxBlock(s) \/ MuxClosed(s)) \/ MuxSwitch \/ MuxEnds
  BY DEF ANext, avars, IqOpen, IqBlock, IqFails, IqCancelled, NbEnds, Demodulate, DemodClosed, DrmEnds,
         UsbRead, UsbCancelled, UsbEnds, UsbSent, BridgeRecv, BridgeSent, AlsaPlay, AlsaFails, Cancel,
         mixer
<1> QED BY <1>1, <1>2, <1>3, <1>4, <1>5, <1>6, <1>7

\* Once the mux has handled a switch, no frame mixes the two sources but
\* through the fallback from one that is closed, for any frames, blocks and
\* channels.
THEOREM SwitchesAreClean == ASpec => []SwitchIsClean
<1>1. ATypeOK /\ SwitchInv /\ [ANext]_avars => SwitchInv'
  BY SwitchStep
<1>2. ASSUME ATypeOK, SwitchInv PROVE SwitchIsClean
  <2>1. DOMAIN buf = 1..Len(buf)
    BY <1>2 DEF ATypeOK
  <2> QED BY <1>2, <2>1 DEF SwitchInv, SwitchIsClean
<1> QED BY <1>1, <1>2, SwitchInit, AudioTypeCorrect, PTL DEF ASpec


-----------------------------------------------------------------------------
(* The end of the audio path.                                              *)

Ended ==
  /\ iq = "done" /\ nb = "done" /\ demod = "done" /\ drm = "done" /\ usb = "done"
  /\ mux = "done" /\ bridge = "done" /\ alsa = "done"

\* After the token somebody has a step to take until all have ended: each
\* thread that waits in a channel waits for one that does not wait for it.
EndingMoves ==
  cancelled /\ ~Ended =>
    \/ iq # "done" \/ nb = "run" \/ drm = "run" \/ mux = "run" \/ usb = "read" \/ bridge = "recv"
    \/ demod = "run" /\ (clean > 0 \/ nb = "done")
    \/ usb = "send" /\ mux = "done"
    \/ bridge = "send" /\ (alsa = "done" \/ speaker < Capacity)
    \/ alsa = "run" /\ (speaker > 0 \/ bridge = "done")

\* A wait in a channel is for a task that is not waiting for it, whatever the
\* sizes: the bridge's for room in ALSA's (alsa_out.rs:85), the card's for room in
\* the mux's, the demodulator's for the blanker.
THEOREM EndingNotStuck == ASpec => []EndingMoves
<1>1. ATypeOK => EndingMoves
  BY QueueAssumption DEF ATypeOK, Ended, EndingMoves
<1> QED BY <1>1, AudioTypeCorrect, PTL

\* What the threads and tasks have left to do when the mux is gone: a block in
\* hand, or waiting, is worth the steps it takes to reach the end of the line.
IqLeft      == IF iq = "open" THEN 2 ELSE IF iq = "run" THEN 1 ELSE 0
UsbLeft     == IF usb = "read" THEN 2 ELSE IF usb = "send" THEN 1 ELSE 0
BridgeLeft  == IF bridge = "send" THEN 3 ELSE IF bridge = "recv" THEN 1 ELSE 0
Runs(state) == IF state = "run" THEN 1 ELSE 0
CaptureLeft == IqLeft + Runs(nb) + Runs(drm) + clean + Runs(demod)
PlayLeft    == 3 * chunks + BridgeLeft + speaker + Runs(alsa)
AudioLeft   == CaptureLeft + UsbLeft + PlayLeft

\* Once the token has fired and the mux, which sees it at its next select, has
\* ended, every step of whatever thread, and every failure, leaves less to do.
EndingShrinks ==
  [][cancelled /\ mux = "done" => cancelled' /\ mux' = "done" /\ AudioLeft' < AudioLeft]_avars

\* The parts of the measure are natural numbers.
LEMMA PartsNat ==
  /\ IqLeft \in 0..2 /\ UsbLeft \in 0..2 /\ BridgeLeft \in 0..3 /\ \A state : Runs(state) \in 0..1
  /\ IqLeft' \in 0..2 /\ UsbLeft' \in 0..2 /\ BridgeLeft' \in 0..3
BY DEF IqLeft, UsbLeft, BridgeLeft, Runs

LEMMA LeftNat ==
  ASSUME ATypeOK, ATypeOK'
  PROVE  /\ CaptureLeft \in Nat /\ UsbLeft \in Nat /\ PlayLeft \in Nat
         /\ CaptureLeft' \in Nat /\ UsbLeft' \in Nat /\ PlayLeft' \in Nat
<1>1. clean \in Nat /\ chunks \in Nat /\ speaker \in Nat
  BY QueueAssumption DEF ATypeOK
<1>2. clean' \in Nat /\ chunks' \in Nat /\ speaker' \in Nat
  BY QueueAssumption DEF ATypeOK
<1>3. /\ Runs(nb) \in Nat /\ Runs(drm) \in Nat /\ Runs(demod) \in Nat /\ Runs(alsa) \in Nat
      /\ Runs(nb') \in Nat /\ Runs(drm') \in Nat /\ Runs(demod') \in Nat /\ Runs(alsa') \in Nat
  BY PartsNat
<1>4. /\ IqLeft \in Nat /\ UsbLeft \in Nat /\ BridgeLeft \in Nat
      /\ IqLeft' \in Nat /\ UsbLeft' \in Nat /\ BridgeLeft' \in Nat
  BY PartsNat
<1> HIDE DEF IqLeft, UsbLeft, BridgeLeft, Runs
<1> QED BY <1>1, <1>2, <1>3, <1>4 DEF CaptureLeft, PlayLeft

\* A step of the capture's side, of the card's and of the loudspeaker's.
LEMMA CaptureShrinks ==
  ASSUME ATypeOK, cancelled, mux = "done",
         IqOpen \/ IqFails \/ IqCancelled \/ NbEnds \/ Demodulate \/ DemodClosed \/ DrmEnds
  PROVE  CaptureLeft' < CaptureLeft /\ UNCHANGED <<UsbLeft, PlayLeft, cancelled, mux>>
<1>1. clean \in Nat
  BY QueueAssumption DEF ATypeOK
<1>2. UNCHANGED <<UsbLeft, PlayLeft, cancelled, mux>>
  BY DEF IqOpen, IqFails, IqCancelled, NbEnds, Demodulate, DemodClosed, DrmEnds, UsbLeft, PlayLeft,
     BridgeLeft, mixer, play
<1> SUFFICES CaptureLeft' < CaptureLeft
  BY <1>2
<1>3. /\ Runs(nb) \in 0..1 /\ Runs(drm) \in 0..1 /\ Runs(demod) \in 0..1
      /\ IqLeft \in 0..2 /\ IqLeft' \in 0..2
  BY PartsNat
<1>4. Runs("run") = 1 /\ Runs("done") = 0
  BY DEF Runs
<1>5. CASE IqOpen \/ IqFails \/ IqCancelled
  <2>1. iq \in {"open", "run", "done"}
    BY DEF ATypeOK
  <2>2. iq # "done" /\ iq' \in (IF iq = "open" THEN {"run", "done"} ELSE {"done"})
    BY <1>5, <2>1 DEF IqOpen, IqFails, IqCancelled
  <2>3. IqLeft' < IqLeft
    BY <2>1, <2>2 DEF IqLeft
  <2>4. nb' = nb /\ drm' = drm /\ demod' = demod /\ clean' = clean
    BY <1>5 DEF IqOpen, IqFails, IqCancelled
  <2> QED BY <1>1, <1>3, <2>3, <2>4 DEF CaptureLeft
<1>6. CASE NbEnds
  <2>1. nb = "run" /\ nb' = "done" /\ UNCHANGED <<iq, drm, demod, clean>>
    BY <1>6 DEF NbEnds
  <2>2. IqLeft' = IqLeft
    BY <2>1 DEF IqLeft
  <2> QED BY <1>1, <1>3, <1>4, <2>1, <2>2 DEF CaptureLeft
<1>7. CASE DrmEnds
  <2>1. drm = "run" /\ drm' = "done" /\ UNCHANGED <<iq, nb, demod, clean>>
    BY <1>7 DEF DrmEnds
  <2>2. IqLeft' = IqLeft
    BY <2>1 DEF IqLeft
  <2> QED BY <1>1, <1>3, <1>4, <2>1, <2>2 DEF CaptureLeft
<1>8. CASE Demodulate \/ DemodClosed
  <2>1. demod = "run" /\ demod' = "done" /\ clean' = 0 /\ UNCHANGED <<iq, nb, drm>>
    BY <1>8 DEF Demodulate, DemodClosed
  <2>2. IqLeft' = IqLeft
    BY <2>1 DEF IqLeft
  <2> QED BY <1>1, <1>3, <1>4, <2>1, <2>2 DEF CaptureLeft
<1> QED BY <1>5, <1>6, <1>7, <1>8

LEMMA CardShrinks ==
  ASSUME mux = "done", UsbRead \/ UsbCancelled \/ UsbEnds \/ UsbSent
  PROVE  UsbLeft' < UsbLeft /\ UNCHANGED <<CaptureLeft, PlayLeft, cancelled, mux>>
BY DEF UsbRead, UsbCancelled, UsbEnds, UsbSent, UsbLeft, CaptureLeft, PlayLeft, IqLeft, BridgeLeft,
   capture, mixer, play

LEMMA PlayShrinks ==
  ASSUME ATypeOK, cancelled, BridgeRecv \/ BridgeSent \/ AlsaPlay \/ AlsaFails
  PROVE  PlayLeft' < PlayLeft /\ UNCHANGED <<CaptureLeft, UsbLeft, cancelled, mux>>
<1>1. chunks \in Nat /\ speaker \in Nat
  BY QueueAssumption DEF ATypeOK
<1>2. UNCHANGED <<CaptureLeft, UsbLeft, cancelled, mux>>
  BY DEF BridgeRecv, BridgeSent, AlsaPlay, AlsaFails, CaptureLeft, UsbLeft, IqLeft, capture, mixer
<1> SUFFICES PlayLeft' < PlayLeft
  BY <1>2
<1>3. BridgeLeft \in 0..3 /\ Runs(alsa) \in 0..1 /\ Runs("run") = 1 /\ Runs("done") = 0
  BY PartsNat DEF Runs
<1>4. CASE BridgeRecv
  <2>1. /\ bridge = "recv" /\ speaker' = speaker /\ alsa' = alsa
        /\ \/ bridge' = "send" /\ chunks > 0 /\ chunks' = chunks - 1
           \/ bridge' = "done" /\ chunks' = 0
    BY <1>4 DEF BridgeRecv
  <2>2. BridgeLeft = 1 /\ BridgeLeft' = (IF bridge' = "send" THEN 3 ELSE 0)
    BY <2>1 DEF BridgeLeft
  <2> QED BY <1>1, <1>3, <2>1, <2>2 DEF PlayLeft
<1>5. CASE BridgeSent
  <2>1. /\ bridge = "send" /\ alsa' = alsa
        /\ \/ bridge' = "recv" /\ chunks' = chunks /\ speaker' = speaker + 1
           \/ bridge' = "done" /\ chunks' = 0 /\ speaker' = speaker
    BY <1>5 DEF BridgeSent
  <2>2. BridgeLeft = 3 /\ BridgeLeft' = (IF bridge' = "recv" THEN 1 ELSE 0)
    BY <2>1 DEF BridgeLeft
  <2> QED BY <1>1, <1>3, <2>1, <2>2 DEF PlayLeft
<1>6. CASE AlsaPlay \/ AlsaFails
  <2>1. alsa = "run" /\ alsa' = "done" /\ speaker' \in {0, speaker} /\ UNCHANGED <<bridge, chunks>>
    BY <1>6 DEF AlsaPlay, AlsaFails, AtTop
  <2>2. BridgeLeft' = BridgeLeft
    BY <2>1 DEF BridgeLeft
  <2> QED BY <1>1, <1>3, <2>1, <2>2 DEF PlayLeft
<1> QED BY <1>4, <1>5, <1>6

\* With EndingMoves: after the token and the end of the mux, the audio path has
\* AudioLeft steps at most, and has ended after the last.
THEOREM EndingIsFinite == ASpec => EndingShrinks
<1>1. ATypeOK /\ [ANext]_avars =>
        [cancelled /\ mux = "done" => cancelled' /\ mux' = "done" /\ AudioLeft' < AudioLeft]_avars
  <2> SUFFICES ASSUME ATypeOK, ANext, cancelled, mux = "done"
               PROVE  cancelled' /\ mux' = "done" /\ AudioLeft' < AudioLeft
    OBVIOUS
  <2>1. ATypeOK'
    BY AudioStep
  <2>2. /\ CaptureLeft \in Nat /\ UsbLeft \in Nat /\ PlayLeft \in Nat
        /\ CaptureLeft' \in Nat /\ UsbLeft' \in Nat /\ PlayLeft' \in Nat
    BY <2>1, LeftNat
  <2>3. \/ IqOpen \/ IqFails \/ IqCancelled \/ NbEnds \/ Demodulate \/ DemodClosed \/ DrmEnds
        \/ UsbRead \/ UsbCancelled \/ UsbEnds \/ UsbSent
        \/ BridgeRecv \/ BridgeSent \/ AlsaPlay \/ AlsaFails
    <3>1. ~IqBlock /\ ~Cancel /\ ~MuxSwitch /\ ~MuxEnds
      BY DEF IqBlock, Cancel, MuxSwitch, MuxEnds
    <3>2. ~\E s \in Source : Select(s) \/ MuxBlock(s) \/ MuxClosed(s)
      BY DEF Select, MuxBlock, MuxClosed
    <3> QED BY <3>1, <3>2 DEF ANext
  <2>4. \/ CaptureLeft' < CaptureLeft /\ UNCHANGED <<UsbLeft, PlayLeft, cancelled, mux>>
        \/ UsbLeft' < UsbLeft /\ UNCHANGED <<CaptureLeft, PlayLeft, cancelled, mux>>
        \/ PlayLeft' < PlayLeft /\ UNCHANGED <<CaptureLeft, UsbLeft, cancelled, mux>>
    BY <2>3, CaptureShrinks, CardShrinks, PlayShrinks
  <2>5. cancelled' /\ mux' = "done"
    BY <2>4
  <2>6. \/ CaptureLeft' < CaptureLeft /\ UsbLeft' = UsbLeft /\ PlayLeft' = PlayLeft
        \/ UsbLeft' < UsbLeft /\ CaptureLeft' = CaptureLeft /\ PlayLeft' = PlayLeft
        \/ PlayLeft' < PlayLeft /\ CaptureLeft' = CaptureLeft /\ UsbLeft' = UsbLeft
    BY <2>4
  <2>7. AudioLeft' < AudioLeft
    <3>1. PICK c \in Nat, u \in Nat, p \in Nat : c = CaptureLeft /\ u = UsbLeft /\ p = PlayLeft
      BY <2>2
    <3>2. PICK c1 \in Nat, u1 \in Nat, p1 \in Nat : c1 = CaptureLeft' /\ u1 = UsbLeft' /\ p1 = PlayLeft'
      BY <2>2
    <3>3. AudioLeft = c + u + p /\ AudioLeft' = c1 + u1 + p1
      BY <3>1, <3>2 DEF AudioLeft
    <3>4. \/ c1 < c /\ u1 = u /\ p1 = p
          \/ u1 < u /\ c1 = c /\ p1 = p
          \/ p1 < p /\ c1 = c /\ u1 = u
      BY <2>6, <3>1, <3>2
    <3> QED BY <3>3, <3>4
  <2> QED BY <2>5, <2>7
<1> QED BY <1>1, AudioTypeCorrect, PTL DEF ASpec, EndingShrinks
=============================================================================
