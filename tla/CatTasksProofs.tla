--------------------------- MODULE CatTasksProofs ---------------------------
(***************************************************************************)
(* Proofs about CatTasks, for every vocabulary of commands and every       *)
(* bound: its state is well-typed, coalescing never loses the last command *)
(* for a register that one prefix owns, the state published after a batch  *)
(* shows the batch, the command task never publishes an older state, what  *)
(* is published was the radio's at the IF; of its poll, and the port is    *)
(* never leaked.                                                           *)
(***************************************************************************)
EXTENDS CatTasks, TLAPS

\* Commands are records with the fields the module names.
LEMMA CommandFields == \A c \in Command : c.prefix \in Prefix /\ c.reg \in Register /\ c.val \in Value
BY CommandAssumption

\* Coalescing yields a sequence of commands.
LEMMA CoalesceType ==
  ASSUME NEW b \in Seq(Command), NEW c \in Command
  PROVE  Coalesce(b, c) \in Seq(Command)
BY DEF Coalesce

\* No two entries of a batch share a prefix.
OnePerPrefix(b) == \A i, j \in DOMAIN b : b[i].prefix = b[j].prefix => i = j

\* What coalescing does to a batch: the new command is in it, an entry with
\* another prefix keeps its place, and nothing else is in it.
LEMMA CoalesceEntries ==
  ASSUME NEW b \in Seq(Command), NEW c \in Command, OnePerPrefix(b)
  PROVE  /\ OnePerPrefix(Coalesce(b, c))
         /\ \E j \in DOMAIN Coalesce(b, c) : Coalesce(b, c)[j] = c
         /\ \A j \in DOMAIN b : b[j].prefix # c.prefix =>
              j \in DOMAIN Coalesce(b, c) /\ Coalesce(b, c)[j] = b[j]
         /\ \A j \in DOMAIN Coalesce(b, c) :
              \/ Coalesce(b, c)[j] = c
              \/ j \in DOMAIN b /\ b[j].prefix # c.prefix /\ Coalesce(b, c)[j] = b[j]
<1>1. CASE \E i \in DOMAIN b : b[i].prefix = c.prefix
  <2> DEFINE k == CHOOSE i \in DOMAIN b : b[i].prefix = c.prefix
  <2>1. k \in DOMAIN b /\ b[k].prefix = c.prefix
    BY <1>1
  <2>2. Coalesce(b, c) = [b EXCEPT ![k] = c]
    BY <1>1 DEF Coalesce
  <2> HIDE DEF k
  <2>3. /\ DOMAIN Coalesce(b, c) = DOMAIN b
        /\ Coalesce(b, c)[k] = c
        /\ \A j \in DOMAIN b : j # k => Coalesce(b, c)[j] = b[j]
    BY <2>1, <2>2
  <2>4. \A j \in DOMAIN b : j # k => b[j].prefix # c.prefix
    BY <2>1 DEF OnePerPrefix
  <2>5. OnePerPrefix(Coalesce(b, c))
    BY <2>1, <2>3, <2>4 DEF OnePerPrefix
  <2> QED BY <2>1, <2>3, <2>4, <2>5
<1>2. CASE ~ \E i \in DOMAIN b : b[i].prefix = c.prefix
  <2>1. Coalesce(b, c) = Append(b, c)
    BY <1>2 DEF Coalesce
  <2>2. /\ DOMAIN Coalesce(b, c) = DOMAIN b \cup {Len(b) + 1}
        /\ Coalesce(b, c)[Len(b) + 1] = c
        /\ \A j \in DOMAIN b : Coalesce(b, c)[j] = b[j] /\ j # Len(b) + 1
    BY <2>1
  <2>3. OnePerPrefix(Coalesce(b, c))
    BY <1>2, <2>2 DEF OnePerPrefix
  <2> QED BY <1>2, <2>2, <2>3
<1> QED BY <1>1, <1>2

-----------------------------------------------------------------------------
\* The initial state is well-typed.
LEMMA TypeInit == Init => TypeOK
<1> SUFFICES ASSUME Init PROVE TypeOK
  OBVIOUS
<1>1. radio \in RadioState
  BY ValueAssumption DEF Init, RadioState
<1>2. seen \in [Task -> RadioState] /\ published \in RadioState /\ asked \in RadioState
  BY <1>1 DEF Init
<1>3. disturbed \in [Register -> BOOLEAN] /\ seenAt \in [Task -> Nat]
  BY DEF Init
<1>4. queue \in Seq(Command) /\ batch \in Seq(Command)
  BY DEF Init
<1>5. sends \in 0..MaxSends /\ turns \in 0..MaxTurns
  BY BoundAssumption DEF Init
<1> QED BY <1>1, <1>2, <1>3, <1>4, <1>5 DEF Init, TypeOK

\* No step of either task, of a client, of the operator or of shutdown
\* leaves the types.
LEMMA TypeStep == TypeOK /\ [Next]_vars => TypeOK'
<1> SUFFICES ASSUME TypeOK, [Next]_vars PROVE TypeOK'
  OBVIOUS
<1> USE DEF TypeOK, RadioState, Task
<1>1. CASE Poll
  <2>1. CASE PollAbsent BY <2>1 DEF PollAbsent, chan, ghosts
  <2>2. CASE PollTop BY <2>2 DEF PollTop, chan, ghosts
  <2>3. CASE PollLock BY <2>3 DEF PollLock, chan, ghosts
  <2>4. CASE PollIf BY <2>4, ValueAssumption DEF PollIf, ReadIf, chan
  <2>5. CASE PollFails BY <2>5 DEF PollFails, chan, ghosts
  <2>6. CASE PollRest BY <2>6 DEF PollRest, ReadRest, chan, ghosts
  <2>7. CASE PollSend BY <2>7 DEF PollSend, chan
  <2> QED BY <1>1, <2>1, <2>2, <2>3, <2>4, <2>5, <2>6, <2>7 DEF Poll
<1>2. CASE Cmd
  <2>1. CASE CmdAbsent BY <2>1 DEF CmdAbsent, chan, ghosts
  <2>2. CASE CmdTop BY <2>2 DEF CmdTop, chan, ghosts
  <2>3. CASE CmdRecv BY <2>3 DEF CmdRecv, ghosts
  <2>4. CASE CmdClosed BY <2>4 DEF CmdClosed, chan, ghosts
  <2>5. CASE CmdDrain
    <3>1. Head(queue) \in Command /\ Tail(queue) \in Seq(Command)
      BY <2>5 DEF CmdDrain
    <3>2. batch' \in Seq(Command)
      BY <2>5, <3>1, CoalesceType DEF CmdDrain
    <3> QED BY <2>5, <3>1, <3>2 DEF CmdDrain, ghosts
  <2>6. CASE CmdDrained BY <2>6 DEF CmdDrained, chan, ghosts
  <2>7. CASE CmdLock BY <2>7 DEF CmdLock, chan, ghosts
  <2>8. CASE CmdRun BY <2>8, CommandFields DEF CmdRun, chan
  <2>9. CASE CmdRunLost BY <2>9, CommandFields DEF CmdRunLost, chan
  <2>10. CASE CmdBatchDone BY <2>10 DEF CmdBatchDone, chan, ghosts
  <2>11. CASE CmdIf BY <2>11, ValueAssumption DEF CmdIf, ReadIf, chan
  <2>12. CASE CmdIfFails BY <2>12 DEF CmdIfFails, chan, ghosts
  <2>13. CASE CmdRest BY <2>13 DEF CmdRest, ReadRest, chan, ghosts
  <2>14. CASE CmdCancelled BY <2>14 DEF CmdCancelled, chan, ghosts
  <2>15. CASE CmdSend BY <2>15 DEF CmdSend, chan
  <2> QED BY <1>2, <2>1, <2>2, <2>3, <2>4, <2>5, <2>6, <2>7, <2>8, <2>9, <2>10,
             <2>11, <2>12, <2>13, <2>14, <2>15 DEF Cmd
<1>3. CASE Environment
  <2>1. ASSUME NEW c \in Command, Send(c) PROVE TypeOK'
    BY <2>1, CommandFields, BoundAssumption DEF Send, code
  <2>2. ASSUME NEW r \in Register, NEW v \in Value, Turn(r, v) PROVE TypeOK'
    BY <2>2, BoundAssumption DEF Turn, chan, code
  <2>3. CASE Cancel BY <2>3 DEF Cancel, chan, code, ghosts
  <2>4. CASE DropSenders BY <2>4 DEF DropSenders, code, ghosts
  <2> QED BY <1>3, <2>1, <2>2, <2>3, <2>4 DEF Environment
<1>4. CASE UNCHANGED vars BY <1>4 DEF vars
<1> QED BY <1>1, <1>2, <1>3, <1>4 DEF Next

\* Type correctness of CatTasks.
THEOREM TypeCorrect == Spec => []TypeOK
BY TypeInit, TypeStep, PTL DEF Spec

-----------------------------------------------------------------------------
(* The last word.  Of the commands for a register that one prefix owns,    *)
(* the last in the channel carries the value last asked for; if none is    *)
(* there, so does the one in the batch, which holds at most one; if none   *)
(* is there either, so does the radio.                                     *)

LastInQueue(r) ==
  \A i \in DOMAIN queue :
    queue[i].reg = r /\ (\A j \in DOMAIN queue : j > i => queue[j].reg # r)
      => queue[i].val = asked[r]

InBatch(r) == ~Targets(queue, r) => \A i \in DOMAIN batch : batch[i].reg = r => batch[i].val = asked[r]

InRadio(r) == Settled(r) /\ ~disturbed[r] => radio[r] = asked[r]

LastWord == \A r \in Register : Exclusive(r) => LastInQueue(r) /\ InBatch(r) /\ InRadio(r)

\* last_by_prefix exists only from the first command received to the last
\* one run.
BatchShape == OnePerPrefix(batch) /\ (cpc \notin {"drain", "lock", "run"} => batch = <<>>)

LastWordInv == TypeOK /\ BatchShape /\ LastWord

\* A step that leaves channel, batch, radio and what was asked alone keeps
\* the last word.
LEMMA LastWordStutter ==
  ASSUME LastWordInv,
         queue' = queue, batch' = batch, radio' = radio, asked' = asked,
         \A r \in Register : ~disturbed'[r] => ~disturbed[r]
  PROVE  LastWord'
BY DEF LastWordInv, LastWord, LastInQueue, InBatch, InRadio, Settled, Targets, Exclusive

\* A command sent becomes the last of its register in the channel.
LEMMA LastWordSend ==
  ASSUME LastWordInv, NEW c \in Command, Send(c)
  PROVE  LastWord'
<1> USE DEF LastWordInv, TypeOK, Send, code
<1> c \in Command /\ c.reg \in Register
  BY CommandFields
<1>1. /\ DOMAIN queue' = DOMAIN queue \cup {Len(queue) + 1}
      /\ queue'[Len(queue) + 1] = c
      /\ \A i \in DOMAIN queue : queue'[i] = queue[i] /\ i < Len(queue) + 1
  OBVIOUS
<1>2. asked' = [asked EXCEPT ![c.reg] = c.val]
  OBVIOUS
<1> SUFFICES ASSUME NEW r \in Register, Exclusive(r) PROVE (LastInQueue(r) /\ InBatch(r) /\ InRadio(r))'
  BY DEF LastWord, Exclusive
<1>3. LastInQueue(r) /\ InBatch(r) /\ InRadio(r)
  BY DEF LastWord
<1>4. CASE c.reg = r
  BY <1>1, <1>2, <1>4 DEF LastInQueue, InBatch, InRadio, Settled, Targets, RadioState
<1>5. CASE c.reg # r
  <2>1. asked'[r] = asked[r]
    BY <1>2, <1>5 DEF RadioState
  <2>2. Targets(queue, r)' = Targets(queue, r)
    BY <1>1, <1>5 DEF Targets
  <2>3. LastInQueue(r)'
    BY <1>1, <1>3, <1>5, <2>1 DEF LastInQueue
  <2> QED BY <1>3, <2>1, <2>2, <2>3 DEF InBatch, InRadio, Settled, Targets
<1> QED BY <1>4, <1>5

\* The head of a sequence and its tail, entry by entry.
LEMMA TailEntries ==
  ASSUME NEW s \in Seq(Command), s # <<>>
  PROVE  /\ Head(s) = s[1] /\ Head(s) \in Command /\ Tail(s) \in Seq(Command)
         /\ 1 \in DOMAIN s
         /\ \A i \in DOMAIN Tail(s) : i \in Nat /\ i >= 1 /\ i + 1 \in DOMAIN s /\ Tail(s)[i] = s[i + 1]
         /\ \A i \in DOMAIN s : i # 1 => i - 1 \in DOMAIN Tail(s) /\ s[i] = Tail(s)[i - 1]
OBVIOUS

\* Taking the head of the channel leaves the last word of the rest.
LEMMA LastInTail ==
  ASSUME TypeOK, queue # <<>>, queue' = Tail(queue), asked' = asked,
         NEW r \in Register, LastInQueue(r)
  PROVE  /\ LastInQueue(r)'
         /\ Targets(queue, r)' => Targets(queue, r)
         /\ ~Targets(queue, r)' /\ Targets(queue, r) => Head(queue).reg = r
         /\ ~Targets(queue, r)' /\ Head(queue).reg = r => Head(queue).val = asked[r]
<1> USE DEF TypeOK
<1>1. /\ Head(queue) = queue[1] /\ 1 \in DOMAIN queue
      /\ \A i \in DOMAIN queue' : i \in Nat /\ i >= 1 /\ i + 1 \in DOMAIN queue /\ queue'[i] = queue[i + 1]
      /\ \A i \in DOMAIN queue : i # 1 => i - 1 \in DOMAIN queue' /\ queue[i] = queue'[i - 1]
  BY TailEntries
<1>2. \A i \in DOMAIN queue : i \in Nat
  OBVIOUS
<1>3. LastInQueue(r)'
  <2> SUFFICES ASSUME NEW i \in DOMAIN queue', queue'[i].reg = r,
                      \A j \in DOMAIN queue' : j > i => queue'[j].reg # r
               PROVE  queue'[i].val = asked[r]
    BY DEF LastInQueue
  <2>1. ASSUME NEW j \in DOMAIN queue, j > i + 1 PROVE queue[j].reg # r
    <3>1. j \in Nat /\ i \in Nat /\ i >= 1 /\ j # 1 /\ j - 1 > i
      BY <1>1, <1>2, <2>1
    <3>2. j - 1 \in DOMAIN queue' /\ queue[j] = queue'[j - 1]
      BY <1>1, <3>1
    <3> QED BY <3>1, <3>2
  <2> QED BY <1>1, <2>1 DEF LastInQueue
<1>4. Targets(queue, r)' => Targets(queue, r)
  BY <1>1 DEF Targets
<1>5. ~Targets(queue, r)' /\ Targets(queue, r) => Head(queue).reg = r
  BY <1>1 DEF Targets
<1>6. ~Targets(queue, r)' /\ Head(queue).reg = r => Head(queue).val = asked[r]
  <2> SUFFICES ASSUME ~Targets(queue, r)', Head(queue).reg = r PROVE Head(queue).val = asked[r]
    OBVIOUS
  <2>1. ASSUME NEW j \in DOMAIN queue, j > 1 PROVE queue[j].reg # r
    <3>1. j # 1
      BY <1>2, <2>1
    <3>2. j - 1 \in DOMAIN queue' /\ queue[j] = queue'[j - 1]
      BY <1>1, <3>1
    <3> QED BY <3>2 DEF Targets
  <2> QED BY <1>1, <2>1 DEF LastInQueue
<1> QED BY <1>3, <1>4, <1>5, <1>6

\* Receiving the first command: it is the whole batch.
LEMMA LastWordRecv ==
  ASSUME LastWordInv, CmdRecv
  PROVE  BatchShape' /\ LastWord'
<1> USE DEF LastWordInv, CmdRecv, ghosts
<1>1. /\ queue # <<>> /\ queue' = Tail(queue) /\ asked' = asked /\ batch = <<>>
      /\ radio' = radio /\ disturbed' = disturbed /\ cpc' = "drain"
      /\ batch' = <<Head(queue)>>
  BY DEF BatchShape
<1>2. /\ DOMAIN batch' = {1} /\ batch'[1] = Head(queue)
  BY <1>1
<1>3. BatchShape'
  BY <1>1, <1>2 DEF BatchShape, OnePerPrefix
<1>4. ASSUME NEW r \in Register, Exclusive(r) PROVE (LastInQueue(r) /\ InBatch(r) /\ InRadio(r))'
  <2>1. LastInQueue(r) /\ InBatch(r) /\ InRadio(r)
    BY <1>4 DEF LastWord
  <2>2. /\ LastInQueue(r)'
        /\ ~Targets(queue, r)' /\ Targets(queue, r) => Head(queue).reg = r
        /\ ~Targets(queue, r)' /\ Head(queue).reg = r => Head(queue).val = asked[r]
    BY <1>1, <2>1, LastInTail
  <2>3. InBatch(r)'
    BY <1>1, <1>2, <2>2 DEF InBatch
  <2>4. InRadio(r)'
    BY <1>1, <1>2, <2>1, <2>2 DEF InRadio, Settled, Targets
  <2> QED BY <2>2, <2>3, <2>4
<1> QED BY <1>3, <1>4 DEF LastWord, Exclusive

\* Draining one more command: for a register its prefix owns, it replaces
\* the batch's entry for that register and no other.
LEMMA LastWordDrain ==
  ASSUME LastWordInv, CmdDrain
  PROVE  BatchShape' /\ LastWord'
<1> DEFINE c == Head(queue)
<1>1. /\ queue # <<>> /\ queue' = Tail(queue) /\ asked' = asked
      /\ radio' = radio /\ disturbed' = disturbed /\ cpc' = "drain"
      /\ batch' = Coalesce(batch, c)
  BY DEF CmdDrain, ghosts
<1>2. c \in Command /\ batch \in Seq(Command) /\ \A i \in DOMAIN batch : batch[i] \in Command
  BY <1>1 DEF LastWordInv, TypeOK
<1>3. /\ OnePerPrefix(batch')
      /\ \E j \in DOMAIN batch' : batch'[j] = c
      /\ \A j \in DOMAIN batch : batch[j].prefix # c.prefix => j \in DOMAIN batch' /\ batch'[j] = batch[j]
      /\ \A j \in DOMAIN batch' :
           \/ batch'[j] = c
           \/ j \in DOMAIN batch /\ batch[j].prefix # c.prefix /\ batch'[j] = batch[j]
  BY <1>1, <1>2, CoalesceEntries DEF LastWordInv, BatchShape
<1>4. BatchShape'
  BY <1>1, <1>3 DEF BatchShape
<1>5. ASSUME NEW r \in Register, Exclusive(r) PROVE (LastInQueue(r) /\ InBatch(r) /\ InRadio(r))'
  <2>1. LastInQueue(r) /\ InBatch(r) /\ InRadio(r)
    BY <1>5 DEF LastWordInv, LastWord
  <2>2. /\ LastInQueue(r)'
        /\ ~Targets(queue, r)' /\ Targets(queue, r) => c.reg = r
        /\ ~Targets(queue, r)' /\ c.reg = r => c.val = asked[r]
    BY <1>1, <2>1, LastInTail DEF LastWordInv
  <2> HIDE DEF c
  <2>3. \A d \in Command : d.reg = r => (d.prefix = c.prefix <=> c.reg = r)
    BY <1>2, <1>5 DEF Exclusive
  <2>4. InBatch(r)'
    <3> SUFFICES ASSUME ~Targets(queue, r)', NEW j \in DOMAIN batch', batch'[j].reg = r
                 PROVE  batch'[j].val = asked[r]
      BY <1>1 DEF InBatch
    <3>1. CASE batch'[j] = c
      BY <2>2, <3>1
    <3>2. CASE j \in DOMAIN batch /\ batch[j].prefix # c.prefix /\ batch'[j] = batch[j]
      <4>1. c.reg # r
        BY <1>2, <2>3, <3>2
      <4>2. ~Targets(queue, r)
        BY <2>2, <4>1
      <4> QED BY <2>1, <3>2, <4>2 DEF InBatch
    <3> QED BY <1>3, <3>1, <3>2
  <2>5. InRadio(r)'
    <3> SUFFICES ASSUME ~Targets(queue, r)', ~Targets(batch', r) PROVE Settled(r)
      BY <1>1, <2>1 DEF InRadio, Settled, Targets
    <3>1. c.reg # r
      BY <1>3 DEF Targets
    <3>2. ~Targets(queue, r)
      BY <2>2, <3>1
    <3>3. ASSUME NEW j \in DOMAIN batch PROVE batch[j].reg # r
      BY <1>2, <1>3, <2>3, <3>1 DEF Targets
    <3> QED BY <3>2, <3>3 DEF Settled, Targets
  <2> QED BY <2>2, <2>4, <2>5
<1> QED BY <1>4, <1>5 DEF LastWord, Exclusive

\* Running, or losing, the first command of the batch.
LEMMA LastWordRun ==
  ASSUME LastWordInv, CmdRun \/ CmdRunLost
  PROVE  BatchShape' /\ LastWord'
<1> DEFINE c == Head(batch)
<1>1. /\ queue' = queue /\ asked' = asked /\ cpc = "run" /\ cpc' = "run"
      /\ batch # <<>> /\ batch' = Tail(batch)
      /\ \/ radio' = [radio EXCEPT ![c.reg] = c.val] /\ disturbed' = [disturbed EXCEPT ![c.reg] = FALSE]
         \/ radio' = radio /\ disturbed' = [disturbed EXCEPT ![c.reg] = TRUE]
  BY DEF CmdRun, CmdRunLost, chan
<1>2. /\ c = batch[1] /\ 1 \in DOMAIN batch /\ c \in Command /\ c.reg \in Register
      /\ \A i \in DOMAIN batch' : i + 1 \in DOMAIN batch /\ batch'[i] = batch[i + 1] /\ i \in Nat
      /\ \A i \in DOMAIN batch : i # 1 => i - 1 \in DOMAIN batch' /\ batch[i] = batch'[i - 1]
  BY <1>1, TailEntries, CommandFields DEF LastWordInv, TypeOK
<1> HIDE DEF c
<1>3. BatchShape'
  <2> SUFFICES ASSUME NEW i \in DOMAIN batch', NEW j \in DOMAIN batch',
                      batch'[i].prefix = batch'[j].prefix
               PROVE  i = j
    BY <1>1 DEF BatchShape, OnePerPrefix
  <2>1. i + 1 = j + 1
    BY <1>2 DEF LastWordInv, BatchShape, OnePerPrefix
  <2> QED BY <1>2, <2>1
<1>4. ASSUME NEW r \in Register, Exclusive(r) PROVE (LastInQueue(r) /\ InBatch(r) /\ InRadio(r))'
  <2>1. LastInQueue(r) /\ InBatch(r) /\ InRadio(r)
    BY <1>4 DEF LastWordInv, LastWord
  <2>2. LastInQueue(r)'
    BY <1>1, <2>1 DEF LastInQueue
  <2>3. InBatch(r)'
    BY <1>1, <1>2, <2>1 DEF InBatch, Targets
  <2>4. InRadio(r)'
    <3>1. CASE c.reg = r
      BY <1>1, <1>2, <2>1, <3>1 DEF InRadio, InBatch, Settled, Targets, LastWordInv, TypeOK, RadioState
    <3>2. CASE c.reg # r
      <4>1. radio'[r] = radio[r] /\ disturbed'[r] = disturbed[r]
        BY <1>1, <1>2, <3>2 DEF LastWordInv, TypeOK, RadioState
      <4>2. Targets(batch, r) => Targets(batch', r)
        BY <1>2, <3>2 DEF Targets
      <4> QED BY <1>1, <2>1, <4>1, <4>2 DEF InRadio, Settled, Targets
    <3> QED BY <3>1, <3>2
  <2> QED BY <2>2, <2>3, <2>4
<1> QED BY <1>3, <1>4 DEF LastWord, Exclusive

\* A front-panel change disturbs the register it sets.
LEMMA LastWordTurn ==
  ASSUME LastWordInv, NEW r \in Register, NEW v \in Value, Turn(r, v)
  PROVE  LastWord'
<1>1. /\ queue' = queue /\ batch' = batch /\ asked' = asked
      /\ radio' = [radio EXCEPT ![r] = v] /\ disturbed' = [disturbed EXCEPT ![r] = TRUE]
  BY DEF Turn, chan, code
<1>2. ASSUME NEW q \in Register, ~disturbed'[q] PROVE ~disturbed[q] /\ radio'[q] = radio[q]
  BY <1>1, <1>2 DEF LastWordInv, TypeOK, RadioState
<1> QED BY <1>1, <1>2 DEF LastWordInv, LastWord, LastInQueue, InBatch, InRadio, Settled, Targets, Exclusive

\* The inductive invariant holds at the start.
LEMMA LastWordInit == Init => LastWordInv
<1> SUFFICES ASSUME Init PROVE BatchShape /\ LastWord
  BY TypeInit DEF LastWordInv
<1> DOMAIN queue = {} /\ DOMAIN batch = {} /\ batch = <<>>
  BY DEF Init
<1> QED BY DEF Init, BatchShape, OnePerPrefix, LastWord, LastInQueue, InBatch, InRadio, Settled, Targets

\* The inductive invariant is kept by every step.
LEMMA LastWordStep == LastWordInv /\ [Next]_vars => LastWordInv'
<1> SUFFICES ASSUME LastWordInv, [Next]_vars PROVE BatchShape' /\ LastWord'
  BY TypeStep DEF LastWordInv
<1> DEFINE Quiet == /\ queue' = queue /\ batch' = batch /\ radio' = radio /\ asked' = asked
                    /\ disturbed' = disturbed
<1>1. ASSUME Quiet, cpc' = cpc \/ cpc' \in {"lock"} \/ batch = <<>> PROVE BatchShape' /\ LastWord'
  BY <1>1, LastWordStutter DEF LastWordInv, BatchShape
<1>2. CASE Poll
  BY <1>1, <1>2 DEF Poll, PollAbsent, PollTop, PollLock, PollIf, PollFails, PollRest, PollSend, chan, ghosts
<1>3. CASE Cmd
  <2>1. CASE CmdRecv BY <2>1, LastWordRecv
  <2>2. CASE CmdDrain BY <2>2, LastWordDrain
  <2>3. CASE CmdRun \/ CmdRunLost BY <2>3, LastWordRun
  <2>4. CASE CmdLock
    BY <2>4, LastWordStutter DEF CmdLock, chan, ghosts, LastWordInv, BatchShape
  <2>5. CASE CmdDrained BY <1>1, <2>5 DEF CmdDrained, chan, ghosts
  <2>6. CASE CmdBatchDone BY <1>1, <2>6 DEF CmdBatchDone, chan, ghosts
  <2>7. CASE CmdAbsent \/ CmdTop \/ CmdClosed \/ CmdIf \/ CmdIfFails \/ CmdRest \/ CmdCancelled \/ CmdSend
    <3>1. batch = <<>>
      BY <2>7 DEF LastWordInv, BatchShape, CmdAbsent, CmdTop, CmdClosed, CmdIf, CmdIfFails, CmdRest,
                  CmdCancelled, CmdSend
    <3> QED BY <1>1, <2>7, <3>1 DEF CmdAbsent, CmdTop, CmdClosed, CmdIf, CmdIfFails, CmdRest,
                  CmdCancelled, CmdSend, chan, ghosts
  <2> QED BY <1>3, <2>1, <2>2, <2>3, <2>4, <2>5, <2>6, <2>7 DEF Cmd
<1>4. CASE Environment
  <2>1. ASSUME NEW c \in Command, Send(c) PROVE BatchShape' /\ LastWord'
    BY <2>1, LastWordSend DEF Send, code, LastWordInv, BatchShape
  <2>2. ASSUME NEW r \in Register, NEW v \in Value, Turn(r, v) PROVE BatchShape' /\ LastWord'
    BY <2>2, LastWordTurn DEF Turn, code, LastWordInv, BatchShape
  <2>3. CASE Cancel \/ DropSenders
    BY <1>1, <2>3 DEF Cancel, DropSenders, chan, code, ghosts
  <2> QED BY <1>4, <2>1, <2>2, <2>3 DEF Environment
<1>5. CASE UNCHANGED vars
  BY <1>1, <1>5 DEF vars
<1> QED BY <1>2, <1>3, <1>4, <1>5 DEF Next

\* Coalescing never loses the last word: once no command for a register that
\* one prefix owns waits, the radio holds the value last asked for it, unless
\* the panel or a lost command came in between.
THEOREM LastCommandKept == Spec => []LastCommandWins
<1>1. LastWordInv => LastCommandWins
  BY DEF LastWordInv, LastWord, InRadio, LastCommandWins
<1> QED BY LastWordInit, LastWordStep, <1>1, PTL DEF Spec
-----------------------------------------------------------------------------
(* The state published after a batch.                                      *)

\* From its IF; to its send the command task has seen the radio as it is, in
\* the registers the panel did not touch: nobody else writes the radio.
FreshEcho == cpc \in {"rest", "send"} => \A r \in Core : ~disturbed[r] => seen["cmd"][r] = radio[r]

EchoInv == LastWordInv /\ FreshEcho

\* Every step keeps what the command task has seen fresh.
LEMMA FreshEchoStep == TypeOK /\ FreshEcho /\ [Next]_vars => FreshEcho'
<1> SUFFICES ASSUME TypeOK, FreshEcho, [Next]_vars, cpc' \in {"rest", "send"},
                    NEW r \in Core, ~disturbed'[r]
             PROVE  seen'["cmd"][r] = radio'[r]
  BY DEF FreshEcho
<1> USE CoreAssumption DEF TypeOK, RadioState, Task
<1>1. CASE CmdIf
  BY <1>1 DEF CmdIf, ReadIf
<1>2. CASE CmdRest
  <2>1. seen'["cmd"][r] = seen["cmd"][r]
    BY <1>2 DEF CmdRest, ReadRest
  <2> QED BY <1>2, <2>1 DEF CmdRest, FreshEcho, ghosts
<1>3. CASE PollIf
  <2>1. seen'["cmd"] = seen["cmd"]
    BY <1>3 DEF PollIf, ReadIf
  <2> QED BY <1>3, <2>1 DEF PollIf, FreshEcho
<1>4. CASE PollRest
  <2>1. seen'["cmd"] = seen["cmd"]
    BY <1>4 DEF PollRest, ReadRest
  <2> QED BY <1>4, <2>1 DEF PollRest, FreshEcho, ghosts
<1>5. ASSUME NEW q \in Register, NEW v \in Value, Turn(q, v) PROVE seen'["cmd"][r] = radio'[r]
  <2>1. q # r /\ ~disturbed[r] /\ radio'[r] = radio[r]
    BY <1>5 DEF Turn
  <2> QED BY <1>5, <2>1 DEF Turn, code, FreshEcho
<1>6. CASE \/ PollAbsent \/ PollTop \/ PollLock \/ PollFails \/ PollSend
  BY <1>6 DEF PollAbsent, PollTop, PollLock, PollFails, PollSend, chan, ghosts, FreshEcho
<1>7. CASE \/ Cancel \/ DropSenders \/ \E c \in Command : Send(c)
  BY <1>7 DEF Cancel, DropSenders, Send, code, ghosts, FreshEcho
<1>8. CASE UNCHANGED vars
  BY <1>8 DEF vars, FreshEcho
<1>9. CASE \/ CmdAbsent \/ CmdTop \/ CmdRecv \/ CmdClosed \/ CmdDrain \/ CmdDrained \/ CmdLock \/ CmdRun
           \/ CmdRunLost \/ CmdBatchDone \/ CmdIfFails \/ CmdCancelled \/ CmdSend
  <2>1. cpc' \notin {"rest", "send"}
    BY <1>9 DEF CmdAbsent, CmdTop, CmdRecv, CmdClosed, CmdDrain, CmdDrained, CmdLock, CmdRun,
                CmdRunLost, CmdBatchDone, CmdIfFails, CmdCancelled, CmdSend
  <2> QED BY <2>1
<1> QED BY <1>1, <1>2, <1>3, <1>4, <1>5, <1>6, <1>7, <1>8, <1>9 DEF Next, Poll, Cmd, Environment

\* The state the command task publishes shows the commands it just ran, in
\* every register of the IF; answer that one prefix owns and nobody touched.
THEOREM EchoShows == Spec => EchoShowsCommand
<1>1. Init => EchoInv
  BY LastWordInit DEF EchoInv, FreshEcho, Init
<1>2. EchoInv /\ [Next]_vars => EchoInv'
  BY LastWordStep, FreshEchoStep DEF EchoInv, LastWordInv
<1>3. EchoInv /\ [Next]_vars =>
        [CmdSend => \A r \in Core :
            Exclusive(r) /\ ~Targets(queue, r) /\ ~disturbed[r] => published'[r] = asked[r]]_vars
  <2> SUFFICES ASSUME EchoInv, CmdSend, NEW r \in Core,
                      Exclusive(r), ~Targets(queue, r), ~disturbed[r]
               PROVE  published'[r] = asked[r]
    OBVIOUS
  <2>1. cpc = "send" /\ published' = seen["cmd"] /\ r \in Register
    BY CoreAssumption DEF CmdSend
  <2>2. batch = <<>>
    BY <2>1 DEF EchoInv, LastWordInv, BatchShape
  <2>3. Settled(r)
    BY <2>2 DEF Settled, Targets
  <2>4. radio[r] = asked[r]
    BY <2>1, <2>3 DEF EchoInv, LastWordInv, LastWord, InRadio
  <2> QED BY <2>1, <2>4 DEF EchoInv, FreshEcho
<1> QED BY <1>1, <1>2, <1>3, PTL DEF Spec, EchoShowsCommand

-----------------------------------------------------------------------------
(* The order of publication.                                               *)

\* Between its lock and its unlock a task owns the port, so while the command
\* task has a reading in hand, nobody can take a newer one.
PortHeld ==
  /\ ppc \in {"if", "rest"} => port = "poll"
  /\ cpc \in {"run", "if", "rest", "send"} => port = "cmd"

OrderInv ==
  /\ TypeOK /\ PortHeld
  /\ publishedAt <= version /\ seenAt["poll"] <= version /\ seenAt["cmd"] <= version
  /\ cpc \in {"rest", "send"} =>
       publishedAt <= seenAt["cmd"] /\ (ppc = "send" => seenAt["poll"] <= seenAt["cmd"])

\* Every step keeps the readings and the publications in order.
LEMMA OrderStep == OrderInv /\ [Next]_vars => OrderInv'
<1> SUFFICES ASSUME OrderInv, [Next]_vars PROVE OrderInv'
  OBVIOUS
<1> TypeOK'
  BY TypeStep DEF OrderInv
<1> USE DEF OrderInv, TypeOK, Task, PortHeld
<1>1. CASE Poll
  <2>1. CASE PollIf BY <2>1 DEF PollIf, ReadIf
  <2>2. CASE PollSend BY <2>2 DEF PollSend
  <2>3. CASE PollRest BY <2>3 DEF PollRest, ghosts
  <2>4. CASE PollAbsent \/ PollTop \/ PollLock \/ PollFails
    BY <2>4 DEF PollAbsent, PollTop, PollLock, PollFails, ghosts
  <2> QED BY <1>1, <2>1, <2>2, <2>3, <2>4 DEF Poll
<1>2. CASE Cmd
  <2>1. CASE CmdIf BY <2>1 DEF CmdIf, ReadIf
  <2>2. CASE CmdSend BY <2>2 DEF CmdSend
  <2>3. CASE CmdRest BY <2>3 DEF CmdRest, ghosts
  <2>4. CASE CmdRun \/ CmdRunLost BY <2>4 DEF CmdRun, CmdRunLost
  <2>5. CASE CmdAbsent \/ CmdTop \/ CmdRecv \/ CmdClosed \/ CmdDrain \/ CmdDrained
    BY <2>5 DEF CmdAbsent, CmdTop, CmdRecv, CmdClosed, CmdDrain, CmdDrained, ghosts
  <2>6. CASE CmdLock \/ CmdBatchDone \/ CmdIfFails \/ CmdCancelled
    BY <2>6 DEF CmdLock, CmdBatchDone, CmdIfFails, CmdCancelled, ghosts
  <2> QED BY <1>2, <2>1, <2>2, <2>3, <2>4, <2>5, <2>6 DEF Cmd
<1>3. CASE Environment
  BY <1>3 DEF Environment, Send, Turn, Cancel, DropSenders, code, ghosts
<1>4. CASE UNCHANGED vars
  BY <1>4 DEF vars
<1> QED BY <1>1, <1>2, <1>3, <1>4 DEF Next

\* The command task never replaces a published state by an older one.
THEOREM EchoInOrder == Spec => EchoNeverRegresses
<1>1. Init => OrderInv
  BY TypeInit DEF Init, OrderInv, PortHeld, Task
<1>2. OrderInv /\ CmdSend => publishedAt' >= publishedAt
  BY DEF OrderInv, CmdSend, TypeOK, Task
<1> QED BY <1>1, <1>2, OrderStep, PTL DEF Spec, EchoNeverRegresses

-----------------------------------------------------------------------------
(* What a reading is worth.                                                *)

\* A state that was published, and whose reading the radio has not changed
\* since, is the radio's in every register that IF; reports.
PublishedIsTrue == publishedAt = version => \A r \in Core : published[r] = radio[r]

\* The same of the readings the two tasks have in hand; what the optional
\* queries add to a reading leaves the registers of IF; alone.
TrueInv ==
  /\ \A t \in Task : seenAt[t] = version => \A r \in Core : seen[t][r] = radio[r]
  /\ PublishedIsTrue

\* A change of the radio makes every reading an old one.
LEMMA ChangedSince ==
  ASSUME OrderInv, version' = version + 1, UNCHANGED <<seenAt, publishedAt>>
  PROVE  TrueInv'
BY DEF OrderInv, TypeOK, Task, TrueInv, PublishedIsTrue

\* A step that leaves the radio, the readings and what was published alone
\* keeps them true.
LEMMA TrueSame ==
  ASSUME TrueInv, UNCHANGED <<radio, version, seen, seenAt, published, publishedAt>>
  PROVE  TrueInv'
BY DEF TrueInv, PublishedIsTrue

\* Every step keeps the present readings true.
LEMMA TrueStep == OrderInv /\ TrueInv /\ [Next]_vars => TrueInv'
<1> SUFFICES ASSUME OrderInv, TrueInv, [Next]_vars PROVE TrueInv'
  OBVIOUS
<1> USE DEF OrderInv, TypeOK, Task, RadioState
<1>1. ASSUME NEW t \in Task, ReadIf(t), UNCHANGED <<radio, version, published, publishedAt>>
      PROVE  TrueInv'
  BY <1>1, CoreAssumption DEF ReadIf, TrueInv, PublishedIsTrue
<1>2. ASSUME NEW t \in Task, ReadRest(t), UNCHANGED <<radio, version, seenAt, published, publishedAt>>
      PROVE  TrueInv'
  BY <1>2, CoreAssumption DEF ReadRest, TrueInv, PublishedIsTrue
<1>3. CASE Poll
  <2>1. CASE PollIf BY <1>1, <2>1 DEF PollIf
  <2>2. CASE PollSend BY <2>2 DEF PollSend, TrueInv, PublishedIsTrue
  <2>3. CASE PollRest BY <1>2, <2>3 DEF PollRest, ghosts
  <2>4. CASE PollAbsent \/ PollTop \/ PollLock \/ PollFails
    BY <2>4, TrueSame DEF PollAbsent, PollTop, PollLock, PollFails, ghosts
  <2> QED BY <1>3, <2>1, <2>2, <2>3, <2>4 DEF Poll
<1>4. CASE Cmd
  <2>1. CASE CmdIf BY <1>1, <2>1 DEF CmdIf
  <2>2. CASE CmdSend BY <2>2 DEF CmdSend, TrueInv, PublishedIsTrue
  <2>3. CASE CmdRest BY <1>2, <2>3 DEF CmdRest, ghosts
  <2>4. CASE CmdRun BY <2>4, ChangedSince DEF CmdRun
  <2>5. CASE CmdRunLost \/ CmdAbsent \/ CmdTop \/ CmdRecv \/ CmdClosed \/ CmdDrain \/ CmdDrained
    BY <2>5, TrueSame DEF CmdRunLost, CmdAbsent, CmdTop, CmdRecv, CmdClosed, CmdDrain, CmdDrained, ghosts
  <2>6. CASE CmdLock \/ CmdBatchDone \/ CmdIfFails \/ CmdCancelled
    BY <2>6, TrueSame DEF CmdLock, CmdBatchDone, CmdIfFails, CmdCancelled, ghosts
  <2> QED BY <1>4, <2>1, <2>2, <2>3, <2>4, <2>5, <2>6 DEF Cmd
<1>5. CASE Environment
  <2>1. ASSUME NEW r \in Register, NEW v \in Value, Turn(r, v) PROVE TrueInv'
    BY <2>1, ChangedSince DEF Turn
  <2>2. CASE Cancel \/ DropSenders \/ \E c \in Command : Send(c)
    BY <2>2, TrueSame DEF Cancel, DropSenders, Send, code, ghosts
  <2> QED BY <1>5, <2>1, <2>2 DEF Environment
<1>6. CASE UNCHANGED vars
  BY <1>6, TrueSame DEF vars
<1> QED BY <1>3, <1>4, <1>5, <1>6 DEF Next

\* What clients are shown is stale only if the radio changed after the IF;
\* of the poll that was published (poll_radio_state): no interleaving of the
\* two tasks, no failed optional query and no poll given up half-way
\* publishes as new what the radio never was.
THEOREM PublishedTrue == Spec => []PublishedIsTrue
<1>1. Init => OrderInv /\ TrueInv
  BY TypeInit, CoreAssumption DEF Init, OrderInv, PortHeld, Task, TrueInv, PublishedIsTrue
<1>2. OrderInv /\ TrueInv /\ [Next]_vars => (OrderInv /\ TrueInv)'
  BY OrderStep, TrueStep
<1>3. TrueInv => PublishedIsTrue
  BY DEF TrueInv
<1> QED BY <1>1, <1>2, <1>3, PTL DEF Spec

-----------------------------------------------------------------------------
(* The port.                                                               *)

\* Who holds the serial port is at a point of its program at which it waits
\* for nobody, so that a task waiting for the port never waits for one that
\* waits itself.
PortMoves ==
  \/ port = "free"
  \/ port = "poll" /\ ppc \in {"if", "rest"}
  \/ port = "cmd" /\ cpc \in {"run", "if", "rest", "send"}

\* Every step keeps it: each way out of the critical section gives the port back.
LEMMA PortStep == TypeOK /\ PortHeld /\ PortMoves /\ [Next]_vars => (PortHeld /\ PortMoves)'
<1> SUFFICES ASSUME TypeOK, PortHeld, PortMoves, [Next]_vars PROVE (PortHeld /\ PortMoves)'
  OBVIOUS
<1> USE DEF PortHeld, PortMoves, TypeOK, Task
<1>1. CASE Poll
  BY <1>1 DEF Poll, PollAbsent, PollTop, PollLock, PollIf, PollFails, PollRest, PollSend
<1>2. CASE Cmd
  <2>1. CASE CmdAbsent \/ CmdTop \/ CmdRecv \/ CmdClosed \/ CmdDrain \/ CmdDrained \/ CmdLock
    BY <2>1 DEF CmdAbsent, CmdTop, CmdRecv, CmdClosed, CmdDrain, CmdDrained, CmdLock
  <2>2. CASE CmdRun \/ CmdRunLost \/ CmdBatchDone
    BY <2>2 DEF CmdRun, CmdRunLost, CmdBatchDone
  <2>3. CASE CmdIf \/ CmdIfFails \/ CmdRest \/ CmdCancelled \/ CmdSend
    BY <2>3 DEF CmdIf, CmdIfFails, CmdRest, CmdCancelled, CmdSend
  <2> QED BY <1>2, <2>1, <2>2, <2>3 DEF Cmd
<1>3. CASE Environment \/ UNCHANGED vars
  BY <1>3 DEF Environment, Send, Turn, Cancel, DropSenders, code, vars
<1> QED BY <1>1, <1>2, <1>3 DEF Next

\* No way out of a poll or a batch, not the failure of IF;, nor the token
\* between two queries, leaks the guard of the mutex (poll.rs, run_poll and
\* run_commands): a leak would stop both tasks for good.
THEOREM PortNotLeaked == Spec => []PortMoves
<1>1. Init => TypeOK /\ PortHeld /\ PortMoves
  BY TypeInit DEF Init, PortHeld, PortMoves
<1>2. TypeOK /\ PortHeld /\ PortMoves /\ [Next]_vars => (TypeOK /\ PortHeld /\ PortMoves)'
  BY TypeStep, PortStep
<1> QED BY <1>1, <1>2, PTL DEF Spec
=============================================================================
