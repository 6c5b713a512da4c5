------------------------------ MODULE CatTasks ------------------------------
(***************************************************************************)
(* The two CAT tasks of efd-cat (crates/efd-cat/src/poll.rs): a poll task  *)
(* that reads the radio's state every poll interval, and a command task    *)
(* that drains the command channel, coalesces what it drained by prefix,   *)
(* runs the batch on the radio and polls once more.  Both share one serial *)
(* port behind a mutex and publish what they read on one broadcast         *)
(* channel.                                                                *)
(*                                                                         *)
(* A CAT command is a record: the two-letter prefix the command task       *)
(* coalesces on, the register of the radio it sets and the value it sets.  *)
(* One prefix may set several registers (RF<mode><idx> sets one filter per *)
(* mode) and one register may have several prefixes (TX and RX both set    *)
(* the transmitter), and this is what decides who may overwrite whom.      *)
(***************************************************************************)
EXTENDS Integers, Sequences

CONSTANTS
  Prefix, Register, Value, \* the vocabulary of CAT commands
  Command,      \* the commands clients send: [prefix, reg, val] records
  Core,         \* registers the single IF; answer reports
  Initial,      \* the value every register starts with
  Default,      \* what an optional query that fails is reported as
  Capacity,     \* capacity of the command channel (64 in pipeline.rs)
  MaxSends,     \* bound: commands sent in a behaviour
  MaxTurns      \* bound: changes made on the radio's front panel

ASSUME CommandAssumption == Command \subseteq [prefix : Prefix, reg : Register, val : Value]
ASSUME ValueAssumption   == Initial \in Value /\ Default \in Value
ASSUME CoreAssumption    == Core \subseteq Register
ASSUME BoundAssumption   == Capacity \in Nat \ {0} /\ MaxSends \in Nat /\ MaxTurns \in Nat

Task == {"poll", "cmd"}

VARIABLES
  queue,       \* commands waiting in the mpsc channel
  senders,     \* TRUE while some clone of cat_tx is alive
  cancelled,   \* the cancellation token
  ppc, cpc,    \* where the poll task and the command task are
  batch,       \* last_by_prefix: what is left of it to run
  port,        \* owner of the serial port's mutex
  radio,       \* the radio's registers
  seen,        \* per task, the state poll_radio_state is assembling
  published,   \* the latest state sent on the broadcast channel
  \* The rest records history for the properties; no step of the code reads it.
  asked,       \* per register, the value of the last command sent for it
  disturbed,   \* per register, set by the panel, or its command lost, since
  version,     \* number of changes the radio went through
  seenAt,      \* per task, the version its IF; answer reported
  publishedAt, \* the version of the published state
  sends, turns

chan   == <<queue, senders>>
code   == <<ppc, cpc, batch, port, seen, published>>
ghosts == <<asked, disturbed, version, seenAt, publishedAt, sends, turns>>
vars   == <<queue, senders, cancelled, ppc, cpc, batch, port, radio, seen, published,
            asked, disturbed, version, seenAt, publishedAt, sends, turns>>

RadioState == [Register -> Value]

TypeOK ==
  /\ queue \in Seq(Command) /\ batch \in Seq(Command)
  /\ senders \in BOOLEAN /\ cancelled \in BOOLEAN
  /\ ppc \in {"absent", "top", "sleep", "if", "rest", "send", "done"}
  /\ cpc \in {"absent", "top", "recv", "drain", "lock", "run", "if", "rest", "send", "done"}
  /\ port \in Task \cup {"free"}
  /\ radio \in RadioState
  /\ seen \in [Task -> RadioState]
  /\ published \in RadioState
  /\ asked \in RadioState
  /\ disturbed \in [Register -> BOOLEAN]
  /\ version \in Nat /\ publishedAt \in Nat
  /\ seenAt \in [Task -> Nat]
  /\ sends \in 0..MaxSends /\ turns \in 0..MaxTurns

-----------------------------------------------------------------------------
(* spawn_cat_tasks: without a serial device both tasks only wait for the   *)
(* token and the receiving end of the channel is dropped at once.          *)

Init ==
  /\ queue = <<>> /\ batch = <<>>
  /\ senders = TRUE /\ cancelled = FALSE
  /\ \/ ppc = "top" /\ cpc = "top"
     \/ ppc = "absent" /\ cpc = "absent"
  /\ port = "free"
  /\ radio = [r \in Register |-> Initial]
  /\ seen = [t \in Task |-> radio]
  /\ published = radio
  /\ asked = radio
  /\ disturbed = [r \in Register |-> FALSE]
  /\ version = 0 /\ publishedAt = 0
  /\ seenAt = [t \in Task |-> 0]
  /\ sends = 0 /\ turns = 0

PollAbsent ==
  /\ ppc = "absent" /\ cancelled
  /\ ppc' = "done"
  /\ UNCHANGED <<chan, cancelled, cpc, batch, port, radio, seen, published, ghosts>>

CmdAbsent ==
  /\ cpc = "absent" /\ cancelled
  /\ cpc' = "done"
  /\ UNCHANGED <<chan, cancelled, ppc, batch, port, radio, seen, published, ghosts>>

-----------------------------------------------------------------------------
(* The environment: WebSocket sessions and rigctld connections that send   *)
(* commands, the operator's hand on the radio, and shutdown.               *)

Receiving == cpc \notin {"absent", "done"}

\* cat_tx.send(cmd).await returns once there is room; it fails, and the
\* session ends, when the receiver is gone.
Send(c) ==
  /\ Receiving /\ senders
  /\ Len(queue) < Capacity
  /\ sends < MaxSends
  /\ queue' = Append(queue, c)
  /\ asked' = [asked EXCEPT ![c.reg] = c.val]
  /\ sends' = sends + 1
  /\ UNCHANGED <<senders, cancelled, code, radio, disturbed, version, seenAt, publishedAt, turns>>

Turn(r, v) ==
  /\ turns < MaxTurns /\ radio[r] # v
  /\ radio' = [radio EXCEPT ![r] = v]
  /\ disturbed' = [disturbed EXCEPT ![r] = TRUE]
  /\ version' = version + 1
  /\ turns' = turns + 1
  /\ UNCHANGED <<chan, cancelled, code, asked, seenAt, publishedAt, sends>>

Cancel ==
  /\ ~cancelled
  /\ cancelled' = TRUE
  /\ UNCHANGED <<chan, code, radio, ghosts>>

DropSenders ==
  /\ senders
  /\ senders' = FALSE
  /\ UNCHANGED <<queue, cancelled, code, radio, ghosts>>

-----------------------------------------------------------------------------
(* poll_radio_state: IF; first, and its failure fails the poll; then the   *)
(* optional queries, each of which falls back to its default, with checks  *)
(* of the token in between.                                                *)

ReadIf(t) ==
  /\ seen' = [seen EXCEPT ![t] = [r \in Register |-> IF r \in Core THEN radio[r] ELSE Default]]
  /\ seenAt' = [seenAt EXCEPT ![t] = version]

\* The optional registers that answered report the radio, the others Default.
ReadRest(t) ==
  \E answered \in SUBSET (Register \ Core) :
    seen' = [seen EXCEPT ![t] = [r \in Register |-> IF r \in answered THEN radio[r] ELSE @[r]]]

-----------------------------------------------------------------------------
(* run_poll.  The state is sent after the mutex is released.               *)

\* MUTANT of PollTop: the loop does not look at the token.
PollTopMutant ==
  /\ ppc = "top"
  /\ ppc' = "sleep"
  /\ UNCHANGED <<chan, cancelled, cpc, batch, port, radio, seen, published, ghosts>>

PollTop ==
  /\ ppc = "top"
  /\ ppc' = IF cancelled THEN "done" ELSE "sleep"
  /\ UNCHANGED <<chan, cancelled, cpc, batch, port, radio, seen, published, ghosts>>

PollLock ==
  /\ ppc = "sleep" /\ port = "free"
  /\ port' = "poll"
  /\ ppc' = "if"
  /\ UNCHANGED <<chan, cancelled, cpc, batch, radio, seen, published, ghosts>>

PollIf ==
  /\ ppc = "if"
  /\ ReadIf("poll")
  /\ ppc' = "rest"
  /\ UNCHANGED <<chan, cancelled, cpc, batch, port, radio, published,
                 asked, disturbed, version, publishedAt, sends, turns>>

\* MUTANT of PollFails: an early return that leaks the guard.
PollFailsMutant ==
  /\ ppc = "if" \/ (ppc = "rest" /\ cancelled)
  /\ ppc' = "top"
  /\ UNCHANGED <<chan, cancelled, cpc, batch, port, radio, seen, published, ghosts>>

\* IF; failed, or the token fired between two queries: the poll is dropped.
PollFails ==
  /\ ppc = "if" \/ (ppc = "rest" /\ cancelled)
  /\ port' = "free"
  /\ ppc' = "top"
  /\ UNCHANGED <<chan, cancelled, cpc, batch, radio, seen, published, ghosts>>

PollRest ==
  /\ ppc = "rest" /\ ~cancelled
  /\ ReadRest("poll")
  /\ port' = "free"
  /\ ppc' = "send"
  /\ UNCHANGED <<chan, cancelled, cpc, batch, radio, published, ghosts>>

\* MUTANT of PollSend: the state is read but not sent.
PollSendMutant ==
  /\ ppc = "send"
  /\ ppc' = "top"
  /\ UNCHANGED <<chan, cancelled, cpc, batch, port, radio, seen, published, ghosts>>

PollSend ==
  /\ ppc = "send"
  /\ published' = seen["poll"]
  /\ publishedAt' = seenAt["poll"]
  /\ ppc' = "top"
  /\ UNCHANGED <<chan, cancelled, cpc, batch, port, radio, seen,
                 asked, disturbed, version, seenAt, sends, turns>>

Poll == PollAbsent \/ PollTop \/ PollLock \/ PollIf \/ PollFails \/ PollRest \/ PollSend

-----------------------------------------------------------------------------
(* run_commands.                                                           *)

CmdTop ==
  /\ cpc = "top"
  /\ cpc' = IF cancelled THEN "done" ELSE "recv"
  /\ UNCHANGED <<chan, cancelled, ppc, batch, port, radio, seen, published, ghosts>>

\* blocking_recv: does not look at the token.
CmdRecv ==
  /\ cpc = "recv" /\ queue # <<>>
  /\ batch' = <<Head(queue)>>
  /\ queue' = Tail(queue)
  /\ cpc' = "drain"
  /\ UNCHANGED <<senders, cancelled, ppc, port, radio, seen, published, ghosts>>

CmdClosed ==
  /\ cpc = "recv" /\ queue = <<>> /\ ~senders
  /\ cpc' = "done"
  /\ UNCHANGED <<chan, cancelled, ppc, batch, port, radio, seen, published, ghosts>>

\* MUTANT of Coalesce: keeps the first command of a prefix.
CoalesceMutant(b, c) ==
  IF \E i \in DOMAIN b : b[i].prefix = c.prefix THEN b ELSE Append(b, c)

\* The newer command takes the place of the one with its prefix, if any.
Coalesce(b, c) ==
  IF \E i \in DOMAIN b : b[i].prefix = c.prefix
    THEN [b EXCEPT ![CHOOSE i \in DOMAIN b : b[i].prefix = c.prefix] = c]
    ELSE Append(b, c)

CmdDrain ==
  /\ cpc = "drain" /\ queue # <<>>
  /\ batch' = Coalesce(batch, Head(queue))
  /\ queue' = Tail(queue)
  /\ UNCHANGED <<senders, cancelled, ppc, cpc, port, radio, seen, published, ghosts>>

\* try_recv found the channel empty; more may arrive before the lock is taken.
CmdDrained ==
  /\ cpc = "drain" /\ queue = <<>>
  /\ cpc' = "lock"
  /\ UNCHANGED <<chan, cancelled, ppc, batch, port, radio, seen, published, ghosts>>

CmdLock ==
  /\ cpc = "lock" /\ port = "free"
  /\ port' = "cmd"
  /\ cpc' = "run"
  /\ UNCHANGED <<chan, cancelled, ppc, batch, radio, seen, published, ghosts>>

\* Every sender validates length and terminator first, so the loop's own
\* check of them drops nothing here.
CmdRun ==
  /\ cpc = "run" /\ batch # <<>>
  /\ LET c == Head(batch) IN
       /\ radio' = [radio EXCEPT ![c.reg] = c.val]
       /\ disturbed' = [disturbed EXCEPT ![c.reg] = FALSE]
  /\ version' = version + 1
  /\ batch' = Tail(batch)
  /\ UNCHANGED <<chan, cancelled, ppc, cpc, port, seen, published,
                 asked, seenAt, publishedAt, sends, turns>>

\* The write timed out or the radio ignored it: logged, never retried.
CmdRunLost ==
  /\ cpc = "run" /\ batch # <<>>
  /\ disturbed' = [disturbed EXCEPT ![Head(batch).reg] = TRUE]
  /\ batch' = Tail(batch)
  /\ UNCHANGED <<chan, cancelled, ppc, cpc, port, radio, seen, published,
                 asked, version, seenAt, publishedAt, sends, turns>>

\* MUTANT of CmdBatchDone: the loop breaks after its first command.
CmdBatchDoneMutant ==
  /\ cpc = "run"
  /\ cpc' = "if"
  /\ UNCHANGED <<chan, cancelled, ppc, batch, port, radio, seen, published, ghosts>>

CmdBatchDone ==
  /\ cpc = "run" /\ batch = <<>>
  /\ cpc' = "if"
  /\ UNCHANGED <<chan, cancelled, ppc, batch, port, radio, seen, published, ghosts>>

CmdIf ==
  /\ cpc = "if"
  /\ ReadIf("cmd")
  /\ cpc' = "rest"
  /\ UNCHANGED <<chan, cancelled, ppc, batch, port, radio, published,
                 asked, disturbed, version, publishedAt, sends, turns>>

CmdIfFails ==
  /\ cpc = "if"
  /\ port' = "free"
  /\ cpc' = "top"
  /\ UNCHANGED <<chan, cancelled, ppc, batch, radio, seen, published, ghosts>>

\* MUTANT of CmdRest: the port is unlocked before the state is sent.
CmdRestMutant ==
  /\ cpc = "rest" /\ ~cancelled
  /\ ReadRest("cmd")
  /\ port' = "free"
  /\ cpc' = "send"
  /\ UNCHANGED <<chan, cancelled, ppc, batch, radio, published, ghosts>>

CmdRest ==
  /\ cpc = "rest" /\ ~cancelled
  /\ ReadRest("cmd")
  /\ cpc' = "send"
  /\ UNCHANGED <<chan, cancelled, ppc, batch, port, radio, published, ghosts>>

\* Err(Cancelled) returns from run_commands; the guard is dropped with it.
CmdCancelled ==
  /\ cpc = "rest" /\ cancelled
  /\ port' = "free"
  /\ cpc' = "done"
  /\ UNCHANGED <<chan, cancelled, ppc, batch, radio, seen, published, ghosts>>

\* The state is sent with the mutex still held.
CmdSend ==
  /\ cpc = "send"
  /\ published' = seen["cmd"]
  /\ publishedAt' = seenAt["cmd"]
  /\ port' = "free"
  /\ cpc' = "top"
  /\ UNCHANGED <<chan, cancelled, ppc, batch, radio, seen,
                 asked, disturbed, version, seenAt, sends, turns>>

Cmd ==
  \/ CmdAbsent \/ CmdTop \/ CmdRecv \/ CmdClosed \/ CmdDrain \/ CmdDrained \/ CmdLock
  \/ CmdRun \/ CmdRunLost \/ CmdBatchDone
  \/ CmdIf \/ CmdIfFails \/ CmdRest \/ CmdCancelled \/ CmdSend

Environment ==
  \/ \E c \in Command : Send(c)
  \/ \E r \in Register, v \in Value : Turn(r, v)
  \/ Cancel \/ DropSenders

Next == Poll \/ Cmd \/ Environment

Spec == Init /\ [][Next]_vars

-----------------------------------------------------------------------------
(* Fairness.  Each task is a thread that keeps running; std's mutex is not *)
(* fair, but the poll task sleeps a whole interval with the port free and  *)
(* the command task blocks on its channel without it, so a waiter gets it; *)
(* and IF; does not fail every time it is asked.                           *)

Fairness ==
  /\ WF_vars(Poll) /\ WF_vars(Cmd)
  /\ SF_vars(PollLock) /\ SF_vars(CmdLock)
  /\ SF_vars(PollIf)

FairSpec == Spec /\ Fairness

-----------------------------------------------------------------------------
(* Properties.                                                             *)

\* The register is set by one prefix, and that prefix sets nothing else:
\* FA for the VFO, MD for the mode -- not TX/RX, not RF.
Exclusive(r) == \A c, d \in Command : (c.reg = r) => (c.prefix = d.prefix <=> d.reg = r)

Targets(s, r) == \E i \in DOMAIN s : s[i].reg = r

Settled(r) == ~Targets(queue, r) /\ ~Targets(batch, r)

\* Coalescing never loses the last word: once no command for a register
\* waits, the radio holds what was last asked for it, unless the panel or a
\* failed write came in between (run_commands, last_by_prefix).
LastCommandWins ==
  \A r \in Register :
    Exclusive(r) /\ Settled(r) /\ ~disturbed[r] => radio[r] = asked[r]

\* The state the command task publishes after a batch shows that batch: for
\* a register nobody touched since, it carries the value last asked for.
EchoShowsCommand ==
  [][CmdSend => \A r \in Core :
        Exclusive(r) /\ ~Targets(queue, r) /\ ~disturbed[r] => published'[r] = asked[r]]_vars

\* The command task, which sends with the port still locked, never replaces
\* a published state by one read earlier.  (The poll task, which unlocks
\* first, may.)
EchoNeverRegresses == [][CmdSend => publishedAt' >= publishedAt]_vars

\* Once the radio stops changing, the published core registers catch up with
\* it and stay, unless the tasks are cancelled or never started.
PublishedCatchesUp ==
  <>[](cancelled \/ ppc = "absent" \/ \A r \in Core : published[r] = radio[r])

\* Every command accepted into the channel is taken out of it, unless the
\* command task ends first.
CommandsServed == (queue # <<>>) ~> (queue = <<>> \/ cpc = "done")

\* The token stops the poll task; the command task also needs its channel
\* closed, because blocking_recv does not watch the token.
TasksStop ==
  /\ cancelled ~> ppc = "done"
  /\ (cancelled /\ ~senders) ~> cpc = "done"

\* What the comments of run_commands promise of push-to-talk ("keep only the
\* last of each prefix (e.g., last FA, last MD, last TX/RX)"): with nothing
\* waiting, the transmitter is as the last command asked.
LastPttWins ==
  \A r \in Register : Settled(r) /\ ~disturbed[r] => radio[r] = asked[r]
=============================================================================
