# Verification of efd-station

efd-station is a remote front end for the ELAD FDM-DUO transceiver. A server on
the machine next to the radio captures IQ samples over USB, demodulates them,
polls and controls the radio over a CAT serial port, and serves spectrum, audio
and state to GTK clients over WebSockets. The modules here are about its
**control**: which task may do what when, what is lost or overtaken when
commands, failures, restarts and shutdowns cross, and what is guaranteed to
happen in the end. What the samples hold is not modelled.

Contents: [inventory](#inventory), [modules](#modules), [runs](#runs),
[fairness](#fairness), [findings](#findings), [proofs](#proofs),
[limits](#what-is-not-modelled), [plan](#plan).

## Inventory

| Component | State | Operations | Talks to | Hard behaviour | Correct when |
|---|---|---|---|---|---|
| CAT tasks (`crates/efd-cat/src/poll.rs`) | command channel, batch per prefix, port mutex, published state | poll, receive, drain and coalesce, run a batch, poll after it | sessions and rigctld (commands in), every client (state out), serial link | two threads on one port, state sent after or before the unlock, failed queries, blocking receive | the last command wins, clients see it, commands are served, the tasks stop |
| Serial link (`serial.rs`, `parse.rs`, `discover.rs`) | the open port | flush, write a command, read up to three answers, parse | the radio | late, cut and missing answers, deadlines | an answer belongs to its question, the port is given back |
| rigctld responder (`responder.rs`) | two fronts, connections, backends | accept, read a line, get and set frequency, mode and PTT | CAT tasks or demodulator | connection limit, waits for room in the CAT channel and in the socket that do not watch the token | a set is acted on, connections end unless their program leaves the answers unread |
| Server life cycle (`server/src/main.rs`) | tokens, AppState, session | start, serve, stop, drain, save, exit | pipeline, handlers, systemd | handlers that outlive the server, halves of them that are aborted and not awaited, threads the runtime waits for, kills | a stop ends, saves the session, and the next start has it |
| Pipeline (`server/src/pipeline.rs`) | all channels, task handles | start, shutdown, audio mux, ALSA bridge, tuning, flags, snapshot tracker | everything | order of teardown, who holds the last sender, states that overtake each other | no task outlives it, demodulator and radio agree |
| DRM supervisor and bridge (`pipeline.rs`, `crates/efd-dsp/src/drm.rs`) | active bridge, null sinks, three subprocesses | start, stop, restart on a flip, forward status | PipeWire, DREAM, clients | requests during a teardown, set-up that fails half-way, a `pactl` given up while it runs, a pacat that blocks | one bridge at a time, the one asked for, an unload asked for every sink it knows |
| Recorder (`server/src/recording.rs`) | active recording, file, status | start, stop, write, flush | clients, IQ and PCM broadcasts | stop, restart and shutdown during a write; disk errors | one writer, whole files, a true status |
| WebSocket sessions (`server/src/ws/`) | per client two halves, shared watches | route each message, push each event | all of the above | one slow consumer, lost updates between clients | messages in order, shared state converges |
| Persistence (`server/src/persistence.rs`) | `state.toml`, `state.tmp` | load, validate, save | life cycle, sessions | savers that share a temporary file | a file is one complete session |
| IQ capture, DSP, audio devices (`crates/efd-iq`, `efd-dsp`, `efd-audio`) | sample buffers, open devices | capture, blank, demodulate, average, play | broadcasts and bounded channels | lag, blocking sends, failing devices | no thread is stuck, each ends, nothing is mixed |
| Discovery (`server/src/discovery.rs`, `efd-audio/src/discover.rs`) | none | enumerate, resolve, probe | sysfs, ALSA | cards that change between enumeration and use | a pick reaches its card |
| Protocol (`crates/efd-proto`) | none | encode, decode, filter and grid tables | both sides | versions | round trip |
| Client (`client/src`) | inbox, audio ring, widgets, waterfall texture, view | reconnect, poll inbox, tune, zoom, draw | server | bounded inbox, back-off, stale widgets, hidden and resized areas | what is shown was last said, lines are in order |

`PROJECT.json` lists the same components with their status, the source lines each
definition stands for, and the hazards of the code at the lines where they bite.

## Modules

| Module | Models | Instance |
|---|---|---|
| `CatTasks` | both CAT tasks and the environment that sends commands and turns knobs | `MCCatTasks` |
| `CatTasksProofs` | theorems about `CatTasks` | |
| `Lifecycle` | the process from start to exit, its threads, its clients, its state file | `MCLifecycle` |
| `Recorder` | controller, writers, files, status, and what each client was told | itself |
| `RecorderProofs` | theorems about `Recorder` | |
| `DrmSupervisor` | supervisor, forwarder, bridge, its writer task and subprocesses | itself |
| `DrmSupervisorProofs` | theorems about `DrmSupervisor` | |
| `Session` | the session several clients share: upstream and downstream tasks, connections, widgets | `MCSession` |
| `SessionProofs` | theorems about `Session` | |
| `SessionStore` | what the session file promises: a register that overlapping saves can spoil | |
| `StateFile` | `state.toml` and `state.tmp` under saves and kills; implements `SessionStore` | through `Boot` |
| `Boot` | the process around the file: enumerate, load, validate, resolve, probe, open; picks, loads, saves and ends. Extends `StateFile` | `MCBoot` |
| `StateFileProofs` | theorems about `StateFile` and `Boot`, the refinement among them | |
| `SerialLink` | one exchange over the serial port and what a poll takes from it | itself |
| `SerialLinkProofs` | theorems about `SerialLink` | |
| `Rigctld` | the two rigctld fronts: listener, connections, backends | through `Tuning` |
| `Tuning` | client, programs, panel and polls that tune one radio and one demodulator. Extends `Rigctld` | itself |
| `AudioPath` | capture, blanker, demodulator, sound card, mux, ALSA bridge, ALSA | itself |
| `View` | the zoom and pan arithmetic and the bins that are drawn, as operators | through `Display` |
| `Display` | spectrum frames from the FFT to the waterfall. Extends `View` | itself |
| `ServerProofs` | theorems about `Lifecycle` and `AudioPath` | |
| `ClientProofs` | theorems about `Tuning` and `Rigctld`, `Display` and `View` | |

A component of which another extends the module, or whose theorems share one
with another's, has a prefix on the names every specification has: `BInit` in
`Boot`, `DInit` in `Display`, `AInit` in `AudioPath`.

**CatTasks.** A CAT command is `[prefix, reg, val]`: the two letters the command
task coalesces on, the register it sets and the value. The vocabulary is a
constant, so the model says exactly which commands may take each other's place.
`ppc` and `cpc` are the program points of `run_poll` and `run_commands`; there is
one action between any two points at which the other task, the environment or the
token can be noticed (lock, `IF;`, the optional queries, send, unlock). The poll
task unlocks before it sends and the command task sends before it unlocks, as in
the code. `published` is the last value of the broadcast channel. The history
variables (`asked`, `disturbed`, `version`, `seenAt`, `publishedAt`) are read by
no guard.

**Lifecycle.** `main` is the program point of `main.rs`; `cancel` is main's
token, `pcancel` the pipeline's own. A client handler has two halves, of which
the upstream one changes the session and has senders of its own. When it ends
first (`leaving`) nothing of it is left; when the downstream half does
(`closing`), the handler aborts the upstream half, does not await it, and drops
its `Arc<AppState>`: `aborted` is a half that is in its last poll, without the
shared state, until it `Yields`. Meanwhile it may do all an open one does, also
while main copies and saves the session. A `SaveState` is two steps, the half's
`copy` of the snapshot and the write. `Unwrap` is `Arc::try_unwrap` with both
outcomes; `Held` is what it sees, which an aborted half is not part of. `alone`
is the history of whether such a half was left when main took its copy: with
one, what it does may be lost or may overwrite main's file, and
`SavedIsLastWord` and `SessionSurvives` say what holds without one. The blocking
threads are of two kinds: those that watch the pipeline's token, and those that
wait on a channel until its last sender is gone; `SendersAlive` says who still
holds one. A saved session is a device, one toggle (the others are alike) and a
frequency. Devices are plugged and unplugged at any time, saves may fail, and
the process may be killed at any point.

**Recorder.** Recordings are numbered; a file is the recording that last created
it and how many of its blocks reached it, so that truncation by a later
`File::create` is visible. A block accepted may stay in the buffer until the
flush. `Send` is `watch::Sender::send`, which stores nothing without a receiver.
`told` and `unseen` follow the status to each client.

**DrmSupervisor.** Bridges are numbered in the order they are spawned and a status
is the number of the bridge whose frame it is. `want` is what the supervisor read at
the top of its loop, which may be out of date when it acts on it. Set-up goes step
by step, each of which can fail; a failed spawn leaves the subprocesses spawned
before it to exit by themselves. A null sink is what its bridge knows of it: `held`
with its module number, `asked` once a `pactl unload-module` was started (its result
is ignored, and `NullSinks::drop` does not wait for it), `lost` when the load was
given up after its deadline, or its answer not understood: that `pactl` is not
killed, and the sink may be there, or come later, with nobody to unload it.
`SinksReleased` is therefore about what the code does: it asks for the unload of
every sink it has the number of, and loses track of one at most. `pump` is the task
that writes into pacat and does not watch the token meanwhile.

**Session.** One server and its clients from end to end: a widget that is moved,
the queue its message waits in (which outlives a connection), the upstream task
that changes a watch channel, the downstream tasks of all clients that notice
(`due`), the inbox of each client and the GTK loop that empties it. Only the
latest value of a channel matters to the widgets, since the loop applies a whole
inbox at a time, so an inbox holds one value per channel. The five filter flags
and the decoders are one kind of toggle. `EnumerateDevices` is two steps, as the
active device is read before the list is sent. A `SelectDevice` ends in
`Respawn`: main's steps are `Lifecycle`'s, and here the new process simply loads
a session that may or may not be the last one. `clicked` and `replaced` are
history variables.

**StateFile.** `state.toml` and `state.tmp` are names that point at inodes, so a
save whose temporary file another one truncates, overwrites or renames is told
from one that is alone. Opening, writing and renaming are steps, each can fail,
and the process may be killed between any two. `SessionStore` is the register
this amounts to; `ActsAsStore` instantiates it with what `load` returns.

**Boot.** A start in the order of `main.rs` and `Pipeline::start`: the device
list, the session with a device that is gone cleared, the sound card resolved,
probed, and opened by its own thread. A sound card is its number, `hw:N,0`, and
`Replug` may rearrange the cards between any two steps; what a number named when
it was listed (`seen`) is history. `Opens` is nondeterministic, as another program
may hold the card, and the probe asks for less than `run_usb_rx` does. Every
change of the file is an action of `StateFile`, so `ActsAsStore` is checked, and
proved, of the whole process. `wish` is the history of the last pick: `picked`
until main has saved it, `kept` from then on while no overlapping save and no
missing device has undone it. A pick is any device, as clients may pick from a list
that is out of date.

**SerialLink.** Answers travel as pieces, a head and the `;` end, so that one may
be cut in two, or two be read at once. `todo` is what the radio has received,
`line` what it has sent, `kbuf` the kernel's buffer that `tcflush` empties. An
answer carries the number of the query it answers, which only the properties
read; the code has nothing but its two letters. `draft` is the state
`poll_radio_state` fills and `published` the last one it returned.

**Rigctld, Tuning.** A connection of `Rigctld` reads a line, handles it, perhaps
waits for room in the CAT channel, writes the answer, and reads the next. Neither
wait watches the token. `Reader` are the programs that read their answers; a
connection of another may be `answering` for ever, and `ConnsEnd` excepts it.
`Tuning` joins to it the client's mode bar and tiles, the routing by control target
(`cat_route_for`), the CAT tasks as a channel carried out in order, and the two
subscribers of the radio's state: the tuning forwarder, which applies the mode
override, and the snapshot tracker. Both may lag behind the broadcast. `own` is the
history of what the radio would be set to had the client said nothing.

**AudioPath.** One action per iteration of each thread or task, with a blocked
send as a state of its own. A channel closes when its last sender or its receiver
is gone, so the model has who holds what: the demodulator's channel is also held
by the DRM supervisor. A block is a number of parts of an Opus frame and where it
comes from; `buf` is `frame_buf`.

**Display, View.** A line of the waterfall is its number. `gl` is the GL side of
the waterfall: the ring of rows, the next row to write, whether the area is
realized. `Resized` and `Upload` are one render, as in the handler. `View` has
`DisplayRange` in tenths and thousandths with the truncation of what is stored,
and `Views` all views that `MaxKnobs` buttons lead to.

The components touch in few places (a token, a channel, a watch), which each
module has as environment actions: the commands that `CatTasks` receives are any
client's, `FireToken` in `Recorder` and `DrmSupervisor` and `Cancel` in `AudioPath`
and `Tuning` are what `Lifecycle!Drain` does, a channel thread of `Lifecycle` is
the command task of `CatTasks`, whose `TasksStop` is what justifies `ThreadEnds`,
and one exchange of `CatTasks` is an exchange of `SerialLink`, whose
`PortGivenBack` is why it ends.

## Runs

| Run | Question | Result |
|---|---|---|
| `cat_tasks` | Does the last command win, is it what clients are shown, does the published state catch up, is every command served, do the tasks stop? `LastCommandWins`, `EchoShowsCommand`, `EchoNeverRegresses`, `PublishedCatchesUp`, `CommandsServed`, `TasksStop` | holds |
| `cat_tasks_ptt` | Does the last of TX and RX win? `LastPttWins` | violated |
| `serial_link` | Is a field filled from the answer to its own query, unless one was late; does the filter fit the mode; is the port given back, does each step of an exchange leave less to do? `FreshUnlessLate`, `FilterOfMode`, `ExchangeShrinks`, `PortGivenBack` | holds |
| `tuning` | Does the client leave the radio alone in IQ mode, does everyone agree in the end, do connections end whose program reads? `HiddenRadioKept`, `AllAgree`, `ConnsEnd` | holds |
| `audio` | Is a switch clean, is the idle source drained, does the mux fall back, does everything end? `SwitchIsClean`, `UsbDrained`, `FallsBack`, `AllEnd` | holds |
| `display` | Are the waterfall's lines in order and the recent ones, is there no IQ spectrum under an audio device, is the window whole? `RowsInOrder`, `PendingIsRecent`, `NoIqUnderAudio`, `WindowWhole` | holds |
| `lifecycle` | Is what main saves the last word, and does it survive the restart, when no aborted half is left? Does a clean stop end, also with one, does a restart request stop the server? `SavedIsLastWord`, `SessionSurvives`, `CleanStopEnds`, `RestartStopsServing` | holds |
| `lifecycle_respawn` | Does selecting a device end the process? `SelectDeviceRespawns` | violated |
| `boot` | Does a pick reach its device, do the two files act as a register that only overlapping saves can spoil? `PickHonoured`, `ActsAsStore` | holds |
| `recorder` | One writer at a time, whole files, clients told, stop and shutdown obeyed? `OneWriter`, `StoppedIsTold`, `RecordingKept`, `StopObeyed`, `ShutdownEnds` | holds |
| `drm` | One bridge, the one asked for, its statuses only, an unload asked for every sink, does a teardown end? `OneBridge`, `StatusFromHeldBridge`, `SinksReleased`, `FollowsAtRest`, `FollowsMode`, `TeardownEnds` | holds |
| `session` | Does a client show the session once nothing is under way, and do clicks stand? `ShowsSession`, `ClicksStand` | holds |

No run checks a type invariant: they are all [proved](#proofs). Every property of a
passing run has a mutant of the code, in the module next to the definition it
changes, under which TLC finds the property violated.

Bounds, all in the `.cfg` files:

- `cat_tasks`: two commands out of two tunes of one register and one of an
  optional register, a channel of two, one change on the panel. Two commands are
  needed to coalesce, or for one to arrive between drain and lock; the panel may
  turn at any point. The safety properties are proved for any number.
- `serial_link`: two exchanges started, that is two polls of up to four queries, or
  a poll and a set command; one turn of the knob, at most three queries
  unanswered. A late answer needs a query given up before the one it is taken for,
  and both may belong to one poll.
- `tuning`: two inputs of people, programs or failures (a click and a lost
  connection, a program and the panel, two programs' lines in both fronts), three
  modes of which one is the demodulator's only, two frequencies, channels of one so
  that full and lagging channels happen at once. The program on the radio's front
  reads its answers, the one on the demodulator's need not.
- `audio`: a frame of two parts, blocks of the demodulator of one, channels of one:
  the smallest sizes where a frame can be half full when the source changes and
  every channel can be full.
- `display`: four frames of two windows, an inbox of two, two pending lines, three
  rows: each buffer overflows. Three devices, one for each way the two tests of an
  audio device can come out, two picks, one fault. Zoom and pan are checked with
  the code's limits over all sequences of fifteen buttons, which reach every view
  there is, both edges of every zoom among them.
- `lifecycle`: one client, whose handler may be in any of its places at any of main's,
  one device that comes and goes, one thread of each kind, two starts, since it takes
  the second to load a saved session. The frequency, which no property speaks of, is
  one. What a second client adds (one holds the state while the other asks to restart,
  halves of both in their last poll) is left to the proofs, which have any number.
- `lifecycle_respawn`: one client and one start are enough for the violation.
- `recorder`: one client, two files, three commands, two recordings of one
  block, a queue of two. Start, start, stop is the longest sequence in which a
  new kind of step happens; a recording's progress is published at its start and
  perhaps after its block. The client comes and goes, so there may be no receiver
  of a status; the safety properties are proved for any number of clients and
  blocks.
- `drm`: three changes of mode or flip and up to three bridges: enough to ask for
  a bridge, change the flip while it is set up and leave the mode while it is torn
  down. The subprocesses are pacat and dream; parec's exit is treated like pacat's.
- `boot`: two cards of which one is the radio's, one client that saves and loads,
  two starts, one pick, one rearrangement, two saves, one kill, three files. Every
  order of those is explored: the pick, a save that overlaps main's or is undone by
  a load, a card that moves before the list, after it, or between probe and open.
  Inodes are interchangeable (`InodeSymmetry`), and states that differ only in what
  can no longer be read (the session of a saver at rest, the contents of an inode no
  name points at, the saver's log line) are one (`Readable`); `alone` of a saver at
  rest is overwritten by its next `Begin`. A third save, alone, that repairs what
  two have spoiled is left to the proof of `Refines`, which has no bound.
- `session`: two clients, one toggle, one device, two things done by users or by
  the world after any saved session, one connection lost or inbox full (a restart
  breaks connections beyond that bound). Two acts are needed for one to overtake
  or undo the other; the clients are interchangeable and no property is about
  liveness, so the run uses symmetry. Both safety properties are proved for any
  number of everything.

`CHECK_DEADLOCK FALSE` is set in all of them: a process that has exited and has
no starts left, tasks that have ended, or users with no inputs left, stop for good.

## Fairness

Only the program's own steps are fair, never what the world or a client does
(commands, panel, hot-plug, disconnections, exits of subprocesses, signals,
kills).

- *Tasks run.* Weak fairness of each task: tokio and the kernel schedule every
  runnable task and thread.
- *A waiter gets the port* (`SF(PollLock)`, `SF(CmdLock)`). std's mutex is not
  fair, but `run_poll` sleeps a whole interval without it and `run_commands` waits
  for its next command without it, so the port is free for long stretches.
- *`IF;` succeeds again and again* (`SF(PollIf)`), or the state cannot catch up.
- *Cancellation is noticed* (`SF(Cancelled)` in `Recorder` and `DrmSupervisor`).
  `select!` without `biased` picks a ready branch at random, so a token that stays
  fired is taken however many commands come.
- *Set-up steps and kills end.* `SUBPROC_SETUP_TIMEOUT` bounds each step of a
  bridge's set-up, and SIGKILL ends a subprocess even if it takes no more input.
- *Client handlers end once main's token fires*: both halves select on it, the
  upstream one with a message as the other branch (`SF(UpEnds)`: one of the two at
  random). An aborted half comes to the end of its poll (`SF(Yields)`): tokio's
  budget lets a poll take only so many messages.
- *Subscribers and channels are served* (`Tuning`): forwarder, tracker, upstream,
  the command task and the tasks of connections run when they can, and an answer is
  written to a program of `Reader`. People and other programs are not fair, nor is a
  line ever read from a program that writes none.
- *Devices return* (`AudioPath`): an IQ transfer, a read of the card and a write to
  ALSA end, with data or an error. The mux is fair to each of its two sources apart,
  as `select!` picks among ready branches at random. That a device fails is never
  assumed.
- *A wait on the port ends* (`SerialLink`): `wait_fd` has a deadline. The radio is
  not fair: it may never answer.

## Findings

1. **TX and RX are not coalesced together** (`cat_tasks_ptt`, `poll.rs:342`). The
   comment at `poll.rs:336` keeps "the last of each prefix (e.g., last FA, last MD,
   last TX/RX)". They are two prefixes: TX, RX, TX drained together runs as TX, RX
   and the radio receives although transmitting was the last thing asked for.
2. **A restart request can hang the server** (`lifecycle_respawn`,
   `main.rs:138`). If a handler still holds the state when `try_unwrap` is tried,
   `run` returns without saving and without firing the pipeline's token;
   `run_poll` never ends and the runtime's drop waits for it. `pipeline.rs:101`
   says the server saves and exits cleanly.

Known divergences, met while modelling, that no run checks:

- *A late toggle is not saved* (`handler.rs:124`). When the downstream half of a
  handler ends first, the handler aborts the upstream half and returns without
  awaiting it. That half has a sender of the snapshot of its own and runs to its
  next await: main may take the pipeline and copy the session (`main.rs:152`) while
  it is still handling a message, and what the message sets is in neither the copy
  nor the file; or it saves the session after main has. `upstream.rs:203` says of a
  decoder that "the client's intent belongs in the snapshot so SaveState / shutdown
  persist it". `Lifecycle` has these steps; they are why `SavedIsLastWord` and
  `SessionSurvives` ask for `alone`.
- *A write error leaves the status active* (`recording.rs:374`). The writer ends
  without a status and the controller is not told; clients show a recording until
  somebody stops it. `pipeline.rs` says the status is inactive when nothing records.
- *The status of a bridge that ended stays* (`pipeline.rs:1419`). The supervisor does
  not watch its bridge, so the status stays and the bridge is not restarted until a
  client changes mode or flip. `pipeline.rs:82` says the status is `None` when no
  bridge is running.
- *A reconnected client keeps the old recording status* (`downstream.rs:51`). The
  greeting leaves it out and subscribing marks it as seen, so a connection lost with
  the message, or a restart, leaves the REC button pressed over a recorder that
  records nothing. `controls.rs:678` says the button tracks the server's status.
- *No CAT port at the start* (`poll.rs:48`). `spawn_cat_tasks` returns and drops the
  command receiver, but the capabilities still promise CAT: the greeting's AGC
  command (`controls.rs:1470`) finds the channel closed, upstream ends the connection
  (`upstream.rs:102`), and the client reconnects at once (`client/src/ws.rs:115`), for
  ever.
- *The control target never is `None`* (`pipeline.rs:1244`). `control_target_for` is
  given the FDM-DUO whatever was picked, so a generic sound card has the radio's
  controls; its doc comment says it has none.
- *Routing does honour the saved device* (`pipeline.rs:351`), which the comment at
  `pipeline.rs:124` says is yet to come; and a device `validate` clears is not
  replaced by "a fresh one" but by the configured default (`persistence.rs:84`). A
  device missing at one start is forgotten for good once that session is saved.
- *The probe does not try the format* (`efd-audio/src/discover.rs:69`): it opens the
  card without hardware parameters, and the capture thread may still fail on what
  its comment says the probe finds. `Boot` has that outcome (`refused`).
- *Every card is listed* (`server/src/discovery.rs:115`), although the comment above it
  speaks of capture-capable cards: one that only plays can be picked, and fails its
  probe (`Boot` has it as a card that refuses).
- *A rigctld program that does not read its answers* (`responder.rs:171`) keeps its
  task and its permit after the token has fired: `write_all` is awaited inside the
  arm that was chosen, out of reach of the `cancelled` arm. `Tuning` has it, as the
  exception of `ConnsEnd`. The sender of the CAT channel it keeps goes with the
  runtime's drop.
- *A null sink nobody unloads* (`drm.rs:843`). A `pactl load-module` that has not
  answered in time is given up and not killed. `DrmSupervisor` has it as a `lost`
  sink.
- *The audio ring drops the newest samples* (`client/src/audio.rs:163`); the comment at
  line 17 still speaks of the drain-oldest logic.

## Proofs

The theorems hold for every value of the constants that the named `ASSUME`s
allow. Each safety theorem rests on type correctness and on an inductive
invariant that the type invariant and the property alone do not give.

| Theorem | Property | Strengthened by |
|---|---|---|
| `CatTasksProofs!TypeCorrect` | `TypeOK` | |
| `CatTasksProofs!LastCommandKept` | `LastCommandWins` | `LastWordInv` |
| `CatTasksProofs!EchoShows` | `EchoShowsCommand` | `FreshEcho`, `LastWordInv` |
| `CatTasksProofs!EchoInOrder` | `EchoNeverRegresses` | `OrderInv` |
| `CatTasksProofs!PublishedTrue` | `PublishedIsTrue` * | `TrueInv`, `OrderInv` |
| `CatTasksProofs!PortNotLeaked` | `PortMoves` * | `PortHeld` |
| `ServerProofs!TypeCorrect` | `TypeOK` | |
| `ServerProofs!SavedLastWord` | `SavedIsLastWord` | `OwnInv` |
| `ServerProofs!SessionKept` | `SessionSurvives` | `OwnInv` |
| `ServerProofs!LateHalves` | `OnlyLateHalves` * | `OwnInv` |
| `ServerProofs!SavedProcessEnds` | `SavedNeverHangs` * | `FiredInv`, `OwnInv` |
| `RecorderProofs!TypeCorrect` | `TypeOK` | |
| `RecorderProofs!OneAtATime` | `OneWriter` | `OwnInv` |
| `RecorderProofs!StopTold` | `StoppedIsTold` | `OwnInv`, `ToldInv` |
| `RecorderProofs!Kept` | `RecordingKept` | `OwnInv`, `FileInv` |
| `RecorderProofs!JoinNotStuck` | `JoinMoves` * | `JoinInv`, `OwnInv` |
| `RecorderProofs!StatusesInOrder` | `StatusInOrder` * | `LastInv`, `OwnInv` |
| `DrmSupervisorProofs!TypeCorrect` | `TypeOK` | |
| `DrmSupervisorProofs!OneAtATime` | `OneBridge` | `HoldInv` |
| `DrmSupervisorProofs!StatusHeld` | `StatusFromHeldBridge` | `HoldInv` |
| `DrmSupervisorProofs!SinksAsked` | `SinksReleased` | `SinkInv`, `HoldInv` |
| `DrmSupervisorProofs!RestsAgreed` | `FollowsAtRest` | `RestInv` |
| `DrmSupervisorProofs!TeardownNotStuck` | `TeardownMoves` * | `EndInv`, `HoldInv` |
| `StateFileProofs!TypeCorrect` | `TypeOK` | |
| `StateFileProofs!Refines` | `ActsAsStore` | `AloneInv` |
| `StateFileProofs!BootTypeCorrect` | `BTypeOK` | |
| `StateFileProofs!PicksHonoured` | `PickHonoured` | `BootInv` |
| `StateFileProofs!BootRefines` | `ActsAsStore` | `BootInv` |
| `SerialLinkProofs!TypeCorrect` | `TypeOK` | `Trying` |
| `SerialLinkProofs!AnswersFresh` | `FreshUnlessLate` | `OnlyMine`, `PollInv` |
| `SerialLinkProofs!FilterFits` | `FilterOfMode` | `OnlyMine`, `PollInv` |
| `SerialLinkProofs!Shrinking` | `ExchangeShrinks` | |
| `ClientProofs!TypeCorrect` | `TypeOK` | |
| `ClientProofs!HiddenKept` | `HiddenRadioKept` | `Hidden` |
| `ClientProofs!AgreementLasts` | `AgreementStays` * | `Calm` |
| `ClientProofs!ConnsHaveThreeSteps` | `ConnsOnlyEnd` * | |
| `ServerProofs!AudioTypeCorrect` | `ATypeOK` | |
| `ServerProofs!SwitchesAreClean` | `SwitchIsClean` | `SwitchInv` |
| `ServerProofs!EndingNotStuck` | `EndingMoves` * | |
| `ServerProofs!EndingIsFinite` | `EndingShrinks` * | |
| `ClientProofs!DisplayTypeCorrect` | `DTypeOK` | `ScreenInv` |
| `ClientProofs!WaitingIsRecent` | `PendingIsRecent` | `ScreenInv` |
| `ClientProofs!RowsAreInOrder` | `RowsInOrder` | `ScreenInv` |
| `ClientProofs!NoIqUnderAnAudioDevice` | `NoIqUnderAudio` | `LiveInv` |
| `ClientProofs!WindowIsWhole` | `WindowWhole` | `Inside` |
| `SessionProofs!TypeCorrect` | `TypeOK` | `Shaped` |
| `SessionProofs!ShowsTheSession` | `ShowsSession` | `Agrees` |
| `SessionProofs!ClicksAlwaysStand` | `ClicksStand` | `Clicks` |

A property with an asterisk, and a type invariant, is proved but not part of a run.
Those with an asterisk are defined in the proof module, next to their theorem.

- *CatTasks.* `LastCommandWins` speaks only of states in which nothing waits, so
  it cannot be inductive. `LastWordInv` follows the last command for a register
  wherever it is: if the channel holds one for it, the last of them carries the
  value asked for; else, if the batch does, the batch; else the radio. Coalescing
  keeps this because a batch never holds two commands of one prefix and, for an
  exclusive register, only commands of its prefix touch it. `FreshEcho` adds that
  what the command task has read of such a register is what the radio holds while
  it owns the port, `OrderInv` that no published version is newer than the one it
  has read.
- *Lifecycle.* `OwnInv`: from the moment `try_unwrap` succeeds no handler holds the
  state, and none is accepted any more, so only halves that were aborted before run
  on; if there was none when main took its copy there never is one again, and the
  copy, then the file, agree with the session in device and toggle. The tracker may
  still change the frequency, which is why the property does not speak of it.
  `LateHalves` is what holds in every case: between `try_unwrap` and the end a
  change of what the clients set, or of the file, is main's own save or the doing of
  an aborted half.
- *Recorder.* `OwnInv` ties every living writer to the controller: it is the
  active recording or the one being joined. `ToldInv` is `StoppedIsTold` for the
  clients still connected; it is kept because, with no recording held, `OwnInv`
  leaves no writer alive that could publish another status. `FileInv`
  says that an ended, unfailed, unsuperseded recording has all its blocks on disk,
  and that a file belongs to the last recording given its name.
- *DrmSupervisor.* `HoldInv`: every bridge, forwarder and status belongs to the
  active bridge or to the one being stopped, and there is never both. `SinkInv`
  says for each step of a bridge which of its null sinks it has the number of: both
  from the first spawn on, so that only a set-up that failed earlier can have lost one.
- *StateFile.* `AloneInv`: a save that ran alone is the only one, the temporary
  name points at the file it has open and then at its whole session, and the two
  names never share a file. Then each step of the files is a step of the register
  or leaves what `load` returns alone, until the rename, which is the commit.
- *Boot.* Every step is a step of the file's module or leaves the file alone
  (`FileStep`), so `IInv` and the refinement carry over. `PickHonoured` speaks of a
  server that is up; `Kept`, the heart of `BootInv`, says where a saved pick is at
  every other moment: in the file and in any save under way, in the list while the
  session is not loaded, in the session, then in the number resolved, then with the
  capture thread. It needs `Picked` (a pick not yet saved is what main will save),
  `Named` (a number that has not moved still names its card) and `AloneInv`: a save
  that is alone when it renames leaves no other that could undo it.
- *SerialLink.* `Trying` bounds the attempts while the loop reads. `OnlyMine`: unless
  an answer of the query's letters was on its way when it was written, every answer
  with these letters anywhere between the radio and the parser is the query's own.
  `InOrder` has the order of the queries within a poll: the filter is asked for after
  the mode it is read with.
- *Tuning.* `Hidden` follows commands that could change the radio's mode or AGC to
  where they wait: in IQ mode no client's command in the CAT channel is one, and no
  connection waits to send one in the client's name.
- *Session.* `ShowsSession` is about states in which nothing is under way;
  `Agrees` says of every state where the latest value is: still to be sent, or
  forgotten, or in the inbox, or in the widgets, but for the toggles a message of
  the client's own queue will still set. `Clicks` says that the last message of a
  queue that sets a toggle has it where its user left it, and that a toggle no
  queue will set is where some user left it; echoing a value the server sent would
  break the first part.
- *AudioPath.* `SwitchIsClean` says nothing of which source the mux encodes.
  `SwitchInv` does: with no change still to be handled, it is the one that the
  routing and the closed channels leave; so a turn of the loop changes it only when
  the one in use has closed, and what `EncodeKeeps` leaves of a frame is of the
  source in use or of one that has closed. A switch that is not handled yet is the
  exception in both.
- *Display.* `ScreenInv` joins the queue before the waterfall to the ring behind it:
  the lines that wait are the last ones pushed, no row of the texture is later than
  the oldest of them, and the ring read from `write_row` is in order. Half a queue
  forgotten, a texture emptied, or a new line over the oldest row each keep it.
  `LiveInv` follows the device list that clears the spectrum: it is still to be
  sent, or was forgotten, or is in the inbox with no frame behind it, or was handled
  and no frame is passed on since.
- *View.* `Inside` bounds every view by what `clamp_pan` leaves, a ten-thousandth
  over the edge at most, which the bins that are drawn round away. Every button
  keeps it, from whichever view, so no sequence of them leaves it.

`Shown`, `Uploaded` and `Views` are recursive functions. That they exist and what
they return is proved by induction over a range: `UpTo` takes the least number an
induction would fail at (`WFMin`), since the library's induction theorems, which
have an operator for parameter, cannot be instantiated; `Recursion` then builds
the function a recursive definition chooses.

Liveness itself is beyond the prover, but a liveness property usually fails because
a safety one does: somebody waits for somebody who cannot move, or comes to rest
with something left to do. Those halves are proved:

- `FollowsAtRest` of `FollowsMode`: a supervisor that waits with no change unread
  has done what was asked. `RestInv` says it all along the supervisor's loop: what
  it has read, or is about to do, is what is asked for, unless a change is unread.
- `TeardownMoves` of `TeardownEnds`: the task a teardown waits for has a step to take
  or has ended, because a bridge kills before it joins and its token is fired.
- `JoinMoves` of `StopObeyed` and `ShutdownEnds`: the join without a deadline is of a
  writer whose token is fired.
- `ExchangeShrinks` of `PortGivenBack`: until the port is given back each step leaves
  less, by the queries, then the attempts, then the pieces still to come, so an
  exchange is finitely many steps, each with its deadline.
- `PortMoves` of `CommandsServed` and `TasksStop`: the port's holder waits for nobody.
- `PublishedIsTrue` of `PublishedCatchesUp`: one publication after the radio's last
  change is enough. It needs `OrderInv`: no reading is newer than the radio, so a
  change makes every reading an old one.
- `SavedNeverHangs` of `CleanStopEnds`: only a process that did not save can wait for
  a thread for ever, which is what `lifecycle_respawn` finds. `FiredInv` has the
  token fired on every path to the save, `OwnInv` the handlers gone, so that the only
  senders left are those of aborted halves, which end with their last poll.
- `AgreementStays` of `AllAgree`: nothing the system does by itself ends an
  agreement, so the ways a state is spread have no loop in them.
- `EndingMoves` and `EndingShrinks` of `AllEnd`: after the token the threads and tasks
  of the audio path never wait in a circle, and once the mux has ended, every step,
  a failure included, leaves less to do. A block is worth the steps it takes from
  where it is to the end of the line.
- `ConnsOnlyEnd` of `ConnsEnd`: after the token a rigctld connection has three steps
  left at most, out of the CAT channel, out of its answer and to its end.

What is left to TLC of these is that the steps are taken.

Only model-checked: liveness (`PublishedCatchesUp`, `CommandsServed`, `TasksStop`,
`CleanStopEnds`, `RestartStopsServing`, `StopObeyed`, `ShutdownEnds`, `FollowsMode`,
`TeardownEnds`, `PortGivenBack`, `AllAgree`, `ConnsEnd`, `UsbDrained`, `FallsBack`,
`AllEnd`), which is out of the prover's reach: it has no rule for `ENABLED`, on
which fairness rests. Every safety property of a run that holds is proved.

## What is not modelled

- Floating-point signal processing, Opus and ALSA, USB transfers, GTK and OpenGL:
  numeric or device code with little control of its own.
- The fixed columns of a CAT answer, the meter's calibration, the filter tables, the
  grid steps and the recorder's calendar: pure conversions with unit tests of their
  own. An answer the parser refuses is one that is missing.
- The DSP-flag propagator and the file-test mode. In that mode the sender of the
  flags is dropped when the start returns (`pipeline.rs:925`) and the mux's wait for
  a change of them returns at every turn; it is a developer's mode without a radio.
- Audio to transmit, and a PTT left on when its client goes (`upstream.rs:127` has no
  end for it).
- A full recorder queue that holds up one session's messages (`upstream.rs:239`): the
  wait is that of one file operation.
- The rate limit of the DRM status (`downstream.rs:130`), which never sends what it
  held back.
- IQ sources other than the FDM-DUO: the server lists and saves them, and captures
  from the FDM-DUO all the same.
- A connection the server still takes messages from when the client has already
  made the next one. `Session` loses such messages; in the code a few could be
  handled late. `ClicksStand` is not claimed once messages were on their way when
  a connection broke.
- Liveness of `Session`: that a client comes to rest is left to the runtime.
- PipeWire: what a `pactl` does once it was started, and two sinks of one name, as
  when the next bridge loads its own before the last one's are gone.
- Time. Timeouts are steps that may be taken; intervals are not measured.

## Plan

What would add most from here, in this order:

1. A start without its devices: `CatTasks` and `Tuning` with the closed command
   channel, and the loop of connections described above as a liveness question.
2. PTT and audio to transmit in the upstream task: who unkeys a radio whose client has
   gone.
3. The DRM status with its rate limit and the error channel in the downstream task,
   added to `Session`.
4. Pure operators: the recorder's calendar and the filter tables, checked against
   reference definitions.
5. The safety half of what is left of liveness: of `RestartStopsServing`, `UsbDrained`
   and `FallsBack`, and a measure for the ends of the tasks and of the recorder as
   there is one for the audio path.
