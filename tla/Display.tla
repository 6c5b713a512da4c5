------------------------------ MODULE Display ------------------------------
(***************************************************************************)
(* From the FFT to the screen.  On the server run_fft averages windows     *)
(* into frames and each client's downstream task passes them on while the  *)
(* routing is IQ (crates/efd-dsp/src/fft.rs, server/src/ws/downstream.rs). *)
(* On the client the network thread fills a bounded inbox, the GTK loop    *)
(* empties it into the shared FFT data and the waterfall's pending lines,  *)
(* and the two GL areas render when GTK says so (client/src/ws.rs,         *)
(* main.rs, ui/waterfall.rs).  View has the part of the span they show.    *)
(*                                                                         *)
(* A line of the waterfall is its number: 1 for the first one pushed.      *)
(***************************************************************************)
EXTENDS View, Sequences

CONSTANTS
  Device,      \* devices a user may pick
  AudioKind,   \* those whose kind is of the audio class (SourceKind::class)
  AudioInput,  \* those active_audio_device takes for an ALSA input
  Averaging,   \* windows per frame
  FftQueue,    \* capacity of the FFT broadcast channel
  MaxQueue,    \* capacity of the client's inbox (MAX_QUEUE)
  MaxPending,  \* lines the waterfall keeps waiting (MAX_PENDING)
  Height,      \* rows of the texture (WF_HEIGHT)
  MaxFrames, MaxPicks, MaxFaults \* bounds: frames, picks, faults

ASSUME DeviceAssumption ==
  AudioKind \subseteq AudioInput /\ AudioInput \subseteq Device /\ "fft" \notin Device
ASSUME SizeAssumption ==
  /\ \A n \in {Averaging, FftQueue, Height} : n \in Nat \ {0}
  /\ MaxQueue \in Nat /\ MaxQueue > 1 /\ MaxPending \in Nat /\ MaxPending > 1
ASSUME CountAssumption == MaxFrames \in Nat /\ MaxPicks \in Nat /\ MaxFaults \in Nat

Blank   == 0     \* a row of a texture nothing was written to
Message == {"fft"} \cup Device
Class(d) == IF d \in AudioKind THEN "audio" ELSE "iq"

VARIABLES
  routing, device, \* audio_source_tx and the active device of the list
  restart,         \* restart_requested_tx
  picking,         \* picks of which only SelectSource was handled so far
  windows, queued, \* windows in the average; frames the downstream has not taken
  listDue,         \* the downstream task has the device list to send
  inbox,           \* what the client has received
  fft,             \* the spectrum has IQ bins to draw (fft_data)
  pending,         \* lines waiting for the waterfall to render
  gl,              \* the waterfall's GL state: realized, rows, write_row, resized
  pushed,          \* history: lines pushed so far
  missed,          \* history: the inbox forgot the latest device list
  half,            \* history: a pick of which only SelectSource arrived
  frames, picks, faults

serving == <<routing, device, restart, picking, windows, queued, listDue, half, frames, picks>>
screen == <<fft, pending, gl, pushed>>
dvars   == <<routing, device, restart, picking, windows, queued, listDue, inbox, fft, pending,
             gl, pushed, missed, half, frames, picks, faults>>

Texture == [1..Height -> Nat]
Empty   == [row \in 1..Height |-> Blank]

DTypeOK ==
  /\ routing \in {"RadioUsb", "SoftwareDemod"} /\ device \in Device
  /\ restart \in BOOLEAN /\ picking \in SUBSET Device
  /\ windows \in 0..(Averaging - 1) /\ queued \in 0..FftQueue /\ listDue \in BOOLEAN
  /\ inbox \in Seq(Message) /\ Len(inbox) <= MaxQueue
  /\ fft \in BOOLEAN
  /\ pending \in Seq(1..pushed) /\ Len(pending) <= MaxPending
  /\ gl \in [realized : BOOLEAN, rows : Texture, write : 1..Height, resized : BOOLEAN]
  /\ pushed \in Nat /\ missed \in BOOLEAN /\ half \in BOOLEAN
  /\ frames \in 0..MaxFrames /\ picks \in 0..MaxPicks /\ faults \in 0..MaxFaults

\* Pipeline::start: where the saved device's sound comes from.
InitialRouting(d) == IF d \in AudioInput THEN "RadioUsb" ELSE "SoftwareDemod"

DInit ==
  /\ device \in Device /\ routing = InitialRouting(device)
  /\ restart = FALSE /\ picking = {}
  /\ windows = 0 /\ queued = 0 /\ listDue = TRUE
  /\ inbox = <<>> /\ fft = FALSE /\ pending = <<>>
  /\ gl = [realized |-> FALSE, rows |-> Empty, write |-> 1, resized |-> FALSE]
  /\ pushed = 0 /\ missed = FALSE /\ half = FALSE
  /\ frames = 0 /\ picks = 0 /\ faults = 0

-----------------------------------------------------------------------------
(* The server.                                                             *)

\* run_fft: the window that completes an average publishes a frame; a full
\* broadcast channel forgets its oldest (Lagged).
Window ==
  /\ frames < MaxFrames
  /\ windows' = (windows + 1) % Averaging
  /\ IF windows' = 0
       THEN frames' = frames + 1 /\ queued' = (IF queued = FftQueue THEN queued ELSE queued + 1)
       ELSE UNCHANGED <<frames, queued>>
  /\ UNCHANGED <<routing, device, restart, picking, listDue, half, picks, inbox, missed, screen, faults>>

\* ws.rs: a full inbox forgets its older half.
Received(m) ==
  LET kept == IF Len(inbox) >= MaxQueue
                THEN SubSeq(inbox, Len(inbox) \div 2 + 1, Len(inbox)) ELSE inbox
      gone == Len(inbox) - Len(kept) IN
    /\ inbox' = Append(kept, m)
    /\ missed' = IF m # "fft" THEN FALSE
                 ELSE missed \/ (\E i \in 1..gone : inbox[i] # "fft")

\* The downstream task drops frames while the sound comes from the radio.
PassFrame ==
  /\ queued > 0 /\ queued' = queued - 1
  /\ IF routing = "RadioUsb" THEN UNCHANGED <<inbox, missed>> ELSE Received("fft")
  /\ UNCHANGED <<routing, device, restart, picking, windows, listDue, half, frames, picks, screen, faults>>

SendList ==
  /\ listDue /\ listDue' = FALSE
  /\ Received(device)
  /\ UNCHANGED <<routing, device, restart, picking, windows, queued, half, frames, picks, screen, faults>>

\* A click in a picker sends SelectSource with the picker's class, then
\* SelectDevice; clicks of several users interleave.
SelectSource(d) ==
  /\ picks < MaxPicks /\ picks' = picks + 1
  /\ routing' = InitialRouting(d)
  /\ picking' = picking \cup {d}
  /\ UNCHANGED <<device, restart, windows, queued, listDue, half, frames, inbox, missed, screen, faults>>

SelectDevice(d) ==
  /\ d \in picking /\ picking' = picking \ {d}
  /\ device' = d
  /\ listDue' = TRUE /\ restart' = TRUE
  /\ UNCHANGED <<routing, windows, queued, half, frames, picks, inbox, missed, screen, faults>>

\* The picker's connection breaks between its two messages.
PickLost(d) ==
  /\ faults < MaxFaults /\ faults' = faults + 1
  /\ d \in picking /\ picking' = picking \ {d}
  /\ half' = TRUE
  /\ UNCHANGED <<routing, device, restart, windows, queued, listDue, frames, picks, inbox, missed, screen>>

\* The viewer's connection breaks and is made again: greeted with the list,
\* subscribed to the frames of from now on.
Reconnected == listDue' = TRUE /\ queued' = 0

ViewerReconnects ==
  /\ faults < MaxFaults /\ faults' = faults + 1
  /\ Reconnected
  /\ UNCHANGED <<routing, device, restart, picking, windows, half, frames, picks, inbox, missed, screen>>

\* The process ends and the next one starts from the device that was picked.
Respawn ==
  /\ restart /\ restart' = FALSE
  /\ routing' = InitialRouting(device)
  /\ picking' = {} /\ half' = FALSE /\ windows' = 0
  /\ Reconnected
  /\ UNCHANGED <<device, frames, picks, inbox, missed, screen, faults>>

-----------------------------------------------------------------------------
(* The GTK loop.                                                           *)

\* MUTANT of PushLine: drops the newer half.
PushLineMutant(p, line) ==
  Append(IF Len(p) >= MaxPending THEN SubSeq(p, 1, Len(p) \div 2) ELSE p, line)

PushLine(p, line) ==
  Append(IF Len(p) >= MaxPending THEN SubSeq(p, Len(p) \div 2 + 1, Len(p)) ELSE p, line)

\* MUTANT of Show: the device list leaves the spectrum alone.
ShowMutant(s, m) ==
  IF m = "fft" THEN [fft |-> TRUE, pending |-> PushLine(s.pending, s.pushed + 1), pushed |-> s.pushed + 1]
  ELSE s

\* What one message does to the screen's data.
Show(s, m) ==
  IF m = "fft" THEN [fft |-> TRUE, pending |-> PushLine(s.pending, s.pushed + 1), pushed |-> s.pushed + 1]
  ELSE IF Class(m) = "audio" THEN [s EXCEPT !.fft = FALSE]
  ELSE s

\* The screen's data after each message of msgs in turn.
Shown(s, msgs) ==
  LET after[n \in 0..Len(msgs)] == IF n = 0 THEN s ELSE Show(after[n - 1], msgs[n])
  IN  after[Len(msgs)]

\* The 16 ms tick takes the whole inbox.
Tick ==
  /\ inbox # <<>> /\ inbox' = <<>>
  /\ LET s == Shown([fft |-> fft, pending |-> pending, pushed |-> pushed], inbox) IN
       fft' = s.fft /\ pending' = s.pending /\ pushed' = s.pushed
  /\ UNCHANGED <<serving, missed, gl, faults>>

-----------------------------------------------------------------------------
(* The waterfall: a texture used as a ring, drawn from write_row upwards.  *)

Realize ==
  /\ ~gl.realized
  /\ gl' = [realized |-> TRUE, rows |-> Empty, write |-> 1, resized |-> FALSE]
  /\ UNCHANGED <<serving, inbox, missed, fft, pending, pushed, faults>>

Unrealize ==
  /\ gl.realized
  /\ gl' = [gl EXCEPT !.realized = FALSE]
  /\ UNCHANGED <<serving, inbox, missed, fft, pending, pushed, faults>>

\* The area gets another width; render notices.
Resize ==
  /\ gl.realized /\ ~gl.resized
  /\ gl' = [gl EXCEPT !.resized = TRUE]
  /\ UNCHANGED <<serving, inbox, missed, fft, pending, pushed, faults>>

\* MUTANT of Resized: write_row is reset, the old rows stay.
ResizedMutant(g) == IF g.resized THEN [g EXCEPT !.write = 1, !.resized = FALSE] ELSE g

\* A new width allocates the texture anew and starts it from its first row.
Resized(g) == IF g.resized THEN [g EXCEPT !.rows = Empty, !.write = 1, !.resized = FALSE] ELSE g

Upload(g, line) == [g EXCEPT !.rows[g.write] = line, !.write = (@ % Height) + 1]

\* The texture after each line of lines in turn.
Uploaded(g, lines) ==
  LET after[n \in 0..Len(lines)] == IF n = 0 THEN g ELSE Upload(after[n - 1], lines[n])
  IN  after[Len(lines)]

Render ==
  /\ gl.realized
  /\ gl' = Uploaded(Resized(gl), pending)
  /\ pending' = <<>>
  /\ UNCHANGED <<serving, inbox, missed, fft, pushed, faults>>

-----------------------------------------------------------------------------
Server ==
  \/ Window \/ PassFrame \/ SendList \/ ViewerReconnects \/ Respawn
  \/ \E d \in Device : SelectSource(d) \/ SelectDevice(d) \/ PickLost(d)

Gtk == Tick \/ Realize \/ Unrealize \/ Resize \/ Render

DNext == Server \/ Gtk

DSpec == DInit /\ [][DNext]_dvars

-----------------------------------------------------------------------------
(* Properties.                                                             *)

\* Row i of the screen from the bottom, as the shader's offset reads it.
OnScreen(i) == gl.rows[((gl.write - 1 + i - 1) % Height) + 1]

\* The waterfall runs downwards: whatever was resized, hidden or skipped,
\* a row above another is a later line, blank rows are at the bottom, and
\* with nothing pending the top row is the last line pushed or blank.
RowsInOrder ==
  /\ \A i \in 1..(Height - 1) :
       OnScreen(i) < OnScreen(i + 1) \/ OnScreen(i) = Blank
  /\ pending = <<>> /\ gl.realized => OnScreen(Height) \in {Blank, pushed}

\* Lines are lost from the old end only: what waits for the waterfall is the
\* last lines pushed, without a gap.
PendingIsRecent ==
  \A i \in DOMAIN pending : pending[i] = pushed - Len(pending) + i

\* Once an audio device is active and its routing in place, with every
\* message to the client handled, no IQ spectrum is left on the screen, even
\* when users pick at once ("so the display isn't lying about what's live").
NoIqUnderAudio ==
  /\ routing = "RadioUsb" /\ Class(device) = "audio"
  /\ ~restart /\ ~half /\ picking = {}
  /\ ~listDue /\ inbox = <<>> /\ ~missed
  => ~fft

\* However zoom and pan were combined before a frame is drawn, the window the
\* two areas show is whole (Whole in View).
WindowWhole == fft => AllWhole
=============================================================================
