----------------------------- MODULE AudioPath -----------------------------
(***************************************************************************)
(* Audio from the radio to the local loudspeaker: IQ capture, noise        *)
(* blanker and software demodulator on one side, the sound card or a file  *)
(* on the other, the mux that encodes the one or the other                 *)
(* (server/src/pipeline.rs), the bridge that decodes for ALSA, and ALSA.   *)
(*                                                                         *)
(* Threads block on their channel and see the token once an iteration;     *)
(* async tasks see it whenever they select.  A channel is closed when the  *)
(* last holder of a sender, or the receiver, is gone, so how a task ends   *)
(* is part of how the next one does.  The channel of the raw IQ never      *)
(* closes before the token: the recorder holds a sender of it for good.    *)
(*                                                                         *)
(* What a block holds is left out but for its length, counted in parts of  *)
(* an Opus frame, and where it comes from.                                 *)
(***************************************************************************)
EXTENDS Integers, Sequences

CONSTANTS
  FrameSize,  \* parts of a frame (OPUS_FRAME_SIZE); a block of the card is one
  DemodSize,  \* parts of a block of the demodulator
  Capacity,   \* of the channels between two tasks (64)
  Lag         \* of the broadcast channels (16, 32)

ASSUME SizeAssumption  == FrameSize \in Nat \ {0} /\ DemodSize \in 1..FrameSize
ASSUME QueueAssumption == Capacity \in Nat \ {0} /\ Lag \in Nat \ {0}

Source == {"demod", "usb"}  \* AudioRouting
Other(s) == IF s = "demod" THEN "usb" ELSE "demod"

VARIABLES
  iq,       \* the capture thread: "open", "run" or "done"
  nb,       \* the noise blanker
  clean,    \* blanked blocks the demodulator has not taken
  demod,    \* the demodulator's thread
  drm,      \* the DRM supervisor, which holds a sender of the demodulator's channel
  usb,      \* the thread of the card or the file: "read", "send" or "done"
  queue,    \* per source: sizes of the blocks sent to the mux
  mux,      \* the mux
  alive,    \* per source: demod_alive, usb_alive
  routing,  \* the value of source_rx
  seen,     \* the mux has handled its last change
  source,   \* what the mux encodes in this turn of its loop
  buf,      \* frame_buf: per part, its source
  chunks,   \* Opus frames the bridge has not taken
  bridge,   \* alsa_bridge: "recv", "send" or "done"
  speaker,  \* blocks sent to ALSA
  alsa,     \* ALSA's thread
  cancelled

capture == <<iq, nb, clean, demod, drm>>
mixer   == <<mux, alive, routing, seen, source, buf>>
play    == <<bridge, speaker, alsa>>
avars == <<capture, usb, queue, mixer, chunks, play, cancelled>>

ATypeOK ==
  /\ iq \in {"open", "run", "done"} /\ nb \in {"run", "done"} /\ demod \in {"run", "done"}
  /\ drm \in {"run", "done"} /\ mux \in {"run", "done"}
  /\ clean \in 0..Lag /\ chunks \in 0..Lag
  /\ usb \in {"read", "send", "done"}
  /\ queue \in [Source -> Seq(1..FrameSize)]
  /\ \A s \in Source : Len(queue[s]) <= Capacity
  /\ alive \in [Source -> BOOLEAN] /\ routing \in Source /\ seen \in BOOLEAN /\ source \in Source
  /\ buf \in Seq(Source) /\ Len(buf) < FrameSize
  /\ bridge \in {"recv", "send", "done"} /\ alsa \in {"run", "done"}
  /\ speaker \in 0..Capacity
  /\ cancelled \in BOOLEAN

\* The pipeline as it starts: with or without a card that answers the probe
\* or a file, with or without an Opus encoder, and a decoder.
AInit ==
  /\ iq = "open" /\ nb = "run" /\ clean = 0 /\ demod = "run" /\ drm = "run"
  /\ usb \in {"read", "done"}
  /\ queue = [s \in Source |-> <<>>]
  /\ mux \in {"run", "done"} /\ alive = [s \in Source |-> TRUE]
  /\ routing \in Source /\ (mux = "done" => routing = "usb")
  /\ seen = TRUE /\ source = routing /\ buf = <<>>
  /\ chunks = 0
  /\ bridge \in {"recv", "done"} /\ speaker = 0 /\ alsa = "run"
  /\ cancelled = FALSE

\* What a thread does at the top of its loop.
AtTop(state) == IF cancelled THEN "done" ELSE state

\* A broadcast channel forgets the oldest, and a receiver that is gone all.
Broadcast(n, more, receiver) ==
  IF receiver = "done" THEN 0 ELSE IF n + more > Lag THEN Lag ELSE n + more

-----------------------------------------------------------------------------
(* IQ capture, noise blanker, demodulator.                                 *)

\* The device is found and claimed, and its FIFO started.
IqOpen ==
  /\ iq = "open" /\ iq' = "run"
  /\ UNCHANGED <<nb, clean, demod, drm, usb, queue, mixer, chunks, play, cancelled>>

\* A block is read and the noise blanker passes it on.
IqBlock ==
  /\ iq = "run" /\ ~cancelled /\ nb = "run"
  /\ clean' = Broadcast(clean, 1, demod)
  /\ UNCHANGED <<iq, nb, demod, drm, usb, queue, mixer, chunks, play, cancelled>>

\* A device that cannot be opened, refuses the FIFO or is gone.
IqFails ==
  /\ iq # "done" /\ iq' = "done"
  /\ UNCHANGED <<nb, clean, demod, drm, usb, queue, mixer, chunks, play, cancelled>>

IqCancelled ==
  /\ iq = "run" /\ cancelled /\ iq' = "done"
  /\ UNCHANGED <<nb, clean, demod, drm, usb, queue, mixer, chunks, play, cancelled>>

NbEnds ==
  /\ cancelled /\ nb = "run" /\ nb' = "done"
  /\ UNCHANGED <<iq, clean, demod, drm, usb, queue, mixer, chunks, play, cancelled>>

\* In a mode with audio of its own, not DRM.  try_send: without room the
\* block is dropped.
Demodulate ==
  /\ demod = "run" /\ clean > 0
  /\ demod' = IF mux = "done" THEN "done" ELSE AtTop("run")
  /\ clean' = IF demod' = "done" THEN 0 ELSE clean - 1
  /\ queue' = IF mux = "run" /\ Len(queue["demod"]) < Capacity
                THEN [queue EXCEPT !["demod"] = Append(@, DemodSize)] ELSE queue
  /\ UNCHANGED <<iq, nb, drm, usb, mixer, chunks, play, cancelled>>

\* blocking_recv ends with the last sender, the blanker's.
DemodClosed ==
  /\ demod = "run" /\ clean = 0 /\ nb = "done" /\ demod' = "done"
  /\ UNCHANGED <<iq, nb, clean, drm, usb, queue, mixer, chunks, play, cancelled>>

DrmEnds ==
  /\ cancelled /\ drm = "run" /\ drm' = "done"
  /\ UNCHANGED <<iq, nb, clean, demod, usb, queue, mixer, chunks, play, cancelled>>

-----------------------------------------------------------------------------
(* The card or the file.                                                   *)

UsbRead ==
  /\ usb = "read" /\ usb' = "send"
  /\ UNCHANGED <<capture, queue, mixer, chunks, play, cancelled>>

\* The card's thread looks at the token before every block, a file's only
\* between packets, of several frames.
UsbCancelled ==
  /\ usb = "read" /\ cancelled /\ usb' = "done"
  /\ UNCHANGED <<capture, queue, mixer, chunks, play, cancelled>>

\* The card is gone and recover() fails, or the file is at its end or cannot
\* be decoded.
UsbEnds ==
  /\ usb = "read" /\ usb' = "done"
  /\ UNCHANGED <<capture, queue, mixer, chunks, play, cancelled>>

\* blocking_send: waits for room, fails without a receiver.  What is left of
\* a file at its end is less than a frame, and the last block.
UsbSent ==
  /\ usb = "send"
  /\ \/ mux = "done" /\ usb' = "done" /\ UNCHANGED queue
     \/ /\ mux = "run" /\ Len(queue["usb"]) < Capacity
        /\ \E n \in 1..FrameSize :
             /\ queue' = [queue EXCEPT !["usb"] = Append(@, n)]
             /\ usb' = IF n < FrameSize THEN "done" ELSE "read"
  /\ UNCHANGED <<capture, mixer, chunks, play, cancelled>>

-----------------------------------------------------------------------------
(* encode_audio_mux.                                                       *)

\* The audio_source_tx of a client's SelectSource.
Select(s) ==
  /\ mux = "run" /\ routing' = s /\ seen' = FALSE
  /\ UNCHANGED <<capture, usb, queue, mux, alive, source, buf, chunks, play, cancelled>>

\* MUTANT of Effective: no fallback.
EffectiveMutant(open) == routing'

\* The source of the next turn: the other one when the channel of the
\* selected is closed.
Effective(open) == IF open[routing'] THEN routing' ELSE Other(routing')

\* MUTANT of MuxSwitch: what the old source left in frame_buf stays there.
MuxSwitchMutant ==
  /\ mux = "run" /\ ~seen /\ seen' = TRUE
  /\ UNCHANGED <<capture, usb, queue, mux, alive, routing, buf, chunks, play, cancelled>>
  /\ source' = Effective(alive)

MuxSwitch ==
  /\ mux = "run" /\ ~seen /\ seen' = TRUE
  /\ buf' = <<>>
  /\ UNCHANGED <<capture, usb, queue, mux, alive, routing, chunks, play, cancelled>>
  /\ source' = Effective(alive)

\* encode_samples: whole frames go out, the rest stays in frame_buf.
Encode(s, n) ==
  LET parts == buf \o [i \in 1..n |-> s]
      whole == Len(parts) \div FrameSize IN
  /\ buf' = SubSeq(parts, whole * FrameSize + 1, Len(parts))
  /\ chunks' = Broadcast(chunks, whole, bridge)

\* MUTANT of MuxBlock: a source that is not in use is not read.
MuxBlockMutant(s) ==
  /\ mux = "run" /\ queue[s] # <<>> /\ s = source
  /\ queue' = [queue EXCEPT ![s] = Tail(@)]
  /\ Encode(s, Head(queue[s]))
  /\ UNCHANGED <<capture, usb, mux, alive, routing, seen, play, cancelled>>
  /\ source' = Effective(alive)

\* Both sources are read, one is encoded.  A block can come before the mux
\* handles the change of the routing that the next turn already goes by.
MuxBlock(s) ==
  /\ mux = "run" /\ queue[s] # <<>>
  /\ queue' = [queue EXCEPT ![s] = Tail(@)]
  /\ IF s = source THEN Encode(s, Head(queue[s])) ELSE UNCHANGED <<buf, chunks>>
  /\ UNCHANGED <<capture, usb, mux, alive, routing, seen, play, cancelled>>
  /\ source' = Effective(alive)

\* Whether a sender for s is left.
SenderHeld(s) == IF s = "usb" THEN usb # "done" ELSE demod # "done" \/ drm # "done"

MuxClosed(s) ==
  /\ mux = "run" /\ alive[s] /\ queue[s] = <<>> /\ ~SenderHeld(s)
  /\ alive' = [alive EXCEPT ![s] = FALSE]
  /\ UNCHANGED <<capture, usb, queue, mux, routing, seen, buf, chunks, play, cancelled>>
  /\ source' = Effective(alive')

\* Both receivers go with it, and what it kept.
MuxEnds ==
  /\ mux = "run" /\ cancelled /\ mux' = "done"
  /\ queue' = [s \in Source |-> <<>>] /\ buf' = <<>>
  /\ alive' = [s \in Source |-> TRUE] /\ seen' = TRUE
  /\ routing' = "usb" /\ source' = "usb"
  /\ UNCHANGED <<capture, usb, chunks, play, cancelled>>

-----------------------------------------------------------------------------
(* decode_audio_for_alsa and run_alsa.                                     *)

BridgeRecv ==
  /\ bridge = "recv"
  /\ \/ chunks > 0 /\ chunks' = chunks - 1 /\ bridge' = "send"
     \/ cancelled /\ bridge' = "done" /\ chunks' = 0
  /\ UNCHANGED <<capture, usb, queue, mixer, speaker, alsa, cancelled>>

\* MUTANT of BridgeSent: the bridge does not notice that ALSA is gone.
BridgeSentMutant ==
  /\ bridge = "send" /\ speaker < Capacity
  /\ speaker' = speaker + 1 /\ bridge' = "recv"
  /\ UNCHANGED <<capture, usb, queue, mixer, chunks, alsa, cancelled>>

\* It waits for room without the token.
BridgeSent ==
  /\ bridge = "send"
  /\ \/ /\ alsa = "run" /\ speaker < Capacity /\ speaker' = speaker + 1
        /\ bridge' = "recv" /\ UNCHANGED chunks
     \/ /\ alsa = "done" /\ bridge' = "done" /\ chunks' = 0 /\ UNCHANGED speaker
  /\ UNCHANGED <<capture, usb, queue, mixer, alsa, cancelled>>

\* blocking_recv: a block, which is written, or the end of the bridge.
AlsaPlay ==
  /\ alsa = "run"
  /\ \/ /\ speaker > 0 /\ alsa' = AtTop("run")
        /\ speaker' = IF alsa' = "done" THEN 0 ELSE speaker - 1
     \/ speaker = 0 /\ bridge = "done" /\ alsa' = "done" /\ UNCHANGED speaker
  /\ UNCHANGED <<capture, usb, queue, mixer, chunks, bridge, cancelled>>

\* The device cannot be opened, or recover() fails.
AlsaFails ==
  /\ alsa = "run" /\ alsa' = "done" /\ speaker' = 0
  /\ UNCHANGED <<capture, usb, queue, mixer, chunks, bridge, cancelled>>

Cancel ==
  /\ ~cancelled /\ cancelled' = TRUE
  /\ UNCHANGED <<capture, usb, queue, mixer, chunks, play>>

-----------------------------------------------------------------------------
ANext ==
  \/ IqOpen \/ IqBlock \/ IqFails \/ IqCancelled \/ NbEnds
  \/ Demodulate \/ DemodClosed \/ DrmEnds
  \/ UsbRead \/ UsbCancelled \/ UsbEnds \/ UsbSent
  \/ \E s \in Source : Select(s) \/ MuxBlock(s) \/ MuxClosed(s)
  \/ MuxSwitch \/ MuxEnds
  \/ BridgeRecv \/ BridgeSent \/ AlsaPlay \/ AlsaFails
  \/ Cancel

\* The radio and the card deliver, the devices' calls return, and tasks and
\* threads run.  The device opens or fails.  Nothing else has to fail.
AFairness ==
  /\ WF_avars((iq = "open" /\ (IqOpen \/ IqFails)) \/ IqBlock \/ IqCancelled)
  /\ WF_avars(NbEnds) /\ WF_avars(Demodulate \/ DemodClosed) /\ WF_avars(DrmEnds)
  /\ WF_avars(UsbRead \/ UsbSent)
  /\ \A s \in Source : WF_avars(MuxBlock(s) \/ MuxClosed(s))
  /\ WF_avars(MuxSwitch) /\ WF_avars(MuxEnds)
  /\ WF_avars(BridgeRecv \/ BridgeSent) /\ WF_avars(AlsaPlay)

ASpec == AInit /\ [][ANext]_avars /\ AFairness

-----------------------------------------------------------------------------
\* Once the mux has handled a switch, frame_buf holds nothing of the source
\* it left, so that no frame mixes the two: only a switch still to be handled,
\* or the fallback from a source that is closed, leaves parts of another.
SwitchIsClean ==
  mux = "run" /\ seen =>
    \A i \in DOMAIN buf : buf[i] = source \/ ~alive[buf[i]]

\* "Both sources are always drained to prevent backpressure on the idle
\* one": the card's thread is never stuck in blocking_send, whichever source
\* is selected.
UsbDrained == usb = "send" ~> usb # "send"

\* With the card or the file gone and selected, the mux falls back to the
\* demodulator while there is IQ, and keeps encoding it.
FallsBack ==
  <>[](routing = "usb" /\ usb = "done" /\ iq = "run" /\ demod = "run"
       /\ mux = "run" /\ ~cancelled)
  => []<><<source = "demod" /\ MuxBlock("demod")>>_avars

\* After the token every task and thread ends, those that block in a channel
\* included: each is woken by the end of another.  The devices' reads
\* and writes have to return.
AllEnd ==
  cancelled ~>
    /\ iq = "done" /\ nb = "done" /\ demod = "done" /\ drm = "done" /\ usb = "done"
    /\ mux = "done" /\ bridge = "done" /\ alsa = "done"

=============================================================================
