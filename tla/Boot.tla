-------------------------------- MODULE Boot --------------------------------
(***************************************************************************)
(* What a device pick comes to.  SelectDevice only notes the device in the *)
(* session and asks for a restart; main saves the session, the process     *)
(* ends, and the next one enumerates what it finds (server/src/            *)
(* discovery.rs), loads the session, clears a device that is gone, probes  *)
(* the sound card and opens it (server/src/main.rs, pipeline.rs).  Between *)
(* those steps cards come, go, change their number and are taken by other  *)
(* programs, clients save and load the session, and the process is killed. *)
(* The file is StateFile's, step for step.                                 *)
(*                                                                         *)
(* A sound card is known to the server by its number alone ("hw:N,0"); the *)
(* kernel gives a new card the lowest free one.  The radio's IQ side is    *)
(* known by its serial.  The configuration is the default one ("auto").    *)
(***************************************************************************)
EXTENDS StateFile

CONSTANTS
  Number, NoNumber,   \* card numbers
  Card, NoCard,       \* sound cards
  FdmCard,            \* the one inside the FDM-DUO
  IqSide, Replay,     \* device ids: the FDM-DUO's IQ interface, file replay
  Main,               \* the saver that is main; the others are clients'
  MaxStarts, MaxPicks, MaxChanges  \* bounds: starts, picks, changes of the world

ASSUME DeviceIds == /\ Number \subseteq Nat /\ Device = Number \cup {IqSide, Replay}
                    /\ {IqSide, Replay, NoNumber} \cap Number = {}
ASSUME Cards     == FdmCard \in Card /\ NoCard \notin Card
ASSUME MainSaves == Main \in Saver
ASSUME TunesExist == Tune # {}
ASSUME BootBounds == MaxStarts \in Nat /\ MaxPicks \in Nat /\ MaxChanges \in Nat

VARIABLES
  slots,              \* the card of each number
  phase,              \* of the process
  listed, seen,       \* the device list; history: the card each number named then
  active, snap,       \* the list's active device, the session's
  rx, thread, capture,\* the card number resolved, the capture thread, the card it has open
  wish,               \* history: the last pick and what has come of it
  starts, picks, changes

process == <<phase, listed, seen, active, snap, rx, thread, capture>>
counts  == <<starts, picks, changes>>
bvars   == <<vars, slots, process, wish, counts>>

Plugged(c) == \E n \in Number : slots[n] = c

\* enumerate(): every card, the radio's IQ side, and the replay placeholder.
Enumerated ==
  {n \in Number : slots[n] # NoCard} \cup {Replay} \cup {d \in {IqSide} : Plugged(FdmCard)}

\* The session a snapshot is, for the file.
Snapshot == [tune |-> CHOOSE t \in Tune : TRUE, device |-> snap]

\* The numbers the kernel may have given: one card per number.
Arrangements ==
  {f \in [Number -> Card \cup {NoCard}] :
     \A m, n \in Number : m # n /\ f[m] = f[n] => f[m] = NoCard}

BInit ==
  /\ Init
  /\ slots \in Arrangements
  /\ phase = "down" /\ listed = {} /\ seen = [n \in Number |-> NoCard]
  /\ active = NoDevice /\ snap = NoDevice
  /\ rx = NoNumber /\ thread = "none" /\ capture = NoCard
  /\ wish = [device |-> NoDevice, card |-> NoCard, stage |-> "none", moved |-> FALSE]
  /\ starts = 0 /\ picks = 0 /\ changes = 0

-----------------------------------------------------------------------------
(* The world.                                                              *)

\* Cards are plugged and unplugged, or the machine is started again: any of
\* them may be gone, be new, or have another number.
Replug(f) ==
  /\ changes < MaxChanges /\ changes' = changes + 1
  /\ slots' = f
  /\ wish' = [wish EXCEPT !.moved = @ \/ (wish.device \in Number /\ f[wish.device] # slots[wish.device])]
  /\ UNCHANGED <<vars, process, starts, picks>>

-----------------------------------------------------------------------------
(* A start.                                                                *)

Discover ==
  /\ phase = "down" /\ phase' = "found"
  /\ starts < MaxStarts /\ starts' = starts + 1
  /\ listed' = Enumerated /\ seen' = slots
  /\ wish' = [wish EXCEPT !.stage = IF wish.device \in listed' THEN @ ELSE "lost"]
  /\ UNCHANGED <<vars, slots, active, snap, rx, thread, capture, picks, changes>>

\* validate(): a saved device that is not in the list is cleared.
Validated(d) == IF d \in listed THEN d ELSE NoDevice

Restore ==
  /\ phase = "found" /\ phase' = "loaded"
  /\ snap' = (IF Loaded = NoSession THEN NoDevice ELSE Validated(Loaded.device))
  /\ active' = snap'
  /\ UNCHANGED <<vars, slots, listed, seen, rx, thread, capture, wish, counts>>

\* resolve_device("auto"): the sound card on the radio's own hub.
HubCard == IF Plugged(FdmCard) THEN CHOOSE n \in Number : slots[n] = FdmCard ELSE NoNumber

\* active_audio_device, or else the configured one.
RxSource == IF snap \in Number THEN snap ELSE HubCard

Resolve ==
  /\ phase = "loaded" /\ phase' = "resolved"
  /\ rx' = RxSource
  /\ UNCHANGED <<vars, slots, listed, seen, active, snap, thread, capture, wish, counts>>

\* A card that is there may still be refused: another program has it open, or
\* it cannot do what is asked of it.
Opens(n, state) ==
  IF n \in Number /\ slots[n] # NoCard THEN thread' \in {state, "refused"} ELSE thread' = "none"

\* probe_capture opens the card and closes it again; without it there is no
\* capture thread, and clients are told that there is no USB audio.
Probe ==
  /\ phase = "resolved" /\ phase' = "up"
  /\ Opens(rx, "opening")
  /\ UNCHANGED <<vars, slots, listed, seen, active, snap, rx, capture, wish, counts>>

\* run_usb_rx opens it for good, and in stereo, which the probe did not ask for.
OpenCapture ==
  /\ thread = "opening"
  /\ Opens(rx, "open")
  /\ capture' = IF thread' = "open" THEN slots[rx] ELSE NoCard
  /\ UNCHANGED <<vars, slots, phase, listed, seen, active, snap, rx, wish, counts>>

\* A card that was unplugged makes the read fail.
CaptureFails ==
  /\ thread = "open" /\ ~Plugged(capture)
  /\ thread' = "none" /\ capture' = NoCard
  /\ UNCHANGED <<vars, slots, phase, listed, seen, active, snap, rx, wish, counts>>

-----------------------------------------------------------------------------
(* What clients do.                                                        *)

Enumerate ==
  /\ phase = "up"
  /\ listed' = Enumerated /\ seen' = slots
  /\ UNCHANGED <<vars, slots, phase, active, snap, rx, thread, capture, wish, counts>>

\* MUTANT of SelectDevice: the pick is noted in the device list only.
SelectDeviceMutant(d) == active' = d /\ UNCHANGED snap

SelectDevice(d) == active' = d /\ snap' = d

\* Any device is taken, as a client may pick from a list that is out of date.
\* The restart that SelectDevice asks for may come late: see Stop.
Pick(d) ==
  /\ phase = "up"
  /\ picks < MaxPicks /\ picks' = picks + 1
  /\ SelectDevice(d)
  /\ LET card == IF d \in Number THEN seen[d] ELSE NoCard IN
       wish' = [device |-> d, card |-> card, stage |-> "picked",
                moved |-> d \in Number /\ slots[d] # card]
  /\ UNCHANGED <<vars, slots, phase, listed, seen, rx, thread, capture, starts, changes>>

\* LoadState: the last saved session, with the device it has, replaces the
\* one in memory, and a pick that is not saved yet with it.
LoadState ==
  /\ phase = "up" /\ Loaded # NoSession
  /\ snap' = Validated(Loaded.device)
  /\ wish' = [wish EXCEPT !.stage = IF wish.stage = "kept" /\ wish.device \in listed THEN @ ELSE "lost"]
  /\ UNCHANGED <<vars, slots, phase, listed, seen, active, rx, thread, capture, counts>>

\* SaveState of a client: nothing keeps it from overlapping another's.
SaveState(p) ==
  /\ phase = "up" /\ p # Main
  /\ Begin(p, Snapshot)
  /\ wish' = [wish EXCEPT !.stage = IF wish.stage = "kept" /\ Busy # {} THEN "lost" ELSE @]
  /\ UNCHANGED <<slots, process, counts>>

-----------------------------------------------------------------------------
(* The end of a process.                                                   *)

\* A signal or the restart a pick asks for: the handlers end, and main saves
\* the session they leave.  A save may still be running.
Stop ==
  /\ phase = "up" /\ phase' = "saving"
  /\ Begin(Main, Snapshot)
  /\ wish' = [wish EXCEPT !.stage = IF wish.stage = "kept" /\ Busy # {} THEN "lost" ELSE @]
  /\ UNCHANGED <<slots, listed, seen, active, snap, rx, thread, capture, counts>>

SaveWorks(p) ==
  /\ Create(p) \/ Truncate(p) \/ Write(p) \/ WriteFails(p) \/ Fails(p)
  /\ UNCHANGED <<slots, process, wish, counts>>

SaveEnds(p) ==
  /\ Rename(p)
  /\ wish' = [wish EXCEPT !.stage = IF p = Main /\ alone[p] /\ @ = "picked" THEN "kept" ELSE @]
  /\ UNCHANGED <<slots, process, counts>>

\* What the process had in memory is gone.
Ended ==
  /\ phase' = "down" /\ thread' = "none" /\ capture' = NoCard
  /\ listed' = {} /\ seen' = [n \in Number |-> NoCard]
  /\ active' = NoDevice /\ snap' = NoDevice /\ rx' = NoNumber
  /\ wish' = [wish EXCEPT !.stage = IF @ = "picked" THEN "lost" ELSE @]

\* The runtime waits for a task that is saving.
Exit ==
  /\ phase = "saving" /\ Busy = {}
  /\ Ended
  /\ UNCHANGED <<vars, slots, counts>>

\* Killed, or returned without saving because a handler outlived the server.
Kill ==
  /\ phase # "down"
  /\ Ended
  /\ (IF Busy = {} THEN UNCHANGED vars ELSE Crash)
  /\ UNCHANGED <<slots, counts>>

-----------------------------------------------------------------------------
World == \E f \in Arrangements : Replug(f)

Start == Discover \/ Restore \/ Resolve \/ Probe \/ OpenCapture \/ CaptureFails

Clients == Enumerate \/ LoadState \/ (\E d \in Device : Pick(d)) \/ (\E p \in Saver : SaveState(p))

Finishes == Stop \/ Exit \/ Kill \/ \E p \in Saver : SaveWorks(p) \/ SaveEnds(p)

BNext == World \/ Start \/ Clients \/ Finishes

BSpec == BInit /\ [][BNext]_bvars

-----------------------------------------------------------------------------
(* Properties.                                                             *)

BTypeOK ==
  /\ TypeOK
  /\ slots \in [Number -> Card \cup {NoCard}]
  /\ phase \in {"down", "found", "loaded", "resolved", "up", "saving"}
  /\ listed \subseteq Device /\ seen \in [Number -> Card \cup {NoCard}]
  /\ active \in Device \cup {NoDevice} /\ snap \in Device \cup {NoDevice}
  /\ rx \in Number \cup {NoNumber} /\ thread \in {"none", "opening", "open", "refused"}
  /\ capture \in Card \cup {NoCard}
  /\ wish \in [device : Device \cup {NoDevice}, card : Card \cup {NoCard},
               stage : {"none", "picked", "kept", "lost"}, moved : BOOLEAN]
  /\ starts \in 0..MaxStarts /\ picks \in 0..MaxPicks /\ changes \in 0..MaxChanges

\* A pick reaches its device ("the service comes back with the newly-selected
\* device active").  If main saved it, with no other save at the same time, and
\* it was listed at every start since, the server comes up with it active; and
\* if it is a sound card that kept its number, that very card is captured,
\* unless it refused.
PickHonoured ==
  phase = "up" /\ wish.stage = "kept" =>
    /\ active = wish.device
    /\ wish.device \in Number /\ ~wish.moved =>
         thread # "none" /\ capture \in {wish.card, NoCard}
=============================================================================
