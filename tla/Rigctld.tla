------------------------------ MODULE Rigctld ------------------------------
(***************************************************************************)
(* The rigctld-compatible responders (crates/efd-cat/src/responder.rs):    *)
(* one front for the radio and one for the software demodulator, each with *)
(* its listener, its semaphore and a task per connection.  A task reads a  *)
(* line, handles it and answers before it reads the next.  A set command   *)
(* waits for room in the CAT channel, the answer for room in the socket,   *)
(* which a program that does not read its answers never makes; the task    *)
(* watches the token in neither wait.  A line is chosen when it is read:   *)
(* what a program has written and the task has not read is of no           *)
(* consequence.  Gets and lines that do not parse are answered and leave   *)
(* no other trace; blank ones are skipped.  Tuning composes the fronts with*)
(* the rest of the server.                                                 *)
(***************************************************************************)
EXTENDS Integers, Sequences, FiniteSets

CONSTANTS
  HwClient,    \* programs that talk to the radio's front (port 4532)
  DemodClient, \* programs that talk to the demodulator's front (port 4533)
  Reader,      \* the programs among them that read their answers
  MaxConns,    \* MAX_CONCURRENT_CONNS (16)
  CatCapacity, \* capacity of the CAT channel
  Freq,        \* frequencies
  RadioMode,   \* modes the radio has, each with its MD digit
  SoftMode,    \* modes only the demodulator has
  Parked,      \* the radio's mode in their place (AM)
  None         \* no override

ASSUME ModeAssumption == Parked \in RadioMode /\ RadioMode \cap SoftMode = {}
ASSUME NoneAssumption == None \notin RadioMode \cup SoftMode
ASSUME ReaderAssumption == Reader \subseteq HwClient \cup DemodClient
ASSUME ConnAssumption == HwClient \cap DemodClient = {} /\ MaxConns \in Nat /\ CatCapacity \in Nat \ {0}

Client     == HwClient \cup DemodClient
Front(c)   == IF c \in HwClient THEN HwClient ELSE DemodClient
Mode       == RadioMode \cup SoftMode
State      == [freq : Freq, mode : RadioMode]

\* mode_to_cat: the mode an MD command puts the radio in.
ModeToCat(m) == IF m \in SoftMode THEN Parked ELSE m

\* A CAT command, with who sent it for the properties.  Keying and unkeying
\* are alike here.
Sender  == {"client", "program"}
Command == [by : Sender, reg : {"freq"}, val : Freq]
           \cup [by : Sender, reg : {"mode"}, val : RadioMode]
           \cup [by : Sender, reg : {"agc", "ptt"}, val : BOOLEAN]
Set(who, r, v) == [by |-> who, reg |-> r, val |-> v]

\* A line sets something, or is a get or of no sense; str_to_mode knows only
\* the radio's modes.
Line == [op : {"F"}, arg : Freq] \cup [op : {"M"}, arg : RadioMode] \cup [op : {"T", "other"}, arg : {TRUE}]

VARIABLES
  conn,      \* per program: "none", "open", the command its task sends, or
             \* "answering" while its task writes the answer
  cat,       \* the CAT channel
  catOpen,   \* its receiver, the command task, is there
  override,  \* demod_mode_tx
  cancelled

rig == <<conn, cat, catOpen, override, cancelled>>

NoConn   == [at |-> "none"]
OpenConn == [at |-> "open"]
Answering == [at |-> "answering"]
Sending(cmd) == [at |-> "sending", cmd |-> cmd]

RigTypeOK ==
  /\ conn \in [Client -> {NoConn, OpenConn, Answering} \cup {Sending(k) : k \in Command}]
  /\ cat \in Seq(Command) /\ Len(cat) <= CatCapacity
  /\ catOpen \in BOOLEAN /\ override \in Mode \cup {None}
  /\ cancelled \in BOOLEAN

RigInit ==
  /\ conn = [c \in Client |-> NoConn]
  /\ cat = <<>> /\ catOpen = TRUE
  /\ override = None
  /\ cancelled = FALSE

-----------------------------------------------------------------------------
(* run_with_listener.                                                      *)

\* try_acquire_owned: at the cap the stream is dropped.  A permit is held as
\* long as the task of its connection runs.
Accept(c) ==
  /\ ~cancelled /\ conn[c] = NoConn
  /\ Cardinality({d \in Front(c) : conn[d] # NoConn}) < MaxConns
  /\ conn' = [conn EXCEPT ![c] = OpenConn]
  /\ UNCHANGED <<cat, catOpen, override, cancelled>>

-----------------------------------------------------------------------------
(* handle_conn and handle_command.                                         *)

\* The CAT commands a line becomes, none or one: the demodulator's front
\* sends its own tunes to the radio too, keeps the mode to itself and
\* rejects PTT.
CatOf(c, l) ==
  CASE l.op = "F"                   -> {Set("program", "freq", l.arg)}
    [] l.op = "M" /\ c \in HwClient -> {Set("program", "mode", ModeToCat(l.arg))}
    [] l.op = "T" /\ c \in HwClient -> {Set("program", "ptt", l.arg)}
    [] OTHER                        -> {}

ReadLine(c, l) ==
  /\ ~cancelled /\ conn[c] = OpenConn
  /\ \/ CatOf(c, l) = {} /\ conn' = [conn EXCEPT ![c] = Answering]
     \/ \E k \in CatOf(c, l) : conn' = [conn EXCEPT ![c] = Sending(k)]
  /\ override' = IF l.op = "M" /\ c \in DemodClient THEN l.arg ELSE override
  /\ UNCHANGED <<cat, catOpen, cancelled>>

\* MUTANT of Sent: nobody notices that the receiver is gone.
SentMutant(c) ==
  /\ conn[c].at = "sending"
  /\ catOpen /\ Len(cat) < CatCapacity /\ cat' = Append(cat, conn[c].cmd)
  /\ conn' = [conn EXCEPT ![c] = Answering]
  /\ UNCHANGED <<catOpen, override, cancelled>>

\* cat_tx.send().await: RPRT 0 once there was room, RPRT -6 once the receiver
\* is gone.
Sent(c) ==
  /\ conn[c].at = "sending"
  /\ IF catOpen THEN Len(cat) < CatCapacity /\ cat' = Append(cat, conn[c].cmd)
     ELSE UNCHANGED cat
  /\ conn' = [conn EXCEPT ![c] = Answering]
  /\ UNCHANGED <<catOpen, override, cancelled>>

\* w.write_all().await has written the answer; the next line is read after it.
Answered(c) ==
  /\ conn[c] = Answering
  /\ conn' = [conn EXCEPT ![c] = OpenConn]
  /\ UNCHANGED <<cat, catOpen, override, cancelled>>

\* The program is gone.
WriteFails(c) ==
  /\ conn[c] = Answering
  /\ conn' = [conn EXCEPT ![c] = NoConn]
  /\ UNCHANGED <<cat, catOpen, override, cancelled>>

\* The end of the stream, a line beyond MAX_LINE_BYTES, a q, a failed read, or
\* the token, between two lines.
EndConn(c) ==
  /\ conn[c] = OpenConn
  /\ conn' = [conn EXCEPT ![c] = NoConn]
  /\ UNCHANGED <<cat, catOpen, override, cancelled>>

=============================================================================
