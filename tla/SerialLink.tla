----------------------------- MODULE SerialLink -----------------------------
(***************************************************************************)
(* One CAT exchange at a time over the radio's serial port                 *)
(* (crates/efd-cat/src/serial.rs, parse.rs and poll_radio_state of         *)
(* poll.rs).  A query has no number: an answer is told from another only   *)
(* by its two letters.  SerialPort::command flushes what has arrived,      *)
(* writes the query and reads up to three answers, each read with a        *)
(* deadline of its own; the parsers look at the letters once more.         *)
(*                                                                         *)
(* The radio may be slow, ignore a query, or have its answer cut in two by *)
(* the transport; what is on its way when a query is written arrives after *)
(* it.  An answer carries, for the properties only, the number of the      *)
(* query it answers.                                                       *)
(***************************************************************************)
EXTENDS Integers, Sequences

CONSTANTS
  Mode,       \* modes that have a Kenwood character
  Other,      \* a mode that has none (kenwood_mode gives Unknown)
  Attempts,   \* answers read before command gives up (3)
  BufPieces,  \* pieces of answers one read(2) of 64 bytes may return
  MaxStarts,  \* bound: polls and set commands started
  MaxTurns,   \* bound: mode changes at the radio's front panel
  MaxBacklog  \* bound: queries the radio has not answered yet

ASSUME ModeAssumption == Other \notin Mode
ASSUME LinkAssumption == Attempts \in Nat \ {0} /\ BufPieces \in Nat \ {0}
ASSUME BoundAssumption == MaxStarts \in Nat /\ MaxTurns \in Nat /\ MaxBacklog \in Nat

Prefix == {"IF", "RF", "RI", "SM", "MD"}
Field  == {"IF", "RF", "RI", "SM"}     \* the queries of a poll
Modes  == Mode \cup {Other}

Query  == [n : Nat, pre : Prefix, mode : Modes]
Piece  == [ans : Query, end : BOOLEAN] \* the head or the `;` end of an answer
Taken  == [ans : Query, by : Query, late : BOOLEAN]

VARIABLES
  mode,      \* the radio's mode
  todo,      \* queries the radio has received and not dealt with
  line,      \* pieces of answers on their way
  kbuf,      \* pieces in the kernel's input buffer
  pc,        \* where the thread that holds the port is
  cmd,       \* the query it runs
  acc,       \* response: what read_response has gathered, then its result
  tries,     \* attempts
  draft,     \* per field, what this poll took: a set of at most one answer
  published, \* the draft of the last poll that got through
  late,      \* history: an answer of cmd's letters was on its way when it was written
  asks, starts, turns

radio == <<mode, todo, line, turns>>
vars  == <<mode, todo, line, kbuf, pc, cmd, acc, tries, draft, published, late,
           asks, starts, turns>>

Draft == [Field -> SUBSET Taken]
NoDraft == [f \in Field |-> {}]

TypeOK ==
  /\ mode \in Modes
  /\ todo \in Seq(Query) /\ line \in Seq(Piece) /\ kbuf \in Seq(Piece) /\ acc \in Seq(Piece)
  /\ pc \in {"idle", "flush", "write", "read", "reply"}
  /\ cmd \in Query
  /\ tries \in 0..Attempts
  /\ draft \in Draft /\ published \in Draft
  /\ late \in BOOLEAN
  /\ asks \in Nat /\ starts \in 0..MaxStarts /\ turns \in 0..MaxTurns

Init ==
  /\ mode \in Modes
  /\ todo = <<>> /\ line = <<>> /\ kbuf = <<>> /\ acc = <<>>
  /\ pc = "idle"
  /\ cmd = [n |-> 0, pre |-> "MD", mode |-> Other]
  /\ tries = 0
  /\ draft = NoDraft /\ published = NoDraft
  /\ late = FALSE
  /\ asks = 0 /\ starts = 0 /\ turns = 0

-----------------------------------------------------------------------------
(* The radio and the cable.                                                *)

host == <<kbuf, pc, cmd, acc, tries, draft, published, late, asks, starts>>

\* IF; reports the mode of the moment, RF<mode>; the filter of the mode asked.
RadioAnswers ==
  /\ todo # <<>> /\ Head(todo).pre # "MD"
  /\ LET q == Head(todo)
         a == [q EXCEPT !.mode = IF q.pre = "IF" THEN mode ELSE @] IN
       line' = line \o <<[ans |-> a, end |-> FALSE], [ans |-> a, end |-> TRUE]>>
  /\ todo' = Tail(todo)
  /\ UNCHANGED <<mode, turns, host>>

\* A set command is carried out and not answered; a query may be ignored.
RadioSilent ==
  /\ todo # <<>>
  /\ mode' = IF Head(todo).pre = "MD" THEN Head(todo).mode ELSE mode
  /\ todo' = Tail(todo)
  /\ UNCHANGED <<line, turns, host>>

Arrive ==
  /\ line # <<>>
  /\ kbuf' = Append(kbuf, Head(line))
  /\ line' = Tail(line)
  /\ UNCHANGED <<mode, todo, turns, pc, cmd, acc, tries, draft, published, late, asks, starts>>

Turn ==
  /\ turns < MaxTurns
  /\ \E m \in Modes \ {mode} : mode' = m
  /\ turns' = turns + 1
  /\ UNCHANGED <<todo, line, host>>

-----------------------------------------------------------------------------
(* SerialPort::command and read_response.                                  *)

Ask(pre, m) ==
  /\ cmd' = [n |-> asks + 1, pre |-> pre, mode |-> m]
  /\ asks' = asks + 1
  /\ pc' = "flush"

\* An answer with the letters of the query is still to come.
OnItsWay(pre) ==
  \/ \E i \in DOMAIN todo : todo[i].pre = pre
  \/ \E i \in DOMAIN line : line[i].ans.pre = pre

Flushed == pc = "flush" /\ late' = OnItsWay(cmd.pre) /\ pc' = "write"

\* MUTANT of Flush: tcflush is left out.
FlushMutant ==
  /\ Flushed
  /\ UNCHANGED <<radio, kbuf, cmd, acc, tries, draft, published, asks, starts>>

Flush ==
  /\ Flushed
  /\ kbuf' = <<>>
  /\ UNCHANGED <<radio, cmd, acc, tries, draft, published, asks, starts>>

Write ==
  /\ pc = "write"
  /\ Len(todo) < MaxBacklog
  /\ todo' = Append(todo, cmd)
  /\ acc' = <<>>
  /\ tries' = Attempts
  /\ pc' = "read"
  /\ UNCHANGED <<mode, line, turns, kbuf, cmd, draft, published, late, asks, starts>>

Fail ==
  /\ acc' = <<>>
  /\ pc' = "reply"
  /\ UNCHANGED <<radio, kbuf, cmd, tries, draft, published, late, asks, starts>>

\* MUTANT of WriteFails: without the deadline only an error of write(2) ends it.
WriteFailsMutant == pc = "write" /\ Len(todo) < MaxBacklog /\ Fail

\* The write deadline passes (a full backlog is a port that takes no more),
\* or the port fails: Err.
WriteFails == pc = "write" /\ Fail

\* poll(2) or read(2) fails: Err.
ReadFails == pc = "read" /\ Fail

Matches(resp) == resp # <<>> /\ ~resp[1].end /\ resp[1].ans.pre = cmd.pre

\* MUTANT of Judge: an answer that is dropped does not count.
JudgeMutant(resp) ==
  IF resp = <<>> \/ Matches(resp) \/ tries = 1
    THEN acc' = resp /\ pc' = "reply" /\ UNCHANGED tries
    ELSE acc' = <<>> /\ pc' = "read" /\ UNCHANGED tries

\* The loop of command: an empty answer, a match or the last attempt is
\* returned, anything else is dropped and the next answer read.
Judge(resp) ==
  IF resp = <<>> \/ Matches(resp) \/ tries = 1
    THEN acc' = resp /\ pc' = "reply" /\ UNCHANGED tries
    ELSE acc' = <<>> /\ pc' = "read" /\ tries' = tries - 1

\* The first `;` of s is at i.
EndsAt(s, i) == s[i].end /\ \A j \in 1..(i - 1) : ~s[j].end

\* read(2) returns what is there, up to the buffer's size.  Up to the first
\* `;` it is the answer; what the same read brought behind it is lost.
Read ==
  /\ pc = "read" /\ kbuf # <<>>
  /\ LET k == IF Len(kbuf) < BufPieces THEN Len(kbuf) ELSE BufPieces
         s == acc \o SubSeq(kbuf, 1, k) IN
       /\ kbuf' = SubSeq(kbuf, k + 1, Len(kbuf))
       /\ \/ \E i \in DOMAIN s : EndsAt(s, i) /\ Judge(SubSeq(s, 1, i))
          \/ (\A i \in DOMAIN s : ~s[i].end) /\ acc' = s /\ UNCHANGED <<pc, tries>>
  /\ UNCHANGED <<radio, cmd, draft, published, late, asks, starts>>

\* The deadline of this read: what was gathered so far is the answer.
ReadTimeout ==
  /\ pc = "read"
  /\ Judge(acc)
  /\ UNCHANGED <<radio, kbuf, cmd, draft, published, late, asks, starts>>

-----------------------------------------------------------------------------
(* parse.rs.  Every parser looks at the letters first.  An answer cut      *)
(* short may still hold the characters its parser indexes; RI; may call    *)
(* its reading unreliable ('!').  An answer that does not parse is {}.     *)

Answer(resp) == {[ans |-> resp[1].ans, by |-> cmd, late |-> late]}

\* What a parser may make of resp: it wants its letters and enough characters.
Parsed(resp) ==
  IF ~Matches(resp) THEN {{}}
  ELSE {Answer(resp)} \cup (IF resp[Len(resp)].end THEN {} ELSE {{}})

ParseIf(resp) == Parsed(resp)
ParseRf(resp) == Parsed(resp)
ParseSm(resp) == Parsed(resp)
ParseRi(resp) == Parsed(resp) \cup {{}}

(* poll_radio_state: IF; decides, the rest is optional.  The meter falls   *)
(* back from RI; to SM0;.  (TH; RA; LP; NR; NB; GC; GS; follow, each read  *)
(* like RI; and without a second choice.)                                  *)

StartPoll ==
  /\ pc = "idle" /\ starts < MaxStarts
  /\ Ask("IF", Other)
  /\ draft' = NoDraft
  /\ starts' = starts + 1
  /\ UNCHANGED <<radio, kbuf, acc, tries, published, late>>

\* A set command of run_commands; its answer, if any, is only logged.
StartSet ==
  /\ pc = "idle" /\ starts < MaxStarts
  /\ \E m \in Mode : Ask("MD", m)
  /\ starts' = starts + 1
  /\ UNCHANGED <<radio, kbuf, acc, tries, draft, published, late>>

SetDone ==
  /\ pc = "reply" /\ cmd.pre = "MD"
  /\ pc' = "idle"
  /\ UNCHANGED <<radio, kbuf, cmd, acc, tries, draft, published, late, asks, starts>>

\* The answer to the query of field f is r.
Took(f, r) ==
  /\ pc = "reply" /\ cmd.pre = f
  /\ draft' = [draft EXCEPT ![f] = r]
  /\ UNCHANGED <<radio, kbuf, acc, tries, late, starts>>

\* MUTANT of TookIf: asks for the filter of the mode published before.
TookIfMutant ==
  \E r \in ParseIf(acc) :
    /\ Took("IF", r)
    /\ IF r = {} THEN pc' = "idle" /\ UNCHANGED <<cmd, asks>>
       ELSE LET p == IF published["IF"] = {} THEN r ELSE published["IF"]
                m == (CHOOSE t \in p : TRUE).ans.mode IN
              IF m \in Mode THEN Ask("RF", m) ELSE Ask("RI", Other)
    /\ UNCHANGED published

TookIf ==
  \E r \in ParseIf(acc) :
    /\ Took("IF", r)
    /\ IF r = {} THEN pc' = "idle" /\ UNCHANGED <<cmd, asks>>
       ELSE LET m == (CHOOSE t \in r : TRUE).ans.mode IN
              IF m \in Mode THEN Ask("RF", m) ELSE Ask("RI", Other)
    /\ UNCHANGED published

TookRf ==
  \E r \in ParseRf(acc) :
    /\ Took("RF", r)
    /\ Ask("RI", Other)
    /\ UNCHANGED published

Publish == published' = draft' /\ pc' = "idle" /\ UNCHANGED <<cmd, asks>>

TookRi ==
  \E r \in ParseRi(acc) :
    /\ Took("RI", r)
    /\ IF r = {} THEN Ask("SM", Other) /\ UNCHANGED published ELSE Publish

TookSm == \E r \in ParseSm(acc) : Took("SM", r) /\ Publish

-----------------------------------------------------------------------------
Host ==
  \/ Flush \/ Write \/ WriteFails \/ ReadFails \/ Read \/ ReadTimeout
  \/ SetDone \/ TookIf \/ TookRf \/ TookRi \/ TookSm

Next ==
  \/ RadioAnswers \/ RadioSilent \/ Arrive \/ Turn
  \/ StartPoll \/ StartSet \/ Host

\* The thread that holds the port keeps running; nothing is assumed of the
\* radio, which may be unplugged.
Spec == Init /\ [][Next]_vars /\ WF_vars(Host)

-----------------------------------------------------------------------------
(* Properties.                                                             *)

\* A field is filled from an answer with its own letters, and from the answer
\* to the very query that was written, unless an answer with these letters
\* was on its way when it was written (the flush and the two checks of the
\* letters are all that stands between a slow radio and a wrong display).
FreshUnlessLate ==
  \A f \in Field : \A t \in draft[f] \cup published[f] :
    /\ t.ans.pre = f
    /\ t.late \/ t.ans.n = t.by.n

\* The filter published next to a mode is the filter of that mode, however
\* the mode was changed during the poll, unless RF answers were late
\* (parse_rf_response does not look at the mode in the answer).
FilterOfMode ==
  \A f \in published["RF"], m \in published["IF"] :
    f.late \/ f.ans.mode = m.ans.mode

\* Whatever the radio does, the port is given back: every wait has a deadline
\* (IO_DEADLINE: "protects the CAT task from a hung radio").
PortGivenBack == (pc # "idle") ~> (pc = "idle")

\* What an exchange has before it: queries of its poll, steps of the query it
\* runs, answers to try, and pieces that may still come.
QueriesLeft == CASE cmd.pre = "IF" -> 4 [] cmd.pre = "RF" -> 3 [] cmd.pre = "RI" -> 2 [] OTHER -> 1
StepsLeft   == CASE pc = "flush" -> 3 [] pc = "write" -> 2 [] pc = "read" -> 1 [] OTHER -> 0
PiecesLeft  == 2 * Len(todo) + Len(line) + Len(kbuf)

\* Less is left, the more significant count first, or as much and the thread
\* has not moved.
Shrinks ==
  \/ pc' = "idle"
  \/ QueriesLeft' < QueriesLeft
  \/ QueriesLeft' = QueriesLeft /\ StepsLeft' < StepsLeft
  \/ QueriesLeft' = QueriesLeft /\ StepsLeft' = StepsLeft /\ tries' < tries
  \/ /\ QueriesLeft' = QueriesLeft /\ StepsLeft' = StepsLeft /\ tries' = tries
     /\ \/ PiecesLeft' < PiecesLeft
        \/ PiecesLeft' = PiecesLeft /\ UNCHANGED <<pc, cmd, acc>>

\* Without any fairness: until the thread gives the port back, each of its
\* steps leaves less to do, and no step of the radio or the cable leaves more.
\* So whatever they bring, an exchange is finitely many steps, of which each
\* wait has its deadline.
ExchangeShrinks == [][pc # "idle" => Shrinks]_vars
=============================================================================
