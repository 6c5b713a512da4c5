-------------------------- MODULE SerialLinkProofs --------------------------
(***************************************************************************)
(* Proofs about SerialLink, for any modes, number of attempts, buffer size *)
(* and bounds: its state is well-typed, what a poll publishes is from      *)
(* answers to its own queries unless an answer was late, and an exchange   *)
(* is finitely many steps.                                                 *)
(***************************************************************************)
EXTENDS SerialLink, SequenceTheorems, TLAPS

LEMMA Empty == \A S : <<>> \in Seq(S) /\ Len(<<>>) = 0
OBVIOUS

LEMMA SubSeqIn ==
  ASSUME NEW S, NEW s \in Seq(S), NEW m \in Nat \ {0}, NEW n \in Nat, n <= Len(s)
  PROVE  SubSeq(s, m, n) \in Seq(S)
         /\ \A i \in DOMAIN SubSeq(s, m, n) : \E j \in DOMAIN s : SubSeq(s, m, n)[i] = s[j]
<1>1. \A i \in m..n : s[i] \in S
  OBVIOUS
<1>2. /\ SubSeq(s, m, n) \in Seq(S)
      /\ Len(SubSeq(s, m, n)) = IF m <= n THEN n - m + 1 ELSE 0
      /\ \A i \in 1..n - m + 1 : SubSeq(s, m, n)[i] = s[m + i - 1]
  BY <1>1, SubSeqProperties, m \in Int, n \in Int
<1>3. ASSUME NEW i \in DOMAIN SubSeq(s, m, n)
      PROVE  \E j \in DOMAIN s : SubSeq(s, m, n)[i] = s[j]
  <2>1. i \in 1..n - m + 1 /\ m + i - 1 \in DOMAIN s
    BY <1>2, <1>3
  <2> QED BY <1>2, <2>1
<1> QED BY <1>2, <1>3

\* What one read takes from the kernel's buffer and what it gathers with it.
ReadNow   == IF Len(kbuf) < BufPieces THEN Len(kbuf) ELSE BufPieces
Gathered  == acc \o SubSeq(kbuf, 1, ReadNow)

LEMMA GatheredType ==
  ASSUME TypeOK
  PROVE  /\ Gathered \in Seq(Piece)
         /\ SubSeq(kbuf, ReadNow + 1, Len(kbuf)) \in Seq(Piece)
         /\ \A i \in DOMAIN Gathered :
              (\E j \in DOMAIN acc : Gathered[i] = acc[j]) \/ (\E j \in DOMAIN kbuf : Gathered[i] = kbuf[j])
         /\ \A i \in DOMAIN SubSeq(kbuf, ReadNow + 1, Len(kbuf)) :
              \E j \in DOMAIN kbuf : SubSeq(kbuf, ReadNow + 1, Len(kbuf))[i] = kbuf[j]
<1> DEFINE got == SubSeq(kbuf, 1, ReadNow)
<1>1. acc \in Seq(Piece) /\ kbuf \in Seq(Piece) /\ Len(kbuf) \in Nat
  BY DEF TypeOK
<1>2. ReadNow \in Nat /\ ReadNow <= Len(kbuf)
  BY <1>1, LinkAssumption DEF ReadNow
<1>3. got \in Seq(Piece) /\ \A i \in DOMAIN got : \E j \in DOMAIN kbuf : got[i] = kbuf[j]
  BY <1>1, <1>2, SubSeqIn
<1>4. /\ SubSeq(kbuf, ReadNow + 1, Len(kbuf)) \in Seq(Piece)
      /\ \A i \in DOMAIN SubSeq(kbuf, ReadNow + 1, Len(kbuf)) :
           \E j \in DOMAIN kbuf : SubSeq(kbuf, ReadNow + 1, Len(kbuf))[i] = kbuf[j]
  <2>1. ReadNow + 1 \in Nat \ {0}
    BY <1>2
  <2>2. \A m \in Nat \ {0} :
          SubSeq(kbuf, m, Len(kbuf)) \in Seq(Piece)
          /\ \A i \in DOMAIN SubSeq(kbuf, m, Len(kbuf)) : \E j \in DOMAIN kbuf : SubSeq(kbuf, m, Len(kbuf))[i] = kbuf[j]
    BY <1>1, SubSeqIn
  <2> QED BY <2>1, <2>2
<1> HIDE DEF got
<1>5. /\ acc \o got \in Seq(Piece)
      /\ Len(acc \o got) = Len(acc) + Len(got)
      /\ \A i \in 1..Len(acc) + Len(got) :
           (acc \o got)[i] = IF i <= Len(acc) THEN acc[i] ELSE got[i - Len(acc)]
  BY <1>1, <1>3, ConcatProperties
<1>6. ASSUME NEW i \in DOMAIN (acc \o got)
      PROVE  (\E j \in DOMAIN acc : (acc \o got)[i] = acc[j]) \/ (\E j \in DOMAIN kbuf : (acc \o got)[i] = kbuf[j])
  <2>1. i \in 1..Len(acc) + Len(got)
    BY <1>5, <1>6
  <2>2. CASE i <= Len(acc)
    BY <1>1, <1>5, <2>1, <2>2
  <2>3. CASE i > Len(acc)
    <3>1. i - Len(acc) \in DOMAIN got /\ (acc \o got)[i] = got[i - Len(acc)]
      BY <1>1, <1>3, <1>5, <2>1, <2>3
    <3> QED BY <1>3, <3>1
  <2> QED BY <1>1, <2>1, <2>2, <2>3
<1>7. Gathered = acc \o got
  BY DEF Gathered, got
<1> QED BY <1>4, <1>5, <1>6, <1>7

\* TypeOK alone is not inductive: the attempts are counted down only while
\* one is left.
Trying == pc = "read" => tries \in 1..Attempts

\* The loop of command keeps its types and adds nothing to the answer.
LEMMA JudgeType ==
  ASSUME TypeOK, Trying, pc = "read", NEW resp \in Seq(Piece), Judge(resp)
  PROVE  /\ acc' \in {resp, <<>>} /\ acc' \in Seq(Piece)
         /\ pc' \in {"read", "reply"} /\ tries' \in 0..Attempts /\ Trying'
<1>1. tries \in 1..Attempts
  BY DEF Trying
<1>2. CASE resp = <<>> \/ Matches(resp) \/ tries = 1
  BY <1>1, <1>2 DEF Judge, Trying
<1>3. CASE ~(resp = <<>> \/ Matches(resp) \/ tries = 1)
  <2>1. acc' = <<>> /\ pc' = "read" /\ tries' = tries - 1
    BY <1>3 DEF Judge
  <2>2. tries - 1 \in 1..Attempts
    BY <1>1, <1>3, LinkAssumption
  <2> QED BY <2>1, <2>2, Empty, LinkAssumption DEF Trying
<1> QED BY <1>2, <1>3

LEMMA ReadType ==
  ASSUME TypeOK, Trying, Read
  PROVE  /\ acc' \in Seq(Piece) /\ kbuf' \in Seq(Piece)
         /\ pc' \in {"read", "reply"} /\ tries' \in 0..Attempts /\ Trying'
         /\ \A i \in DOMAIN acc' :
              (\E j \in DOMAIN acc : acc'[i] = acc[j]) \/ (\E j \in DOMAIN kbuf : acc'[i] = kbuf[j])
         /\ \A i \in DOMAIN kbuf' : \E j \in DOMAIN kbuf : kbuf'[i] = kbuf[j]
<1> DEFINE s == Gathered
<1>1. /\ pc = "read"
      /\ kbuf' = SubSeq(kbuf, ReadNow + 1, Len(kbuf))
      /\ \/ \E i \in DOMAIN s : EndsAt(s, i) /\ Judge(SubSeq(s, 1, i))
         \/ acc' = s /\ UNCHANGED <<pc, tries>>
  BY DEF Read, Gathered, ReadNow
<1>2. /\ s \in Seq(Piece)
      /\ \A i \in DOMAIN s :
           (\E j \in DOMAIN acc : s[i] = acc[j]) \/ (\E j \in DOMAIN kbuf : s[i] = kbuf[j])
      /\ kbuf' \in Seq(Piece)
      /\ \A i \in DOMAIN kbuf' : \E j \in DOMAIN kbuf : kbuf'[i] = kbuf[j]
  BY <1>1, GatheredType
<1> HIDE DEF s
<1>3. ASSUME NEW i \in DOMAIN s, Judge(SubSeq(s, 1, i))
      PROVE  /\ acc' \in Seq(Piece)
             /\ pc' \in {"read", "reply"} /\ tries' \in 0..Attempts /\ Trying'
             /\ \A k \in DOMAIN acc' : \E j \in DOMAIN s : acc'[k] = s[j]
  <2>1. i \in Nat /\ i <= Len(s)
    BY <1>2
  <2>2. /\ SubSeq(s, 1, i) \in Seq(Piece)
        /\ \A k \in DOMAIN SubSeq(s, 1, i) : \E j \in DOMAIN s : SubSeq(s, 1, i)[k] = s[j]
    BY <1>2, <2>1, SubSeqIn
  <2> DEFINE r == SubSeq(s, 1, i)
  <2>3. r \in Seq(Piece) /\ Judge(r) /\ \A k \in DOMAIN r : \E j \in DOMAIN s : r[k] = s[j]
    BY <1>3, <2>2
  <2> HIDE DEF r
  <2>4. /\ acc' \in {r, <<>>} /\ acc' \in Seq(Piece)
        /\ pc' \in {"read", "reply"} /\ tries' \in 0..Attempts /\ Trying'
    BY <1>1, <2>3, JudgeType
  <2> QED BY <2>3, <2>4, Empty
<1>4. CASE acc' = s /\ UNCHANGED <<pc, tries>>
  BY <1>1, <1>2, <1>4 DEF TypeOK, Trying
<1>5. CASE \E i \in DOMAIN s : Judge(SubSeq(s, 1, i))
  <2>1. PICK i \in DOMAIN s : Judge(SubSeq(s, 1, i))
    BY <1>5
  <2>2. /\ acc' \in Seq(Piece)
        /\ pc' \in {"read", "reply"} /\ tries' \in 0..Attempts /\ Trying'
        /\ \A k \in DOMAIN acc' : \E j \in DOMAIN s : acc'[k] = s[j]
    BY <1>3, <2>1
  <2> QED BY <1>2, <2>2
<1> QED BY <1>1, <1>4, <1>5

\* An answer is the one the query asks for, in every field.
LEMMA AnswerType ==
  ASSUME TypeOK, NEW r \in Parsed(acc) \cup {{}}
  PROVE  r \in SUBSET Taken
<1>1. r = {} \/ (Matches(acc) /\ r = Answer(acc))
  BY DEF Parsed
<1>2. CASE Matches(acc)
  <2>1. acc[1] \in Piece
    <3>1. acc \in Seq(Piece) /\ acc # <<>>
      BY <1>2 DEF TypeOK, Matches
    <3> QED BY <3>1
  <2>2. acc[1].ans \in Query /\ cmd \in Query /\ late \in BOOLEAN
    BY <2>1 DEF Piece, TypeOK
  <2>3. [ans |-> acc[1].ans, by |-> cmd, late |-> late] \in Taken
    BY <2>2 DEF Taken
  <2> QED BY <1>1, <2>3 DEF Answer
<1> QED BY <1>1, <1>2

LEMMA AskType ==
  ASSUME TypeOK, NEW p \in Prefix, NEW m \in Modes, Ask(p, m)
  PROVE  cmd' \in Query /\ asks' \in Nat /\ pc' = "flush"
BY DEF Ask, TypeOK, Query

-----------------------------------------------------------------------------
LEMMA TypeInit == Init => TypeOK /\ Trying
<1> SUFFICES ASSUME Init PROVE TypeOK /\ Trying
  OBVIOUS
<1>1. NoDraft \in Draft
  BY DEF NoDraft, Draft
<1>2. cmd \in Query
  BY DEF Init, Query, Prefix, Modes
<1>3. todo \in Seq(Query) /\ line \in Seq(Piece) /\ kbuf \in Seq(Piece) /\ acc \in Seq(Piece)
  BY Empty DEF Init
<1>4. tries \in 0..Attempts /\ starts \in 0..MaxStarts /\ turns \in 0..MaxTurns
  BY LinkAssumption, BoundAssumption DEF Init
<1> QED BY <1>1, <1>2, <1>3, <1>4 DEF Init, TypeOK, Trying

\* The radio and the cable keep the types.
LEMMA TypeRadio ==
  ASSUME TypeOK, Trying, RadioAnswers \/ RadioSilent \/ Arrive \/ Turn
  PROVE  TypeOK' /\ Trying'
<1>1. ASSUME todo # <<>>
      PROVE  Head(todo) \in Query /\ Tail(todo) \in Seq(Query)
  BY <1>1 DEF TypeOK
<1>2. CASE RadioAnswers
  <2> DEFINE a == [Head(todo) EXCEPT !.mode = IF Head(todo).pre = "IF" THEN mode ELSE @]
             two == <<[ans |-> a, end |-> FALSE], [ans |-> a, end |-> TRUE]>>
  <2>1. a \in Query
    BY <1>1, <1>2 DEF RadioAnswers, TypeOK, Query
  <2> HIDE DEF a
  <2>2. two \in Seq(Piece)
    BY <2>1 DEF Piece
  <2>3. line' = line \o two
    BY <1>2 DEF RadioAnswers, a
  <2> HIDE DEF two
  <2>4. line' \in Seq(Piece)
    BY <2>2, <2>3, ConcatProperties DEF TypeOK
  <2>5. todo' \in Seq(Query)
    BY <1>1, <1>2 DEF RadioAnswers
  <2> QED BY <1>2, <2>4, <2>5 DEF RadioAnswers, host, TypeOK, Trying
<1>3. CASE RadioSilent
  <2>1. todo' \in Seq(Query) /\ mode' \in Modes
    BY <1>1, <1>3 DEF RadioSilent, Query, TypeOK
  <2> QED BY <1>3, <2>1 DEF RadioSilent, host, TypeOK, Trying
<1>4. CASE Arrive
  <2>1. Head(line) \in Piece /\ line' \in Seq(Piece)
    BY <1>4 DEF Arrive, TypeOK
  <2>2. kbuf' \in Seq(Piece)
    BY <1>4, <2>1 DEF Arrive, TypeOK
  <2> QED BY <1>4, <2>1, <2>2 DEF Arrive, TypeOK, Trying
<1>5. CASE Turn
  BY <1>5, BoundAssumption DEF Turn, host, TypeOK, Trying
<1> QED BY <1>2, <1>3, <1>4, <1>5

\* So do the steps of the port.
LEMMA TypePort ==
  ASSUME TypeOK, Trying, Flush \/ Write \/ WriteFails \/ ReadFails \/ Read \/ ReadTimeout
  PROVE  TypeOK' /\ Trying'
<1>1. CASE Flush
  BY <1>1, Empty DEF Flush, Flushed, OnItsWay, radio, TypeOK, Trying
<1>2. CASE Write
  <2>1. todo' \in Seq(Query)
    BY <1>2 DEF Write, TypeOK
  <2>2. tries' \in 0..Attempts /\ tries' \in 1..Attempts
    BY <1>2, LinkAssumption DEF Write
  <2> QED BY <1>2, <2>1, <2>2, Empty DEF Write, TypeOK, Trying
<1>3. CASE WriteFails \/ ReadFails
  BY <1>3, Empty DEF WriteFails, ReadFails, Fail, radio, TypeOK, Trying
<1>4. CASE Read
  <2>1. /\ acc' \in Seq(Piece) /\ kbuf' \in Seq(Piece)
        /\ pc' \in {"read", "reply"} /\ tries' \in 0..Attempts /\ Trying'
    BY <1>4, ReadType
  <2> QED BY <1>4, <2>1 DEF Read, radio, TypeOK
<1>5. CASE ReadTimeout
  <2>1. pc = "read" /\ Judge(acc) /\ acc \in Seq(Piece)
    BY <1>5 DEF ReadTimeout, TypeOK
  <2>2. /\ acc' \in Seq(Piece)
        /\ pc' \in {"read", "reply"} /\ tries' \in 0..Attempts /\ Trying'
    BY <2>1, JudgeType
  <2> QED BY <1>5, <2>2 DEF ReadTimeout, radio, TypeOK
<1> QED BY <1>1, <1>2, <1>3, <1>4, <1>5

\* And those of the polls and commands.
LEMMA TypePoll ==
  ASSUME TypeOK, Trying, StartPoll \/ StartSet \/ SetDone \/ TookIf \/ TookRf \/ TookRi \/ TookSm
  PROVE  TypeOK' /\ Trying'
<1>1. NoDraft \in Draft
  BY DEF NoDraft, Draft
<1>2. Other \in Modes /\ Mode \subseteq Modes /\ Field \subseteq Prefix /\ "MD" \in Prefix /\ "IF" \in Prefix
  BY DEF Modes, Field, Prefix
<1>3. CASE StartPoll
  <2>1. cmd' \in Query /\ asks' \in Nat /\ pc' = "flush"
    BY <1>2, <1>3, AskType DEF StartPoll
  <2> QED BY <1>1, <1>3, <2>1, BoundAssumption DEF StartPoll, radio, TypeOK, Trying
<1>4. CASE StartSet
  <2>1. cmd' \in Query /\ asks' \in Nat /\ pc' = "flush"
    BY <1>2, <1>4, AskType DEF StartSet
  <2> QED BY <1>4, <2>1, BoundAssumption DEF StartSet, radio, TypeOK, Trying
<1>5. CASE SetDone
  BY <1>5 DEF SetDone, radio, TypeOK, Trying
<1>6. ASSUME NEW f \in Field, NEW r \in Parsed(acc) \cup {{}}, Took(f, r)
      PROVE  draft' \in Draft
  BY <1>6, AnswerType DEF Took, Draft, TypeOK
<1>7. ASSUME NEW f \in Field, NEW r \in Parsed(acc) \cup {{}}, Took(f, r),
             cmd' \in Query, asks' \in Nat, pc' \in {"flush", "idle"}, published' \in Draft
      PROVE  TypeOK' /\ Trying'
  BY <1>6, <1>7 DEF Took, radio, TypeOK, Trying
<1>8. CASE TookIf
  <2>1. PICK r \in Parsed(acc) :
          /\ Took("IF", r)
          /\ IF r = {} THEN pc' = "idle" /\ UNCHANGED <<cmd, asks>>
             ELSE LET m == (CHOOSE t \in r : TRUE).ans.mode IN
                    IF m \in Mode THEN Ask("RF", m) ELSE Ask("RI", Other)
          /\ UNCHANGED published
    BY <1>8 DEF TookIf, ParseIf
  <2>2. cmd' \in Query /\ asks' \in Nat /\ pc' \in {"flush", "idle"}
    <3>1. CASE r = {}
      BY <2>1, <3>1 DEF TypeOK
    <3>2. CASE r # {}
      <4> DEFINE m == (CHOOSE t \in r : TRUE).ans.mode
      <4>1. (m \in Mode /\ Ask("RF", m)) \/ Ask("RI", Other)
        BY <2>1, <3>2
      <4> HIDE DEF m
      <4> QED BY <1>2, <4>1, AskType DEF Field
    <3> QED BY <3>1, <3>2
  <2> QED BY <1>7, <2>1, <2>2 DEF Field, TypeOK
<1>9. CASE TookRf
  <2>1. PICK r \in Parsed(acc) : Took("RF", r) /\ Ask("RI", Other) /\ UNCHANGED published
    BY <1>9 DEF TookRf, ParseRf
  <2>2. cmd' \in Query /\ asks' \in Nat /\ pc' = "flush"
    BY <1>2, <2>1, AskType DEF Field
  <2> QED BY <1>7, <2>1, <2>2 DEF Field, TypeOK
<1>10. ASSUME NEW f \in Field, NEW r \in Parsed(acc) \cup {{}}, Took(f, r), Publish
       PROVE  TypeOK' /\ Trying'
  <2>1. published' \in Draft
    BY <1>6, <1>10 DEF Publish
  <2> QED BY <1>7, <1>10, <2>1 DEF Publish, TypeOK
<1>11. CASE TookRi
  <2>1. PICK r \in Parsed(acc) \cup {{}} :
          Took("RI", r) /\ (Publish \/ (Ask("SM", Other) /\ UNCHANGED published))
    BY <1>11 DEF TookRi, ParseRi
  <2>2. CASE Publish
    BY <1>10, <2>1, <2>2 DEF Field
  <2>3. CASE Ask("SM", Other) /\ UNCHANGED published
    <3>1. cmd' \in Query /\ asks' \in Nat /\ pc' = "flush"
      BY <1>2, <2>3, AskType DEF Field
    <3> QED BY <1>7, <2>1, <2>3, <3>1 DEF Field, TypeOK
  <2> QED BY <2>1, <2>2, <2>3
<1>12. CASE TookSm
  <2>1. PICK r \in Parsed(acc) : Took("SM", r) /\ Publish
    BY <1>12 DEF TookSm, ParseSm
  <2> QED BY <1>10, <2>1 DEF Field
<1> QED BY <1>3, <1>4, <1>5, <1>8, <1>9, <1>11, <1>12

LEMMA TypeStep == TypeOK /\ Trying /\ [Next]_vars => TypeOK' /\ Trying'
<1> SUFFICES ASSUME TypeOK, Trying, [Next]_vars PROVE TypeOK' /\ Trying'
  OBVIOUS
<1>1. CASE UNCHANGED vars
  BY <1>1 DEF vars, TypeOK, Trying
<1> QED BY <1>1, TypeRadio, TypePort, TypePoll DEF Next, Host

\* The state of the port, the cable and the poll is well-typed, and command
\* never reads more answers than its attempts.
THEOREM TypeCorrect == Spec => []TypeOK
<1>1. Init => TypeOK /\ Trying
  BY TypeInit
<1>2. TypeOK /\ Trying /\ [Next]_vars => (TypeOK /\ Trying)'
  BY TypeStep
<1> QED BY <1>1, <1>2, PTL DEF Spec

-----------------------------------------------------------------------------
(* What a poll takes.                                                      *)

\* q does not pass for an answer to cmd, or it is the answer to cmd: with its
\* number and, an IF; apart, with the mode asked for.
Mine(q) == q.pre = cmd.pre => q.n = cmd.n /\ (cmd.pre # "IF" => q.mode = cmd.mode)

\* Once the port was flushed and nothing of cmd's letters was on its way, all
\* that is on its way or gathered is cmd's.
OnlyMine ==
  pc \in {"write", "read", "reply"} /\ ~late =>
    /\ \A i \in DOMAIN todo : Mine(todo[i])
    /\ \A i \in DOMAIN line : Mine(line[i].ans)
    /\ \A i \in DOMAIN kbuf : Mine(kbuf[i].ans)
    /\ pc # "write" => \A i \in DOMAIN acc : Mine(acc[i].ans)

\* The filter in a draft is the one of the mode in it.
Paired(d) == \A f \in d["RF"], m \in d["IF"] : f.late \/ f.ans.mode = m.ans.mode

\* The order of a poll: the mode is taken first, the filter asked for it.
InOrder ==
  pc # "idle" =>
    /\ cmd.pre = "IF" => draft["RF"] = {}
    /\ cmd.pre = "RF" => \A m \in draft["IF"] : m.ans.mode = cmd.mode

\* Taken answers carry the letters of their field and, unless late, the
\* number of their query.
Fresh(f, t) == t.ans.pre = f /\ (t.late \/ t.ans.n = t.by.n)

PollInv ==
  /\ OnlyMine
  /\ InOrder
  /\ Paired(draft) /\ Paired(published)
  /\ FreshUnlessLate

LEMMA PollInit == Init => PollInv
BY Empty DEF Init, PollInv, OnlyMine, InOrder, Paired, NoDraft, Field, FreshUnlessLate

\* What arrives of the radio's answers was on its way, or answers what the
\* radio has received.
LEMMA OnlyMineRadio ==
  ASSUME TypeOK, OnlyMine, RadioAnswers \/ RadioSilent \/ Arrive \/ Turn
  PROVE  OnlyMine'
<1> SUFFICES ASSUME pc \in {"write", "read", "reply"}, ~late
             PROVE  /\ \A i \in DOMAIN todo' : Mine(todo'[i])
                    /\ \A i \in DOMAIN line' : Mine(line'[i].ans)
                    /\ \A i \in DOMAIN kbuf' : Mine(kbuf'[i].ans)
                    /\ pc # "write" => \A i \in DOMAIN acc : Mine(acc[i].ans)
  BY DEF RadioAnswers, RadioSilent, Arrive, Turn, host, OnlyMine, Mine
<1>1. /\ \A i \in DOMAIN todo : Mine(todo[i])
      /\ \A i \in DOMAIN line : Mine(line[i].ans)
      /\ \A i \in DOMAIN kbuf : Mine(kbuf[i].ans)
      /\ pc # "write" => \A i \in DOMAIN acc : Mine(acc[i].ans)
  BY DEF OnlyMine
<1>2. todo \in Seq(Query) /\ line \in Seq(Piece) /\ kbuf \in Seq(Piece)
  BY DEF TypeOK
<1>3. ASSUME todo # <<>>
      PROVE  Mine(Head(todo)) /\ \A i \in DOMAIN Tail(todo) : Mine(Tail(todo)[i])
  <2>1. Head(todo) = todo[1] /\ 1 \in DOMAIN todo
    BY <1>2, <1>3
  <2>2. \A i \in DOMAIN Tail(todo) : i + 1 \in DOMAIN todo /\ Tail(todo)[i] = todo[i + 1]
    BY <1>2, <1>3
  <2> QED BY <1>1, <2>1, <2>2
<1>4. CASE RadioAnswers
  <2> DEFINE a == [Head(todo) EXCEPT !.mode = IF Head(todo).pre = "IF" THEN mode ELSE @]
             two == <<[ans |-> a, end |-> FALSE], [ans |-> a, end |-> TRUE]>>
  <2>1. Head(todo) \in Query
    BY <1>2, <1>4 DEF RadioAnswers
  <2>2. a \in Query /\ a.n = Head(todo).n /\ a.pre = Head(todo).pre /\ (a.pre # "IF" => a.mode = Head(todo).mode)
    BY <2>1 DEF Query, TypeOK
  <2>3. Mine(a)
    BY <1>3, <1>4, <2>2 DEF RadioAnswers, Mine
  <2> HIDE DEF a
  <2>4. two \in Seq(Piece) /\ Len(two) = 2 /\ two[1].ans = a /\ two[2].ans = a
    BY <2>2 DEF Piece
  <2>5. line' = line \o two
    BY <1>4 DEF RadioAnswers, a
  <2> HIDE DEF two
  <2>6. /\ line' \in Seq(Piece) /\ Len(line') = Len(line) + 2
        /\ \A i \in 1..Len(line) + 2 : line'[i] = IF i <= Len(line) THEN line[i] ELSE two[i - Len(line)]
    <3>1. /\ line \o two \in Seq(Piece) /\ Len(line \o two) = Len(line) + Len(two)
          /\ \A i \in 1..Len(line) + Len(two) :
               (line \o two)[i] = IF i <= Len(line) THEN line[i] ELSE two[i - Len(line)]
      BY <1>2, <2>4, ConcatProperties
    <3> QED BY <2>4, <2>5, <3>1
  <2>7. ASSUME NEW i \in DOMAIN line'
        PROVE  Mine(line'[i].ans)
    <3>1. i \in 1..Len(line) + 2
      BY <2>6
    <3>2. CASE i <= Len(line)
      BY <1>1, <1>2, <2>6, <3>1, <3>2
    <3>3. CASE i > Len(line)
      <4>1. i - Len(line) \in {1, 2} /\ line'[i] = two[i - Len(line)]
        BY <1>2, <2>6, <3>1, <3>3
      <4> QED BY <2>3, <2>4, <4>1
    <3> QED BY <1>2, <3>1, <3>2, <3>3
  <2>8. \A i \in DOMAIN todo' : Mine(todo'[i])
    BY <1>3, <1>4 DEF RadioAnswers
  <2> QED BY <1>1, <1>4, <2>7, <2>8 DEF RadioAnswers, host
<1>5. CASE RadioSilent
  BY <1>1, <1>3, <1>5 DEF RadioSilent, host
<1>6. CASE Arrive
  <2>1. Head(line) = line[1] /\ 1 \in DOMAIN line /\ Head(line) \in Piece
    BY <1>2, <1>6 DEF Arrive
  <2>2. Mine(Head(line).ans)
    BY <1>1, <2>1
  <2>3. \A i \in DOMAIN kbuf' : Mine(kbuf'[i].ans)
    <3>1. kbuf' = Append(kbuf, Head(line))
      BY <1>6 DEF Arrive
    <3>2. ASSUME NEW i \in DOMAIN kbuf'
          PROVE  Mine(kbuf'[i].ans)
      <4>1. kbuf'[i] = Head(line) \/ (i \in DOMAIN kbuf /\ kbuf'[i] = kbuf[i])
        BY <1>2, <2>1, <3>1, <3>2
      <4> QED BY <1>1, <2>2, <4>1
    <3> QED BY <3>2
  <2>4. \A i \in DOMAIN line' : Mine(line'[i].ans)
    <3>1. \A i \in DOMAIN Tail(line) : i + 1 \in DOMAIN line /\ Tail(line)[i] = line[i + 1]
      BY <1>2, <1>6 DEF Arrive
    <3> QED BY <1>1, <1>6, <3>1 DEF Arrive
  <2> QED BY <1>1, <1>6, <2>3, <2>4 DEF Arrive
<1>7. CASE Turn
  BY <1>1, <1>7 DEF Turn, host
<1> QED BY <1>4, <1>5, <1>6, <1>7

\* The flush empties the buffer; from then on only what is on its way comes in.
LEMMA OnlyMinePort ==
  ASSUME TypeOK, Trying, OnlyMine, Flush \/ Write \/ WriteFails \/ ReadFails \/ Read \/ ReadTimeout
  PROVE  OnlyMine'
<1>1. todo \in Seq(Query) /\ cmd \in Query
  BY DEF TypeOK
<1>2. CASE Flush
  <2>1. /\ pc' = "write" /\ kbuf' = <<>>
        /\ UNCHANGED <<todo, line, cmd>>
        /\ late' \/ ((\A i \in DOMAIN todo : todo[i].pre # cmd.pre) /\ (\A i \in DOMAIN line : line[i].ans.pre # cmd.pre))
    BY <1>2 DEF Flush, Flushed, OnItsWay, radio
  <2> QED BY <2>1, Empty DEF OnlyMine, Mine
<1>3. CASE Write
  <2>1. pc = "write" /\ pc' = "read" /\ todo' = Append(todo, cmd) /\ acc' = <<>> /\ UNCHANGED <<line, kbuf, cmd, late>>
    BY <1>3 DEF Write
  <2>2. ASSUME ~late, NEW i \in DOMAIN todo' PROVE Mine(todo'[i])
    <3>1. todo'[i] = cmd \/ (i \in DOMAIN todo /\ todo'[i] = todo[i])
      BY <1>1, <2>1, <2>2
    <3> QED BY <2>1, <2>2, <3>1 DEF OnlyMine, Mine
  <2> QED BY <2>1, <2>2, Empty DEF OnlyMine, Mine
<1>4. CASE WriteFails \/ ReadFails
  <2>1. pc \in {"write", "read"} /\ acc' = <<>> /\ UNCHANGED <<todo, line, kbuf, cmd, late>>
    BY <1>4 DEF WriteFails, ReadFails, Fail, radio
  <2> QED BY <2>1, Empty DEF OnlyMine, Mine
<1>5. CASE Read
  <2>1. pc = "read" /\ UNCHANGED <<todo, line, cmd, late>>
    BY <1>5 DEF Read, radio
  <2>2. /\ \A i \in DOMAIN acc' :
             (\E j \in DOMAIN acc : acc'[i] = acc[j]) \/ (\E j \in DOMAIN kbuf : acc'[i] = kbuf[j])
        /\ \A i \in DOMAIN kbuf' : \E j \in DOMAIN kbuf : kbuf'[i] = kbuf[j]
    BY <1>5, ReadType
  <2> QED BY <2>1, <2>2 DEF OnlyMine, Mine
<1>6. CASE ReadTimeout
  <2>1. pc = "read" /\ UNCHANGED <<todo, line, kbuf, cmd, late>> /\ Judge(acc) /\ acc \in Seq(Piece)
    BY <1>6 DEF ReadTimeout, radio, TypeOK
  <2>2. acc' \in {acc, <<>>}
    BY <2>1, JudgeType
  <2> QED BY <2>1, <2>2, Empty DEF OnlyMine, Mine
<1> QED BY <1>2, <1>3, <1>4, <1>5, <1>6

\* An answer that is taken is fresh, and a filter fits the mode it was asked for.
LEMMA TakenFresh ==
  ASSUME TypeOK, PollInv, NEW f \in Field, NEW r \in Parsed(acc) \cup {{}}, Took(f, r), NEW t \in r
  PROVE  Fresh(f, t) /\ (f = "RF" => t.late \/ t.ans.mode = cmd.mode)
<1>1. Matches(acc) /\ t = [ans |-> acc[1].ans, by |-> cmd, late |-> late]
  BY DEF Parsed, Answer
<1>2. acc \in Seq(Piece) /\ acc # <<>> /\ 1 \in DOMAIN acc /\ acc[1].ans.pre = cmd.pre
  BY <1>1 DEF Matches, TypeOK
<1>3. pc = "reply" /\ cmd.pre = f
  BY DEF Took
<1>4. late \/ Mine(acc[1].ans)
  BY <1>2, <1>3 DEF PollInv, OnlyMine
<1> QED BY <1>1, <1>2, <1>3, <1>4 DEF Mine, Fresh

\* The steps of polls and commands, up to what they take.
LEMMA PollSteps ==
  ASSUME TypeOK, PollInv, StartPoll \/ StartSet \/ SetDone \/ TookIf \/ TookRf \/ TookRi \/ TookSm
  PROVE  PollInv'
<1>1. Field = {"IF", "RF", "RI", "SM"} /\ draft \in Draft /\ published \in Draft
  BY DEF Field, TypeOK
<1>2. CASE StartPoll
  <2>1. pc' = "flush" /\ cmd'.pre = "IF" /\ draft' = NoDraft /\ published' = published
    BY <1>2 DEF StartPoll, Ask
  <2> QED BY <2>1 DEF PollInv, OnlyMine, InOrder, Paired, NoDraft, Field, FreshUnlessLate
<1>3. CASE StartSet
  <2>1. pc' = "flush" /\ cmd'.pre = "MD" /\ UNCHANGED <<draft, published>>
    BY <1>3 DEF StartSet, Ask
  <2> QED BY <2>1 DEF PollInv, OnlyMine, InOrder, FreshUnlessLate, Paired
<1>4. CASE SetDone
  <2>1. pc' = "idle" /\ UNCHANGED <<draft, published>>
    BY <1>4 DEF SetDone
  <2> QED BY <2>1 DEF PollInv, OnlyMine, InOrder, FreshUnlessLate, Paired
<1>5. ASSUME NEW f \in Field, NEW r \in Parsed(acc) \cup {{}}, Took(f, r)
      PROVE  /\ pc = "reply" /\ cmd.pre = f
             /\ draft' = [draft EXCEPT ![f] = r]
             /\ \A g \in Field : draft'[g] = IF g = f THEN r ELSE draft[g]
             /\ \A g \in Field : \A t \in draft'[g] : Fresh(g, t)
  <2>1. pc = "reply" /\ cmd.pre = f /\ draft' = [draft EXCEPT ![f] = r]
    BY <1>5 DEF Took
  <2>2. \A g \in Field : draft'[g] = IF g = f THEN r ELSE draft[g]
    BY <1>1, <2>1 DEF Draft
  <2>3. \A g \in Field : \A t \in draft[g] : Fresh(g, t)
    BY DEF PollInv, FreshUnlessLate, Fresh
  <2> QED BY <1>5, <2>1, <2>2, <2>3, TakenFresh
<1>6. \A g \in Field : \A t \in published[g] : Fresh(g, t)
  BY DEF PollInv, FreshUnlessLate, Fresh
<1>7. ASSUME \A g \in Field : \A t \in draft'[g] : Fresh(g, t), published' \in {published, draft'}
      PROVE  FreshUnlessLate'
  BY <1>6, <1>7 DEF FreshUnlessLate, Fresh
<1>8. CASE TookIf
  <2>1. PICK r \in Parsed(acc) :
          /\ Took("IF", r)
          /\ IF r = {} THEN pc' = "idle" /\ UNCHANGED <<cmd, asks>>
             ELSE LET m == (CHOOSE t \in r : TRUE).ans.mode IN
                    IF m \in Mode THEN Ask("RF", m) ELSE Ask("RI", Other)
          /\ UNCHANGED published
    BY <1>8 DEF TookIf, ParseIf
  <2>2. /\ pc = "reply" /\ cmd.pre = "IF"
        /\ draft'["IF"] = r /\ draft'["RF"] = draft["RF"]
        /\ \A g \in Field : \A t \in draft'[g] : Fresh(g, t)
    BY <1>1, <1>5, <2>1
  <2>3. draft'["RF"] = {}
    BY <2>2 DEF PollInv, InOrder
  <2>4. FreshUnlessLate'
    BY <1>7, <2>1, <2>2
  <2>5. Paired(draft') /\ Paired(published')
    BY <2>1, <2>3 DEF PollInv, Paired
  <2>6. CASE r = {}
    <3>1. pc' = "idle"
      BY <2>1, <2>6
    <3> QED BY <2>4, <2>5, <3>1 DEF PollInv, OnlyMine, InOrder, Paired
  <2>7. CASE r # {}
    <3> DEFINE m == (CHOOSE t \in r : TRUE).ans.mode
    <3>1. \A t \in r : t.ans.mode = m
      <4>1. r = Answer(acc)
        BY <2>7 DEF Parsed
      <4>2. \A t, u \in r : t = u
        BY <4>1 DEF Answer
      <4> QED BY <4>2
    <3>2. (m \in Mode /\ Ask("RF", m)) \/ Ask("RI", Other)
      BY <2>1, <2>7
    <3> HIDE DEF m
    <3>3. pc' = "flush" /\ (cmd'.pre = "RI" \/ (cmd'.pre = "RF" /\ cmd'.mode = m))
      BY <3>2 DEF Ask
    <3> QED BY <2>2, <2>4, <2>5, <3>1, <3>3 DEF PollInv, OnlyMine, InOrder, Paired
  <2> QED BY <2>6, <2>7
<1>9. CASE TookRf
  <2>1. PICK r \in Parsed(acc) : Took("RF", r) /\ Ask("RI", Other) /\ UNCHANGED published
    BY <1>9 DEF TookRf, ParseRf
  <2>2. /\ pc = "reply" /\ cmd.pre = "RF"
        /\ draft'["RF"] = r /\ draft'["IF"] = draft["IF"]
        /\ \A g \in Field : \A t \in draft'[g] : Fresh(g, t)
    BY <1>1, <1>5, <2>1
  <2>3. \A m \in draft["IF"] : m.ans.mode = cmd.mode
    BY <2>2 DEF PollInv, InOrder
  <2>4. \A t \in r : t.late \/ t.ans.mode = cmd.mode
    BY <1>1, <2>1, TakenFresh
  <2>5. Paired(draft') /\ Paired(published')
    BY <2>1, <2>2, <2>3, <2>4 DEF PollInv, Paired
  <2>6. FreshUnlessLate'
    BY <1>7, <2>1, <2>2
  <2>7. pc' = "flush" /\ cmd'.pre = "RI"
    BY <2>1 DEF Ask
  <2> QED BY <2>5, <2>6, <2>7 DEF PollInv, OnlyMine, InOrder, Paired
<1>10. ASSUME NEW f \in {"RI", "SM"}, NEW r \in Parsed(acc) \cup {{}}, Took(f, r),
              \/ published' = draft' /\ pc' = "idle"
              \/ published' = published /\ pc' = "flush" /\ cmd'.pre = "SM"
       PROVE  PollInv'
  <2>1. /\ draft'["RF"] = draft["RF"] /\ draft'["IF"] = draft["IF"]
        /\ \A g \in Field : \A t \in draft'[g] : Fresh(g, t)
    BY <1>1, <1>5, <1>10
  <2>2. Paired(draft') /\ Paired(published')
    BY <1>10, <2>1 DEF PollInv, Paired
  <2>3. FreshUnlessLate'
    BY <1>7, <1>10, <2>1
  <2> QED BY <1>10, <2>2, <2>3 DEF PollInv, OnlyMine, InOrder, Paired
<1>11. CASE TookRi
  <2>1. PICK r \in Parsed(acc) \cup {{}} :
          Took("RI", r) /\ (Publish \/ (Ask("SM", Other) /\ UNCHANGED published))
    BY <1>11 DEF TookRi, ParseRi
  <2> QED BY <1>10, <2>1 DEF Publish, Ask
<1>12. CASE TookSm
  <2>1. PICK r \in Parsed(acc) : Took("SM", r) /\ Publish
    BY <1>12 DEF TookSm, ParseSm
  <2> QED BY <1>10, <2>1 DEF Publish
<1> QED BY <1>2, <1>3, <1>4, <1>8, <1>9, <1>11, <1>12

LEMMA PollStep == TypeOK /\ Trying /\ PollInv /\ [Next]_vars => PollInv'
<1> SUFFICES ASSUME TypeOK, Trying, PollInv, [Next]_vars PROVE PollInv'
  OBVIOUS
<1>1. CASE RadioAnswers \/ RadioSilent \/ Arrive \/ Turn
  <2>1. UNCHANGED <<pc, cmd, draft, published>>
    BY <1>1 DEF RadioAnswers, RadioSilent, Arrive, Turn, host
  <2>2. OnlyMine'
    BY <1>1, OnlyMineRadio DEF PollInv
  <2> QED BY <2>1, <2>2 DEF PollInv, InOrder, Paired, FreshUnlessLate
<1>2. CASE Flush \/ Write \/ WriteFails \/ ReadFails \/ Read \/ ReadTimeout
  <2>1. UNCHANGED <<cmd, draft, published>> /\ pc # "idle"
    BY <1>2 DEF Flush, Flushed, Write, WriteFails, ReadFails, Fail, Read, ReadTimeout
  <2>2. OnlyMine'
    BY <1>2, OnlyMinePort DEF PollInv
  <2> QED BY <2>1, <2>2 DEF PollInv, InOrder, Paired, FreshUnlessLate
<1>3. CASE UNCHANGED vars
  BY <1>3 DEF vars, PollInv, OnlyMine, Mine, InOrder, Paired, FreshUnlessLate
<1> QED BY <1>1, <1>2, <1>3, PollSteps DEF Next, Host

LEMMA PollKept == Spec => []PollInv
<1>1. Init => TypeOK /\ Trying /\ PollInv
  BY TypeInit, PollInit
<1>2. TypeOK /\ Trying /\ PollInv /\ [Next]_vars => (TypeOK /\ Trying /\ PollInv)'
  BY TypeStep, PollStep
<1> QED BY <1>1, <1>2, PTL DEF Spec

\* However slow the radio, a poll takes an answer to an earlier query only if
\* one with the same letters was on its way when its own was written.
THEOREM AnswersFresh == Spec => []FreshUnlessLate
<1>1. PollInv => FreshUnlessLate
  BY DEF PollInv
<1> QED BY <1>1, PollKept, PTL

\* However the mode changes during a poll, the filter published with it is
\* the filter of that mode.
THEOREM FilterFits == Spec => []FilterOfMode
<1>1. PollInv => FilterOfMode
  BY DEF PollInv, Paired, FilterOfMode
<1> QED BY <1>1, PollKept, PTL

-----------------------------------------------------------------------------
(* An exchange is finitely many steps.                                     *)

\* What moves from the radio to the buffer is not more on its way.
LEMMA RadioShrinks ==
  ASSUME TypeOK, RadioAnswers \/ RadioSilent \/ Arrive \/ Turn
  PROVE  Shrinks
<1>1. todo \in Seq(Query) /\ line \in Seq(Piece) /\ kbuf \in Seq(Piece)
  BY DEF TypeOK
<1>2. Len(todo) \in Nat /\ Len(line) \in Nat /\ Len(kbuf) \in Nat
  BY <1>1
<1>3. UNCHANGED <<pc, cmd, acc, tries>>
  BY DEF RadioAnswers, RadioSilent, Arrive, Turn, host
<1>4. QueriesLeft' = QueriesLeft /\ StepsLeft' = StepsLeft
  BY <1>3 DEF QueriesLeft, StepsLeft
<1>5. \A S : \A q \in Seq(S) : q # <<>> => Tail(q) \in Seq(S) /\ Len(Tail(q)) = Len(q) - 1 /\ Head(q) \in S
  BY HeadTailProperties
<1>6. PiecesLeft' <= PiecesLeft /\ PiecesLeft' \in Int /\ PiecesLeft \in Int
  <2>1. CASE RadioAnswers
    <3> DEFINE a == [Head(todo) EXCEPT !.mode = IF Head(todo).pre = "IF" THEN mode ELSE @]
               two == <<[ans |-> a, end |-> FALSE], [ans |-> a, end |-> TRUE]>>
    <3>1. line' = line \o two /\ todo' = Tail(todo) /\ todo # <<>> /\ kbuf' = kbuf
      BY <2>1 DEF RadioAnswers, host
    <3>2. Head(todo) \in Query /\ mode \in Modes /\ Len(todo') = Len(todo) - 1
      BY <1>1, <1>5, <3>1 DEF TypeOK
    <3>3. a \in Query
      BY <3>2 DEF Query
    <3> HIDE DEF a
    <3>4. two \in Seq(Piece) /\ Len(two) = 2
      BY <3>3 DEF Piece
    <3> HIDE DEF two
    <3>5. Len(line') = Len(line) + 2
      <4>1. \A x \in Seq(Piece) : \A y \in Seq(Piece) : Len(x \o y) = Len(x) + Len(y)
        BY ConcatProperties
      <4>2. Len(line \o two) = Len(line) + Len(two)
        BY <1>1, <3>4, <4>1
      <4> QED BY <3>1, <3>4, <4>2
    <3> QED BY <1>2, <3>1, <3>2, <3>5 DEF PiecesLeft
  <2>2. CASE RadioSilent
    <3>1. Len(todo') = Len(todo) - 1 /\ line' = line /\ kbuf' = kbuf
      BY <1>1, <1>5, <2>2 DEF RadioSilent, host
    <3> QED BY <1>2, <3>1 DEF PiecesLeft
  <2>3. CASE Arrive
    <3>1. line # <<>> /\ line' = Tail(line) /\ kbuf' = Append(kbuf, Head(line)) /\ todo' = todo
      BY <2>3 DEF Arrive
    <3>2. Len(line') = Len(line) - 1 /\ Head(line) \in Piece
      BY <1>1, <1>5, <3>1
    <3>3. Len(kbuf') = Len(kbuf) + 1
      BY <1>1, <3>1, <3>2, AppendProperties
    <3> QED BY <1>2, <3>1, <3>2, <3>3 DEF PiecesLeft
  <2>4. CASE Turn
    BY <1>2, <2>4 DEF Turn, host, PiecesLeft
  <2> QED BY <2>1, <2>2, <2>3, <2>4
<1> QED BY <1>3, <1>4, <1>6 DEF Shrinks

\* An answer that is judged ends the query or is one less to try.
LEMMA JudgeShrinks ==
  ASSUME TypeOK, Trying, pc = "read", cmd' = cmd, NEW resp, Judge(resp)
  PROVE  Shrinks
<1>1. tries \in Nat /\ QueriesLeft' = QueriesLeft
  BY DEF Trying, QueriesLeft
<1>2. CASE pc' = "reply"
  BY <1>1, <1>2 DEF Shrinks, StepsLeft
<1>3. CASE pc' = "read" /\ tries' = tries - 1
  BY <1>1, <1>3 DEF Shrinks, StepsLeft
<1> QED BY <1>2, <1>3 DEF Judge

\* A read that ends no answer takes at least a piece from the buffer.
LEMMA ReadShrinks ==
  ASSUME TypeOK, Trying, Read
  PROVE  Shrinks
<1>1. pc = "read" /\ kbuf # <<>> /\ UNCHANGED <<cmd, todo, line>>
  BY DEF Read, radio
<1>2. CASE \E resp : Judge(resp)
  BY <1>1, <1>2, JudgeShrinks
<1>3. CASE UNCHANGED <<pc, tries>> /\ kbuf' = SubSeq(kbuf, ReadNow + 1, Len(kbuf))
  <2>1. kbuf \in Seq(Piece) /\ Len(kbuf) \in Nat /\ Len(todo) \in Nat /\ Len(line) \in Nat
    BY DEF TypeOK
  <2>2. Len(kbuf) # 0
    BY <1>1, <2>1, EmptySeq
  <2>3. ReadNow \in 1..Len(kbuf)
    BY <2>1, <2>2, LinkAssumption DEF ReadNow
  <2>4. Len(kbuf') = Len(kbuf) - ReadNow
    <3> DEFINE m == ReadNow + 1
    <3>1. m \in Nat \ {0} /\ m <= Len(kbuf) + 1 /\ ReadNow = m - 1
      BY <2>1, <2>3
    <3> HIDE DEF m
    <3>2. \A i \in m..Len(kbuf) : kbuf[i] \in Piece
      BY <2>1, <3>1, ElementOfSeq
    <3>3. Len(SubSeq(kbuf, m, Len(kbuf))) = IF m <= Len(kbuf) THEN Len(kbuf) - m + 1 ELSE 0
      BY <2>1, <3>1, <3>2, SubSeqProperties
    <3>4. kbuf' = SubSeq(kbuf, m, Len(kbuf))
      BY <1>3 DEF m
    <3> QED BY <2>1, <3>1, <3>3, <3>4
  <2>5. PiecesLeft' < PiecesLeft
    BY <1>1, <2>1, <2>3, <2>4 DEF PiecesLeft
  <2> QED BY <1>1, <1>3, <2>5 DEF Shrinks, QueriesLeft, StepsLeft
<1>4. \/ \E i \in DOMAIN Gathered : Judge(SubSeq(Gathered, 1, i))
      \/ UNCHANGED <<pc, tries>>
  BY DEF Read, Gathered, ReadNow
<1>5. kbuf' = SubSeq(kbuf, ReadNow + 1, Len(kbuf))
  BY DEF Read, ReadNow
<1> QED BY <1>2, <1>3, <1>4, <1>5

\* The next query of a poll is a later one.
LEMMA PollShrinks ==
  ASSUME TypeOK, TookIf \/ TookRf \/ TookRi \/ TookSm
  PROVE  Shrinks
<1>1. CASE TookIf
  BY <1>1 DEF TookIf, Took, Ask, Shrinks, QueriesLeft
<1>2. CASE TookRf
  BY <1>2 DEF TookRf, Took, Ask, Shrinks, QueriesLeft
<1>3. CASE TookRi
  BY <1>3 DEF TookRi, Took, Ask, Publish, Shrinks, QueriesLeft
<1>4. CASE TookSm
  BY <1>4 DEF TookSm, Publish, Shrinks
<1> QED BY <1>1, <1>2, <1>3, <1>4

\* Every wait on the port has a deadline, and there are finitely many
\* (IO_DEADLINE, serial.rs:24): whatever the radio does, what is left of an
\* exchange goes down until the port is given back.
THEOREM Shrinking == Spec => ExchangeShrinks
<1>1. Init => TypeOK /\ Trying
  BY TypeInit
<1>2. TypeOK /\ Trying /\ [Next]_vars => (TypeOK /\ Trying)'
  BY TypeStep
<1>3. TypeOK /\ Trying /\ [Next]_vars => [pc # "idle" => Shrinks]_vars
  <2> SUFFICES ASSUME TypeOK, Trying, Next, pc # "idle" PROVE Shrinks
    OBVIOUS
  <2>1. CASE RadioAnswers \/ RadioSilent \/ Arrive \/ Turn
    BY <2>1, RadioShrinks
  <2>2. CASE StartPoll \/ StartSet
    BY <2>2 DEF StartPoll, StartSet
  <2>3. CASE Flush \/ Write
    BY <2>3 DEF Flush, Flushed, Write, Shrinks, QueriesLeft, StepsLeft
  <2>4. CASE WriteFails \/ ReadFails
    BY <2>4 DEF WriteFails, ReadFails, Fail, Shrinks, QueriesLeft, StepsLeft
  <2>5. CASE Read
    BY <2>5, ReadShrinks
  <2>6. CASE ReadTimeout
    <3>1. pc = "read" /\ cmd' = cmd /\ Judge(acc)
      BY <2>6 DEF ReadTimeout
    <3> QED BY <3>1, JudgeShrinks
  <2>7. CASE SetDone
    BY <2>7 DEF SetDone, Shrinks
  <2>8. CASE TookIf \/ TookRf \/ TookRi \/ TookSm
    BY <2>8, PollShrinks
  <2> QED BY <2>1, <2>2, <2>3, <2>4, <2>5, <2>6, <2>7, <2>8 DEF Next, Host
<1> QED BY <1>1, <1>2, <1>3, PTL DEF Spec, ExchangeShrinks
=============================================================================
