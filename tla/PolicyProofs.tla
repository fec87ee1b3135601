---------------------------- MODULE PolicyProofs ----------------------------
(***************************************************************************)
(* The decision table, for every reading of the judge and every history of *)
(* the parties: guidance starts only when its facts were stated to it, and *)
(* a turn that asks nothing leaves somebody who owes an answer.  The row   *)
(* that decides is the first whose condition holds.                        *)
(***************************************************************************)
EXTENDS Policy, SequenceTheorems, TLAPS

\* The row that decides.
First(rows, i) == rows[i].when /\ \A j \in 1..(i-1) : ~rows[j].when

LEMMA SomeRowIsFirst ==
  ASSUME NEW rows, rows[14].when
  PROVE  \E i \in 1..14 : First(rows, i)
<1> DEFINE F(i) == First(rows, i)
           None(i) == \A j \in 1..i : ~rows[j].when
<1>1. rows[1].when => First(rows, 1)
  BY DEF First
<1>2. None(0)
  OBVIOUS
<1>3. \A i \in 1..14 : None(i-1) => F(i) \/ None(i)
  BY DEF First
<1>4. ~None(14)
  OBVIOUS
<1> HIDE DEF F, None
<1>5. \E i \in 1..14 : F(i)
  <2>1. None(0) => F(1) \/ None(1) BY <1>3
  <2>2. None(1) => F(2) \/ None(2) BY <1>3
  <2>3. None(2) => F(3) \/ None(3) BY <1>3
  <2>4. None(3) => F(4) \/ None(4) BY <1>3
  <2>5. None(4) => F(5) \/ None(5) BY <1>3
  <2>6. None(5) => F(6) \/ None(6) BY <1>3
  <2>7. None(6) => F(7) \/ None(7) BY <1>3
  <2>8. None(7) => F(8) \/ None(8) BY <1>3
  <2>9. None(8) => F(9) \/ None(9) BY <1>3
  <2>10. None(9) => F(10) \/ None(10) BY <1>3
  <2>11. None(10) => F(11) \/ None(11) BY <1>3
  <2>12. None(11) => F(12) \/ None(12) BY <1>3
  <2>13. None(12) => F(13) \/ None(13) BY <1>3
  <2>14. None(13) => F(14) \/ None(14) BY <1>3
  <2> QED
    BY <1>2, <1>4, <2>1, <2>2, <2>3, <2>4, <2>5, <2>6, <2>7, <2>8, <2>9, <2>10, <2>11,
       <2>12, <2>13, <2>14
<1> QED
  BY <1>5 DEF F

LEMMA RowsHave ==
  ASSUME NEW turn
  PROVE  /\ Len(Rows(turn)) = 14
         /\ Rows(turn)[14].when
BY DEF Rows, Row

LEMMA FirstRowDecides ==
  ASSUME NEW turn
  PROVE  \E i \in 1..14 : First(Rows(turn), i) /\ Decide(turn) = Rows(turn)[i].act
<1> DEFINE rows == Rows(turn)
<1>1. Len(rows) = 14 /\ rows[14].when
  BY RowsHave
<1> HIDE DEF rows
<1>2. \E i \in 1..Len(rows) : First(rows, i)
  BY <1>1, SomeRowIsFirst
<1> DEFINE k == CHOOSE i \in 1..Len(rows) : First(rows, i)
<1>3. k \in 1..14 /\ First(rows, k)
  BY <1>1, <1>2
<1>4. Decide(turn) = rows[k].act
  BY DEF Decide, rows, First
<1> QED
  BY <1>3, <1>4 DEF rows

-----------------------------------------------------------------------------
Question == {"ask_buyer_sent", "ask_buyer_sent_simple", "ask_buyer_details",
             "ask_seller_received", "ask_seller_received_simple",
             "ask_seller_check_account"}

LEMMA QuestionsAre ==
  /\ \A t : IsQuestion(t) <=> t \in Question
  /\ \A p \in Party, i \in 1..3 : QuestionsOf(p)[i] \in Question
  /\ NoTemplate \notin Question
BY DEF IsQuestion, Question, QuestionsOf, BuyerQuestions, SellerQuestions, Party, NoTemplate

\* NeededQuestion: a question that was not sent, or none if all needed were.
LEMMA NeededIsNew ==
  ASSUME NEW p \in Party, NEW facts, NEW sent
  PROVE  LET needed == NeededQuestion(p, facts, sent)
         IN \/ /\ needed = << >>
               /\ \A i \in 1..3 : QuestionNeeded(p, facts, i) => QuestionsOf(p)[i] \in sent
            \/ \E q \in Question : q \notin sent /\ needed = <<q>>
<1> DEFINE open == {i \in 1..3 : QuestionNeeded(p, facts, i) /\ QuestionsOf(p)[i] \notin sent}
           i == CHOOSE i \in open : \A j \in open : i <= j
<1>1. CASE open = {}
  BY <1>1 DEF NeededQuestion
<1>2. CASE open # {}
  <2>1. \E k \in open : \A j \in open : k <= j
    BY <1>2
  <2>2. i \in open
    BY <2>1
  <2>3. NeededQuestion(p, facts, sent) = <<QuestionsOf(p)[i]>>
    BY <1>2 DEF NeededQuestion
  <2> QED
    BY <2>2, <2>3, QuestionsAre
<1> QED
  BY <1>1, <1>2
Sendable == Question \union Courtesy

\* Templates a turn may send a party: at most one question among them.
OneQuestion(templates) ==
  /\ templates \in Seq(Sendable)
  /\ \A i, j \in 1..Len(templates) :
       templates[i] \in Question /\ templates[j] \in Question => i = j

NoneSent(templates, sent) == \A i \in 1..Len(templates) : templates[i] \notin sent

LEMMA CourtesyAsksNothing == \A t \in Courtesy : t \notin Question /\ t # NoTemplate
BY DEF Courtesy, Question, NoTemplate

LEMMA ShortLists ==
  /\ << >> \o << >> = << >>
  /\ \A a : << >> \o <<a>> = <<a>> /\ <<a>> \o << >> = <<a>>
  /\ \A a, b : <<a>> \o <<b>> = <<a, b>>
<1>1. ASSUME NEW a, NEW b PROVE <<a>> \o <<b>> = <<a, b>>
  <2> DEFINE S == {a, b}
             s == <<a>> \o <<b>>
  <2>1. <<a>> \in Seq(S) /\ <<b>> \in Seq(S) /\ <<a, b>> \in Seq(S)
    OBVIOUS
  <2>2. /\ s \in Seq(S)
        /\ Len(s) = Len(<<a>>) + Len(<<b>>)
        /\ \A i \in 1..(Len(<<a>>) + Len(<<b>>)) :
             s[i] = IF i <= Len(<<a>>) THEN <<a>>[i] ELSE <<b>>[i - Len(<<a>>)]
    BY <2>1, ConcatProperties
  <2>3. Len(s) = 2 /\ s[1] = a /\ s[2] = b
    <3> HIDE DEF s
    <3> QED BY <2>2
  <2>4. Len(s) = Len(<<a, b>>) /\ \A i \in 1..Len(s) : s[i] = <<a, b>>[i]
    <3> HIDE DEF s
    <3> QED BY <2>3
  <2> QED
    BY <2>1, <2>2, <2>4, SeqEqual
<1>2. << >> \o << >> = << >>
  BY ConcatEmptySeq, EmptySeq
<1>3. ASSUME NEW a PROVE << >> \o <<a>> = <<a>> /\ <<a>> \o << >> = <<a>>
  <2>1. <<a>> \in Seq({a})
    OBVIOUS
  <2> QED
    BY <2>1, ConcatEmptySeq
<1> QED
  BY <1>1, <1>2, <1>3

LEMMA ShortListsOfOne ==
  /\ OneQuestion(<< >>)
  /\ \A a \in Sendable : OneQuestion(<<a>>)
  /\ \A a \in Courtesy, b \in Sendable : OneQuestion(<<a, b>>)
  /\ \A S : NoneSent(<< >>, S)
  /\ \A a, S : a \notin S => NoneSent(<<a>>, S)
  /\ \A a, b, S : a \notin S /\ b \notin S => NoneSent(<<a, b>>, S)
BY CourtesyAsksNothing DEF OneQuestion, NoneSent, Sendable

LEMMA SimpleIsQuestion ==
  \A t : SimpleVariant(t) # NoTemplate => SimpleVariant(t) \in Question
BY DEF SimpleVariant, Question, NoTemplate

\* A writer gets nothing it was sent before.
LEMMA WriterGetsNew ==
  ASSUME NEW p \in Party, NEW facts, NEW own
  PROVE  LET templates == TemplatesForWriter(p, facts, own)
         IN /\ OneQuestion(templates)
            /\ NoneSent(templates, own.sent)
            /\ ~AnyQuestion(templates) =>
                 \A i \in 1..3 : QuestionNeeded(p, facts, i) => QuestionsOf(p)[i] \in own.sent
<1> DEFINE kind == facts.kind[p]
           simple == SimpleVariant(own.question)
           needed == NeededQuestion(p, facts, own.sent)
           next == IF kind = "asks_next_step" /\ "what_happens_next" \notin own.sent
                   THEN <<"what_happens_next">> ELSE << >>
           rest == IF needed # << >> THEN needed
                   ELSE IF NothingNeeded(p, facts) /\ "thanks_waiting" \notin own.sent
                        THEN <<"thanks_waiting">>
                        ELSE << >>
           plain == kind = "not_understood" /\ simple # NoTemplate /\ simple \notin own.sent
<1>1. TemplatesForWriter(p, facts, own) = IF plain THEN <<simple>> ELSE next \o rest
  BY DEF TemplatesForWriter
<1>2. CASE plain
  <2>1. simple \in Question /\ simple \notin own.sent
    BY <1>2, SimpleIsQuestion
  <2> HIDE DEF simple
  <2>2. TemplatesForWriter(p, facts, own) = <<simple>>
    BY <1>1, <1>2
  <2>3. AnyQuestion(<<simple>>)
    BY <2>1, QuestionsAre DEF AnyQuestion
  <2> QED
    BY <2>1, <2>2, <2>3, ShortListsOfOne DEF Sendable
<1>3. CASE ~plain
  <2> HIDE DEF plain, kind
  <2>1. TemplatesForWriter(p, facts, own) = next \o rest
    BY <1>1, <1>3
  <2>2. \/ next = << >>
        \/ next = <<"what_happens_next">> /\ "what_happens_next" \notin own.sent
    OBVIOUS
  <2>3. \/ \E q \in Question : q \notin own.sent /\ rest = <<q>>
        \/ /\ \A i \in 1..3 : QuestionNeeded(p, facts, i) => QuestionsOf(p)[i] \in own.sent
           /\ rest = << >> \/ (rest = <<"thanks_waiting">> /\ "thanks_waiting" \notin own.sent)
    <3> HIDE DEF needed
    <3>1. \/ /\ needed = << >>
             /\ \A i \in 1..3 : QuestionNeeded(p, facts, i) => QuestionsOf(p)[i] \in own.sent
          \/ \E q \in Question : q \notin own.sent /\ needed = <<q>>
      BY NeededIsNew DEF needed
    <3> QED
      BY <3>1
  <2>4. "what_happens_next" \in Courtesy /\ "thanks_waiting" \in Courtesy
    BY DEF Courtesy
  <2> HIDE DEF next, rest
  <2>5. CASE \E q \in Question : q \notin own.sent /\ rest = <<q>>
    <3>1. PICK q \in Question : q \notin own.sent /\ rest = <<q>>
      BY <2>5
    <3>2. \/ next \o rest = <<q>>
          \/ next \o rest = <<"what_happens_next", q>> /\ "what_happens_next" \notin own.sent
      BY <3>1, <2>2, ShortLists
    <3>3. AnyQuestion(next \o rest)
      <4>1. IsQuestion(q)
        BY QuestionsAre
      <4>2. AnyQuestion(<<q>>) /\ AnyQuestion(<<"what_happens_next", q>>)
        <5> HIDE DEF IsQuestion
        <5>1. Len(<<q>>) = 1 /\ <<q>>[1] = q
          OBVIOUS
        <5>2. Len(<<"what_happens_next", q>>) = 2 /\ <<"what_happens_next", q>>[2] = q
          OBVIOUS
        <5> QED
          BY <4>1, <5>1, <5>2 DEF AnyQuestion
      <4> QED
        BY <3>2, <4>2
    <3>4. OneQuestion(next \o rest) /\ NoneSent(next \o rest, own.sent)
      BY <3>1, <3>2, <2>4, ShortListsOfOne DEF Sendable
    <3> QED
      BY <3>3, <3>4, <2>1
  <2>6. CASE /\ \A i \in 1..3 : QuestionNeeded(p, facts, i) => QuestionsOf(p)[i] \in own.sent
             /\ rest = << >> \/ (rest = <<"thanks_waiting">> /\ "thanks_waiting" \notin own.sent)
    <3>1. \/ next \o rest = << >>
          \/ next \o rest = <<"thanks_waiting">> /\ "thanks_waiting" \notin own.sent
          \/ next \o rest = <<"what_happens_next">> /\ "what_happens_next" \notin own.sent
          \/ /\ next \o rest = <<"what_happens_next", "thanks_waiting">>
             /\ "thanks_waiting" \notin own.sent /\ "what_happens_next" \notin own.sent
      BY <2>6, <2>2, ShortLists
    <3>2. OneQuestion(next \o rest) /\ NoneSent(next \o rest, own.sent)
      BY <3>1, <2>4, ShortListsOfOne DEF Sendable
    <3> QED
      BY <2>6, <3>2, <2>1
  <2> QED
    BY <2>3, <2>5, <2>6
<1> QED
  BY <1>2, <1>3

\* What a change of language repeats is a question or a courtesy.
LEMMA ResendIsSendable ==
  ASSUME NEW own, LanguageResend(own) # NoTemplate
  PROVE  LanguageResend(own) \in Sendable
BY QuestionsAre DEF LanguageResend, Resendable, Sendable

LEMMA PartyGetsNew ==
  ASSUME NEW p \in Party, NEW facts, NEW own
  PROVE  LET templates == ForParty(p, facts, own)
         IN /\ OneQuestion(templates)
            /\ ~Resends(p, facts, own) => NoneSent(templates, own.sent)
            /\ Resends(p, facts, own) => templates = <<LanguageResend(own)>>
            /\ ~AnyQuestion(templates) =>
                 \/ Resends(p, facts, own)
                 \/ p \notin facts.wrote /\ own.outstanding
                 \/ \A i \in 1..3 : QuestionNeeded(p, facts, i) => QuestionsOf(p)[i] \in own.sent
<1>1. CASE p \notin facts.wrote
  <2>1. ~Resends(p, facts, own)
    BY <1>1 DEF Resends
  <2>2. ForParty(p, facts, own) =
          IF own.outstanding THEN << >> ELSE NeededQuestion(p, facts, own.sent)
    BY <1>1 DEF ForParty
  <2>3. CASE own.outstanding \/ NeededQuestion(p, facts, own.sent) = << >>
    <3>1. ForParty(p, facts, own) = << >>
      BY <2>2, <2>3
    <3>2. own.outstanding \/ \A i \in 1..3 : QuestionNeeded(p, facts, i) => QuestionsOf(p)[i] \in own.sent
      BY <2>3, NeededIsNew
    <3> QED
      BY <1>1, <2>1, <3>1, <3>2, ShortListsOfOne
  <2>4. CASE ~own.outstanding /\ NeededQuestion(p, facts, own.sent) # << >>
    <3>1. PICK q \in Question : q \notin own.sent /\ NeededQuestion(p, facts, own.sent) = <<q>>
      BY <2>4, NeededIsNew
    <3>2. ForParty(p, facts, own) = <<q>>
      BY <2>2, <2>4, <3>1
    <3>3. AnyQuestion(<<q>>)
      BY QuestionsAre DEF AnyQuestion
    <3> QED
      BY <2>1, <3>1, <3>2, <3>3, ShortListsOfOne DEF Sendable
  <2> QED
    BY <2>3, <2>4
<1>2. CASE p \in facts.wrote /\ Resends(p, facts, own)
  <2>1. ForParty(p, facts, own) = <<LanguageResend(own)>>
    BY <1>2 DEF ForParty
  <2>2. LanguageResend(own) \in Sendable
    BY <1>2, ResendIsSendable DEF Resends
  <2> QED
    BY <1>2, <2>1, <2>2, ShortListsOfOne
<1>3. CASE p \in facts.wrote /\ ~Resends(p, facts, own)
  <2>1. ForParty(p, facts, own) = TemplatesForWriter(p, facts, own)
    BY <1>3 DEF ForParty
  <2> QED
    BY <1>3, <2>1, WriterGetsNew
<1> QED
  BY <1>1, <1>2, <1>3

\* next_questions.
LEMMA NextIsNew ==
  ASSUME NEW p \in Party, NEW facts, NEW history
  PROVE  LET templates == NextQuestions(facts, history)[p]
             own == history[p]
         IN /\ OneQuestion(templates)
            /\ ~Resends(p, facts, own) => NoneSent(templates, own.sent)
            /\ Resends(p, facts, own) => templates = <<LanguageResend(own)>>
            /\ ~AnyQuestion(templates) =>
                 \/ Resends(p, facts, own)
                 \/ p \notin facts.wrote /\ own.outstanding
                 \/ \A i \in 1..3 : QuestionNeeded(p, facts, i) => QuestionsOf(p)[i] \in own.sent
<1> DEFINE own == history[p]
<1>1. NextQuestions(facts, history)[p] =
        IF WaitsForOther(p, facts, history) THEN <<"waiting_other_party">>
        ELSE ForParty(p, facts, own)
  BY DEF NextQuestions
<1>2. CASE ~WaitsForOther(p, facts, history)
  BY <1>1, <1>2, PartyGetsNew
<1>3. CASE WaitsForOther(p, facts, history)
  <2>1. /\ p \in facts.wrote
        /\ ForParty(p, facts, own) = << >>
        /\ "waiting_other_party" \notin own.sent
    BY <1>3 DEF WaitsForOther
  <2>2. NextQuestions(facts, history)[p] = <<"waiting_other_party">>
    BY <1>1, <1>3
  <2>3. "waiting_other_party" \in Courtesy
    BY DEF Courtesy
  <2>4. ~AnyQuestion(<< >>)
    BY DEF AnyQuestion
  <2>5. ~Resends(p, facts, own)
    BY <2>1, PartyGetsNew
  <2>6. \A i \in 1..3 : QuestionNeeded(p, facts, i) => QuestionsOf(p)[i] \in own.sent
    BY <2>1, <2>4, <2>5, PartyGetsNew
  <2> QED
    BY <2>1, <2>2, <2>3, <2>5, <2>6, ShortListsOfOne DEF Sendable
<1> QED
  BY <1>2, <1>3

-----------------------------------------------------------------------------
(* The decision table.                                                     *)

AskOf(turn) ==
  [do |-> "ask", templates |-> NextQuestions(turn.facts, turn.history),
   asks |-> {p \in Party : Asks(p, turn.facts, turn.history)}]

Wait == [do |-> "wait"]

LEMMA RowsAct ==
  ASSUME NEW turn
  PROVE  LET rows == Rows(turn)
         IN /\ rows[1].act = HandoffFor("human_requested")
            /\ rows[2].act = HandoffFor("fraud_signal")
            /\ rows[3].act = HandoffFor("outside_scope")
            /\ rows[4].act = HandoffFor("self_resolution_stalled")
            /\ rows[5].act = Wait
            /\ rows[6].act = GuideOrHold(turn, "payment_arrived")
            /\ rows[7].act = GuideOrHold(turn, "payment_not_sent")
            /\ rows[8].act = HandoffFor("conflicting_claims")
            /\ rows[9].act = HandoffFor("round_limit")
            /\ rows[10].act = AskOf(turn)
            /\ rows[11].act = HandoffFor("uncertain")
            /\ rows[12].act = Gathered(turn)
            /\ rows[13].act = Wait
            /\ rows[14].act = AskOf(turn)
BY DEF Rows, Row, Wait, AskOf

LEMMA RowsWhen ==
  ASSUME NEW turn
  PROVE  LET rows == Rows(turn)
             next == NextQuestions(turn.facts, turn.history)
         IN /\ rows[4].when <=> turn.phase = "guiding" /\ turn.facts.rejects_path \cap turn.facts.wrote # {}
            /\ rows[5].when <=> turn.phase = "guiding"
            /\ rows[6].when <=> turn.facts.seller_received_for_guide /\ GuidesOrHolds(turn)
            /\ rows[7].when <=> turn.facts.buyer_not_sent_for_guide /\ GuidesOrHolds(turn)
            /\ rows[10].when <=> \E p \in Party : AnyQuestion(next[p])
            /\ rows[11].when <=> UnknownAfterBoth(turn)
            /\ rows[12].when <=> Heard(turn) /\ ~PaymentUnknown(turn.facts) /\ ~ReceiptUnknown(turn.facts)
            /\ rows[13].when <=> \A p \in Party : next[p] = << >>
BY DEF Rows, Row

\* What a turn may decide.
Decisions(turn) ==
  {Wait, AskOf(turn), [do |-> "hold"]}
    \union {HandoffFor(reason) : reason \in HandoffReason}
    \union {[do |-> "guide", path |-> path] : path \in Path}

LEMMA GatheredIs ==
  ASSUME NEW turn
  PROVE  \/ turn.held /\ Gathered(turn) = Wait
         \/ ~turn.held /\ Gathered(turn) = HandoffFor("facts_gathered")
         \/ ~turn.held /\ Gathered(turn) = [do |-> "hold"]
BY DEF Gathered, Wait

LEMMA GuideOrHoldIs ==
  ASSUME NEW turn, NEW path
  PROVE  \/ Validated(turn) /\ GuideOrHold(turn, path) = [do |-> "guide", path |-> path]
         \/ GuideOrHold(turn, path) = Gathered(turn)
BY DEF GuideOrHold

LEMMA DecisionIs ==
  ASSUME NEW turn
  PROVE  Decide(turn) \in Decisions(turn)
<1>1. PICK i \in 1..14 : Decide(turn) = Rows(turn)[i].act
  BY FirstRowDecides
<1>2. Gathered(turn) \in Decisions(turn)
  BY GatheredIs DEF Decisions, HandoffReason
<1>3. \A path \in Path : GuideOrHold(turn, path) \in Decisions(turn)
  BY <1>2, GuideOrHoldIs DEF Decisions
<1>4. \A reason \in HandoffReason : HandoffFor(reason) \in Decisions(turn)
  BY DEF Decisions
<1>5. Wait \in Decisions(turn) /\ AskOf(turn) \in Decisions(turn)
  BY DEF Decisions
<1>6. {"human_requested", "fraud_signal", "outside_scope", "self_resolution_stalled",
       "conflicting_claims", "round_limit", "uncertain"} \subseteq HandoffReason
      /\ {"payment_arrived", "payment_not_sent"} \subseteq Path
  BY DEF HandoffReason, Path
<1> HIDE DEF Decisions, Decide
<1>7. i \in {1, 2, 3, 4, 5, 6, 7, 8, 9, 10, 11, 12, 13, 14}
  OBVIOUS
<1> QED
  BY <1>1, <1>2, <1>3, <1>4, <1>5, <1>6, <1>7, RowsAct

LEMMA FacesOfDecisions ==
  ASSUME NEW turn
  PROVE  /\ Wait.do = "wait" /\ AskOf(turn).do = "ask"
         /\ AskOf(turn).templates = NextQuestions(turn.facts, turn.history)
         /\ \A reason : HandoffFor(reason).do = "handoff" /\ HandoffFor(reason).reason = reason
         /\ \A path : [do |-> "guide", path |-> path].do = "guide"
         /\ [do |-> "hold"].do = "hold"
BY DEF Wait, AskOf, HandoffFor

\* What each row does, by its number.
LEMMA RowsDo ==
  ASSUME NEW turn, NEW i \in 1..14
  PROVE  LET does == Rows(turn)[i].act.do
         IN /\ does = "guide" => i \in {6, 7}
            /\ does = "wait" => i \in {5, 13} \/ turn.held
            /\ does = "ask" => i \in {10, 14}
<1> DEFINE rows == Rows(turn)
<1>1. /\ rows[1].act.do = "handoff" /\ rows[2].act.do = "handoff"
      /\ rows[3].act.do = "handoff" /\ rows[4].act.do = "handoff"
      /\ rows[8].act.do = "handoff" /\ rows[9].act.do = "handoff"
      /\ rows[11].act.do = "handoff"
  BY DEF Rows, Row, HandoffFor
<1>2. rows[5].act.do = "wait" /\ rows[13].act.do = "wait"
  BY DEF Rows, Row
<1>3. rows[10].act.do = "ask" /\ rows[14].act.do = "ask"
  BY DEF Rows, Row
<1>4. Gathered(turn).do \in {"handoff", "hold"} \/ (turn.held /\ Gathered(turn).do = "wait")
  BY GatheredIs, FacesOfDecisions
<1>5. /\ rows[6].act = GuideOrHold(turn, "payment_arrived")
      /\ rows[7].act = GuideOrHold(turn, "payment_not_sent")
      /\ rows[12].act = Gathered(turn)
  BY RowsAct
<1>6. \A path : \/ GuideOrHold(turn, path).do \in {"guide", "handoff", "hold"}
                \/ turn.held /\ GuideOrHold(turn, path).do = "wait"
  BY <1>4, GuideOrHoldIs, FacesOfDecisions
<1> DEFINE does(j) == rows[j].act.do
<1>7. /\ does(6) \in {"guide", "handoff", "hold"} \/ (turn.held /\ does(6) = "wait")
      /\ does(7) \in {"guide", "handoff", "hold"} \/ (turn.held /\ does(7) = "wait")
      /\ does(12) \in {"handoff", "hold"} \/ (turn.held /\ does(12) = "wait")
  BY <1>4, <1>5, <1>6
<1>8. i \in {1, 2, 3, 4, 5, 6, 7, 8, 9, 10, 11, 12, 13, 14}
  OBVIOUS
<1> HIDE DEF rows
<1> QED
  BY <1>1, <1>2, <1>3, <1>7, <1>8 DEF rows

\* Parties are guided only towards what was found about the payment, in languages
\* the judge is validated for, and never past a request for a human, a suspected
\* fraud or a dispute about something else (policy/mod.rs decide, rows 1 to 7).
THEOREM GuidanceIsEarned ==
  ASSUME NEW turn, Decide(turn).do = "guide"
  PROVE  /\ Validated(turn)
         /\ turn.phase # "guiding"
         /\ turn.facts.seller_received_for_guide \/ turn.facts.buyer_not_sent_for_guide
         /\ turn.facts.wants_human \cap turn.facts.wrote = {}
         /\ ~turn.facts.fraud /\ ~turn.facts.outside_scope
<1>1. PICK i \in 1..14 : First(Rows(turn), i) /\ Decide(turn) = Rows(turn)[i].act
  BY FirstRowDecides
<1>2. Gathered(turn).do # "guide"
  BY GatheredIs, FacesOfDecisions
<1>3. i \in {6, 7}
  BY <1>1, RowsDo
<1>4. Validated(turn)
  BY <1>1, <1>2, <1>3, RowsAct, GuideOrHoldIs
<1>5. /\ ~Rows(turn)[1].when /\ ~Rows(turn)[2].when /\ ~Rows(turn)[3].when
      /\ ~Rows(turn)[5].when /\ Rows(turn)[i].when
  BY <1>1, <1>3 DEF First
<1>6. /\ Rows(turn)[1].when <=> turn.facts.wants_human \cap turn.facts.wrote # {}
      /\ Rows(turn)[2].when <=> turn.facts.fraud
      /\ Rows(turn)[3].when <=> turn.facts.outside_scope
  BY DEF Rows, Row
<1> QED
  BY <1>3, <1>4, <1>5, <1>6, RowsWhen

\* A decision that asks nothing.
Silent(act) ==
  act.do = "wait" \/ (act.do = "ask" /\ \A p \in Party : ~AnyQuestion(act.templates[p]))

\* A turn of a gathering session asks nothing only if the session holds, somebody
\* owes an answer or was never heard, or a courtesy is said again in a party's new
\* language (policy/mod.rs decide, rows 6 to 13, policy/next.rs).
THEOREM SilenceIsJustified ==
  ASSUME NEW turn, turn.phase # "guiding", Silent(Decide(turn))
  PROVE  \/ turn.held
         \/ ~Heard(turn)
         \/ \E p \in Party : turn.history[p].outstanding
         \/ /\ Decide(turn) = AskOf(turn)
            /\ \E p \in Party :
                 /\ Resends(p, turn.facts, turn.history[p])
                 /\ LanguageResend(turn.history[p]) \in Courtesy
                 /\ Decide(turn).templates[p] = <<LanguageResend(turn.history[p])>>
<1> DEFINE next == NextQuestions(turn.facts, turn.history)
           rows == Rows(turn)
<1>1. PICK i \in 1..14 : First(rows, i) /\ Decide(turn) = rows[i].act
  BY FirstRowDecides
<1> HIDE DEF rows
<1>3. SUFFICES ASSUME ~turn.held, Heard(turn), \A p \in Party : ~turn.history[p].outstanding
               PROVE  /\ Decide(turn) = AskOf(turn)
                      /\ \E p \in Party :
                           /\ Resends(p, turn.facts, turn.history[p])
                           /\ LanguageResend(turn.history[p]) \in Courtesy
                           /\ Decide(turn).templates[p] = <<LanguageResend(turn.history[p])>>
  OBVIOUS
<1>6. Decide(turn).do \in {"wait", "ask"}
  BY DEF Silent
<1>7. i \in {5, 10, 13, 14}
  BY <1>1, <1>3, <1>6, RowsDo DEF rows
<1>8. i # 5
  BY <1>1, RowsWhen DEF First, rows
<1>9. i # 10
  <2> SUFFICES ASSUME i = 10 PROVE FALSE
    OBVIOUS
  <2>1. \E p \in Party : AnyQuestion(next[p])
    BY <1>1, RowsWhen DEF First, rows
  <2>2. Decide(turn) = AskOf(turn)
    BY <1>1, RowsAct DEF rows
  <2> QED
    BY <2>1, <2>2, FacesOfDecisions DEF Silent
<1>10. ~rows[10].when /\ ~rows[11].when /\ ~rows[12].when
  BY <1>1, <1>7, <1>8, <1>9 DEF First
<1>11. PICK p \in Party : ClaimUnknown(p, turn.facts)
  <2>1. PaymentUnknown(turn.facts) \/ ReceiptUnknown(turn.facts)
    BY <1>3, <1>10, RowsWhen DEF rows
  <2> QED
    BY <2>1 DEF ClaimUnknown, Party
<1>12. \E k \in 1..2 : QuestionNeeded(p, turn.facts, k) /\ QuestionsOf(p)[k] \notin turn.history[p].sent
  <2>1. ~UnknownAfterBoth(turn)
    BY <1>10, RowsWhen DEF rows
  <2>2. PICK k \in 1..2 : QuestionsOf(p)[k] \notin turn.history[p].sent
    BY <1>11, <2>1 DEF UnknownAfterBoth
  <2> QED
    BY <1>11, <2>2 DEF QuestionNeeded
<1>13. ~AnyQuestion(next[p])
  BY <1>10, RowsWhen DEF rows
<1>14. Resends(p, turn.facts, turn.history[p])
  BY <1>3, <1>12, <1>13, NextIsNew
<1>15. next[p] = <<LanguageResend(turn.history[p])>>
  BY <1>14, NextIsNew
<1>16. LanguageResend(turn.history[p]) \in Courtesy
  <2>1. LanguageResend(turn.history[p]) \in Sendable
    BY <1>14, ResendIsSendable DEF Resends
  <2>2. \A q \in Question : AnyQuestion(<<q>>)
    BY QuestionsAre DEF AnyQuestion
  <2> QED
    BY <1>13, <1>15, <2>1, <2>2 DEF Sendable
<1>17. i = 14
  <2>1. rows[13].when <=> \A q \in Party : next[q] = << >>
    BY RowsWhen DEF rows
  <2>2. next[p] # << >>
    BY <1>15
  <2>3. ~rows[13].when
    BY <2>1, <2>2
  <2> QED
    BY <1>1, <1>7, <1>8, <1>9, <2>3 DEF First
<1>18. Decide(turn) = AskOf(turn)
  BY <1>1, <1>17, RowsAct DEF rows
<1> QED
  BY <1>14, <1>15, <1>16, <1>18, FacesOfDecisions

=============================================================================
