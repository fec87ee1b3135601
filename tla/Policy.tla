------------------------------- MODULE Policy -------------------------------
(***************************************************************************)
(* The decision of a turn and of a timer, as pure operators                *)
(* (src/src/policy/mod.rs, next.rs, timers.rs).                            *)
(*                                                                         *)
(* The facts of a turn are the judge's answers against the thresholds      *)
(* (src/src/judge/facts.rs), which nothing here looks behind.  What        *)
(* Serbero knows of a party is its history: the templates it was sent, the *)
(* last one, the last question, and whether that one awaits an answer.     *)
(***************************************************************************)
EXTENDS Integers, Sequences, FiniteSets

Party == {"buyer", "seller"}

Other(p) == IF p = "buyer" THEN "seller" ELSE "buyer"

NoTemplate == "none"

\* The questions of each party, in the order they are needed (QUESTIONS).
BuyerQuestions == <<"ask_buyer_sent", "ask_buyer_sent_simple", "ask_buyer_details">>
SellerQuestions == <<"ask_seller_received", "ask_seller_received_simple",
                     "ask_seller_check_account">>

QuestionsOf(p) == IF p = "buyer" THEN BuyerQuestions ELSE SellerQuestions

IsQuestion(t) == \E p \in Party : \E i \in 1..3 : t = QuestionsOf(p)[i]

AnyQuestion(templates) == \E i \in 1..Len(templates) : IsQuestion(templates[i])

Courtesy == {"what_happens_next", "thanks_waiting", "waiting_other_party"}

Resendable(t) == IsQuestion(t) \/ t \in Courtesy

\* The _simple variant of a question, if it has one.
SimpleVariant(t) ==
  IF t = "ask_buyer_sent" THEN "ask_buyer_sent_simple"
  ELSE IF t = "ask_seller_received" THEN "ask_seller_received_simple"
  ELSE NoTemplate

MessageKind == {"answers", "greeting", "asks_language", "not_understood",
                "asks_next_step", "other"}

-----------------------------------------------------------------------------
(* The facts: one record of claims, and what the messages of each party    *)
(* that wrote in this turn are doing (facts.wrote).                        *)

Facts ==
  [wrote : SUBSET Party, wants_human : SUBSET Party, rejects_path : SUBSET Party,
   kind : [Party -> MessageKind], language : [Party -> STRING],
   fraud : BOOLEAN, outside_scope : BOOLEAN, conflict : BOOLEAN,
   buyer_sent : BOOLEAN, buyer_not_sent : BOOLEAN, buyer_not_sent_for_guide : BOOLEAN,
   buyer_has_details : BOOLEAN,
   seller_received : BOOLEAN, seller_received_for_guide : BOOLEAN,
   seller_not_received : BOOLEAN, seller_has_checked : BOOLEAN]

PaymentUnknown(facts) == ~facts.buyer_sent /\ ~facts.buyer_not_sent

ReceiptUnknown(facts) ==
  ~facts.seller_received /\ ~facts.seller_not_received /\ ~facts.outside_scope

ClaimUnknown(p, facts) ==
  IF p = "buyer" THEN PaymentUnknown(facts) ELSE ReceiptUnknown(facts)

\* The party's claim needs its follow-up question.
NeedsFollowUp(p, facts) ==
  IF p = "buyer" THEN facts.buyer_sent /\ ~facts.buyer_has_details
  ELSE facts.seller_not_received /\ ~facts.seller_has_checked

-----------------------------------------------------------------------------
(* The next templates for each party (next.rs).                            *)

\* The i-th question asks for a fact that is needed.
QuestionNeeded(p, facts, i) ==
  IF i = 3 THEN NeedsFollowUp(p, facts) ELSE ClaimUnknown(p, facts)

\* The first needed question the party was not sent, in a sequence of at
\* most one.
NeededQuestion(p, facts, sent) ==
  LET open == {i \in 1..3 : /\ QuestionNeeded(p, facts, i)
                            /\ QuestionsOf(p)[i] \notin sent}
  IN IF open = {} THEN << >>
     ELSE <<QuestionsOf(p)[CHOOSE i \in open : \A j \in open : i <= j]>>

NothingNeeded(p, facts) == ~ClaimUnknown(p, facts) /\ ~NeedsFollowUp(p, facts)

\* The template a change of language repeats: the last one, and for a
\* reminder the question it points at.
LanguageResend(own) ==
  LET last == IF own.last = "reminder" THEN own.question ELSE own.last
  IN IF Resendable(last) THEN last ELSE NoTemplate

\* A party that wrote in this turn.  The mistake would be to send the
\* needed question whether or not it was sent before.
TemplatesRepeating(p, facts, own) == NeededQuestion(p, facts, {})
TemplatesForWriter(p, facts, own) ==
  LET kind == facts.kind[p]
      simple == SimpleVariant(own.question)
      needed == NeededQuestion(p, facts, own.sent)
      next == IF kind = "asks_next_step" /\ "what_happens_next" \notin own.sent
              THEN <<"what_happens_next">> ELSE << >>
  IN IF kind = "not_understood" /\ simple # NoTemplate /\ simple \notin own.sent
     THEN <<simple>>
     ELSE next \o
          (IF needed # << >> THEN needed
           ELSE IF NothingNeeded(p, facts) /\ "thanks_waiting" \notin own.sent
                THEN <<"thanks_waiting">>
                ELSE << >>)

\* A resend in a party's new language, unless the party answered in it.
Resends(p, facts, own) ==
  /\ p \in facts.wrote
  /\ own.language_changed
  /\ facts.kind[p] \notin {"answers", "asks_next_step"}
  /\ LanguageResend(own) # NoTemplate

ForParty(p, facts, own) ==
  IF p \notin facts.wrote
  THEN IF own.outstanding THEN << >> ELSE NeededQuestion(p, facts, own.sent)
  ELSE IF Resends(p, facts, own) THEN <<LanguageResend(own)>>
  ELSE TemplatesForWriter(p, facts, own)

\* The party wrote, nothing fits it, and the other one owes an answer.
WaitsForOther(p, facts, history) ==
  /\ p \in facts.wrote
  /\ ForParty(p, facts, history[p]) = << >>
  /\ ~ClaimUnknown(p, facts)
  /\ \/ history[Other(p)].outstanding
     \/ AnyQuestion(ForParty(Other(p), facts, history[Other(p)]))
  /\ "waiting_other_party" \notin history[p].sent

\* next_questions: the templates of each party.
NextQuestions(facts, history) ==
  [p \in Party |->
     IF WaitsForOther(p, facts, history) THEN <<"waiting_other_party">>
     ELSE ForParty(p, facts, history[p])]

\* NextQuestions::asks: a question that is not a resend counts as a round.
Asks(p, facts, history) ==
  /\ ~Resends(p, facts, history[p])
  /\ AnyQuestion(NextQuestions(facts, history)[p])

-----------------------------------------------------------------------------
(* The decision table (decide): the rows in order, the first match wins.   *)

HandoffReason == {"self_resolution_stalled", "facts_gathered", "conflicting_claims",
                  "fraud_signal", "human_requested", "outside_scope", "unresponsive",
                  "round_limit", "uncertain", "judge_unavailable", "flood",
                  "opening_failed"}

Path == {"payment_arrived", "payment_not_sent"}

HandoffFor(reason) == [do |-> "handoff", reason |-> reason]

Conflicting(turn) ==
  LET facts == turn.facts
  IN /\ facts.buyer_sent /\ facts.seller_not_received /\ facts.conflict
     /\ facts.buyer_has_details \/ "ask_buyer_details" \in turn.history["buyer"].sent
     /\ \/ facts.seller_has_checked
        \/ "ask_seller_check_account" \in turn.history["seller"].sent

\* A claim still unknown after its question and the simple variant.  The
\* mistake would be to give up on both parties together only.
BothUnknownAfterBoth(turn) ==
  \A p \in Party : /\ ClaimUnknown(p, turn.facts)
                   /\ \A i \in 1..2 : QuestionsOf(p)[i] \in turn.history[p].sent
UnknownAfterBoth(turn) ==
  \E p \in Party : /\ ClaimUnknown(p, turn.facts)
                   /\ \A i \in 1..2 : QuestionsOf(p)[i] \in turn.history[p].sent

RoundsUsed(turn) == \E p \in Party : turn.rounds[p] >= turn.max_rounds

Heard(turn) == turn.heard = Party

\* facts_gathered, once both parties were heard: hold, unless the session
\* holds already or has no grace.
Gathered(turn) ==
  IF turn.held THEN [do |-> "wait"]
  ELSE IF turn.handoff_grace = 0 THEN HandoffFor("facts_gathered")
  ELSE [do |-> "hold"]

\* Guidance needs both languages to be validated for the judge.
Validated(turn) == \A p \in Party : turn.language[p] \in turn.validated

\* guide_or_hold, where it decides anything.
GuidesOrHolds(turn) == Validated(turn) \/ Heard(turn)

GuideOrHold(turn, path) ==
  IF Validated(turn) THEN [do |-> "guide", path |-> path] ELSE Gathered(turn)

Row(when, act) == [when |-> when, act |-> act]

Rows(turn) ==
  LET facts == turn.facts
      guiding == turn.phase = "guiding"
      next == NextQuestions(facts, turn.history)
      ask == [do |-> "ask", templates |-> next,
              asks |-> {p \in Party : Asks(p, facts, turn.history)}]
      wait == [do |-> "wait"]
  IN << Row(facts.wants_human \cap facts.wrote # {}, HandoffFor("human_requested")),
        Row(facts.fraud, HandoffFor("fraud_signal")),
        Row(facts.outside_scope, HandoffFor("outside_scope")),
        Row(guiding /\ facts.rejects_path \cap facts.wrote # {},
            HandoffFor("self_resolution_stalled")),
        Row(guiding, wait),
        Row(facts.seller_received_for_guide /\ GuidesOrHolds(turn),
            GuideOrHold(turn, "payment_arrived")),
        Row(facts.buyer_not_sent_for_guide /\ GuidesOrHolds(turn),
            GuideOrHold(turn, "payment_not_sent")),
        Row(Conflicting(turn), HandoffFor("conflicting_claims")),
        Row(RoundsUsed(turn), HandoffFor("round_limit")),
        Row(\E p \in Party : AnyQuestion(next[p]), ask),
        Row(UnknownAfterBoth(turn), HandoffFor("uncertain")),
        Row(Heard(turn) /\ ~PaymentUnknown(facts) /\ ~ReceiptUnknown(facts), Gathered(turn)),
        Row(\A p \in Party : next[p] = << >>, wait),
        Row(TRUE, ask) >>

Decide(turn) ==
  LET rows == Rows(turn)
  IN rows[CHOOSE i \in 1..Len(rows) :
            rows[i].when /\ \A j \in 1..(i-1) : ~rows[j].when].act

-----------------------------------------------------------------------------
(* The timers (timers.rs).                                                 *)

NoTime == -1

\* The timeout runs from the question or, if it came later, from the
\* reminder; a party is reminded once.  The mistake would be to remind it of
\* every question.
ResponsePerQuestion(clock, now, timeout) ==
  LET reminded == clock.reminded_at >= clock.question_at
      since == IF reminded THEN clock.reminded_at ELSE clock.question_at
  IN IF clock.question_at = NoTime \/ clock.replied \/ now < since + timeout
     THEN "waiting"
     ELSE IF reminded THEN "unresponsive" ELSE "remind"
Response(clock, now, timeout) ==
  LET since == IF clock.reminded_at >= clock.question_at THEN clock.reminded_at
               ELSE clock.question_at
  IN IF clock.question_at = NoTime \/ clock.replied \/ now < since + timeout
     THEN "waiting"
     ELSE IF clock.reminded_at = NoTime THEN "remind" ELSE "unresponsive"

\* timers::check: what the timer task does for a session.  While guiding
\* only the guidance can run out; a hold wins over the response timers.
Check(clocks, timeouts) ==
  LET response == [p \in Party |->
                     Response(clocks.party[p], clocks.now, timeouts.response)]
      remind == {p \in Party : response[p] = "remind"}
      over(at, timeout) == at # NoTime /\ clocks.now >= at + timeout
      nothing == [do |-> "nothing"]
  IN IF clocks.phase = "guiding"
     THEN IF over(clocks.guided_at, timeouts.self_resolution)
          THEN HandoffFor("self_resolution_stalled") ELSE nothing
     ELSE IF over(clocks.held_at, timeouts.handoff_grace)
          THEN HandoffFor("facts_gathered")
     ELSE IF \E p \in Party : response[p] = "unresponsive"
          THEN HandoffFor("unresponsive")
     ELSE IF remind # {} THEN [do |-> "remind", parties |-> remind]
     ELSE nothing

=============================================================================
