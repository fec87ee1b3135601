------------------------------- MODULE Judge -------------------------------
(***************************************************************************)
(* The judge: its startup checks (Capabilities::check, eligibility.rs      *)
(* readiness), one call of a provider with its retries (judge/providers/   *)
(* typesafe.rs), the check of what came back (judge/mod.rs) and what       *)
(* Serbero reads in it: facts (judge/facts.rs) and quotes (judge/brief.rs).*)
(*                                                                         *)
(* A probability is a number of Units; the code's floats are taken as      *)
(* exact.  An answer is a function from options to probabilities; a yes or *)
(* no question has the one option "yes".  Waits are in half seconds.       *)
(***************************************************************************)
EXTENDS Naturals, Sequences, SequencesExt, FiniteSets, FiniteSetsExt

CONSTANTS
  Languages,         \* mediation.languages, in name order
  Unit, Tolerance,   \* 1 and SUM_TOLERANCE
  Fact, Guide,       \* thresholds.fact, thresholds.guide
  OutsideScope,      \* thresholds.outside_scope
  Conflict, Fraud,   \* thresholds.conflict, thresholds.fraud
  LanguageMin,       \* LANGUAGE_MIN_PROBABILITY
  MaxQuoteOptions,   \* MAX_QUOTE_OPTIONS
  MaxRetries,        \* judge.max_retries
  InitialBackoff, MaxBackoff,  \* RetryPolicy
  MaxRetryAfter,     \* MAX_RETRY_AFTER
  RetryAfters,       \* what a retry-after header may ask for
  Transcripts        \* who wrote each message of the states asked about

ASSUME JudgeAssumption ==
  /\ Unit \in Nat \ {0} /\ Tolerance \in 0..Unit
  /\ {Fact, Guide, LanguageMin} \subseteq {n \in 1..Unit : 2 * n > Unit}
  /\ {OutsideScope, Conflict, Fraud} \subseteq 1..Unit
  /\ MaxQuoteOptions \in Nat \ {0}
  /\ MaxRetries \in Nat /\ InitialBackoff \in Nat /\ MaxBackoff \in Nat
  /\ MaxRetryAfter \in Nat /\ RetryAfters \subseteq Nat
  /\ Languages \in Seq(STRING)
  /\ Transcripts \subseteq Seq({"buyer", "seller", "serbero"})

\* Arithmetic: a delay that is doubled is a number.
ASSUME BackoffsAssumption == \A i \in 0..MaxRetries : InitialBackoff * 2^i \in Nat

VARIABLES
  provider,  \* what the startup checks learn of it
  ready,     \* ReadyJudge
  call,      \* the request, and how it stands
  answers    \* what the provider answered: by question, its probabilities

judgeVars == <<provider, ready, call, answers>>

Both == {"buyer", "seller"}

NoAnswers == [id \in {} |-> {}]

NoCall == [step |-> "none", asked |-> {}, wrote |-> {}, transcript |-> << >>,
           retry |-> 0, waited |-> 0, error |-> "none"]

-----------------------------------------------------------------------------
(* Question sets (judge/questions.rs, judge/brief.rs).                     *)

CaseFacts ==
  {<<"case", x>> : x \in {"buyer_payment", "buyer_details", "seller_receipt",
                          "seller_checked", "claims_conflict", "fraud_signal",
                          "dispute_topic"}}

PerParty(party) ==
  {<<party, x>> : x \in {"message_kind", "language", "wants_human", "rejects_path"}}

AllQuestions == CaseFacts \union UNION {PerParty(party) : party \in Both}

\* The options of a question, in name order.
OptionsOf(x) ==
  CASE x = "buyer_payment" -> <<"not_stated", "says_not_sent", "says_sent">>
    [] x = "seller_receipt" ->
         <<"not_stated", "says_not_received", "says_received", "says_received_with_problem">>
    [] x = "dispute_topic" ->
         <<"counterpart_unresponsive", "not_yet_clear", "other", "payment_not_confirmed",
           "technical_problem", "wrong_account_or_method", "wrong_amount">>
    [] x = "message_kind" ->
         <<"answers", "asks_language", "asks_next_step", "greeting", "not_understood",
           "other">>
    [] x = "language" -> Languages \o <<"other", "unknown">>
    [] OTHER -> <<"yes">>

IsNoul(id) == OptionsOf(id[2]) = <<"yes">> /\ id[1] # "quote"

\* for_turn.
ForTurn(wrote, guiding) ==
  {id \in AllQuestions : id[1] = "case" \/ (/\ id[1] \in wrote
                                            /\ id[2] = "rejects_path" => guiding)}

Quotes == [quote_buyer_payment |-> {"buyer"}, quote_buyer_details |-> {"buyer"},
           quote_seller_receipt |-> {"seller"}, quote_concern |-> Both]

\* A set of message ids in the order of the transcript.
InOrder(ids) ==
  CHOOSE s \in [1..Cardinality(ids) -> ids] : \A i, j \in DOMAIN s : i < j => s[i] < s[j]

\* message_ids: the newest messages of whom the quote may be of.
MessageIds(transcript, quoted) ==
  LET ids == InOrder({i \in DOMAIN transcript : transcript[i] \in quoted})
      skip == IF Len(ids) > MaxQuoteOptions THEN Len(ids) - MaxQuoteOptions ELSE 0
  IN SubSeq(ids, skip + 1, Len(ids))

\* for_state: no quote is asked of a party that wrote nothing.  The question of
\* the evidence, whose answer is shown and read by nothing, is left out.
ForState(transcript) ==
  {<<"quote", q>> : q \in {q \in DOMAIN Quotes : MessageIds(transcript, Quotes[q]) # << >>}}

\* quote_question: the ids, in name order, then none.  An id is its number
\* here, and none is 0.
QuoteOptions(transcript, q) == Append(MessageIds(transcript, Quotes[q]), 0)

\* The options an answer to a question of the request must have.
Asked(c, id) ==
  IF id[1] = "quote" THEN QuoteOptions(c.transcript, id[2]) ELSE OptionsOf(id[2])

-----------------------------------------------------------------------------
(* Answers (judge/mod.rs).                                                 *)

Total(answer) == MapThenSumSet(LAMBDA o : answer[o], DOMAIN answer)

Probability(answer, option) == IF option \in DOMAIN answer THEN answer[option] ELSE 0

\* Whether an option's share of the total reaches a threshold.
ShareReaches(answer, option, threshold) ==
  /\ Total(answer) > 0
  /\ Probability(answer, option) * Unit >= threshold * Total(answer)

Peak(answer) == Max({answer[o] : o \in DOMAIN answer})

\* winner: a tie goes to the first option in name order.
Winner(answer, options) ==
  options[Min({i \in DOMAIN options : answer[options[i]] = Peak(answer)})]

\* confidence >= 0.5: (n * peak / total - 1) / (n - 1).
Confident(answer) ==
  LET n == Cardinality(DOMAIN answer)
  IN Total(answer) > 0 /\ 2 * n * Peak(answer) >= (n + 1) * Total(answer)

CheckUnit(answer) == \A o \in DOMAIN answer : answer[o] <= Unit

CheckDistribution(answer) ==
  CheckUnit(answer) /\ Total(answer) \in (Unit - Tolerance)..(Unit + Tolerance)

\* check_answers.
CheckAnswers(c, given) ==
  /\ DOMAIN given = c.asked
  /\ \A id \in c.asked :
       /\ DOMAIN given[id] = ToSet(Asked(c, id))
       /\ IF IsNoul(id) THEN CheckUnit(given[id]) ELSE CheckDistribution(given[id])

-----------------------------------------------------------------------------
(* Facts and quotes.                                                       *)

SaysOutright(x, option, threshold) ==
  /\ <<"case", x>> \in DOMAIN answers
  /\ Probability(answers[<<"case", x>>], option) >= threshold

\* A question that was not asked states nothing.
Says(x, option, threshold) ==
  /\ <<"case", x>> \in DOMAIN answers
  /\ ShareReaches(answers[<<"case", x>>], option, threshold)

Yes(id, threshold) == id \in DOMAIN answers /\ answers[id]["yes"] >= threshold

OutsideTopics == {"wrong_amount", "wrong_account_or_method", "technical_problem", "other"}

TopicOutside ==
  /\ <<"case", "dispute_topic">> \in DOMAIN answers
  /\ LET topic == answers[<<"case", "dispute_topic">>]
     IN /\ Total(topic) > 0
        /\ MapThenSumSet(LAMBDA o : topic[o], OutsideTopics) * Unit
             >= OutsideScope * Total(topic)

CaseFactsKnown ==
  [buyer_sent |-> Says("buyer_payment", "says_sent", Fact),
   buyer_not_sent |-> Says("buyer_payment", "says_not_sent", Fact),
   buyer_not_sent_for_guide |-> Says("buyer_payment", "says_not_sent", Guide),
   buyer_has_details |-> Yes(<<"case", "buyer_details">>, Fact),
   seller_received |-> Says("seller_receipt", "says_received", Fact),
   seller_received_for_guide |-> Says("seller_receipt", "says_received", Guide),
   seller_not_received |-> Says("seller_receipt", "says_not_received", Fact),
   seller_has_checked |-> Yes(<<"case", "seller_checked">>, Fact),
   conflict |-> Yes(<<"case", "claims_conflict">>, Conflict),
   fraud |-> Yes(<<"case", "fraud_signal">>, Fraud),
   outside_scope |-> \/ TopicOutside
                     \/ Says("seller_receipt", "says_received_with_problem", OutsideScope)]

WroteThisTurn(party) == <<party, "message_kind">> \in DOMAIN answers

\* The party's language changes to an enabled one that is likely enough.
NewLanguage(party) ==
  LET id == <<party, "language">>
      w == Winner(answers[id], OptionsOf("language"))
  IN IF /\ id \in DOMAIN answers
        /\ w \in ToSet(Languages)
        /\ ShareReaches(answers[id], w, LanguageMin)
     THEN w ELSE "kept"

\* kind: not sure enough of any means answers.
KindOf(party) ==
  LET answer == answers[<<party, "message_kind">>]
  IN IF Confident(answer) THEN Winner(answer, OptionsOf("message_kind")) ELSE "answers"

\* brief::from_answers: the message quoted, or none.
QuoteOf(q) ==
  LET id == <<"quote", q>>
      w == Winner(answers[id], QuoteOptions(call.transcript, q))
  IN IF /\ id \in DOMAIN answers
        /\ w # 0
        /\ ShareReaches(answers[id], w, Fact)
        /\ w \in ToSet(MessageIds(call.transcript, Quotes[q]))
     THEN w ELSE 0

-----------------------------------------------------------------------------
(* Startup.                                                                *)

\* Capabilities::check, of the whole turn set: how many options, and none twice.
Expressible(p) ==
  \A id \in AllQuestions :
    LET options == OptionsOf(id[2])
    IN IsNoul(id) \/ (/\ Len(options) \in 2..p.max_choice_options
                      /\ IsInjective(options))

\* check_judge and readiness.
Startup(p) ==
  /\ ~ready /\ call = NoCall
  /\ provider' = p
  /\ ready' = (p.has_thresholds /\ Expressible(p) /\ p.healthy)
  /\ UNCHANGED <<call, answers>>

-----------------------------------------------------------------------------
(* One call: with_retries.                                                 *)

AskTurn(wrote, guiding) ==
  /\ ready /\ call.step \in {"none", "failed", "answered"}
  /\ wrote # {}
  /\ call' = [NoCall EXCEPT !.step = "trying", !.asked = ForTurn(wrote, guiding),
                            !.wrote = wrote]
  /\ answers' = NoAnswers
  /\ UNCHANGED <<provider, ready>>

AskQuotes(transcript) ==
  /\ ready /\ call.step \in {"none", "failed", "answered"}
  /\ call' = [NoCall EXCEPT !.step = "trying", !.asked = ForState(transcript),
                            !.transcript = transcript]
  /\ answers' = NoAnswers
  /\ UNCHANGED <<provider, ready>>

\* success_body: the error of an HTTP status; 0 is a network failure.
ErrorOf(status) ==
  CASE status \in {401, 403} -> "Unauthorized"
    [] status \in {0, 408, 429} \union 500..599 -> "Unavailable"
    [] OTHER -> "InvalidRequest"

Retryable(error) == error = "Unavailable"

Smaller(a, b) == IF a < b THEN a ELSE b

Backoff(retry) == Smaller(InitialBackoff * 2^retry, MaxBackoff)

\* retry_after, capped; 0 stands for no header.
WaitBefore(retry, after) ==
  IF after > 0 THEN Smaller(after, MaxRetryAfter) ELSE Backoff(retry)

FailWith(error, after) ==
  /\ call.step = "trying"
  /\ call' = IF Retryable(error) /\ call.retry < MaxRetries
             THEN [call EXCEPT !.retry = @ + 1, !.error = error,
                               !.waited = @ + WaitBefore(call.retry, after)]
             ELSE [call EXCEPT !.step = "failed", !.error = error]
  /\ UNCHANGED <<provider, ready, answers>>

FailStatus(status, after) == FailWith(ErrorOf(status), after)

\* A 200 of another model, or that does not fit the questions, is Malformed.
AnswerWith(given, pinned) ==
  IF pinned /\ CheckAnswers(call, given)
  THEN /\ call.step = "trying"
       /\ call' = [call EXCEPT !.step = "answered"]
       /\ answers' = given
       /\ UNCHANGED <<provider, ready>>
  ELSE FailWith("Malformed", 0)

-----------------------------------------------------------------------------
(* What a provider may answer: external.  Most of an answer is certain of  *)
(* the first option; one question has its mass on any two options.         *)

Certain(options) ==
  [o \in ToSet(options) |-> IF o = Head(options) THEN Unit ELSE 0]

Split(options) ==
  {[o \in ToSet(options) |-> (IF o = a THEN p ELSE 0) + (IF o = b THEN q ELSE 0)] :
     a, b \in ToSet(options), p \in 0..(Unit + 1), q \in 0..Unit}

Usual == [id \in call.asked |->
            IF IsNoul(id) THEN [yes |-> 0] ELSE Certain(Asked(call, id))]

Responses ==
  {Usual}
    \union (UNION {{[Usual EXCEPT ![id] = a] : a \in Split(Asked(call, id))} :
                     id \in call.asked})
    \union {[x \in call.asked \ {id} |-> Usual[x]] : id \in call.asked}

Provider == [has_thresholds: BOOLEAN, healthy: BOOLEAN,
             max_choice_options: {Len(OptionsOf("dispute_topic")) - 1,
                                  Len(OptionsOf("dispute_topic"))}]

JudgeInit ==
  /\ provider = [has_thresholds |-> FALSE, healthy |-> FALSE, max_choice_options |-> 0]
  /\ ready = FALSE
  /\ call = NoCall
  /\ answers = NoAnswers

JudgeNext ==
  \/ \E p \in Provider : Startup(p)
  \/ \E wrote \in SUBSET Both, guiding \in BOOLEAN : AskTurn(wrote, guiding)
  \/ \E transcript \in Transcripts : AskQuotes(transcript)
  \/ \E status \in {0, 400, 403, 429, 503}, after \in RetryAfters : FailStatus(status, after)
  \/ /\ call.step = "trying"
     /\ \/ \E given \in Responses : AnswerWith(given, TRUE)
        \/ AnswerWith(Usual, FALSE)

JudgeSpec == JudgeInit /\ [][JudgeNext]_judgeVars

-----------------------------------------------------------------------------
\* Types.  A call is made only of a judge that passed its checks.
JudgeTypeOK ==
  /\ ready \in BOOLEAN
  /\ call.step \in {"none", "trying", "answered", "failed"}
  /\ call.retry \in 0..MaxRetries /\ call.waited \in Nat
  /\ call.error \in {"none", "Unauthorized", "Unavailable", "InvalidRequest", "Malformed"}
  /\ call # NoCall => ready /\ provider.healthy
  /\ DOMAIN answers \in {{}, call.asked}

\* However the judge splits a choice, two claims of it that exclude each other
\* are never both known: not sent beside sent, not received beside received; a
\* fact sure enough to guide by is known when `fact` asks no more than `guide`
\* (judge/mod.rs share, config/mod.rs:433).
OneClaimOfAChoice ==
  LET facts == CaseFactsKnown
  IN /\ ~(facts.buyer_sent /\ facts.buyer_not_sent)
     /\ ~(facts.buyer_sent /\ facts.buyer_not_sent_for_guide)
     /\ ~(facts.seller_received /\ facts.seller_not_received)
     /\ ~(facts.seller_received_for_guide /\ facts.seller_not_received)

\* What Serbero makes of a party's messages is what the judge finds likelier
\* than all else together; a tie, or a small lead, changes neither its language
\* nor how its messages count (judge/facts.rs party_facts, kind).
ReadingNeedsMajority ==
  \A party \in Both : WroteThisTurn(party) =>
    LET kind == answers[<<party, "message_kind">>]
        language == answers[<<party, "language">>]
    IN /\ KindOf(party) # "answers" => 2 * kind[KindOf(party)] > Total(kind)
       /\ NewLanguage(party) # "kept" =>
            2 * language[NewLanguage(party)] > Total(language)

\* A message is quoted as a party's only if that party wrote it, and it is not
\* older than the newest ones the judge was shown (judge/brief.rs).
QuotesAreTheirs ==
  \A q \in DOMAIN Quotes :
    LET m == QuoteOf(q)
    IN m # 0 =>
         /\ call.transcript[m] \in Quotes[q]
         /\ Cardinality({i \in DOMAIN call.transcript :
                           i > m /\ call.transcript[i] \in Quotes[q]}) < MaxQuoteOptions

\* The waits between attempts end: a call holds its turn no longer than the
\* retries allow, whatever retry-after asks (providers/typesafe.rs retry_after,
\* backoff, with_retries).
WaitsAreCapped ==
  call.waited <= MaxRetries * Max({MaxBackoff, MaxRetryAfter})

\* Only what may pass is tried again: after a wrong key, a refused request or an
\* answer that does not fit, the call has failed (judge/mod.rs is_retryable).
OnlyOverloadIsRetried ==
  call.step = "trying" /\ call.retry > 0 => call.error = "Unavailable"

\* What Serbero reads in the judge's answers: no two claims that exclude each
\* other, nothing that is not likelier than the rest, no words of somebody else;
\* and the calls for them end (judge/facts.rs, judge/brief.rs).
ReadingIsSound ==
  /\ OneClaimOfAChoice /\ ReadingNeedsMajority /\ QuotesAreTheirs
  /\ WaitsAreCapped /\ OnlyOverloadIsRetried

=============================================================================
