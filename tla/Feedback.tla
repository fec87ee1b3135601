------------------------------ MODULE Feedback ------------------------------
(***************************************************************************)
(* Solver feedback (src/src/mediation/feedback.rs): a solver answers a     *)
(* brief with `wrong <question> [<dispute>]`, and Serbero records it       *)
(* against the turn evaluation the brief showed.                           *)
(*                                                                         *)
(* What ties them are stamps: an evaluation has the time its turn began,   *)
(* a brief the time just before it was sent, a reply its solver's clock.   *)
(* Turns and the timers' second attempt at a brief run side by side.       *)
(* Texts that are not feedback are left out.                               *)
(***************************************************************************)
EXTENDS Naturals, Sequences, SequencesExt, FiniteSets, FiniteSetsExt

CONSTANTS
  Disputes,        \* each with its one session
  Readers,         \* the solvers who get briefs
  Questions,       \* turn questions
  ClockSkew,       \* CLOCK_SKEW_SECS
  ReaderSkew,      \* how far a solver's clock may be off
  LastSecond,      \* bound: the clock
  MaxEvaluations,  \* bound: turns judged
  MaxBriefs,       \* bound: briefs sent to a solver
  MaxReplies       \* bound: replies

ASSUME FeedbackAssumption ==
  /\ IsFiniteSet(Readers) /\ Readers # {}
  /\ ClockSkew \in Nat /\ ReaderSkew \in Nat /\ LastSecond \in Nat \ {0}
  /\ MaxEvaluations \in Nat /\ MaxBriefs \in Nat /\ MaxReplies \in Nat

VARIABLES
  second,       \* Unix seconds
  phase,        \* the state of a dispute's session
  evaluations,  \* turn evaluations, by id
  briefs,       \* notification_sent events of briefs, by id
  pending,      \* disputes with a brief that reached nobody yet
  judging,      \* the turn the judge works on, per dispute
  courier,      \* a brief on its way, per dispute and task
  replies,      \* the solvers' DMs, by id
  feedback      \* solver_feedback events, by id

feedbackVars == <<second, phase, evaluations, briefs, pending, judging, courier,
                  replies, feedback>>

NoJudging == [began |-> 0]

NoCourier == [busy |-> FALSE, left |-> << >>, at |-> 0, exist |-> 0]

Couriers == Disputes \X {"turn", "timers"}

\* What existed when a brief was stamped is history: no code reads it.
ExistOf(d) ==
  Max({0} \union {i \in DOMAIN evaluations : evaluations[i].dispute = d})

-----------------------------------------------------------------------------
(* Turns.                                                                  *)

BeginJudging(d) ==
  /\ phase[d] # "handed_off"
  /\ judging[d] = NoJudging
  /\ courier[<<d, "turn">>] = NoCourier
  /\ Len(evaluations) + Cardinality({x \in Disputes : judging[x] # NoJudging})
       < MaxEvaluations
  /\ judging' = [judging EXCEPT ![d] = [began |-> second]]
  /\ UNCHANGED <<second, phase, evaluations, briefs, pending, courier, replies, feedback>>

\* record_evaluation, with the time the turn began.
Judged(d, asked) ==
  /\ judging[d] # NoJudging
  /\ evaluations' = Append(evaluations, [dispute |-> d, at |-> judging[d].began,
                                         asked |-> asked])
  /\ judging' = [judging EXCEPT ![d] = NoJudging]

Ask(d, asked) ==
  /\ Judged(d, asked)
  /\ UNCHANGED <<second, phase, briefs, pending, courier, replies, feedback>>

AtWork == [NoCourier EXCEPT !.busy = TRUE, !.left = SetToSeq(Readers)]

\* guide and hand_off: the session is claimed, its brief is pending and goes out.
Conclude(d, asked, next) ==
  /\ Judged(d, asked)
  /\ <<phase[d], next>> \in {<<"active", "guiding">>, <<"active", "handed_off">>,
                             <<"guiding", "handed_off">>}
  /\ phase' = [phase EXCEPT ![d] = next]
  /\ pending' = pending \union {d}
  /\ courier' = [courier EXCEPT ![<<d, "turn">>] = AtWork]
  /\ UNCHANGED <<second, briefs, replies, feedback>>

\* retry_undelivered: not before RETRY_GRACE_SECS passed since the handoff or
\* the guidance, by when the turn has sent its own.
SendAgain(d) ==
  /\ d \in pending
  /\ \A by \in {"turn", "timers"} : courier[<<d, by>>] = NoCourier
  /\ courier' = [courier EXCEPT ![<<d, "timers">>] = AtWork]
  /\ UNCHANGED <<second, phase, evaluations, briefs, pending, judging, replies, feedback>>

-----------------------------------------------------------------------------
(* deliver.                                                                *)

Stamp(c) ==
  /\ courier[c].left # << >> /\ courier[c].at = 0
  /\ Len(briefs) + Cardinality({x \in Couriers : courier[x].at > 0}) < MaxBriefs
  /\ courier' = [courier EXCEPT ![c].at = second, ![c].exist = ExistOf(c[1])]
  /\ UNCHANGED <<second, phase, evaluations, briefs, pending, judging, replies, feedback>>

\* The courier without the solver it is at; deliver returns after the last.
Onward(c) == IF Tail(courier[c].left) = << >>
             THEN NoCourier
             ELSE [courier[c] EXCEPT !.left = Tail(@), !.at = 0, !.exist = 0]

\* The event of a brief: it has the stamp, not the time it is written.
SentNow(c) == [dispute |-> c[1], to |-> Head(courier[c].left), at |-> second,
               exist |-> courier[c].exist]

Sent(c) == [dispute |-> c[1], to |-> Head(courier[c].left), at |-> courier[c].at,
            exist |-> courier[c].exist]

\* A relay accepted the brief.
Brief(c) ==
  /\ courier[c].at > 0
  /\ briefs' = Append(briefs, Sent(c))
  /\ pending' = pending \ {c[1]}
  /\ courier' = [courier EXCEPT ![c] = Onward(c)]
  /\ UNCHANGED <<second, phase, evaluations, judging, replies, feedback>>

MissReader(c) ==
  /\ courier[c].at > 0
  /\ courier' = [courier EXCEPT ![c] = Onward(c)]
  /\ UNCHANGED <<second, phase, evaluations, briefs, pending, judging, replies, feedback>>

-----------------------------------------------------------------------------
(* solver_replies, handle and record.                                      *)

\* A solver answers a brief it has, by its own clock, and may name the dispute.
Answer(i, question, names) ==
  LET b == briefs[i]
  IN /\ Len(replies) < MaxReplies
     /\ \E written \in Max({0, second - ReaderSkew})..(second + ReaderSkew) :
          replies' = Append(replies, [from |-> b.to, question |-> question,
                                      names |-> names, written |-> written,
                                      answers |-> i])
     /\ UNCHANGED <<second, phase, evaluations, briefs, pending, judging, courier,
                    feedback>>

\* feedback_recorded: by the id of the DM.
FeedbackRecorded(m) == \E j \in DOMAIN feedback : feedback[j].source = m

Until(m) == replies[m].written + ClockSkew

\* The briefs the solver got until it wrote.
BriefsBefore(m) ==
  {i \in DOMAIN briefs : briefs[i].to = replies[m].from /\ briefs[i].at <= Until(m)}

\* last_notification_to, unless the solver named the dispute.
AboutDispute(m) ==
  IF replies[m].names THEN briefs[replies[m].answers].dispute
                      ELSE briefs[Max(BriefsBefore(m))].dispute

\* The newest of them about the dispute.
BriefOf(m) == Max({i \in BriefsBefore(m) : briefs[i].dispute = AboutDispute(m)})

BriefedAt(m) == briefs[BriefOf(m)].at

\* An evaluation the brief may have shown.
ShownBy(e, briefed_at) == e.at <= briefed_at

Candidates(m) ==
  {i \in DOMAIN evaluations :
     /\ evaluations[i].dispute = AboutDispute(m)
     /\ ShownBy(evaluations[i], BriefedAt(m))
     /\ replies[m].question \in evaluations[i].asked}

Matches(m) ==
  /\ \E i \in BriefsBefore(m) : replies[m].names =>
                                  briefs[i].dispute = briefs[replies[m].answers].dispute
  /\ Candidates(m) # {}

\* A relay delivers the DM, perhaps not for the first time.  The brief it was
\* matched with is history: the event does not name it.
Handle(m) ==
  /\ m \in DOMAIN replies
  /\ ~FeedbackRecorded(m)
  /\ Matches(m)
  /\ feedback' = Append(feedback, [source |-> m, dispute |-> AboutDispute(m),
                                   evaluation |-> Max(Candidates(m)),
                                   brief |-> BriefOf(m)])
  /\ UNCHANGED <<second, phase, evaluations, briefs, pending, judging, courier, replies>>

-----------------------------------------------------------------------------
NextSecond ==
  /\ second < LastSecond
  /\ second' = second + 1
  /\ UNCHANGED <<phase, evaluations, briefs, pending, judging, courier, replies, feedback>>

FeedbackInit ==
  /\ second = 1
  /\ phase = [d \in Disputes |-> "active"]
  /\ evaluations = << >> /\ briefs = << >> /\ replies = << >> /\ feedback = << >>
  /\ pending = {}
  /\ judging = [d \in Disputes |-> NoJudging]
  /\ courier = [c \in Couriers |-> NoCourier]

FeedbackNext ==
  \/ \E d \in Disputes :
       \/ BeginJudging(d) \/ SendAgain(d)
       \/ \E asked \in SUBSET Questions :
            \/ Ask(d, asked)
            \/ \E next \in {"guiding", "handed_off"} : Conclude(d, asked, next)
  \/ \E c \in Couriers : Stamp(c) \/ Brief(c) \/ MissReader(c)
  \/ \E i \in DOMAIN briefs, question \in Questions, names \in BOOLEAN :
       Answer(i, question, names)
  \/ \E m \in DOMAIN replies : Handle(m)
  \/ NextSecond

FeedbackSpec == FeedbackInit /\ [][FeedbackNext]_feedbackVars

-----------------------------------------------------------------------------
\* Types.  What is recorded points at rows that exist, and a DM is recorded
\* once however often relays deliver it.
FeedbackTypeOK ==
  /\ second \in 1..LastSecond
  /\ phase \in [Disputes -> {"active", "guiding", "handed_off"}]
  /\ \A i \in DOMAIN evaluations :
       evaluations[i] \in [dispute: Disputes, at: 1..LastSecond, asked: SUBSET Questions]
  /\ \A i \in DOMAIN briefs :
       briefs[i] \in [dispute: Disputes, to: Readers, at: 1..LastSecond,
                      exist: 0..MaxEvaluations]
  /\ pending \subseteq Disputes
  /\ \A j, k \in DOMAIN feedback :
       /\ feedback[j].source \in DOMAIN replies
       /\ feedback[j].evaluation \in DOMAIN evaluations
       /\ feedback[j].source = feedback[k].source => j = k

\* A reply blames an evaluation that existed when the brief it is matched with
\* was stamped, or at worst the one turn that was at the judge then, or a turn
\* begun in that very second: never one of several turns that came later.  The
\* comment of record would have neither exception (mediation/feedback.rs:76-78,
\* record).
OneTurnUnseen ==
  \A j \in DOMAIN feedback :
    LET f == feedback[j]
        b == briefs[f.brief]
        e == evaluations[f.evaluation]
        later == {i \in DOMAIN evaluations : /\ evaluations[i].dispute = f.dispute
                                             /\ i > b.exist}
    IN /\ e.dispute = f.dispute
       /\ f.evaluation \in later =>
            \/ e.at = b.at
            \/ /\ e.at < b.at
               /\ \A i \in later : f.evaluation <= i

\* No judgment of the question that the brief could show is passed over for an
\* older one: whatever existed when it was stamped counts, also the turn of that
\* very second (mediation/feedback.rs record).
NothingShownIsPassedOver ==
  \A j \in DOMAIN feedback :
    LET f == feedback[j]
    IN \A i \in DOMAIN evaluations :
         /\ evaluations[i].dispute = f.dispute
         /\ i <= briefs[f.brief].exist
         /\ replies[f.source].question \in evaluations[i].asked
         => i <= f.evaluation

\* If the solver's clock is off by no more than CLOCK_SKEW_SECS, a reply is never
\* matched with an older brief than the one it answers, of whatever dispute,
\* however late it is delivered (mediation/feedback.rs record).
NoOlderBriefIsTaken ==
  ReaderSkew <= ClockSkew =>
    \A j \in DOMAIN feedback : feedback[j].brief >= replies[feedback[j].source].answers

\* What a solver called wrong is recorded against a judgment its brief could
\* show, the newest such one, and that brief is none before the one it read
\* (mediation/feedback.rs record).
FeedbackIsSound == OneTurnUnseen /\ NothingShownIsPassedOver /\ NoOlderBriefIsTaken

=============================================================================
