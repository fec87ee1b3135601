------------------------------- MODULE Parts -------------------------------
(***************************************************************************)
(* Seven parts of Serbero that share no state with one another, run one at *)
(* a time: a behaviour is a behaviour of the part it chose at first, and   *)
(* the other parts stay as they began.  A liveness property is stated      *)
(* under the fairness of its own part.                                     *)
(***************************************************************************)
EXTENDS Settle, Closing, Observers, Feedback, Judge, Texts, Backlog

VARIABLE part

partsVars == <<part, settleVars, closingVars, observersVars, feedbackVars, judgeVars,
               textsVars, backlogVars>>

PartNames == {"settle", "closing", "observers", "feedback", "judge", "texts", "backlog"}

\* A part that does not run has nothing to write.
TextsParked ==
  part # "texts" => script = << >> /\ kind = "update" /\ \A l \in Limits : limit <= l

PartsInit ==
  /\ part \in PartNames
  /\ SettleInit /\ ClosingInit /\ ObserversInit /\ FeedbackInit /\ JudgeInit
  /\ TextsInit /\ TextsParked
  /\ BacklogInit

Only(name) ==
  /\ part = name
  /\ UNCHANGED part
  /\ name # "settle" => UNCHANGED settleVars
  /\ name # "closing" => UNCHANGED closingVars
  /\ name # "observers" => UNCHANGED observersVars
  /\ name # "feedback" => UNCHANGED feedbackVars
  /\ name # "judge" => UNCHANGED judgeVars
  /\ name # "texts" => UNCHANGED textsVars
  /\ name # "backlog" => UNCHANGED backlogVars

PartsNext ==
  \/ Only("settle") /\ SettleNext
  \/ Only("closing") /\ ClosingNext
  \/ Only("observers") /\ ObserversNext
  \/ Only("feedback") /\ FeedbackNext
  \/ Only("judge") /\ JudgeNext
  \/ Only("texts") /\ TextsNext
  \/ Only("backlog") /\ BacklogNext

PartsSpec == PartsInit /\ [][PartsNext]_partsVars

-----------------------------------------------------------------------------
\* Types, of every part.
PartsTypeOK ==
  /\ part \in PartNames
  /\ SettleTypeOK /\ ClosingTypeOK /\ ObserversTypeOK /\ FeedbackTypeOK /\ JudgeTypeOK
  /\ limit \in Limits /\ script \in Scripts /\ done \in BOOLEAN
  /\ BacklogTypeOK

\* EveryMessageGetsATurn of Settle, under the fairness of the turn loop
\* (mediation/turn.rs run_turns).
TurnsCome == SettleFairness => (part = "settle" => EveryMessageGetsATurn)

\* ClosingCompletes of Closing, under the fairness of the tasks that close
\* (mediation/guide.rs finish_pending).
ClosingsComplete == ClosingFairness => (part = "closing" => ClosingCompletes)

\* NoticesArrive of Observers, under the fairness of the delivery task
\* (mediation/observers.rs run_observer_notices).
NoticesGetThrough == ObserversFairness => (part = "observers" => NoticesArrive)

\* TextIsWritten of Texts: the loop of chunk ends (solver/mod.rs chunk).
SplittingEnds == TextsFairness => (part = "texts" => TextIsWritten)

\* CatchesUp of Backlog, under the fairness of the sync loop and the relays
\* (daemon/sync.rs sync_loop).
RevisionsCatchUp == BacklogFairness => (part = "backlog" => CatchesUp)

\* Each part brings to an end what it began: a message gets its turn, a closing
\* is finished, a notice that failed arrives, a text is written, a revision is
\* caught up with (run_turns, finish_pending, deliver_due, chunk, sync_loop).
PartsProgress ==
  TurnsCome /\ ClosingsComplete /\ NoticesGetThrough /\ SplittingEnds /\ RevisionsCatchUp

=============================================================================
