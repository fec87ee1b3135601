--------------------------- MODULE OpeningProofs ---------------------------
(***************************************************************************)
(* What opening mediations beside the notifier guarantees, for any number  *)
(* of disputes, attempts, tasks and restarts: two calls of consider never  *)
(* take one dispute together, a dispute has one live session at most, the  *)
(* sessions table implements SessionLife, an abandoned session has its     *)
(* notice, nothing is mediated that no solver heard of, Serbero's own take *)
(* supersedes none of its sessions, and is announced as somebody else's    *)
(* only when no granted attempt and no session of Serbero's is left.       *)
(***************************************************************************)
EXTENDS Opening, NotifierProofs

AttemptStep == {"idle", "claiming", "done"} \union Claimed

-----------------------------------------------------------------------------
(* Type correctness.                                                       *)

\* Goes moves one attempt and leaves the others where they are.
LEMMA GoesOn ==
  ASSUME OpeningTypeOK, NEW a \in Attempts, NEW step \in AttemptStep, Goes(a, step)
  PROVE  /\ attempt' \in [Attempts -> AttemptState]
         /\ attempt'[a].step = step
         /\ attempt'[a].dispute = attempt[a].dispute
         /\ \A b \in Attempts : b # a => attempt'[b] = attempt[b]
<1>1. attempt \in [Attempts -> AttemptState] /\ attempt[a] \in AttemptState
  BY DEF OpeningTypeOK
<1>2. [attempt[a] EXCEPT !.step = step] \in AttemptState
  BY <1>1 DEF AttemptState, AttemptStep
<1>3. attempt' = [attempt EXCEPT ![a] = [attempt[a] EXCEPT !.step = step]]
  BY <1>1 DEF Goes
<1> QED BY <1>1, <1>2, <1>3 DEF AttemptState

\* A call at work is about a dispute.
AttemptsNameDisputes ==
  \A a \in Attempts : attempt[a].step # "idle" => attempt[a].dispute \in Disputes

\* The tables and tasks of the notifier are typed separately from the
\* variables of Opening.
OwnTyped ==
  /\ boot \in {"starting", "checking", "ready", "reconsidered"}
  /\ started \in Nat
  /\ attempt \in [Attempts -> AttemptState]
  /\ request \in [Attempts -> {"none", "sent", "granted", "repeated", "refused"}]
  /\ notice \in [Disputes -> {"none", "pending", "sent"}]
  /\ timedOut \in SUBSET Attempts

LEMMA OpeningTypeParts == OpeningTypeOK <=> NotifierTypeOK /\ OwnTyped
BY DEF OpeningTypeOK, OwnTyped

LEMMA OpeningInitTyped == OpeningInit => OpeningTypeOK
<1> SUFFICES ASSUME OpeningInit PROVE OpeningTypeOK
  OBVIOUS
<1>1. IdleAttempt \in AttemptState
  <2>1. FALSE \in BOOLEAN
    OBVIOUS
  <2> QED BY <2>1 DEF IdleAttempt, AttemptState, Lifecycle
<1> QED BY <1>1, NotifierInitTyped DEF OpeningInit, OpeningTypeOK

\* Startup.
LEMMA StartupTyped == ASSUME OpeningTypeOK, Startup PROVE OpeningTypeOK'
<1> USE DEF OwnTyped
<1>1. CASE InstallHooks
  <2>1. hooked' \in BOOLEAN
    BY <1>1, Zenon DEF InstallHooks
  <2> QED BY <1>1, <2>1, OpeningTypeParts
          DEF InstallHooks, OpeningTypeOK, NotifierTypeOK, nodeVars, dbVars, historyVars
<1>2. CASE JudgePassesChecks
  BY <1>2 DEF JudgePassesChecks, OpeningTypeOK, NotifierTypeOK, notifierVars
<1>3. CASE Reconsider
  <2>1. requests' \in [Disputes -> Nat]
    BY <1>3 DEF Reconsider, OpeningTypeOK, NotifierTypeOK
  <2> QED BY <1>3, <2>1
          DEF Reconsider, OpeningTypeOK, NotifierTypeOK, nodeVars, dbVars, historyVars
<1> QED BY <1>1, <1>2, <1>3 DEF Startup

\* The claim.
LEMMA ClaimTyped ==
  ASSUME OpeningTypeOK, AttemptsNameDisputes, NEW a \in Attempts,
         ClaimDecides(a) \/ \E d \in Disputes : ClaimReads(a, d)
  PROVE  OpeningTypeOK'
<1>0. attempt \in [Attempts -> AttemptState] /\ attempt[a] \in AttemptState
  BY DEF OpeningTypeOK
<1>1. ASSUME NEW d \in Disputes, ClaimReads(a, d) PROVE OpeningTypeOK'
  <2>1. requests' \in [Disputes -> Nat]
    <3>1. requests \in [Disputes -> Nat]
      BY DEF OpeningTypeOK, NotifierTypeOK
    <3> QED BY <1>1, <3>1 DEF ClaimReads
  <2>2. row[d].lifecycle \in Lifecycle
    BY DEF OpeningTypeOK, NotifierTypeOK, Row
  <2>3. PICK hadSession \in BOOLEAN :
          attempt' = [attempt EXCEPT ![a] =
            [step |-> "claiming", dispute |-> d, lifecycle |-> row[d].lifecycle,
             hadSession |-> hadSession]]
    BY <1>1 DEF ClaimReads
  <2>4. attempt' \in [Attempts -> AttemptState]
    BY <1>0, <2>2, <2>3 DEF AttemptState
  <2> QED BY <1>1, <2>1, <2>4 DEF ClaimReads, OpeningTypeOK, NotifierTypeOK, notifierOnly,
                                  nodeVars, dbVars, historyVars
<1>2. CASE ClaimDecides(a)
  <2>1. \/ Goes(a, "node_info") /\ ownTakes' = ownTakes \union {attempt[a].dispute}
        \/ Goes(a, "done") /\ UNCHANGED ownTakes
    BY <1>2 DEF ClaimDecides
  <2>2. attempt' \in [Attempts -> AttemptState]
    BY <2>1, GoesOn DEF AttemptStep, Claimed
  <2>3. attempt[a].dispute \in Disputes
    BY <1>2 DEF ClaimDecides, AttemptsNameDisputes
  <2> QED BY <1>2, <2>1, <2>2, <2>3
          DEF ClaimDecides, OpeningTypeOK, NotifierTypeOK, notifierOnly, nodeVars, dbVars,
              historyVars
<1> QED BY <1>1, <1>2

\* The steps of an attempt that touch neither the sessions nor the node.
Quiet(a) ==
  \/ NodeUnfit(a) \/ SendsTake(a) \/ TakeGranted(a) \/ TakeRefused(a) \/ TakeWithoutInfo(a)
  \/ TakeTimesOut(a) \/ KeysMissing(a) \/ OpenChats(a) \/ Greet(a) \/ Tell(a) \/ SendNotice(a)

LEMMA QuietMoves ==
  ASSUME NEW a \in Attempts, Quiet(a)
  PROVE  /\ attempt[a].step \in Claimed
         /\ \/ Returns(a)
            \/ ownTakes' = ownTakes /\ \E step \in Claimed : Goes(a, step)
         /\ UNCHANGED <<notifierOnly, nodeVars, dbVars, requests, boot, started>>
         /\ request' = request \/ request' = [request EXCEPT ![a] = "sent"]
         /\ timedOut' = timedOut \/ timedOut' = timedOut \union {a}
         /\ notice' = notice \/ notice' = [notice EXCEPT ![attempt[a].dispute] = "sent"]
<1>1. CASE \/ NodeUnfit(a) \/ TakeRefused(a) \/ TakeWithoutInfo(a) \/ TakeTimesOut(a)
           \/ Tell(a) \/ SendNotice(a)
  BY <1>1 DEF NodeUnfit, TakeRefused, TakeWithoutInfo, TakeTimesOut, Tell, SendNotice, Claimed
<1>2. CASE SendsTake(a) \/ TakeGranted(a) \/ KeysMissing(a) \/ OpenChats(a) \/ Greet(a)
  BY <1>2 DEF SendsTake, TakeGranted, KeysMissing, OpenChats, Greet, Claimed, Greeting
<1> QED BY <1>1, <1>2 DEF Quiet

LEMMA QuietTyped ==
  ASSUME OpeningTypeOK, NEW a \in Attempts, Quiet(a) PROVE OpeningTypeOK'
<1>1. attempt' \in [Attempts -> AttemptState]
  <2>1. PICK step \in AttemptStep : Goes(a, step)
    BY QuietMoves DEF Returns, AttemptStep
  <2> QED BY <2>1, GoesOn
<1>2. request' \in [Attempts -> {"none", "sent", "granted", "repeated", "refused"}]
  BY QuietMoves DEF OpeningTypeOK
<1>3. notice' \in [Disputes -> {"none", "pending", "sent"}]
  BY QuietMoves DEF OpeningTypeOK
<1>4. timedOut' \in SUBSET Attempts /\ ownTakes' \in SUBSET Disputes
  BY QuietMoves DEF OpeningTypeOK, NotifierTypeOK, Returns
<1> QED BY <1>1, <1>2, <1>3, <1>4, QuietMoves
        DEF OpeningTypeOK, NotifierTypeOK, notifierOnly, nodeVars, dbVars, historyVars

\* The steps that write a session.
LEMMA SessionWriteTyped ==
  ASSUME OpeningTypeOK, NEW a \in Attempts, InsertSession(a) \/ Activate(a) \/ Abandon(a)
  PROVE  OpeningTypeOK'
<1>0. /\ session \in [Attempts -> Session] /\ attempt[a] \in AttemptState /\ clock \in Nat
      /\ notice \in [Disputes -> {"none", "pending", "sent"}]
  BY DEF OpeningTypeOK, NotifierTypeOK
<1>1. CASE InsertSession(a)
  <2>1. attempt' \in [Attempts -> AttemptState]
    BY <1>1, GoesOn DEF InsertSession, AttemptStep, Claimed
  <2>2. session' \in [Attempts -> Session]
    <3>1. [state |-> "opening", dispute |-> attempt[a].dispute, openedAt |-> clock] \in Session
      BY <1>0 DEF Session, AttemptState, Live
    <3> QED BY <1>0, <1>1, <3>1 DEF InsertSession
  <2> QED BY <1>1, <2>1, <2>2
          DEF InsertSession, OpeningTypeOK, NotifierTypeOK, notifierOnly, nodeVars, historyVars
<1>2. CASE Activate(a)
  <2>1. attempt' \in [Attempts -> AttemptState]
    BY <1>2, GoesOn DEF Activate, AttemptStep, Claimed
  <2>2. session' \in [Attempts -> Session]
    <3>1. [session[a] EXCEPT !.state = "active"] \in Session
      BY <1>0 DEF Session, Live
    <3>2. \/ session' = session
          \/ session' = [session EXCEPT ![a] = [session[a] EXCEPT !.state = "active"]]
      BY <1>0, <1>2 DEF Activate
    <3> QED BY <1>0, <3>1, <3>2
  <2> QED BY <1>2, <2>1, <2>2
          DEF Activate, OpeningTypeOK, NotifierTypeOK, notifierOnly, nodeVars, historyVars
<1>3. CASE Abandon(a)
  <2>1. attempt' \in [Attempts -> AttemptState]
    BY <1>3, GoesOn DEF Abandon, AttemptStep, Claimed
  <2>2. session' \in [Attempts -> Session]
    <3>1. [session[a] EXCEPT !.state = "handed_off"] \in Session
      BY <1>0 DEF Session, Live
    <3>2. \/ session' = session
          \/ session' = [session EXCEPT ![a] = [session[a] EXCEPT !.state = "handed_off"]]
      BY <1>0, <1>3 DEF Abandon
    <3> QED BY <1>0, <3>1, <3>2
  <2>3. notice' \in [Disputes -> {"none", "pending", "sent"}]
    BY <1>0, <1>3 DEF Abandon, NoticePending
  <2> QED BY <1>3, <2>1, <2>2, <2>3
          DEF Abandon, OpeningTypeOK, NotifierTypeOK, notifierOnly, nodeVars, historyVars
<1> QED BY <1>1, <1>2, <1>3

\* The node's answer, the retried notice and a restart.
LEMMA AroundTyped ==
  ASSUME OpeningTypeOK,
         \/ \E a \in Attempts : NodeAnswersTake(a)
         \/ \E d \in Disputes : RetryNotice(d)
         \/ OpeningRestart
  PROVE  OpeningTypeOK'
<1>1. ASSUME NEW a \in Attempts, NodeAnswersTake(a) PROVE OpeningTypeOK'
  <2>1. request' \in [Attempts -> {"none", "sent", "granted", "repeated", "refused"}]
    BY <1>1 DEF NodeAnswersTake, OpeningTypeOK
  <2>2. node' \in [Disputes -> [status : Status \union {"none"},
                                holder : {"nobody", "serbero", "human"}]]
    BY <1>1 DEF NodeAnswersTake, OpeningTypeOK, NotifierTypeOK, nodeVars, Status
  <2>3. published' \in [Disputes -> SUBSET Revision]
    BY <1>1 DEF NodeAnswersTake, Publish, OpeningTypeOK, NotifierTypeOK, nodeVars, Revision,
                Status
  <2> QED BY <1>1, <2>1, <2>2, <2>3
          DEF NodeAnswersTake, OpeningTypeOK, NotifierTypeOK, notifierOnly, dbVars, historyVars
<1>2. ASSUME NEW d \in Disputes, RetryNotice(d) PROVE OpeningTypeOK'
  BY <1>2 DEF RetryNotice, OpeningTypeOK, NotifierTypeOK, notifierVars
<1>3. CASE OpeningRestart
  <2>1. NotifierTypeOK'
    BY <1>3, RestartTyped DEF OpeningRestart, OpeningTypeOK
  <2>2. attempt' \in [Attempts -> AttemptState]
    <3>1. ASSUME NEW b \in Attempts PROVE [attempt[b] EXCEPT !.step = "done"] \in AttemptState
      BY DEF OpeningTypeOK, AttemptState
    <3> QED BY <1>3, <3>1 DEF OpeningRestart, OpeningTypeOK
  <2> QED BY <1>3, <2>1, <2>2 DEF OpeningRestart, OpeningTypeOK
<1> QED BY <1>1, <1>2, <1>3

LEMMA OpeningStepTyped ==
  ASSUME OpeningTypeOK, AttemptsNameDisputes, OpeningNext PROVE OpeningTypeOK'
<1>1. CASE NotifierNext /\ UNCHANGED openingVars
  BY <1>1, NotifierStepTyped DEF openingVars, OpeningTypeOK
<1>2. ASSUME NEW a \in Attempts, Considers(a) PROVE OpeningTypeOK'
  BY <1>2, ClaimTyped, QuietTyped, SessionWriteTyped DEF Considers, Quiet
<1> QED BY <1>1, <1>2, StartupTyped, AroundTyped DEF OpeningNext

-----------------------------------------------------------------------------
(* Claims.                                                                 *)

\* A dispute between claim and release is in own_takes, and belongs to one
\* attempt.
ClaimInv ==
  /\ OpeningTypeOK
  /\ AttemptsNameDisputes
  /\ \A a \in Attempts : attempt[a].step \in Claimed => attempt[a].dispute \in ownTakes
  /\ TakesNeverOverlap

\* What a step of an attempt does to its claim.
ClaimStep(a) ==
  \/ /\ attempt'[a].step = "claiming"
     /\ attempt'[a].dispute \in Disputes
     /\ ownTakes' = ownTakes
  \/ /\ attempt'[a].step \in Claimed
     /\ attempt'[a].dispute = attempt[a].dispute
     /\ attempt[a].step = "claiming"
     /\ attempt[a].dispute \notin ownTakes
     /\ ownTakes' = ownTakes \union {attempt[a].dispute}
  \/ /\ attempt'[a].step \in Claimed
     /\ attempt'[a].dispute = attempt[a].dispute
     /\ attempt[a].step \in Claimed
     /\ ownTakes' = ownTakes
  \/ /\ attempt'[a].step = "done"
     /\ attempt'[a].dispute = attempt[a].dispute
     /\ attempt[a].step = "claiming"
     /\ ownTakes' = ownTakes
  \/ /\ attempt'[a].step = "done"
     /\ attempt'[a].dispute = attempt[a].dispute
     /\ attempt[a].step \in Claimed
     /\ ownTakes' = ownTakes \ {attempt[a].dispute}

LEMMA ConsidersClaims ==
  ASSUME OpeningTypeOK, NEW a \in Attempts, Considers(a)
  PROVE  ClaimStep(a) /\ \A b \in Attempts : b # a => attempt'[b] = attempt[b]
<1>0. attempt \in [Attempts -> AttemptState]
  BY DEF OpeningTypeOK
<1>1. ASSUME NEW d \in Disputes, ClaimReads(a, d)
      PROVE  ClaimStep(a) /\ \A b \in Attempts : b # a => attempt'[b] = attempt[b]
  <2>1. attempt'[a].step = "claiming" /\ attempt'[a].dispute = d
    BY <1>0, <1>1 DEF ClaimReads
  <2> QED BY <1>0, <1>1, <2>1 DEF ClaimReads, ClaimStep
<1>2. CASE ClaimDecides(a)
  <2>1. CASE Eligible(a)
    <3>1. Goes(a, "node_info") /\ ownTakes' = ownTakes \union {attempt[a].dispute}
      BY <1>2, <2>1 DEF ClaimDecides
    <3>2. attempt[a].step = "claiming" /\ attempt[a].dispute \notin ownTakes
      BY <1>2, <2>1 DEF ClaimDecides, Eligible
    <3> QED BY <3>1, <3>2, GoesOn DEF ClaimStep, AttemptStep, Claimed
  <2>2. CASE ~Eligible(a)
    <3>1. Goes(a, "done") /\ ownTakes' = ownTakes /\ attempt[a].step = "claiming"
      BY <1>2, <2>2 DEF ClaimDecides
    <3> QED BY <3>1, GoesOn DEF ClaimStep, AttemptStep
  <2> QED BY <2>1, <2>2
<1>3. CASE Quiet(a)
  <2>1. CASE Returns(a)
    <3>1. Goes(a, "done") /\ ownTakes' = ownTakes \ {attempt[a].dispute}
      BY <2>1 DEF Returns
    <3> QED BY <1>3, <3>1, QuietMoves, GoesOn DEF ClaimStep, AttemptStep
  <2>2. ASSUME NEW step \in Claimed, Goes(a, step), ownTakes' = ownTakes
        PROVE  ClaimStep(a) /\ \A b \in Attempts : b # a => attempt'[b] = attempt[b]
    <3>1. attempt[a].step \in Claimed
      BY <1>3, QuietMoves
    <3>2. /\ attempt'[a].step = step /\ attempt'[a].dispute = attempt[a].dispute
          /\ \A b \in Attempts : b # a => attempt'[b] = attempt[b]
      BY <2>2, GoesOn DEF AttemptStep
    <3> QED BY <2>2, <3>1, <3>2 DEF ClaimStep
  <2> QED BY <1>3, <2>1, <2>2, QuietMoves
<1>4. CASE InsertSession(a) \/ Activate(a) \/ Abandon(a)
  <2>1. /\ attempt[a].step \in Claimed /\ ownTakes' = ownTakes
        /\ \E step \in Claimed : Goes(a, step)
    BY <1>4 DEF InsertSession, Activate, Abandon, Claimed, notifierOnly
  <2> QED BY <2>1, GoesOn DEF ClaimStep, AttemptStep
<1> QED BY <1>1, <1>2, <1>3, <1>4 DEF Considers, Quiet

LEMMA NotifierLeavesClaims ==
  ASSUME NotifierNext PROVE ownTakes' = ownTakes
<1>1. CASE NodeNext
  BY <1>1 DEF NodeNext, NodeOpens, HumanTakes, NodeResolves
<1>2. ASSUME NEW h \in Handlers, Handle(h) PROVE ownTakes' = ownTakes
  BY <1>2 DEF Handle, FirstSight, Applies, Stale
<1>3. ASSUME NEW t \in Tasks, Proceed(t) PROVE ownTakes' = ownTakes
  BY <1>3 DEF Proceed, Announce, Mark, CheckOwnTakes, CheckLiveSession
<1>4. CASE Remind \/ Tick
  BY <1>4 DEF Remind, RemindTick, RemindNext, Tick
<1> QED BY <1>1, <1>2, <1>3, <1>4 DEF NotifierNext

LEMMA ClaimsStep == ASSUME ClaimInv, OpeningNext PROVE ClaimInv'
<1>0. OpeningTypeOK'
  BY OpeningStepTyped DEF ClaimInv
<1>1. ASSUME UNCHANGED <<attempt, ownTakes>> PROVE ClaimInv'
  BY <1>0, <1>1 DEF ClaimInv, AttemptsNameDisputes, TakesNeverOverlap
<1>2. CASE NotifierNext /\ UNCHANGED openingVars
  BY <1>1, <1>2, NotifierLeavesClaims DEF openingVars
<1>3. CASE Startup \/ (\E a \in Attempts : NodeAnswersTake(a)) \/ \E d \in Disputes : RetryNotice(d)
  BY <1>1, <1>3 DEF Startup, InstallHooks, JudgePassesChecks, Reconsider, NodeAnswersTake,
                    RetryNotice, notifierVars
<1>4. CASE OpeningRestart
  <2>1. \A a \in Attempts : /\ attempt'[a].step \in {"idle", "done"}
                            /\ attempt'[a].dispute = attempt[a].dispute
                            /\ attempt'[a].step # "idle" => attempt[a].step # "idle"
    BY <1>4 DEF OpeningRestart, ClaimInv, OpeningTypeOK, AttemptState
  <2>2. "idle" \notin Claimed /\ "done" \notin Claimed
    BY DEF Claimed, Greeting
  <2> QED BY <1>0, <2>1, <2>2 DEF ClaimInv, AttemptsNameDisputes, TakesNeverOverlap
<1>5. ASSUME NEW a \in Attempts, Considers(a) PROVE ClaimInv'
  <2>1. ClaimStep(a) /\ \A b \in Attempts : b # a => attempt'[b] = attempt[b]
    BY <1>5, ConsidersClaims DEF ClaimInv
  <2>2. "claiming" \notin Claimed /\ "done" \notin Claimed /\ "idle" \notin Claimed
    BY DEF Claimed, Greeting
  <2>3. AttemptsNameDisputes'
    BY <2>1, <2>2 DEF ClaimStep, ClaimInv, AttemptsNameDisputes
  <2>4. \A b \in Attempts : attempt'[b].step \in Claimed => attempt'[b].dispute \in ownTakes'
    BY <2>1, <2>2 DEF ClaimStep, ClaimInv, TakesNeverOverlap
  <2>5. TakesNeverOverlap'
    BY <2>1, <2>2 DEF ClaimStep, ClaimInv, TakesNeverOverlap
  <2> QED BY <1>0, <2>3, <2>4, <2>5 DEF ClaimInv
<1> QED BY <1>2, <1>3, <1>4, <1>5 DEF OpeningNext

LEMMA ClaimInvInit == OpeningInit => ClaimInv
<1>1. "idle" \notin Claimed
  BY DEF Claimed, Greeting
<1> QED BY <1>1, OpeningInitTyped
        DEF OpeningInit, ClaimInv, AttemptsNameDisputes, TakesNeverOverlap, IdleAttempt

LEMMA ClaimInvHolds == OpeningSpec => []ClaimInv
<1>2. ClaimInv /\ [OpeningNext]_vars => ClaimInv'
  <2>1. ASSUME ClaimInv, UNCHANGED vars PROVE ClaimInv'
    BY <2>1 DEF vars, ClaimInv, OpeningTypeOK, NotifierTypeOK, AttemptsNameDisputes,
                TakesNeverOverlap
  <2> QED BY <2>1, ClaimsStep
<1> QED BY <1>2, ClaimInvInit, PTL DEF OpeningSpec

\* Every variable of the notifier and of opening keeps its type.
THEOREM OpeningTypeCorrect == OpeningSpec => []OpeningTypeOK
<1>1. ClaimInv => OpeningTypeOK
  BY DEF ClaimInv
<1> QED BY <1>1, ClaimInvHolds, PTL

\* However hooks, reminders and the reconsideration race, and wherever a
\* restart falls, one attempt at most is between claim and release of a
\* dispute: own_takes is tested and set in one step (claim, release).
THEOREM TakesDoNotOverlap == OpeningSpec => []TakesNeverOverlap
<1>1. ClaimInv => TakesNeverOverlap
  BY DEF ClaimInv
<1> QED BY <1>1, ClaimInvHolds, PTL

-----------------------------------------------------------------------------
(* Sessions.                                                               *)

\* The steps of an attempt before its insert, and those at which it works
\* on the session it inserted.
Before == {"idle", "claiming", "node_info", "asking", "creating"}

Opened == {"subscribing", "activate", "abandon"} \union Greeting

\* An attempt inserts at most once, and nobody but its own attempt moves an
\* opening session other than to end it.
SessionInv ==
  /\ ClaimInv
  /\ OneLiveSession
  /\ \A a \in Attempts : attempt[a].step \in Before => session[a].state = "none"
  /\ \A a \in Attempts :
       attempt[a].step \in Opened => session[a].state \in {"opening"} \union Terminal

\* No step moves an attempt back before its insert, or on to an inserted
\* session, without writing the sessions table.
LEMMA StepsGoOn ==
  ASSUME OpeningTypeOK, NEW a \in Attempts,
         Quiet(a) \/ ClaimDecides(a) \/ \E d \in Disputes : ClaimReads(a, d)
  PROVE  /\ session' = session
         /\ \A b \in Attempts : b # a => attempt'[b] = attempt[b]
         /\ attempt'[a].step \in Before => attempt[a].step \in Before
         /\ attempt'[a].step \in Opened => attempt[a].step \in Opened
<1>0. attempt \in [Attempts -> AttemptState]
  BY DEF OpeningTypeOK
<1>s. session' = session
  <2>1. ASSUME Quiet(a) PROVE session' = session
    BY <2>1, QuietMoves DEF dbVars
  <2>2. ASSUME ClaimDecides(a) \/ \E d \in Disputes : ClaimReads(a, d) PROVE session' = session
    BY <2>2 DEF ClaimDecides, ClaimReads, dbVars
  <2> QED BY <2>1, <2>2
<1>o. \A b \in Attempts : b # a => attempt'[b] = attempt[b]
  BY ConsidersClaims DEF Considers, Quiet
<1>1. CASE \E d \in Disputes : ClaimReads(a, d)
  BY <1>0, <1>1, <1>o, <1>s DEF ClaimReads, Before, Opened, Greeting
<1>2. ASSUME NEW from, NEW step \in AttemptStep, attempt[a].step = from, Goes(a, step),
             /\ step \in Before => from \in Before
             /\ step \in Opened => from \in Opened
      PROVE  /\ attempt'[a].step \in Before => attempt[a].step \in Before
             /\ attempt'[a].step \in Opened => attempt[a].step \in Opened
  BY <1>2, GoesOn
<1> USE DEF AttemptStep, Claimed, Before, Opened, Greeting
<1>3. CASE ClaimDecides(a)
  BY <1>3, <1>2, <1>o, <1>s DEF ClaimDecides
<1>4. CASE \/ NodeUnfit(a) \/ SendsTake(a) \/ TakeGranted(a) \/ TakeRefused(a)
           \/ TakeWithoutInfo(a) \/ TakeTimesOut(a)
  BY <1>4, <1>2, <1>o, <1>s
     DEF NodeUnfit, SendsTake, TakeGranted, TakeRefused, TakeWithoutInfo, TakeTimesOut, Returns
<1>5. CASE KeysMissing(a) \/ OpenChats(a) \/ Tell(a) \/ SendNotice(a)
  BY <1>5, <1>2, <1>o, <1>s DEF KeysMissing, OpenChats, Tell, SendNotice, Returns
<1>6. CASE Greet(a)
  BY <1>6, <1>2, <1>o, <1>s DEF Greet
<1> QED BY <1>1, <1>3, <1>4, <1>5, <1>6 DEF Quiet

\* A newer revision leaves a session row alone or ends it.
LEMMA EndedEnds ==
  ASSUME NEW s \in Session, NEW d \in Disputes, NEW r
  PROVE  \/ Ended(s, d, r) = s
         \/ /\ s.dispute = d /\ s.state \in Live
            /\ Ended(s, d, r).state \in Terminal
            /\ Ended(s, d, r).dispute = s.dispute
BY DEF Ended, Session, Terminal

\* The notifier writes a session only by recording a newer revision.
LEMMA NotifierEndsSessions ==
  ASSUME NotifierNext
  PROVE  \/ session' = session
         \/ \E d \in Disputes : \E r \in published[d] :
              session' = [a \in Attempts |-> Ended(session[a], d, r)]
<1>1. CASE NodeNext
  BY <1>1 DEF NodeNext, NodeOpens, HumanTakes, NodeResolves, dbVars
<1>2. ASSUME NEW h \in Handlers, Handle(h)
      PROVE  \/ session' = session
             \/ \E d \in Disputes : \E r \in published[d] :
                  session' = [a \in Attempts |-> Ended(session[a], d, r)]
  BY <1>2 DEF Handle, FirstSight, Applies, Stale, dbVars
<1>3. ASSUME NEW t \in Tasks, Proceed(t) PROVE session' = session
  BY <1>3 DEF Proceed, Announce, Mark, CheckOwnTakes, CheckLiveSession, dbVars
<1>4. CASE Remind \/ Tick
  BY <1>4 DEF Remind, RemindTick, RemindNext, Tick, dbVars
<1> QED BY <1>1, <1>2, <1>3, <1>4 DEF NotifierNext

\* What one step does to the sessions table, in the words of SessionLife.
LifeStep == [Life!LifeNext]_(Life!lifeVars)

LEMMA SameTable == ASSUME session' = session PROVE LifeStep
BY DEF LifeStep, Life!lifeVars

\* Recording a revision.
LEMMA RevisionStep ==
  ASSUME SessionInv, OpeningTypeOK', ClaimInv', attempt' = attempt,
         NEW d \in Disputes, NEW r,
         session' = [a \in Attempts |-> Ended(session[a], d, r)]
  PROVE  SessionInv' /\ LifeStep
<1>0. session \in [Attempts -> Session] /\ session' \in [Attempts -> Session]
  BY DEF OpeningTypeOK, NotifierTypeOK, SessionInv, ClaimInv
<1>1. \A a \in Attempts :
        \/ session'[a] = session[a]
        \/ /\ session[a].dispute = d /\ session[a].state \in Live
           /\ session'[a].state \in Terminal /\ session'[a].dispute = session[a].dispute
  BY <1>0, EndedEnds
<1>2. Terminal \intersect (Live \union {"none"}) = {}
  BY DEF Terminal, Live
<1>3. OneLiveSession'
  BY <1>1, <1>2 DEF SessionInv, OneLiveSession
<1>4. \A a \in Attempts : attempt'[a].step \in Before => session'[a].state = "none"
  BY <1>1 DEF SessionInv, Live
<1>5. \A a \in Attempts :
        attempt'[a].step \in Opened => session'[a].state \in {"opening"} \union Terminal
  BY <1>1 DEF SessionInv
<1>6. LifeStep
  <2>1. CASE \A a \in Attempts : session'[a] = session[a]
    <3>1. session' = session
      BY <1>0, <2>1
    <3> QED BY <3>1, SameTable
  <2>2. ASSUME NEW a \in Attempts, session'[a] # session[a] PROVE LifeStep
    <3>1. session[a].dispute = d /\ session[a].state \in Live /\ session'[a].state \in Terminal
      BY <1>1, <2>2
    <3>2. \A b \in Attempts : b # a => session'[b] = session[b]
      BY <1>1, <3>1 DEF SessionInv, OneLiveSession
    <3>3. \A b \in Attempts : session'[b].dispute = session[b].dispute
      BY <1>1
    <3>t. PICK to \in Terminal : to = session'[a].state
      BY <3>1
    <3>4. Life!Moves(a, to)
      BY <3>2, <3>3, <3>t DEF Life!Moves
    <3>5. Life!End(a)
      <4>1. to \in Life!Terminal
        BY DEF Life!Terminal, Terminal
      <4>2. [b \in Attempts |-> session[b].state][a] \in Life!Live
        BY <3>1 DEF Life!Live, Life!Mediating, Live
      <4> QED BY <3>4, <4>1, <4>2 DEF Life!End
    <3> QED BY <3>5 DEF LifeStep, Life!LifeNext
  <2> QED BY <2>1, <2>2
<1> QED BY <1>3, <1>4, <1>5, <1>6 DEF SessionInv

\* The insert: the partial unique index keeps the dispute to one live row.
LEMMA InsertStep ==
  ASSUME SessionInv, ClaimInv', NEW a \in Attempts, InsertSession(a)
  PROVE  SessionInv' /\ LifeStep
<1> DEFINE d == attempt[a].dispute
<1>0. /\ session \in [Attempts -> Session] /\ OpeningTypeOK /\ d \in Disputes
      /\ session[a].state = "none" /\ attempt[a].step = "creating"
  BY DEF OpeningTypeOK, NotifierTypeOK, SessionInv, ClaimInv, InsertSession, Before,
         AttemptsNameDisputes
<1>1. CASE MayInsert(d)
  <2>1. /\ Goes(a, "subscribing")
        /\ session' = [session EXCEPT ![a] =
                         [state |-> "opening", dispute |-> d, openedAt |-> clock]]
    BY <1>1 DEF InsertSession
  <2>2. /\ attempt'[a].step = "subscribing"
        /\ \A b \in Attempts : b # a => attempt'[b] = attempt[b]
    BY <1>0, <2>1, GoesOn DEF AttemptStep, Claimed
  <2>3. /\ session'[a].state = "opening" /\ session'[a].dispute = d
        /\ \A b \in Attempts : b # a => session'[b] = session[b]
    BY <1>0, <2>1
  <2>4. \A b \in Attempts : ~(session[b].dispute = d /\ session[b].state \in Live)
    BY <1>1 DEF MayInsert, LiveFor
  <2>5. SessionInv'
    BY <2>2, <2>3, <2>4 DEF SessionInv, OneLiveSession, Before, Opened, Greeting
  <2>6. PICK e \in Disputes : e = d
    BY <1>0
  <2>7. Life!Open(a, e)
    BY <1>0, <2>3, <2>4, <2>6 DEF Life!Open, Life!LiveFor, Life!Live, Life!Mediating, Live
  <2>8. Life!LifeNext
    BY <2>7 DEF Life!LifeNext
  <2> QED BY <2>5, <2>8 DEF LifeStep
<1>2. CASE ~MayInsert(d)
  <2>1. Goes(a, "abandon_bare") /\ session' = session
    BY <1>2 DEF InsertSession
  <2>2. /\ attempt'[a].step = "abandon_bare"
        /\ \A b \in Attempts : b # a => attempt'[b] = attempt[b]
    BY <1>0, <2>1, GoesOn DEF AttemptStep, Claimed
  <2>3. SessionInv'
    BY <2>1, <2>2 DEF SessionInv, OneLiveSession, Before, Opened, Greeting
  <2> QED BY <2>1, <2>3, SameTable
<1> QED BY <1>1, <1>2

\* An attempt moves the session it inserted to active or hands it off.
LEMMA OwnSessionStep ==
  ASSUME SessionInv, ClaimInv', NEW a \in Attempts, Activate(a) \/ Abandon(a)
  PROVE  SessionInv' /\ LifeStep
<1>0. session \in [Attempts -> Session] /\ OpeningTypeOK
  BY DEF OpeningTypeOK, NotifierTypeOK, SessionInv, ClaimInv
<1>1. PICK step \in {"tell", "notify"} : Goes(a, step)
  BY DEF Activate, Abandon
<1>2. /\ attempt'[a].step \in {"tell", "notify"}
      /\ \A b \in Attempts : b # a => attempt'[b] = attempt[b]
  BY <1>0, <1>1, GoesOn DEF AttemptStep, Claimed
<1>3. \/ session' = session
      \/ \E to \in {"active", "handed_off"} :
           /\ session[a].state = "opening"
           /\ to = "active" => Activate(a)
           /\ session' = [session EXCEPT ![a].state = to]
  BY DEF Activate, Abandon, MayActivate, SessionInv, Opened, Live, Terminal
<1>4. CASE session' = session
  <2>1. SessionInv'
    BY <1>2, <1>4 DEF SessionInv, OneLiveSession, Before, Opened, Greeting
  <2> QED BY <1>4, <2>1, SameTable
<1>5. ASSUME NEW to \in {"active", "handed_off"}, session[a].state = "opening",
             session' = [session EXCEPT ![a].state = to]
      PROVE  SessionInv' /\ LifeStep
  <2>1. /\ session'[a].state = to /\ session'[a].dispute = session[a].dispute
        /\ \A b \in Attempts : b # a => session'[b] = session[b]
    BY <1>0, <1>5 DEF Session
  <2>2. SessionInv'
    BY <1>2, <1>5, <2>1 DEF SessionInv, OneLiveSession, Before, Opened, Greeting, Live
  <2>3. Life!Moves(a, to)
    BY <2>1 DEF Life!Moves
  <2>4. Life!Activate(a) \/ Life!HandOff(a)
    BY <1>5, <2>3 DEF Life!Activate, Life!HandOff, Life!Mediating
  <2> QED BY <2>2, <2>4 DEF LifeStep, Life!LifeNext
<1> QED BY <1>3, <1>4, <1>5

LEMMA SessionsStep == ASSUME SessionInv, OpeningNext PROVE SessionInv' /\ LifeStep
<1>0. ClaimInv' /\ OpeningTypeOK' /\ OpeningTypeOK
  BY ClaimsStep DEF SessionInv, ClaimInv
<1>1. ASSUME UNCHANGED <<attempt, session>> PROVE SessionInv' /\ LifeStep
  BY <1>0, <1>1, SameTable DEF SessionInv, OneLiveSession
<1>2. CASE NotifierNext /\ UNCHANGED openingVars
  <2>1. attempt' = attempt
    BY <1>2 DEF openingVars
  <2> QED BY <1>0, <1>1, <1>2, <2>1, NotifierEndsSessions, RevisionStep
<1>3. CASE Startup \/ (\E a \in Attempts : NodeAnswersTake(a)) \/ \E d \in Disputes : RetryNotice(d)
  BY <1>1, <1>3 DEF Startup, InstallHooks, JudgePassesChecks, Reconsider, NodeAnswersTake,
                    RetryNotice, notifierVars, dbVars
<1>4. CASE OpeningRestart
  <2>1. session' = session
    BY <1>4 DEF OpeningRestart, Restart, dbVars
  <2>2. \A a \in Attempts : attempt'[a] = attempt[a] \/ attempt'[a].step = "done"
    BY <1>0, <1>4 DEF OpeningRestart, OpeningTypeOK, AttemptState
  <2>3. SessionInv'
    BY <1>0, <2>1, <2>2 DEF SessionInv, OneLiveSession, Before, Opened, Greeting
  <2> QED BY <2>1, <2>3, SameTable
<1>5. ASSUME NEW a \in Attempts, Considers(a) PROVE SessionInv' /\ LifeStep
  <2>1. CASE Quiet(a) \/ ClaimDecides(a) \/ \E d \in Disputes : ClaimReads(a, d)
    <3>1. session' = session
      BY <1>0, <2>1, StepsGoOn
    <3>2. SessionInv'
      BY <1>0, <2>1, <3>1, StepsGoOn DEF SessionInv, OneLiveSession
    <3> QED BY <3>1, <3>2, SameTable
  <2>2. CASE InsertSession(a) \/ Activate(a) \/ Abandon(a)
    BY <1>0, <2>2, InsertStep, OwnSessionStep
  <2> QED BY <1>5, <2>1, <2>2 DEF Considers, Quiet
<1> QED BY <1>2, <1>3, <1>4, <1>5 DEF OpeningNext

LEMMA SessionInvInit == OpeningInit => SessionInv /\ Life!LifeInit
<1> SUFFICES ASSUME OpeningInit PROVE SessionInv /\ Life!LifeInit
  OBVIOUS
<1>1. ClaimInv
  BY ClaimInvInit
<1>2. /\ \A a \in Attempts : session[a] = [state |-> "none", dispute |-> None, openedAt |-> 0]
      /\ \A a \in Attempts : attempt[a].step = "idle"
  BY DEF OpeningInit, NotifierInit, IdleAttempt
<1>3. SessionInv
  BY <1>1, <1>2 DEF SessionInv, OneLiveSession, Live, Opened, Greeting
<1>4. Life!LifeInit
  BY <1>2 DEF Life!LifeInit
<1> QED BY <1>3, <1>4

LEMMA SessionInvKept ==
  SessionInv /\ [OpeningNext]_vars => SessionInv' /\ LifeStep
<1>1. ASSUME SessionInv, UNCHANGED vars PROVE SessionInv' /\ LifeStep
  <2>1. ClaimInv'
    BY <1>1 DEF vars, SessionInv, ClaimInv, OpeningTypeOK, NotifierTypeOK,
                AttemptsNameDisputes, TakesNeverOverlap
  <2>2. session' = session /\ attempt' = attempt
    BY <1>1 DEF vars
  <2> QED BY <1>1, <2>1, <2>2, SameTable DEF SessionInv, OneLiveSession
<1> QED BY <1>1, SessionsStep

\* A dispute has at most one session that is not over, however many attempts
\* insert (sessions::insert and its partial unique index).
THEOREM AtMostOneLiveSession == OpeningSpec => []OneLiveSession
<1>1. SessionInv => OneLiveSession
  BY DEF SessionInv
<1> QED BY <1>1, SessionInvInit, SessionInvKept, PTL DEF OpeningSpec

\* Opening beside the notifier implements the life of a session: every step
\* of every task opens, activates, hands off or ends one session, or leaves
\* the table alone; a revision never ends two.
THEOREM OpeningImplementsLife == OpeningSpec => SessionsHaveALife
BY SessionInvInit, SessionInvKept, PTL DEF OpeningSpec, SessionsHaveALife, Life!LifeSpec, LifeStep

-----------------------------------------------------------------------------
(* Abandoned sessions.                                                     *)

\* A row is about a dispute, that of its attempt while it works on it.
RowsNameDisputes ==
  /\ \A a \in Attempts : session[a].state # "none" => session[a].dispute \in Disputes
  /\ \A a \in Attempts :
       attempt[a].step \in Opened => session[a].dispute = attempt[a].dispute

NoticedInv == SessionInv /\ RowsNameDisputes /\ AbandonedIsNoticed

NoticesStay == \A d \in Disputes : notice[d] # "none" => notice'[d] # "none"

\* What a step may do to a row and its attempt: leave the row's dispute, and hand
\* it off only with a notice; or insert the row.
RowStep(a) ==
  /\ \/ /\ session'[a].dispute = session[a].dispute
        /\ session'[a].state # "none" => session[a].state # "none"
        /\ \/ session'[a].state # "handed_off"
           \/ session[a].state = "handed_off"
           \/ notice'[session[a].dispute] # "none"
     \/ /\ session'[a].state = "opening" /\ session'[a].dispute \in Disputes
        /\ session'[a].dispute = attempt'[a].dispute
  /\ \/ attempt'[a].step \notin Opened
     \/ session'[a].dispute = attempt'[a].dispute
     \/ /\ attempt[a].step \in Opened /\ attempt'[a].dispute = attempt[a].dispute
        /\ session'[a].dispute = session[a].dispute

LEMMA RowStepsKeep ==
  ASSUME NoticedInv, SessionInv', NoticesStay, \A a \in Attempts : RowStep(a)
  PROVE  NoticedInv'
<1>1. \A a \in Attempts : session'[a].state # "none" => session'[a].dispute \in Disputes
  BY DEF NoticedInv, RowsNameDisputes, RowStep
<1>2. \A a \in Attempts :
        attempt'[a].step \in Opened => session'[a].dispute = attempt'[a].dispute
  BY DEF NoticedInv, RowsNameDisputes, RowStep
<1>3. \A a \in Attempts :
        session'[a].state = "handed_off" => notice'[session'[a].dispute] # "none"
  BY DEF NoticedInv, RowsNameDisputes, AbandonedIsNoticed, RowStep, NoticesStay
<1> QED BY <1>1, <1>2, <1>3 DEF NoticedInv, RowsNameDisputes, AbandonedIsNoticed

LEMMA SameRow ==
  ASSUME NEW a \in Attempts, session'[a] = session[a],
         \/ attempt'[a].step \notin Opened
         \/ attempt[a].step \in Opened /\ attempt'[a].dispute = attempt[a].dispute
  PROVE  RowStep(a)
BY DEF RowStep

LEMMA NoticedStep == ASSUME NoticedInv, OpeningNext PROVE NoticedInv'
<1>0. /\ SessionInv /\ SessionInv' /\ OpeningTypeOK
      /\ session \in [Attempts -> Session]
      /\ attempt \in [Attempts -> AttemptState]
      /\ notice \in [Disputes -> {"none", "pending", "sent"}]
  BY SessionsStep DEF NoticedInv, SessionInv, ClaimInv, OpeningTypeOK, NotifierTypeOK
<1>1. ASSUME notice' = notice PROVE NoticesStay
  BY <1>1 DEF NoticesStay
<1>2. ASSUME NEW d, NEW x \in {"pending", "sent"}, notice' = [notice EXCEPT ![d] = x]
      PROVE  NoticesStay
  BY <1>0, <1>2 DEF NoticesStay
<1>3. CASE NotifierNext /\ UNCHANGED openingVars
  <2>1. attempt' = attempt /\ notice' = notice
    BY <1>3 DEF openingVars
  <2>2. CASE session' = session
    BY <1>0, <1>1, <2>1, <2>2, SameRow, RowStepsKeep
  <2>3. ASSUME NEW d \in Disputes, NEW r \in published[d],
               session' = [a \in Attempts |-> Ended(session[a], d, r)]
        PROVE  NoticedInv'
    <3>1. \A a \in Attempts : RowStep(a)
      <4> SUFFICES ASSUME NEW a \in Attempts PROVE RowStep(a)
        OBVIOUS
      <4>1. \/ session'[a] = session[a]
            \/ /\ session[a].state \in Live /\ session'[a].state \in Terminal
               /\ session'[a].dispute = session[a].dispute
        BY <1>0, <2>3, EndedEnds
      <4> QED BY <2>1, <4>1 DEF RowStep, Live, Terminal
    <3> QED BY <1>0, <1>1, <2>1, <3>1, RowStepsKeep
  <2> QED BY <1>3, <2>2, <2>3, NotifierEndsSessions
<1>4. CASE Startup \/ \E a \in Attempts : NodeAnswersTake(a)
  <2>1. session' = session /\ attempt' = attempt /\ notice' = notice
    BY <1>4 DEF Startup, InstallHooks, JudgePassesChecks, Reconsider, NodeAnswersTake,
                notifierVars, dbVars
  <2> QED BY <1>0, <1>1, <2>1, SameRow, RowStepsKeep
<1>5. ASSUME NEW d \in Disputes, RetryNotice(d) PROVE NoticedInv'
  <2>1. /\ session' = session /\ attempt' = attempt
        /\ notice' = [notice EXCEPT ![d] = "sent"]
    BY <1>5 DEF RetryNotice, notifierVars, dbVars
  <2> QED BY <1>0, <1>2, <2>1, SameRow, RowStepsKeep
<1>6. CASE OpeningRestart
  <2>1. session' = session /\ notice' = notice
    BY <1>6 DEF OpeningRestart, Restart, dbVars
  <2>2. \A a \in Attempts : attempt'[a] = attempt[a] \/ attempt'[a].step = "done"
    BY <1>0, <1>6 DEF OpeningRestart, AttemptState
  <2>3. "done" \notin Opened
    BY DEF Opened, Greeting
  <2> QED BY <1>0, <1>1, <2>1, <2>2, <2>3, SameRow, RowStepsKeep
<1>7. ASSUME NEW a \in Attempts, Considers(a) PROVE NoticedInv'
  <2>1. ClaimStep(a) /\ \A b \in Attempts : b # a => attempt'[b] = attempt[b]
    BY <1>0, <1>7, ConsidersClaims
  <2>2. "claiming" \notin Opened /\ "done" \notin Opened /\ Opened \subseteq Claimed
    BY DEF Opened, Claimed, Greeting
  <2>3. CASE Quiet(a) \/ ClaimDecides(a) \/ \E d \in Disputes : ClaimReads(a, d)
    <3>1. /\ session' = session
          /\ attempt'[a].step \in Opened => attempt[a].step \in Opened
      BY <1>0, <2>3, StepsGoOn
    <3>2. attempt'[a].step \in Opened => attempt'[a].dispute = attempt[a].dispute
      BY <2>1, <2>2 DEF ClaimStep
    <3>3. NoticesStay
      <4>1. notice' = notice \/ notice' = [notice EXCEPT ![attempt[a].dispute] = "sent"]
        BY <2>3, QuietMoves DEF ClaimDecides, ClaimReads
      <4> QED BY <1>1, <1>2, <4>1
    <3> QED BY <1>0, <2>1, <3>1, <3>2, <3>3, SameRow, RowStepsKeep
  <2>4. CASE InsertSession(a)
    <3>1. /\ notice' = notice
          /\ attempt[a].dispute \in Disputes
          /\ attempt[a].step = "creating"
      BY <1>0, <2>4 DEF InsertSession, SessionInv, ClaimInv, AttemptsNameDisputes
    <3>2. CASE MayInsert(attempt[a].dispute)
      <4>1. /\ Goes(a, "subscribing")
            /\ session' = [session EXCEPT ![a] =
                 [state |-> "opening", dispute |-> attempt[a].dispute, openedAt |-> clock]]
        BY <2>4, <3>2 DEF InsertSession
      <4>2. attempt'[a].dispute = attempt[a].dispute
        BY <1>0, <4>1, GoesOn DEF AttemptStep, Claimed
      <4>3. RowStep(a)
        BY <1>0, <3>1, <4>1, <4>2 DEF RowStep
      <4>4. \A b \in Attempts : b # a => RowStep(b)
        BY <1>0, <2>1, <4>1, SameRow
      <4> QED BY <1>0, <1>1, <3>1, <4>3, <4>4, RowStepsKeep
    <3>3. CASE ~MayInsert(attempt[a].dispute)
      <4>1. Goes(a, "abandon_bare") /\ session' = session
        BY <2>4, <3>3 DEF InsertSession
      <4>2. attempt'[a].step = "abandon_bare" /\ "abandon_bare" \notin Opened
        BY <1>0, <4>1, GoesOn DEF AttemptStep, Claimed, Opened, Greeting
      <4> QED BY <1>0, <1>1, <2>1, <3>1, <4>1, <4>2, SameRow, RowStepsKeep
    <3> QED BY <3>2, <3>3
  <2>5. CASE Activate(a)
    <3>1. /\ notice' = notice /\ Goes(a, "tell")
          /\ \/ session' = session
             \/ /\ session[a].state \in Live
                /\ session' = [session EXCEPT ![a].state = "active"]
      BY <2>5 DEF Activate, MayActivate
    <3>2. attempt'[a].step = "tell" /\ "tell" \notin Opened
      BY <1>0, <3>1, GoesOn DEF AttemptStep, Claimed, Opened, Greeting
    <3>3. /\ session'[a].dispute = session[a].dispute
          /\ \/ session'[a].state = session[a].state
             \/ session[a].state # "none" /\ session'[a].state = "active"
      BY <1>0, <3>1 DEF Session, Live
    <3>4. \A b \in Attempts : b # a => session'[b] = session[b]
      BY <1>0, <3>1
    <3>5. RowStep(a)
      BY <3>2, <3>3 DEF RowStep
    <3> QED BY <1>0, <1>1, <2>1, <3>1, <3>4, <3>5, SameRow, RowStepsKeep
  <2>6. CASE Abandon(a)
    <3>1. /\ notice' = [notice EXCEPT ![attempt[a].dispute] = "pending"]
          /\ Goes(a, "notify")
          /\ \/ session' = session
             \/ /\ attempt[a].step = "abandon"
                /\ session[a].state \in {"opening", "active", "guiding"}
                /\ session' = [session EXCEPT ![a].state = "handed_off"]
      BY <2>6 DEF Abandon, NoticePending
    <3>2. attempt'[a].step = "notify" /\ "notify" \notin Opened
      BY <1>0, <3>1, GoesOn DEF AttemptStep, Claimed, Opened, Greeting
    <3>3. CASE session' = session
      BY <1>0, <1>2, <2>1, <3>1, <3>2, <3>3, SameRow, RowStepsKeep
    <3>4. CASE session' # session
      <4>1. /\ session[a].state # "none"
            /\ session[a].dispute = attempt[a].dispute
            /\ session[a].dispute \in Disputes
        BY <3>1, <3>4 DEF NoticedInv, RowsNameDisputes, Opened
      <4>2. /\ session'[a].dispute = session[a].dispute
            /\ \A b \in Attempts : b # a => session'[b] = session[b]
        BY <1>0, <3>1 DEF Session
      <4>3. notice'[session[a].dispute] # "none"
        BY <1>0, <3>1, <4>1
      <4>4. RowStep(a)
        BY <3>2, <4>1, <4>2, <4>3 DEF RowStep
      <4> QED BY <1>0, <1>2, <2>1, <3>1, <4>2, <4>4, SameRow, RowStepsKeep
    <3> QED BY <3>3, <3>4
  <2> QED BY <1>7, <2>3, <2>4, <2>5, <2>6 DEF Considers, Quiet
<1> QED BY <1>3, <1>4, <1>5, <1>6, <1>7 DEF OpeningNext

LEMMA NoticedInvHolds == OpeningSpec => []NoticedInv
<1>1. OpeningInit => NoticedInv
  <2> SUFFICES ASSUME OpeningInit PROVE NoticedInv
    OBVIOUS
  <2>1. /\ \A a \in Attempts : session[a].state = "none"
        /\ \A a \in Attempts : attempt[a].step = "idle"
    BY DEF OpeningInit, NotifierInit, IdleAttempt
  <2> QED BY <2>1, SessionInvInit
          DEF NoticedInv, RowsNameDisputes, AbandonedIsNoticed, Opened, Greeting
<1>2. NoticedInv /\ [OpeningNext]_vars => NoticedInv'
  <2>1. ASSUME NoticedInv, UNCHANGED vars PROVE NoticedInv'
    <3>1. SessionInv'
      BY <2>1, SessionInvKept DEF NoticedInv
    <3>2. session' = session /\ attempt' = attempt /\ notice' = notice
      BY <2>1 DEF vars
    <3> QED BY <2>1, <3>1, <3>2 DEF NoticedInv, RowsNameDisputes, AbandonedIsNoticed
  <2> QED BY <2>1, NoticedStep
<1> QED BY <1>1, <1>2, PTL DEF OpeningSpec

\* The handoff of an abandoned session and its notice are one transaction: no
\* restart comes between them, and no later step forgets the notice (abandon).
THEOREM AbandonedKeepsItsNotice == OpeningSpec => []AbandonedIsNoticed
<1>1. NoticedInv => AbandonedIsNoticed
  BY DEF NoticedInv
<1> QED BY <1>1, NoticedInvHolds, PTL

-----------------------------------------------------------------------------
(* Notification before mediation.                                          *)

\* What a claim read as notified was told to a solver, and so was whatever is
\* claimed or has a session.
FirstInv ==
  /\ NoticedInv
  /\ HeardInv
  /\ \A a \in Attempts :
       attempt[a].step = "claiming" /\ attempt[a].lifecycle = "notified" =>
         told[attempt[a].dispute] # {}
  /\ NotificationComesFirst

ToldStays == \A d \in Disputes : told[d] # {} => told'[d] # {}

LEMMA NotifierTells ==
  ASSUME NotifierTypeOK, NotifierNext \/ Restart
  PROVE  ToldStays
<1>0. told \in [Disputes -> SUBSET Solvers]
  BY DEF NotifierTypeOK
<1>1. CASE NodeNext \/ Tick \/ Remind \/ Restart
  BY <1>1 DEF NodeNext, NodeOpens, HumanTakes, NodeResolves, Tick, Remind, RemindTick,
              RemindNext, Restart, historyVars, ToldStays
<1>2. ASSUME NEW h \in Handlers, Handle(h) PROVE ToldStays
  BY <1>2 DEF Handle, FirstSight, Applies, Stale, historyVars, ToldStays
<1>3. ASSUME NEW t \in Tasks, Proceed(t) PROVE ToldStays
  <2>1. CASE Announce(t)
    <3>1. PICK reached \in SUBSET Solvers :
            told' = [told EXCEPT ![task[t].dispute] = @ \union reached]
      BY <2>1 DEF Announce
    <3> QED BY <1>0, <3>1 DEF ToldStays
  <2>2. CASE Mark(t) \/ CheckOwnTakes(t) \/ CheckLiveSession(t)
    BY <2>2 DEF Mark, CheckOwnTakes, CheckLiveSession, historyVars, ToldStays
  <2> QED BY <1>3, <2>1, <2>2 DEF Proceed
<1> QED BY <1>1, <1>2, <1>3 DEF NotifierNext

\* Opening reads what the notifier keeps of a DM, and writes none of it.
LEMMA OpeningOnlyReads ==
  ASSUME HeardInv, NotifierTypeOK', UNCHANGED <<row, task, told>>
  PROVE  HeardInv' /\ ToldStays
BY DEF HeardInv, NotifiedWasHeard, ToldStays

LEMMA HeardStays ==
  ASSUME HeardInv, OpeningTypeOK', OpeningNext
  PROVE  HeardInv' /\ ToldStays
<1>0. NotifierTypeOK /\ NotifierTypeOK'
  BY DEF HeardInv, OpeningTypeOK
<1>1. CASE NotifierNext \/ OpeningRestart
  BY <1>0, <1>1, HeardStep, NotifierTells DEF OpeningRestart
<1>2. CASE Startup \/ \E d \in Disputes : RetryNotice(d)
  <2>1. UNCHANGED <<row, task, told>>
    BY <1>2 DEF Startup, InstallHooks, JudgePassesChecks, Reconsider, RetryNotice,
                notifierVars, dbVars, historyVars
  <2> QED BY <1>0, <2>1, OpeningOnlyReads
<1>3. ASSUME NEW a \in Attempts, Considers(a) \/ NodeAnswersTake(a)
      PROVE  HeardInv' /\ ToldStays
  <2>1. CASE Quiet(a)
    <3>1. UNCHANGED <<row, task, told>>
      BY <2>1, QuietMoves DEF notifierOnly, dbVars, historyVars
    <3> QED BY <1>0, <3>1, OpeningOnlyReads
  <2>2. CASE \/ (\E d \in Disputes : ClaimReads(a, d)) \/ ClaimDecides(a)
             \/ NodeAnswersTake(a)
    <3>1. UNCHANGED <<row, task, told>>
      BY <2>2 DEF ClaimReads, ClaimDecides, NodeAnswersTake, notifierOnly, dbVars, historyVars
    <3> QED BY <1>0, <3>1, OpeningOnlyReads
  <2>3. CASE InsertSession(a) \/ Activate(a) \/ Abandon(a)
    <3>1. UNCHANGED <<row, task, told>>
      BY <2>3 DEF InsertSession, Activate, Abandon, notifierOnly, historyVars
    <3> QED BY <1>0, <3>1, OpeningOnlyReads
  <2> QED BY <1>3, <2>1, <2>2, <2>3 DEF Considers, Quiet
<1> QED BY <1>1, <1>2, <1>3 DEF OpeningNext

\* What a call reads when it claims, and what a claim asks for.
LEMMA ClaimsAreOfNotified ==
  ASSUME OpeningTypeOK, NEW a \in Attempts, Considers(a)
  PROVE  /\ attempt'[a].step = "claiming" =>
              /\ attempt'[a].dispute \in Disputes
              /\ attempt'[a].lifecycle = row[attempt'[a].dispute].lifecycle
         /\ attempt'[a].step \in Claimed =>
              \/ attempt[a].step \in Claimed
              \/ attempt[a].step = "claiming" /\ attempt[a].lifecycle = "notified"
<1>0. attempt \in [Attempts -> AttemptState]
  BY DEF OpeningTypeOK
<1>1. "claiming" \notin Claimed /\ "done" \notin Claimed
  BY DEF Claimed, Greeting
<1>2. ASSUME NEW d \in Disputes, ClaimReads(a, d)
      PROVE  /\ attempt'[a].step = "claiming" /\ attempt'[a].dispute = d
             /\ attempt'[a].lifecycle = row[d].lifecycle
  BY <1>0, <1>2 DEF ClaimReads
<1>3. CASE ClaimDecides(a)
  <2>1. CASE Eligible(a)
    <3>1. Goes(a, "node_info") /\ attempt[a].step = "claiming"
      BY <1>3, <2>1 DEF ClaimDecides
    <3>2. attempt'[a].step = "node_info" /\ attempt[a].lifecycle = "notified"
      BY <2>1, <3>1, GoesOn DEF AttemptStep, Claimed, Eligible
    <3> QED BY <3>1, <3>2
  <2>2. CASE ~Eligible(a)
    <3>1. attempt'[a].step = "done"
      BY <1>3, <2>2, GoesOn DEF ClaimDecides, AttemptStep
    <3> QED BY <1>1, <3>1
  <2> QED BY <2>1, <2>2
<1>4. CASE Quiet(a) \/ InsertSession(a) \/ Activate(a) \/ Abandon(a)
  <2>1. attempt[a].step \in Claimed
    BY <1>4, QuietMoves DEF InsertSession, Activate, Abandon, Claimed
  <2>2. attempt'[a].step # "claiming"
    <3>1. PICK step \in AttemptStep \ {"claiming"} : Goes(a, step)
      <4>1. Claimed \union {"done"} \subseteq AttemptStep \ {"claiming"}
        BY <1>1 DEF AttemptStep
      <4>2. {"subscribing", "abandon_bare", "tell", "notify"} \subseteq Claimed
        BY DEF Claimed
      <4> QED BY <1>4, <4>1, <4>2, QuietMoves DEF InsertSession, Activate, Abandon, Returns
    <3> QED BY <3>1, GoesOn
  <2> QED BY <2>1, <2>2
<1> QED BY <1>1, <1>2, <1>3, <1>4 DEF Considers, Quiet

LEMMA FirstStep == ASSUME FirstInv, OpeningNext PROVE FirstInv'
<1>0. /\ NoticedInv' /\ OpeningTypeOK /\ OpeningTypeOK'
      /\ session \in [Attempts -> Session]
      /\ attempt \in [Attempts -> AttemptState]
  BY NoticedStep
  DEF FirstInv, NoticedInv, SessionInv, ClaimInv, OpeningTypeOK, NotifierTypeOK
<1>1. HeardInv' /\ ToldStays
  BY <1>0, HeardStays DEF FirstInv
<1>2. /\ AttemptsNameDisputes /\ RowsNameDisputes
      /\ "claiming" # "idle" /\ "idle" \notin Claimed
  BY DEF FirstInv, NoticedInv, SessionInv, ClaimInv, Claimed, Greeting
<1>3. ASSUME \A a \in Attempts :
               \/ attempt'[a] = attempt[a]
               \/ attempt'[a].step \notin {"claiming"} \union Claimed,
             \A a \in Attempts :
               /\ session'[a].dispute = session[a].dispute
               /\ session'[a].state # "none" => session[a].state # "none"
      PROVE  FirstInv'
  <2>1. \A a \in Attempts :
          attempt'[a].step = "claiming" /\ attempt'[a].lifecycle = "notified" =>
            told'[attempt'[a].dispute] # {}
    BY <1>1, <1>2, <1>3 DEF FirstInv, ToldStays, AttemptsNameDisputes
  <2>2. NotificationComesFirst'
    BY <1>1, <1>2, <1>3
    DEF FirstInv, ToldStays, AttemptsNameDisputes, RowsNameDisputes, NotificationComesFirst
  <2> QED BY <1>0, <1>1, <2>1, <2>2 DEF FirstInv
<1>4. CASE NotifierNext /\ UNCHANGED openingVars
  <2>1. attempt' = attempt
    BY <1>4 DEF openingVars
  <2>2. CASE session' = session
    BY <1>3, <2>1, <2>2
  <2>3. ASSUME NEW d \in Disputes, NEW r \in published[d],
               session' = [a \in Attempts |-> Ended(session[a], d, r)]
        PROVE  FirstInv'
    <3>1. \A a \in Attempts :
            /\ session'[a].dispute = session[a].dispute
            /\ session'[a].state # "none" => session[a].state # "none"
      BY <1>0, <2>3, EndedEnds DEF Live
    <3> QED BY <1>3, <2>1, <3>1
  <2> QED BY <1>4, <2>2, <2>3, NotifierEndsSessions
<1>5. CASE \/ Startup \/ (\E a \in Attempts : NodeAnswersTake(a))
           \/ \E d \in Disputes : RetryNotice(d)
  <2>1. session' = session /\ attempt' = attempt
    BY <1>5 DEF Startup, InstallHooks, JudgePassesChecks, Reconsider, NodeAnswersTake,
                RetryNotice, notifierVars, dbVars
  <2> QED BY <1>3, <2>1
<1>6. CASE OpeningRestart
  <2>1. session' = session
    BY <1>6 DEF OpeningRestart, Restart, dbVars
  <2>2. \A a \in Attempts : attempt'[a] = attempt[a] \/ attempt'[a].step = "done"
    BY <1>0, <1>6 DEF OpeningRestart, AttemptState
  <2>3. "done" \notin {"claiming"} \union Claimed
    BY DEF Claimed, Greeting
  <2> QED BY <1>3, <2>1, <2>2, <2>3
<1>7. ASSUME NEW a \in Attempts, Considers(a) PROVE FirstInv'
  <2>1. ClaimStep(a) /\ \A b \in Attempts : b # a => attempt'[b] = attempt[b]
    BY <1>0, <1>7, ConsidersClaims
  <2>2. /\ "claiming" \notin Claimed /\ "done" \notin Claimed
    BY DEF Claimed, Greeting
  <2>3. attempt'[a].step = "claiming" /\ attempt'[a].lifecycle = "notified" =>
          told'[attempt'[a].dispute] # {}
    BY <1>0, <1>1, <1>7, ClaimsAreOfNotified DEF FirstInv, HeardInv, NotifiedWasHeard, ToldStays
  <2>4. attempt'[a].step \in Claimed =>
          /\ attempt'[a].dispute = attempt[a].dispute
          /\ attempt[a].dispute \in Disputes
          /\ told[attempt[a].dispute] # {}
    <3> SUFFICES ASSUME attempt'[a].step \in Claimed
                 PROVE  /\ attempt'[a].dispute = attempt[a].dispute
                        /\ attempt[a].dispute \in Disputes
                        /\ told[attempt[a].dispute] # {}
      OBVIOUS
    <3>1. \/ attempt[a].step \in Claimed
          \/ attempt[a].step = "claiming" /\ attempt[a].lifecycle = "notified"
      BY <1>0, <1>7, ClaimsAreOfNotified
    <3>2. attempt'[a].dispute = attempt[a].dispute
      BY <2>1, <2>2 DEF ClaimStep
    <3> QED BY <1>2, <3>1, <3>2 DEF FirstInv, NotificationComesFirst, AttemptsNameDisputes
  <2>5. \A b \in Attempts :
          attempt'[b].step = "claiming" /\ attempt'[b].lifecycle = "notified" =>
            told'[attempt'[b].dispute] # {}
    BY <1>1, <1>2, <2>1, <2>3 DEF FirstInv, ToldStays, AttemptsNameDisputes
  <2>6. \A b \in Attempts : attempt'[b].step \in Claimed => told'[attempt'[b].dispute] # {}
    BY <1>1, <1>2, <2>1, <2>4
    DEF FirstInv, ToldStays, AttemptsNameDisputes, NotificationComesFirst
  <2>7. \A b \in Attempts :
          \/ /\ session'[b].dispute = session[b].dispute
             /\ session'[b].state # "none" => session[b].state # "none"
          \/ /\ b = a /\ attempt[a].step \in Claimed
             /\ session'[a].dispute = attempt[a].dispute
    <3>1. CASE Quiet(a) \/ ClaimDecides(a) \/ \E d \in Disputes : ClaimReads(a, d)
      BY <1>0, <3>1, StepsGoOn
    <3>2. CASE InsertSession(a)
      <4>1. attempt[a].step \in Claimed
        BY <3>2 DEF InsertSession, Claimed
      <4>2. \/ session' = session
            \/ session' = [session EXCEPT ![a] = [state |-> "opening",
                             dispute |-> attempt[a].dispute, openedAt |-> clock]]
        BY <3>2 DEF InsertSession
      <4> QED BY <1>0, <4>1, <4>2
    <3>3. CASE Activate(a) \/ Abandon(a)
      <4>1. \/ session' = session
            \/ /\ session[a].state # "none"
               /\ \E to \in {"active", "handed_off"} :
                    session' = [session EXCEPT ![a].state = to]
        BY <3>3 DEF Activate, MayActivate, Abandon, Live
      <4> QED BY <1>0, <4>1 DEF Session
    <3> QED BY <1>7, <3>1, <3>2, <3>3 DEF Considers, Quiet
  <2>8. \A b \in Attempts : session'[b].state # "none" => told'[session'[b].dispute] # {}
    BY <1>1, <1>2, <2>7
    DEF FirstInv, ToldStays, AttemptsNameDisputes, RowsNameDisputes, NotificationComesFirst
  <2> QED BY <1>0, <1>1, <2>5, <2>6, <2>8 DEF FirstInv, NotificationComesFirst
<1> QED BY <1>4, <1>5, <1>6, <1>7 DEF OpeningNext

\* Whatever is claimed or has a session was first received by a solver: a claim
\* asks for a notified dispute, and only a received DM marks one, although the
\* claim acts on a read that may be old (claim, mark_notified).
THEOREM NotificationIsFirst == OpeningSpec => []NotificationComesFirst
<1>1. OpeningInit => FirstInv
  <2> SUFFICES ASSUME OpeningInit PROVE FirstInv
    OBVIOUS
  <2>1. /\ \A a \in Attempts : session[a].state = "none"
        /\ \A a \in Attempts : attempt[a].step = "idle"
        /\ "idle" \notin Claimed
    BY DEF OpeningInit, NotifierInit, IdleAttempt, Claimed, Greeting
  <2>2. NoticedInv
    BY <2>1, SessionInvInit
    DEF NoticedInv, RowsNameDisputes, AbandonedIsNoticed, Opened, Greeting
  <2>3. HeardInv
    BY NotifierInitTyped
    DEF OpeningInit, NotifierInit, HeardInv, NotifiedWasHeard, IdleTask
  <2> QED BY <2>1, <2>2, <2>3 DEF FirstInv, NotificationComesFirst
<1>2. FirstInv /\ [OpeningNext]_vars => FirstInv'
  <2>1. ASSUME FirstInv, UNCHANGED vars PROVE FirstInv'
    <3>1. NoticedInv'
      <4>1. SessionInv'
        BY <2>1, SessionInvKept DEF FirstInv, NoticedInv
      <4>2. session' = session /\ attempt' = attempt /\ notice' = notice
        BY <2>1 DEF vars
      <4> QED BY <2>1, <4>1, <4>2
              DEF FirstInv, NoticedInv, RowsNameDisputes, AbandonedIsNoticed
    <3>2. UNCHANGED <<session, attempt, row, task, told>>
      BY <2>1 DEF vars, notifierVars, dbVars, historyVars
    <3>3. NotifierTypeOK'
      BY <3>1 DEF NoticedInv, SessionInv, ClaimInv, OpeningTypeOK
    <3> QED BY <2>1, <3>1, <3>2, <3>3, OpeningOnlyReads DEF FirstInv, NotificationComesFirst
  <2> QED BY <2>1, FirstStep
<1>3. FirstInv => NotificationComesFirst
  BY DEF FirstInv
<1> QED BY <1>1, <1>2, <1>3, PTL DEF OpeningSpec

-----------------------------------------------------------------------------
(* Takes and the sessions they open.                                       *)

\* The node no longer waits for somebody to take the dispute.
Left(d) == node[d].status \notin {"none", "initiated"}

\* A call asks once, after its claim, and goes on once the node granted it.
BeforeAsking == {"idle", "claiming", "node_info"}

AskedFor(a) ==
  /\ attempt[a].step \in BeforeAsking => request[a] = "none"
  /\ attempt[a].step = "creating" => request[a] \in {"granted", "repeated"}
  /\ request[a] \in {"granted", "repeated"} => Left(attempt[a].dispute)

\* Serbero's own take of the dispute is no newer than the row.
OpenedAfterOwnTake(a) ==
  /\ Left(session[a].dispute)
  /\ \A r \in published[session[a].dispute] : r.by = "serbero" => r.at <= session[a].openedAt

\* Only takes are published as in progress, and Serbero's only once, for a
\* dispute that waits; a call that goes on after its take was granted one.
TakesInv ==
  /\ \A d \in Disputes : \A r \in published[d] :
       /\ r.at <= clock
       /\ r.status = "in-progress" => r.by # "party"
       /\ r.by = "serbero" => Left(d)
  /\ \A a \in Attempts : AskedFor(a)
  /\ \A a \in Attempts : session[a].state # "none" => OpenedAfterOwnTake(a)

\* What the node publishes in a step, and what stays.
NodeMoves ==
  /\ clock <= clock'
  /\ \A d \in Disputes :
       /\ Left(d) => node'[d].status \notin {"none", "initiated"}
       /\ seen[d] \subseteq seen'[d]
       /\ \A r \in published'[d] :
            \/ r \in published[d]
            \/ /\ r.at = clock /\ clock' = clock
               /\ r.status = "in-progress" => r.by # "party"
               /\ r.by = "serbero" => ~Left(d) /\ node'[d].status \notin {"none", "initiated"}

LEMMA NodePublishes ==
  ASSUME ClaimInv, TakesInv, [OpeningNext]_vars
  PROVE  NodeMoves
<1>0. /\ clock \in Nat /\ published \in [Disputes -> SUBSET Revision]
      /\ node \in [Disputes -> [status : Status \union {"none"},
                                holder : {"nobody", "serbero", "human"}]]
      /\ seen \in [Disputes -> SUBSET Revision]
  BY DEF ClaimInv, OpeningTypeOK, NotifierTypeOK
<1>1. ASSUME UNCHANGED <<node, published>>, clock' \in {clock, clock + 1},
             \A d \in Disputes : seen[d] \subseteq seen'[d]
      PROVE  NodeMoves
  BY <1>0, <1>1 DEF NodeMoves, Left
<1>2. ASSUME NEW d \in Disputes, NEW status \in {"initiated", "in-progress", "final"},
             NEW by \in {"party", "serbero", "human"}, Publish(d, status, by),
             UNCHANGED <<clock, seen>>,
             status = "in-progress" => by # "party",
             by = "serbero" => ~Left(d),
             NEW one, node' = [node EXCEPT ![d] = one],
             Left(d) \/ by = "serbero" => one.status \notin {"none", "initiated"}
      PROVE  NodeMoves
  <2>1. \A e \in Disputes :
          published'[e] = IF e = d
                          THEN published[d] \union {[at |-> clock, status |-> status, by |-> by]}
                          ELSE published[e]
    BY <1>0, <1>2 DEF Publish
  <2>2. \A e \in Disputes :
          Left(e) \/ (e = d /\ by = "serbero") => node'[e].status \notin {"none", "initiated"}
    BY <1>0, <1>2 DEF Left
  <2> QED
    BY <1>0, <1>2, <2>1, <2>2 DEF NodeMoves
<1>3. CASE NodeNext
  <2>1. PICK d \in Disputes : NodeOpens(d) \/ HumanTakes(d) \/ NodeResolves(d)
    BY <1>3 DEF NodeNext
  <2>2. UNCHANGED <<clock, seen>>
    BY <2>1 DEF NodeOpens, HumanTakes, NodeResolves, historyVars
  <2>3. CASE NodeOpens(d)
    <3> DEFINE one == [node[d] EXCEPT !.status = "initiated"]
    <3>1. Publish(d, "initiated", "party") /\ ~Left(d) /\ node' = [node EXCEPT ![d] = one]
      BY <1>0, <2>3 DEF NodeOpens, Left
    <3> HIDE DEF one
    <3> QED
      BY <2>2, <3>1, <1>2
  <2>4. CASE HumanTakes(d)
    <3>1. /\ Publish(d, "in-progress", "human")
          /\ node' = [node EXCEPT ![d] = [status |-> "in-progress", holder |-> "human"]]
      BY <2>4 DEF HumanTakes
    <3> QED
      BY <2>2, <3>1, <1>2
  <2>5. CASE NodeResolves(d)
    <3> DEFINE one == [node[d] EXCEPT !.status = "final"]
    <3>1. Publish(d, "final", "human") /\ node' = [node EXCEPT ![d] = one]
      BY <1>0, <2>5 DEF NodeResolves
    <3>2. one.status = "final"
      BY <1>0
    <3> HIDE DEF one
    <3> QED
      BY <2>2, <3>1, <3>2, <1>2
  <2> QED
    BY <2>1, <2>3, <2>4, <2>5
<1>4. ASSUME NEW h \in Handlers, Handle(h) PROVE NodeMoves
  <2>1. PICK d \in Disputes : \E r \in published[d] : FirstSight(h, d, r) \/ Applies(h, d, r) \/ Stale(h, d, r)
    BY <1>4 DEF Handle
  <2>2. UNCHANGED <<clock, node, published>> /\ \E r : seen' = [seen EXCEPT ![d] = @ \union {r}]
    BY <2>1 DEF FirstSight, Applies, Stale, nodeVars
  <2> QED
    BY <1>0, <1>1, <2>2
<1>5. ASSUME NEW t \in Tasks, Proceed(t) PROVE NodeMoves
  BY <1>1, <1>5 DEF Proceed, Announce, Mark, CheckOwnTakes, CheckLiveSession, nodeVars, historyVars
<1>6. CASE Remind \/ Tick
  BY <1>1, <1>6 DEF Remind, RemindTick, RemindNext, Tick, nodeVars, historyVars
<1>7. ASSUME NEW a \in Attempts, NodeAnswersTake(a) PROVE NodeMoves
  <2> DEFINE d == attempt[a].dispute
             one == [status |-> "in-progress", holder |-> "serbero"]
  <2>0. d \in Disputes
    BY <1>7 DEF NodeAnswersTake, TakesInv, AskedFor, BeforeAsking, ClaimInv,
                AttemptsNameDisputes
  <2>1. UNCHANGED <<clock, seen>>
    BY <1>7 DEF NodeAnswersTake, notifierOnly, historyVars
  <2>2. CASE UNCHANGED nodeVars
    BY <1>1, <2>1, <2>2 DEF nodeVars
  <2>3. CASE /\ node[d].status = "initiated" /\ Publish(d, "in-progress", "serbero")
             /\ node' = [node EXCEPT ![d] = one]
    <3>1. ~Left(d) /\ one.status = "in-progress"
      BY <2>3 DEF Left
    <3> HIDE DEF one, d
    <3> QED
      BY <1>2, <2>0, <2>1, <2>3, <3>1
  <2> QED
    BY <1>7, <2>2, <2>3 DEF NodeAnswersTake
<1>8. ASSUME NEW a \in Attempts, Considers(a) PROVE NodeMoves
  <2>1. UNCHANGED <<clock, node, published, seen>>
    <3>1. CASE Quiet(a)
      BY <3>1, QuietMoves DEF notifierOnly, nodeVars, historyVars
    <3>2. CASE \/ \E d \in Disputes : ClaimReads(a, d)
               \/ ClaimDecides(a) \/ InsertSession(a) \/ Activate(a) \/ Abandon(a)
      BY <3>2 DEF ClaimReads, ClaimDecides, InsertSession, Activate, Abandon, notifierOnly,
                  nodeVars, historyVars
    <3> QED
      BY <1>8, <3>1, <3>2 DEF Considers, Quiet
  <2> QED
    BY <1>1, <2>1
<1>9. CASE \/ Startup \/ OpeningRestart \/ UNCHANGED vars
           \/ \E d \in Disputes : RetryNotice(d)
  BY <1>1, <1>9 DEF Startup, InstallHooks, JudgePassesChecks, Reconsider, OpeningRestart, Restart,
                    RetryNotice, notifierVars, nodeVars, historyVars, vars
<1> QED
  BY <1>3, <1>4, <1>5, <1>6, <1>7, <1>8, <1>9 DEF OpeningNext, NotifierNext

\* A call that asks for nothing new.
LEMMA NothingAsked ==
  ASSUME ClaimInv, TakesInv, NodeMoves, NEW a \in Attempts,
         request'[a] = request[a],
         attempt[a].step # "idle" => attempt'[a].dispute = attempt[a].dispute,
         attempt'[a].step \in BeforeAsking => attempt[a].step \in BeforeAsking,
         attempt'[a].step = "creating" => request[a] \in {"granted", "repeated"}
  PROVE  AskedFor(a)'
<1>1. AskedFor(a)
  BY DEF TakesInv
<1>2. ASSUME request[a] \in {"granted", "repeated"} PROVE Left(attempt[a].dispute)'
  <2>1. attempt[a].step # "idle" /\ attempt[a].dispute \in Disputes /\ Left(attempt[a].dispute)
    BY <1>1, <1>2 DEF AskedFor, BeforeAsking, ClaimInv, AttemptsNameDisputes
  <2> QED
    BY <2>1 DEF NodeMoves, Left
<1> QED
  BY <1>1, <1>2 DEF AskedFor

LEMMA RequestsKept ==
  ASSUME ClaimInv, TakesInv, [OpeningNext]_vars, NodeMoves, NEW a \in Attempts
  PROVE  AskedFor(a)'
<1>0. /\ attempt \in [Attempts -> AttemptState] /\ OpeningTypeOK /\ AskedFor(a)
      /\ request \in [Attempts -> {"none", "sent", "granted", "repeated", "refused"}]
  BY DEF ClaimInv, OpeningTypeOK, TakesInv
<1>1. ASSUME request'[a] = request[a], attempt'[a] = attempt[a] PROVE AskedFor(a)'
  BY <1>0, <1>1, NothingAsked DEF AskedFor
<1>2. ASSUME NEW b \in Attempts, NodeAnswersTake(b) PROVE AskedFor(a)'
  <2>1. attempt' = attempt /\ request[b] = "sent"
    BY <1>2 DEF NodeAnswersTake
  <2>2. CASE b # a
    <3>1. request'[a] = request[a]
      BY <1>0, <1>2, <2>2 DEF NodeAnswersTake
    <3> QED
      BY <1>1, <2>1, <3>1
  <2>3. CASE b = a
    <3> DEFINE d == attempt[a].dispute
    <3>1. d \in Disputes /\ attempt[a].step \notin BeforeAsking
      BY <1>0, <2>1, <2>3 DEF AskedFor, BeforeAsking, ClaimInv, AttemptsNameDisputes
    <3>2. node \in [Disputes -> [status : Status \union {"none"},
                                 holder : {"nobody", "serbero", "human"}]]
      BY <1>0 DEF OpeningTypeOK, NotifierTypeOK
    <3>3. \/ request'[a] = "refused"
          \/ /\ request'[a] \in {"granted", "repeated"}
             /\ node'[d].status = "in-progress"
      BY <1>0, <1>2, <2>3, <3>1, <3>2 DEF NodeAnswersTake, nodeVars
    <3> QED
      BY <1>0, <2>1, <2>3, <3>1, <3>3 DEF AskedFor, Left, BeforeAsking
  <2> QED
    BY <2>2, <2>3
<1>3. ASSUME NEW b \in Attempts, Considers(b), b # a PROVE AskedFor(a)'
  <2>1. attempt'[a] = attempt[a]
    BY <1>0, <1>3, ConsidersClaims
  <2>2. request'[a] = request[a]
    BY <1>0, <1>3, QuietMoves DEF Considers, Quiet, ClaimReads, ClaimDecides, InsertSession,
       Activate, Abandon
  <2> QED
    BY <1>1, <2>1, <2>2
<1>4. ASSUME Considers(a) PROVE AskedFor(a)'
  <2>1. ASSUME NEW step \in AttemptStep, Goes(a, step), request' = request,
               step \in BeforeAsking => attempt[a].step \in BeforeAsking,
               step = "creating" => request[a] \in {"granted", "repeated"}
        PROVE  AskedFor(a)'
    BY <1>0, <2>1, GoesOn, NothingAsked
  <2> USE DEF AttemptStep, Claimed, Greeting, BeforeAsking
  <2>2. ASSUME NEW d \in Disputes, ClaimReads(a, d) PROVE AskedFor(a)'
    <3>1. attempt'[a].step = "claiming" /\ attempt[a].step = "idle" /\ request' = request
      BY <1>0, <2>2 DEF ClaimReads
    <3> QED
      BY <3>1, NothingAsked
  <2>3. CASE ClaimDecides(a)
    BY <2>1, <2>3 DEF ClaimDecides
  <2>4. CASE SendsTake(a)
    <3>1. Goes(a, "asking") /\ request'[a] = "sent"
      BY <1>0, <2>4 DEF SendsTake
    <3>2. attempt'[a].step = "asking"
      BY <1>0, <3>1, GoesOn
    <3> QED
      BY <3>1, <3>2 DEF AskedFor
  <2>5. CASE \/ NodeUnfit(a) \/ TakeRefused(a) \/ TakeWithoutInfo(a) \/ TakeTimesOut(a)
             \/ Tell(a) \/ SendNotice(a)
    <3>1. Goes(a, "done") /\ request' = request
      BY <2>5 DEF NodeUnfit, TakeRefused, TakeWithoutInfo, TakeTimesOut, Tell, SendNotice,
                  Returns
    <3> QED
      BY <2>1, <3>1
  <2>6. CASE TakeGranted(a)
    BY <2>1, <2>6 DEF TakeGranted
  <2>7. CASE KeysMissing(a) \/ OpenChats(a) \/ InsertSession(a) \/ Activate(a) \/ Abandon(a)
    BY <2>1, <2>7 DEF KeysMissing, OpenChats, InsertSession, Activate, Abandon
  <2>8. CASE Greet(a)
    BY <2>1, <2>8 DEF Greet
  <2> QED
    BY <1>4, <2>2, <2>3, <2>4, <2>5, <2>6, <2>7, <2>8 DEF Considers
<1>5. CASE OpeningRestart
  <2>1. /\ request'[a] = request[a]
        /\ attempt'[a].dispute = attempt[a].dispute
        /\ attempt'[a] = attempt[a] \/ attempt'[a].step = "done"
    BY <1>0, <1>5 DEF OpeningRestart, AttemptState
  <2> QED
    BY <1>1, <2>1, NothingAsked DEF BeforeAsking
<1>6. CASE \/ NotifierNext /\ UNCHANGED openingVars
           \/ Startup \/ UNCHANGED vars
           \/ \E d \in Disputes : RetryNotice(d)
  <2>1. attempt' = attempt /\ request' = request
    BY <1>6 DEF openingVars, Startup, InstallHooks, JudgePassesChecks, Reconsider, vars, RetryNotice
  <2> QED
    BY <1>1, <2>1
<1> QED
  BY <1>2, <1>3, <1>4, <1>5, <1>6 DEF OpeningNext

\* What a step does to a row of the sessions table.
LEMMA RowsMove ==
  ASSUME NoticedInv, [OpeningNext]_vars, NEW a \in Attempts
  PROVE  \/ session'[a] = session[a]
         \/ \E d \in Disputes : \E r \in published[d] :
              session'[a] = Ended(session[a], d, r) /\ r \in seen'[d]
         \/ /\ session[a].state # "none" /\ session'[a].state \in {"active", "handed_off"}
            /\ session'[a].dispute = session[a].dispute
            /\ session'[a].openedAt = session[a].openedAt
         \/ /\ attempt[a].step = "creating" /\ UNCHANGED <<clock, published, node>>
            /\ session'[a] = [state |-> "opening", dispute |-> attempt[a].dispute,
                              openedAt |-> clock]
<1>0. /\ session \in [Attempts -> Session] /\ seen \in [Disputes -> SUBSET Revision]
      /\ SessionInv /\ OpeningTypeOK
  BY DEF NoticedInv, SessionInv, ClaimInv, OpeningTypeOK, NotifierTypeOK
<1>1. ASSUME NEW h \in Handlers, Handle(h)
      PROVE  \/ session'[a] = session[a]
             \/ \E d \in Disputes : \E r \in published[d] :
                  session'[a] = Ended(session[a], d, r) /\ r \in seen'[d]
  <2>0. PICK d \in Disputes :
          \E r \in published[d] : FirstSight(h, d, r) \/ Applies(h, d, r) \/ Stale(h, d, r)
    BY <1>1 DEF Handle
  <2>1. PICK r \in published[d] : FirstSight(h, d, r) \/ Applies(h, d, r) \/ Stale(h, d, r)
    BY <2>0
  <2>2. CASE FirstSight(h, d, r) \/ Stale(h, d, r)
    BY <2>2 DEF FirstSight, Stale, dbVars
  <2>3. CASE Applies(h, d, r)
    BY <1>0, <2>3 DEF Applies
  <2> QED
    BY <2>1, <2>2, <2>3
<1>2. ASSUME NEW b \in Attempts, InsertSession(b)
      PROVE  \/ session'[a] = session[a]
             \/ /\ attempt[a].step = "creating" /\ UNCHANGED <<clock, published, node>>
                /\ session'[a] = [state |-> "opening", dispute |-> attempt[a].dispute,
                                  openedAt |-> clock]
  BY <1>0, <1>2 DEF InsertSession, notifierOnly, nodeVars
<1>3. ASSUME NEW b \in Attempts, Activate(b) \/ Abandon(b)
      PROVE  \/ session'[a] = session[a]
             \/ /\ session[a].state # "none" /\ session'[a].state \in {"active", "handed_off"}
                /\ session'[a].dispute = session[a].dispute
                /\ session'[a].openedAt = session[a].openedAt
  <2>1. \/ session' = session
        \/ /\ session[b].state # "none"
           /\ \E to \in {"active", "handed_off"} :
                session' = [session EXCEPT ![b] = [session[b] EXCEPT !.state = to]]
    BY <1>0, <1>3 DEF Activate, Abandon, MayActivate, Live
  <2> QED
    BY <1>0, <2>1 DEF Session
<1>4. ASSUME \/ NodeNext \/ Remind \/ Tick
             \/ \E t \in Tasks : Proceed(t)
             \/ Startup \/ OpeningRestart \/ UNCHANGED vars
             \/ \E d \in Disputes : RetryNotice(d)
             \/ \E b \in Attempts : NodeAnswersTake(b)
      PROVE  session' = session
  BY <1>4 DEF NodeNext, NodeOpens, HumanTakes, NodeResolves, Remind, RemindTick, RemindNext, Tick,
       Proceed, Announce, Mark, CheckOwnTakes, CheckLiveSession, Startup, InstallHooks,
       JudgePassesChecks, Reconsider, OpeningRestart, Restart, RetryNotice, NodeAnswersTake,
       notifierVars, dbVars, vars
<1>5. ASSUME NEW b \in Attempts, Quiet(b) \/ ClaimDecides(b) \/ \E d \in Disputes : ClaimReads(b, d)
      PROVE  session' = session
  BY <1>0, <1>5, StepsGoOn
<1> QED
  BY <1>1, <1>2, <1>3, <1>4, <1>5 DEF OpeningNext, NotifierNext, Considers, Quiet

LEMMA TakesKept ==
  ASSUME NoticedInv, TakesInv, OnlyPeopleSupersede, [OpeningNext]_vars
  PROVE  TakesInv' /\ OnlyPeopleSupersede'
<1>0. /\ session \in [Attempts -> Session] /\ ClaimInv /\ clock \in Nat
      /\ published \in [Disputes -> SUBSET Revision]
      /\ \A a \in Attempts : session[a].state # "none" => session[a].dispute \in Disputes
  BY DEF NoticedInv, RowsNameDisputes, SessionInv, ClaimInv, OpeningTypeOK, NotifierTypeOK
<1>1. NodeMoves
  BY <1>0, NodePublishes
<1>2. \A a \in Attempts : AskedFor(a)'
  BY <1>0, <1>1, RequestsKept
<1>3. clock' \in Nat /\ clock <= clock'
  <2>1. SessionInv'
    BY SessionInvKept DEF NoticedInv
  <2> QED
    BY <1>1, <2>1 DEF SessionInv, ClaimInv, OpeningTypeOK, NotifierTypeOK, NodeMoves
<1>4. \A d \in Disputes : \A r \in published'[d] :
        /\ r.at <= clock'
        /\ r.status = "in-progress" => r.by # "party"
        /\ r.by = "serbero" => node'[d].status \notin {"none", "initiated"}
  <2> SUFFICES ASSUME NEW d \in Disputes, NEW r \in published'[d]
               PROVE  /\ r.at <= clock'
                      /\ r.status = "in-progress" => r.by # "party"
                      /\ r.by = "serbero" => node'[d].status \notin {"none", "initiated"}
    OBVIOUS
  <2>1. CASE r \in published[d]
    <3>1. r.at \in Nat /\ r.at <= clock
      BY <1>0, <2>1 DEF Revision, TakesInv
    <3>2. Left(d) => node'[d].status \notin {"none", "initiated"}
      BY <1>1 DEF NodeMoves
    <3> QED
      BY <1>0, <1>3, <2>1, <3>1, <3>2 DEF TakesInv
  <2>2. CASE /\ r.at = clock /\ clock' = clock
             /\ r.status = "in-progress" => r.by # "party"
             /\ r.by = "serbero" => node'[d].status \notin {"none", "initiated"}
    BY <1>3, <2>2
  <2> QED
    BY <1>1, <2>1, <2>2 DEF NodeMoves
\* No take of Serbero is published for a dispute the node no longer holds back.
<1>5. ASSUME NEW d \in Disputes, Left(d), NEW r \in published'[d], r.by = "serbero"
      PROVE  r \in published[d]
  BY <1>1, <1>5 DEF NodeMoves
<1>6. ASSUME NEW a \in Attempts, session[a].state # "none",
             session'[a].dispute = session[a].dispute,
             session'[a].openedAt = session[a].openedAt
      PROVE  /\ OpenedAfterOwnTake(a)'
             /\ session[a].state = "superseded" =>
                  \E r \in seen'[session'[a].dispute] :
                    r.by = "human" /\ r.status = "in-progress" /\ r.at > session'[a].openedAt
  <2> DEFINE d == session[a].dispute
  <2>1. d \in Disputes /\ Left(d)
    BY <1>0, <1>6 DEF TakesInv, OpenedAfterOwnTake
  <2>2. node'[d].status \notin {"none", "initiated"} /\ seen[d] \subseteq seen'[d]
    BY <1>1, <2>1 DEF NodeMoves
  <2>3. \A r \in published[d] : r.by = "serbero" => r.at <= session[a].openedAt
    BY <1>6 DEF TakesInv, OpenedAfterOwnTake
  <2>4. Left(session[a].dispute)'
    BY <1>6, <2>2 DEF Left
  <2>5. \A r \in published'[d] : r.by = "serbero" => r.at <= session[a].openedAt
    BY <1>5, <2>1, <2>3
  <2>6. session[a].state = "superseded" =>
          \E r \in seen'[d] :
            r.by = "human" /\ r.status = "in-progress" /\ r.at > session[a].openedAt
    BY <2>2 DEF OnlyPeopleSupersede
  <2> HIDE DEF d
  <2> QED
    BY <1>6, <2>4, <2>5, <2>6 DEF d, OpenedAfterOwnTake
<1>7. ASSUME NEW a \in Attempts, session'[a].state # "none"
      PROVE  /\ OpenedAfterOwnTake(a)'
             /\ session'[a].state = "superseded" =>
                  \E r \in seen'[session'[a].dispute] :
                    r.by = "human" /\ r.status = "in-progress" /\ r.at > session'[a].openedAt
  <2>1. CASE session'[a] = session[a]
    BY <1>6, <1>7, <2>1
  <2>2. CASE /\ session[a].state # "none" /\ session'[a].state \in {"active", "handed_off"}
             /\ session'[a].dispute = session[a].dispute
             /\ session'[a].openedAt = session[a].openedAt
    BY <1>6, <2>2
  <2>3. CASE /\ attempt[a].step = "creating" /\ UNCHANGED <<clock, published, node>>
             /\ session'[a] = [state |-> "opening", dispute |-> attempt[a].dispute,
                               openedAt |-> clock]
    <3> DEFINE d == attempt[a].dispute
    <3>1. d \in Disputes
      BY <1>0, <2>3 DEF ClaimInv, AttemptsNameDisputes
    <3>2. Left(d)
      BY <2>3 DEF TakesInv, AskedFor
    <3>3. Left(session[a].dispute)'
      BY <2>3, <3>2 DEF Left
    <3>4. \A r \in published[d] : r.at <= clock
      BY <3>1 DEF TakesInv
    <3> QED
      BY <2>3, <3>3, <3>4 DEF OpenedAfterOwnTake
  <2>4. ASSUME NEW d \in Disputes, NEW r \in published[d],
               session'[a] = Ended(session[a], d, r), r \in seen'[d], session'[a] # session[a]
        PROVE  /\ OpenedAfterOwnTake(a)'
               /\ session'[a].state = "superseded" =>
                    \E q \in seen'[session'[a].dispute] :
                      q.by = "human" /\ q.status = "in-progress" /\ q.at > session'[a].openedAt
    <3>1. /\ session[a].dispute = d /\ session[a].state # "none"
          /\ session'[a].dispute = d /\ session'[a].openedAt = session[a].openedAt
          /\ \/ session'[a].state = "closed"
             \/ session'[a].state = "superseded" /\ Supersedes(session[a], r)
      BY <1>0, <2>4 DEF Ended, Session, Live
    <3>2. r.status = "in-progress" /\ r.at > session[a].openedAt => r.by = "human"
      <4>1. r \in Revision /\ session[a].openedAt \in Nat
        BY <1>0, <2>4 DEF Session
      <4>2. r.by = "serbero" => r.at <= session[a].openedAt
        BY <2>4, <3>1 DEF TakesInv, OpenedAfterOwnTake
      <4>3. r.status = "in-progress" => r.by # "party"
        BY <2>4 DEF TakesInv
      <4> QED
        BY <4>1, <4>2, <4>3 DEF Revision
    <3> QED
      BY <1>6, <2>4, <3>1, <3>2 DEF Supersedes
  <2> QED
    BY <2>1, <2>2, <2>3, <2>4, RowsMove
<1> QED
  BY <1>2, <1>4, <1>7 DEF TakesInv, OnlyPeopleSupersede, Left

LEMMA TakesInvHolds == OpeningSpec => [](TakesInv /\ OnlyPeopleSupersede)
<1>1. OpeningInit => TakesInv /\ OnlyPeopleSupersede
  <2> SUFFICES ASSUME OpeningInit PROVE TakesInv /\ OnlyPeopleSupersede
    OBVIOUS
  <2>1. /\ \A d \in Disputes : published[d] = {}
        /\ \A a \in Attempts : /\ session[a].state = "none"
                               /\ attempt[a].step = "idle" /\ request[a] = "none"
    BY DEF OpeningInit, NotifierInit, IdleAttempt
  <2> QED
    BY <2>1 DEF TakesInv, AskedFor, OnlyPeopleSupersede
<1>2. NoticedInv /\ TakesInv /\ OnlyPeopleSupersede /\ [OpeningNext]_vars
        => TakesInv' /\ OnlyPeopleSupersede'
  BY TakesKept
<1> QED
  BY <1>1, <1>2, NoticedInvHolds, PTL DEF OpeningSpec

\* Serbero's own take never supersedes Serbero's own session, in whatever order
\* and however late its revision is delivered (create_session, transition).
THEOREM OwnTakeNeverSupersedes == OpeningSpec => []OnlyPeopleSupersede
BY TakesInvHolds, PTL

-----------------------------------------------------------------------------
(* Takes announced.                                                        *)

\* A task that asks whether the take of its dispute was Serbero's.
Checking(t) == task[t].step \in {"own_takes", "live_session"}

Untaken == Waiting \union {"absent"}

\* A dispute is announced as taken by the one task that recorded its first take;
\* once that task found no take in flight, none that was granted is.
CheckInv ==
  /\ \A t \in Tasks : Checking(t) =>
       /\ task[t].dispute \in Disputes
       /\ row[task[t].dispute].lifecycle \notin Untaken
       /\ announced[task[t].dispute] = "nobody"
       /\ task[t].revision = "serbero" => Left(task[t].dispute)
       /\ \A u \in Tasks : Checking(u) /\ task[u].dispute = task[t].dispute => u = t
  /\ \A d \in Disputes : row[d].lifecycle \in Untaken => announced[d] = "nobody"
  /\ \A t \in Tasks, a \in Attempts :
       /\ task[t].step = "live_session" /\ task[t].revision = "serbero"
       /\ attempt[a].dispute = task[t].dispute /\ attempt[a].step \in Claimed
       => request[a] # "granted"

\* What a step does to the tasks that check, the rows and what was announced.
ChecksStay ==
  /\ announced' = announced
  /\ \A t \in Tasks : task'[t].step \in {"own_takes", "live_session"} => task'[t] = task[t]
  /\ \A d \in Disputes : row'[d].lifecycle \in Untaken => row[d].lifecycle \in Untaken

CheckStarts(h, d) ==
  /\ row[d].lifecycle \in Untaken /\ row'[d].lifecycle \notin Untaken
  /\ task'[h].step = "own_takes" /\ task'[h].dispute = d
  /\ \E r \in published[d] : task'[h].revision = r.by
  /\ \A t \in Tasks : t # h => task'[t] = task[t]
  /\ \A e \in Disputes : e # d => row'[e] = row[e]
  /\ UNCHANGED <<announced, node, attempt, request>>

LEMMA MarksMove ==
  ASSUME NotifierTypeOK, NEW t \in Tasks, Mark(t) PROVE ChecksStay
<1>0. task \in [Tasks -> TaskState] /\ row \in [Disputes -> Row]
  BY DEF NotifierTypeOK
<1>1. \A u \in Tasks : task'[u] = IF u = t THEN IdleTask ELSE task[u]
  BY <1>0 DEF Mark
<1>2. \A d \in Disputes : row'[d].lifecycle \in Untaken => row[d].lifecycle \in Untaken
  <2>1. CASE Markable(task[t].dispute)
    <3> DEFINE e == task[t].dispute
               one == [row[e] EXCEPT !.lifecycle = "notified", !.lastNotified = task[t].now]
    <3>1. row' = [row EXCEPT ![e] = one]
      BY <1>0, <2>1 DEF Mark
    <3>2. row[e].lifecycle \in Untaken
      BY <2>1 DEF Markable, Untaken
    <3> HIDE DEF one, e
    <3> QED
      BY <1>0, <3>1, <3>2
  <2>2. CASE ~Markable(task[t].dispute)
    BY <2>2 DEF Mark
  <2> QED
    BY <2>1, <2>2
<1>3. announced' = announced /\ IdleTask.step = "idle"
  BY DEF Mark, IdleTask, historyVars
<1> QED
  BY <1>1, <1>2, <1>3 DEF ChecksStay

LEMMA HandlesMove ==
  ASSUME NotifierTypeOK, NEW h \in Handlers, Handle(h), UNCHANGED openingVars
  PROVE  ChecksStay \/ \E d \in Disputes : CheckStarts(h, d)
<1>0. /\ task \in [Tasks -> TaskState] /\ row \in [Disputes -> Row] /\ h \in Tasks
      /\ published \in [Disputes -> SUBSET Revision]
  BY DEF NotifierTypeOK, Tasks
<1>1. PICK d \in Disputes :
        \E r \in published[d] : FirstSight(h, d, r) \/ Applies(h, d, r) \/ Stale(h, d, r)
  BY DEF Handle
<1>2. PICK r \in published[d] : FirstSight(h, d, r) \/ Applies(h, d, r) \/ Stale(h, d, r)
  BY <1>1
<1>3. CASE Stale(h, d, r)
  BY <1>3 DEF Stale, dbVars, ChecksStay
<1>4. CASE FirstSight(h, d, r)
  <2>1. \A e \in Disputes : e # d => row'[e] = row[e]
    BY <1>0, <1>4 DEF FirstSight
  <2>2. row[d].lifecycle \in Untaken
    BY <1>4 DEF FirstSight, Untaken
  <2>3. \A t \in Tasks : t # h => task'[t] = task[t]
    BY <1>0, <1>4 DEF FirstSight, Follow
  <2>4. task'[h].step \in {"announce", "idle"}
    BY <1>0, <1>4 DEF FirstSight, Follow, IdleTask
  <2> QED
    BY <1>4, <2>1, <2>2, <2>3, <2>4 DEF FirstSight, ChecksStay
<1>5. CASE Applies(h, d, r)
  <2>1. /\ \A e \in Disputes : e # d => row'[e] = row[e]
        /\ row'[d].lifecycle = NextLifecycle(row[d].lifecycle, r.status)
        /\ announced' = announced /\ node' = node
    BY <1>0, <1>5 DEF Applies, nodeVars, Row
  <2>2. \A t \in Tasks : t # h => task'[t] = task[t]
    BY <1>0, <1>5 DEF Applies, Follow
  <2>3. row'[d].lifecycle \in Untaken => row[d].lifecycle \in Untaken
    BY <2>1 DEF NextLifecycle, Untaken, Waiting
  <2>4. CASE Takes(d, r)
    <3>1. row[d].lifecycle \in Untaken /\ row'[d].lifecycle \notin Untaken
      BY <2>1, <2>4 DEF Takes, NextLifecycle, Untaken, Waiting
    <3>2. task'[h].step = "own_takes" /\ task'[h].dispute = d /\ task'[h].revision = r.by
      BY <1>0, <1>5, <2>4 DEF Applies, Follow
    <3> QED
      BY <2>1, <2>2, <3>1, <3>2 DEF CheckStarts, openingVars
  <2>5. CASE ~Takes(d, r)
    <3>1. task'[h].step = "idle"
      BY <1>0, <1>5, <2>5 DEF Applies, Follow, IdleTask
    <3> QED
      BY <2>1, <2>2, <2>3, <3>1 DEF ChecksStay
  <2> QED
    BY <2>4, <2>5
<1> QED
  BY <1>2, <1>3, <1>4, <1>5

LEMMA RemindsMove ==
  ASSUME NotifierTypeOK, Remind PROVE ChecksStay
<1>0. task \in [Tasks -> TaskState] /\ Reminder \in Tasks
  BY DEF NotifierTypeOK, Tasks
<1>1. UNCHANGED <<announced, row>> /\ task[Reminder].step = "idle"
  BY DEF Remind, RemindTick, RemindNext, dbVars, historyVars
<1>2. \A t \in Tasks : t # Reminder => task'[t] = task[t]
  BY <1>0 DEF Remind, RemindTick, RemindNext
<1>3. task'[Reminder].step \in {"idle", "announce"}
  <2>1. CASE RemindTick
    <3> DEFINE one == [task[Reminder] EXCEPT !.now = clock]
    <3>1. task' = [task EXCEPT ![Reminder] = one] /\ one.step = "idle"
      BY <1>0, <1>1, <2>1 DEF RemindTick, TaskState
    <3> HIDE DEF one
    <3> QED
      BY <1>0, <3>1
  <2>2. ASSUME NEW d \in Disputes, RemindNext(d) PROVE task'[Reminder].step \in {"idle", "announce"}
    <3>1. CASE row[d].lifecycle \notin Waiting
      BY <1>1, <2>2, <3>1 DEF RemindNext
    <3>2. CASE row[d].lifecycle \in Waiting
      <4> DEFINE one == [task[Reminder] EXCEPT !.step = "announce", !.dispute = d,
                                               !.fresh = (row[d].lifecycle = "new")]
      <4>1. task' = [task EXCEPT ![Reminder] = one]
        BY <1>0, <2>2, <3>2 DEF RemindNext
      <4>2. one.step = "announce"
        BY <1>0 DEF TaskState
      <4> HIDE DEF one
      <4> QED
        BY <1>0, <4>1, <4>2
    <3> QED
      BY <3>1, <3>2
  <2> QED
    BY <2>1, <2>2 DEF Remind
<1> QED
  BY <1>1, <1>2, <1>3 DEF ChecksStay

\* A step starts, goes on with or ends one check, or touches none.
LEMMA ChecksMove ==
  ASSUME OpeningTypeOK, [OpeningNext]_vars
  PROVE  \/ ChecksStay
         \/ \E h \in Handlers, d \in Disputes : CheckStarts(h, d)
         \/ \E t \in Tasks : /\ CheckOwnTakes(t) \/ CheckLiveSession(t)
                             /\ UNCHANGED openingVars
<1>0. NotifierTypeOK /\ task \in [Tasks -> TaskState]
  BY DEF OpeningTypeOK, NotifierTypeOK
<1>1. ASSUME NEW t \in Tasks, Announce(t) PROVE ChecksStay
  <2>1. \A u \in Tasks : u # t => task'[u] = task[u]
    BY <1>0, <1>1 DEF Announce
  <2>2. task'[t].step \in {"mark", "idle"}
    BY <1>0, <1>1 DEF Announce, IdleTask, TaskState
  <2> QED
    BY <1>1, <2>1, <2>2 DEF ChecksStay, Announce, dbVars
<1>2. ASSUME UNCHANGED <<announced, task, row>> PROVE ChecksStay
  BY <1>2 DEF ChecksStay
<1>3. CASE OpeningRestart
  BY <1>3 DEF OpeningRestart, Restart, ChecksStay, IdleTask, dbVars, historyVars
<1>4. ASSUME NEW a \in Attempts, Considers(a) PROVE UNCHANGED <<announced, task, row>>
  <2>1. CASE Quiet(a)
    BY <2>1, QuietMoves DEF notifierOnly, dbVars, historyVars
  <2>2. CASE \/ \E d \in Disputes : ClaimReads(a, d)
             \/ ClaimDecides(a) \/ InsertSession(a) \/ Activate(a) \/ Abandon(a)
    BY <2>2 DEF ClaimReads, ClaimDecides, InsertSession, Activate, Abandon, notifierOnly,
                dbVars, historyVars
  <2> QED
    BY <1>4, <2>1, <2>2 DEF Considers, Quiet
<1>5. ASSUME \/ NodeNext \/ Tick \/ Startup \/ UNCHANGED vars
             \/ \E d \in Disputes : RetryNotice(d)
             \/ \E a \in Attempts : NodeAnswersTake(a)
      PROVE  UNCHANGED <<announced, task, row>>
  BY <1>5 DEF NodeNext, NodeOpens, HumanTakes, NodeResolves, Tick, Startup, InstallHooks,
       JudgePassesChecks, Reconsider, RetryNotice, NodeAnswersTake, notifierOnly, notifierVars,
       dbVars, historyVars, vars
<1> QED
  BY <1>0, <1>1, <1>2, <1>3, <1>4, <1>5, MarksMove, HandlesMove, RemindsMove
  DEF OpeningNext, NotifierNext, Proceed

\* A dispute the node gave away is granted to nobody else, and a call that
\* ended does not come back.
LEMMA GrantsAreOld ==
  ASSUME ClaimInv, TakesInv, [OpeningNext]_vars, NEW a \in Attempts, NEW d \in Disputes, Left(d),
         attempt'[a].dispute = d, attempt'[a].step \in Claimed, request'[a] = "granted"
  PROVE  attempt[a].dispute = d /\ attempt[a].step \in Claimed /\ request[a] = "granted"
<1>0. /\ attempt \in [Attempts -> AttemptState] /\ OpeningTypeOK /\ AskedFor(a)
      /\ request \in [Attempts -> {"none", "sent", "granted", "repeated", "refused"}]
      /\ node \in [Disputes -> [status : Status \union {"none"},
                                holder : {"nobody", "serbero", "human"}]]
      /\ "done" \notin Claimed /\ "claiming" \notin Claimed
  BY DEF ClaimInv, OpeningTypeOK, NotifierTypeOK, TakesInv, Claimed, Greeting
<1>1. ASSUME NEW b \in Attempts, NodeAnswersTake(b)
      PROVE  attempt[a] = attempt'[a] /\ request[a] = "granted"
  <2>1. attempt' = attempt
    BY <1>1 DEF NodeAnswersTake
  <2>2. CASE b # a
    BY <1>0, <1>1, <2>1, <2>2 DEF NodeAnswersTake
  <2>3. CASE b = a
    BY <1>0, <1>1, <2>1, <2>3 DEF NodeAnswersTake, Left
  <2> QED
    BY <2>2, <2>3
<1>2. ASSUME NEW b \in Attempts, Considers(b)
      PROVE  \/ attempt[a] = attempt'[a]
             \/ ClaimStep(a)
  BY <1>0, <1>2, ConsidersClaims
<1>3. ASSUME NEW b \in Attempts, Considers(b) PROVE request[a] = "granted"
  <2>1. request' = request \/ request' = [request EXCEPT ![b] = "sent"]
    BY <1>0, <1>3, QuietMoves DEF Considers, Quiet, ClaimReads, ClaimDecides, InsertSession,
       Activate, Abandon
  <2> QED
    BY <1>0, <2>1
<1>4. ASSUME NEW b \in Attempts, Considers(b)
      PROVE  attempt[a].dispute = d /\ attempt[a].step \in Claimed
  <2>1. attempt[a].step # "claiming"
    BY <1>0, <1>3, <1>4 DEF AskedFor, BeforeAsking
  <2> QED
    BY <1>0, <1>2, <1>4, <2>1 DEF ClaimStep
<1>5. CASE OpeningRestart
  <2>1. attempt'[a] = attempt[a] \/ attempt'[a].step = "done"
    BY <1>0, <1>5 DEF OpeningRestart, AttemptState
  <2>2. request' = request
    BY <1>5 DEF OpeningRestart
  <2> QED
    BY <1>0, <2>1, <2>2
<1>6. CASE \/ NotifierNext /\ UNCHANGED openingVars
           \/ Startup \/ UNCHANGED vars
           \/ \E e \in Disputes : RetryNotice(e)
  <2>1. attempt' = attempt /\ request' = request
    BY <1>6 DEF openingVars, Startup, InstallHooks, JudgePassesChecks, Reconsider, vars, RetryNotice
  <2> QED
    BY <2>1
<1> QED
  BY <1>1, <1>3, <1>4, <1>5, <1>6 DEF OpeningNext

LEMMA CheckKept ==
  ASSUME ClaimInv, TakesInv, CheckInv, [OpeningNext]_vars PROVE CheckInv'
<1>0. /\ OpeningTypeOK /\ NodeMoves
      /\ task \in [Tasks -> TaskState] /\ Handlers \subseteq Tasks
      /\ announced \in [Disputes -> {"nobody", "serbero", "other"}]
  BY NodePublishes DEF ClaimInv, OpeningTypeOK, NotifierTypeOK, Tasks
<1>1. \A d \in Disputes : Left(d) => Left(d)'
  BY <1>0 DEF NodeMoves, Left
<1>2. CASE ChecksStay
  <2>1. \A t \in Tasks : Checking(t)' => Checking(t) /\ task'[t] = task[t]
    BY <1>2 DEF ChecksStay, Checking
  <2>2. ASSUME NEW t \in Tasks, Checking(t)'
        PROVE  /\ task'[t].dispute \in Disputes
               /\ row'[task'[t].dispute].lifecycle \notin Untaken
               /\ announced'[task'[t].dispute] = "nobody"
               /\ task'[t].revision = "serbero" => Left(task[t].dispute)'
               /\ \A u \in Tasks : Checking(u)' /\ task'[u].dispute = task'[t].dispute => u = t
    <3>1. Checking(t) /\ task'[t] = task[t]
      BY <2>1, <2>2
    <3>2. task[t].revision = "serbero" => Left(task[t].dispute)'
      BY <1>1, <3>1 DEF CheckInv
    <3> QED
      BY <1>2, <2>1, <3>1, <3>2 DEF CheckInv, ChecksStay
  <2>3. ASSUME NEW t \in Tasks, NEW a \in Attempts,
               task'[t].step = "live_session", task'[t].revision = "serbero",
               attempt'[a].dispute = task'[t].dispute, attempt'[a].step \in Claimed
        PROVE  request'[a] # "granted"
    <3> DEFINE d == task[t].dispute
    <3>1. /\ Checking(t) /\ task'[t] = task[t]
      BY <2>1, <2>3 DEF Checking
    <3>2. d \in Disputes /\ Left(d)
      BY <2>3, <3>1 DEF CheckInv
    <3> SUFFICES ASSUME request'[a] = "granted" PROVE FALSE
      OBVIOUS
    <3>3. attempt[a].dispute = d /\ attempt[a].step \in Claimed /\ request[a] = "granted"
      BY <2>3, <3>1, <3>2, GrantsAreOld
    <3> QED
      BY <2>3, <3>1, <3>3 DEF CheckInv
  <2>4. \A d \in Disputes : row'[d].lifecycle \in Untaken => announced'[d] = "nobody"
    BY <1>2 DEF ChecksStay, CheckInv
  <2> QED
    BY <2>1, <2>2, <2>3, <2>4 DEF CheckInv, Left
<1>3. ASSUME NEW h \in Handlers, NEW d \in Disputes, CheckStarts(h, d) PROVE CheckInv'
  <2>0. /\ h \in Tasks /\ task'[h].step = "own_takes" /\ task'[h].dispute = d
        /\ \A t \in Tasks : t # h => task'[t] = task[t]
        /\ row[d].lifecycle \in Untaken /\ row'[d].lifecycle \notin Untaken
        /\ \A e \in Disputes : e # d => row'[e] = row[e]
        /\ UNCHANGED <<announced, node, attempt, request>>
    BY <1>0, <1>3 DEF CheckStarts
  <2>1. \A t \in Tasks : t # h /\ Checking(t)' => Checking(t) /\ task[t].dispute # d
    BY <2>0 DEF Checking, CheckInv
  <2>2. task'[h].revision = "serbero" => Left(d)
    BY <1>3 DEF CheckStarts, TakesInv
  <2> QED
    BY <2>0, <2>1, <2>2 DEF CheckInv, Checking, Left
<1>4. ASSUME NEW t \in Tasks, CheckOwnTakes(t) \/ CheckLiveSession(t), UNCHANGED openingVars
      PROVE  CheckInv'
  <2> DEFINE d == task[t].dispute
  <2>0. /\ Checking(t) /\ d \in Disputes
        /\ \A u \in Tasks : Checking(u) /\ task[u].dispute = d => u = t
        /\ row[d].lifecycle \notin Untaken
        /\ UNCHANGED <<row, node, attempt, request>>
        /\ \A u \in Tasks : u # t => task'[u] = task[u]
    BY <1>0, <1>4 DEF CheckOwnTakes, CheckLiveSession, Checking, CheckInv, dbVars, nodeVars,
                      openingVars
  <2>1. CASE /\ task'[t] = IdleTask
             /\ \A e \in Disputes : e # d => announced'[e] = announced[e]
    <3>1. ~Checking(t)'
      BY <2>1 DEF Checking, IdleTask
    <3>2. \A u \in Tasks : Checking(u)' => /\ Checking(u) /\ task'[u] = task[u]
                                           /\ task[u].dispute # d
      BY <2>0, <3>1 DEF Checking
    <3>3. \A u \in Tasks : task'[u].step = "live_session" => Checking(u)'
      BY DEF Checking
    <3> HIDE DEF d
    <3> QED
      BY <2>0, <2>1, <3>2, <3>3 DEF CheckInv, Left
  <2>2. CASE /\ task' = [task EXCEPT ![t] = [task[t] EXCEPT !.step = "live_session"]]
             /\ announced' = announced /\ d \notin ownTakes
    <3>1. /\ task'[t].step = "live_session" /\ task'[t].dispute = d
          /\ task'[t].revision = task[t].revision
      BY <1>0, <2>2 DEF TaskState
    <3>2. \A u \in Tasks : /\ Checking(u)' <=> Checking(u)
                            /\ task'[u].dispute = task[u].dispute
                            /\ task'[u].revision = task[u].revision
      BY <2>0, <3>1 DEF Checking
    <3>3. \A a \in Attempts : attempt[a].step \in Claimed => attempt[a].dispute # d
      BY <2>2 DEF ClaimInv
    <3>4. \A u \in Tasks, a \in Attempts :
            /\ task'[u].step = "live_session" /\ task'[u].revision = "serbero"
            /\ attempt'[a].dispute = task'[u].dispute /\ attempt'[a].step \in Claimed
            => request'[a] # "granted"
      BY <2>0, <3>1, <3>3 DEF CheckInv
    <3> HIDE DEF d
    <3>5. ASSUME NEW u \in Tasks, Checking(u)'
          PROVE  /\ task'[u].dispute \in Disputes
                 /\ row'[task'[u].dispute].lifecycle \notin Untaken
                 /\ announced'[task'[u].dispute] = "nobody"
                 /\ task'[u].revision = "serbero" => node'[task'[u].dispute].status \notin {"none", "initiated"}
                 /\ \A w \in Tasks : Checking(w)' /\ task'[w].dispute = task'[u].dispute => w = u
      BY <2>0, <2>2, <3>2, <3>5 DEF CheckInv, Left
    <3>6. \A e \in Disputes : row'[e].lifecycle \in Untaken => announced'[e] = "nobody"
      BY <2>0, <2>2 DEF CheckInv
    <3> QED
      BY <3>4, <3>5, <3>6 DEF CheckInv, Left
  <2> QED
    BY <1>0, <1>4, <2>1, <2>2 DEF CheckOwnTakes, CheckLiveSession, Taking
<1> QED
  BY <1>0, <1>2, <1>3, <1>4, ChecksMove

\* When solvers are told that someone else took the dispute on the revision of
\* Serbero's own take, no granted attempt is at work on it and none of its
\* sessions lives (taken_by_serbero).
THEOREM OwnTakeIsKnown == OpeningSpec => OwnTakeAnnouncedAsOwn
<1>1. OpeningInit => CheckInv
  <2> SUFFICES ASSUME OpeningInit PROVE CheckInv
    OBVIOUS
  <2>1. /\ \A t \in Tasks : task[t].step = "idle"
        /\ \A d \in Disputes : announced[d] = "nobody"
    BY DEF OpeningInit, NotifierInit, IdleTask
  <2> QED
    BY <2>1 DEF CheckInv, Checking
<1>2. ClaimInv /\ TakesInv /\ CheckInv /\ [OpeningNext]_vars => CheckInv'
  BY CheckKept
<1> DEFINE Known ==
      \A t \in Tasks :
        LET d == task[t].dispute
        IN (/\ task[t].step \in {"own_takes", "live_session"}
            /\ task[t].revision = "serbero"
            /\ task'[t].step = "idle"
            /\ announced'[d] = "other")
           => \A a \in Attempts :
                /\ ~(session[a].dispute = d /\ session[a].state \in Live)
                /\ ~(/\ attempt[a].dispute = d /\ attempt[a].step \in Claimed
                     /\ request[a] = "granted")
<1>3. ClaimInv /\ CheckInv /\ [OpeningNext]_vars => [Known]_vars
  <2> SUFFICES ASSUME ClaimInv, CheckInv, [OpeningNext]_vars, NEW t \in Tasks,
                      task[t].step \in {"own_takes", "live_session"},
                      task[t].revision = "serbero", task'[t].step = "idle",
                      announced'[task[t].dispute] = "other", NEW a \in Attempts
               PROVE  /\ ~(session[a].dispute = task[t].dispute /\ session[a].state \in Live)
                      /\ ~(/\ attempt[a].dispute = task[t].dispute
                           /\ attempt[a].step \in Claimed /\ request[a] = "granted")
    OBVIOUS
  <2> DEFINE d == task[t].dispute
  <2>0. /\ OpeningTypeOK /\ announced \in [Disputes -> {"nobody", "serbero", "other"}]
        /\ Checking(t) /\ d \in Disputes /\ announced[d] = "nobody"
        /\ \A u \in Tasks : Checking(u) /\ task[u].dispute = d => u = t
    BY DEF ClaimInv, OpeningTypeOK, NotifierTypeOK, CheckInv, Checking
  <2>1. PICK u \in Tasks : CheckOwnTakes(u) \/ CheckLiveSession(u)
    BY <2>0, ChecksMove DEF ChecksStay, CheckStarts
  <2>2. Checking(u)
    BY <2>1 DEF CheckOwnTakes, CheckLiveSession, Checking
  <2>3. CheckLiveSession(u) /\ LiveFor(d) = {} /\ u = t
    BY <2>0, <2>1, <2>2 DEF CheckOwnTakes, CheckLiveSession
  <2> QED
    BY <2>3 DEF LiveFor, CheckLiveSession, CheckInv
<1> QED
  BY <1>1, <1>2, <1>3, ClaimInvHolds, TakesInvHolds, PTL DEF OpeningSpec, OwnTakeAnnouncedAsOwn

=============================================================================
