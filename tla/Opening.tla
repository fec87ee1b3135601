------------------------------ MODULE Opening ------------------------------
(***************************************************************************)
(* Mediation is considered, the dispute taken, and the session opened      *)
(* (src/src/mediation/mod.rs, eligibility.rs, src/src/mostro/take.rs),     *)
(* beside the notifier that keeps handling revisions.                      *)
(*                                                                         *)
(* Every new-dispute hook spawns a call of Mediator::consider; such a call *)
(* is an attempt, and the session it inserts carries its identity.  An     *)
(* attempt awaits the node, the relays and the store again and again: each *)
(* await is a step of its own here, so a person's take, the end of the     *)
(* dispute, another attempt or a restart may come between any two.  The    *)
(* calls of reconsider, made one after the other, are attempts like those  *)
(* of the hook, started in any order.                                      *)
(***************************************************************************)
EXTENDS Notifier

VARIABLES
  boot,      \* startup of mediation: hooks, judge checks, reconsideration
  started,   \* `started` of start_mediation: disputes seen before are left
  attempt,   \* what each call of consider is doing
  request,   \* the admin-take-dispute request of an attempt and its answer
  notice,    \* opening_notice_pending / opening_notice_sent events
  timedOut   \* history: attempts whose take was given up on

openingVars == <<boot, started, attempt, request, notice, timedOut>>
vars == <<clock, node, published, row, session, task, due, ownTakes, hooked,
          requests, crashes, seen, told, takenChanges, announced,
          boot, started, attempt, request, notice, timedOut>>

\* What an attempt that only talks to the store or the node leaves alone.
notifierOnly == <<clock, task, due, hooked, crashes, historyVars>>

Greeting == {"greet_buyer", "greet_seller"}

\* Between claim and release: the dispute is in own_takes.
Claimed == {"node_info", "asking", "creating", "subscribing", "activate", "tell",
            "abandon", "abandon_bare", "notify"} \union Greeting

AttemptState == [step : {"idle", "claiming", "done"} \union Claimed,
                 dispute : Disputes \union {None},
                 lifecycle : Lifecycle, hadSession : BOOLEAN]

IdleAttempt == [step |-> "idle", dispute |-> None, lifecycle |-> "absent",
                hadSession |-> FALSE]

Goes(a, step) == attempt' = [attempt EXCEPT ![a].step = step]

\* consider() returns: release() drops the dispute from own_takes.
Returns(a) ==
  /\ Goes(a, "done")
  /\ ownTakes' = ownTakes \ {attempt[a].dispute}

-----------------------------------------------------------------------------
(* start_mediation and the judge's background checks.                      *)

InstallHooks ==
  /\ boot = "starting"
  /\ boot' = "checking"
  /\ hooked' = TRUE
  /\ started' = clock
  /\ UNCHANGED <<clock, nodeVars, dbVars, task, due, ownTakes, requests, crashes,
                 historyVars, attempt, request, notice, timedOut>>

JudgePassesChecks ==
  /\ boot = "checking"
  /\ boot' = "ready"
  /\ UNCHANGED <<notifierVars, started, attempt, request, notice, timedOut>>

\* Mediator::reconsider over list_notified_without_session.
Reconsider ==
  LET missed == {d \in Disputes : /\ row[d].lifecycle = "notified"
                                  /\ row[d].firstSeen >= started
                                  /\ \A a \in Attempts : session[a].dispute # d}
  IN /\ boot = "ready"
     /\ boot' = "reconsidered"
     /\ requests' = [d \in Disputes |->
                       requests[d] + (IF d \in missed THEN 1 ELSE 0)]
     /\ UNCHANGED <<clock, nodeVars, dbVars, task, due, ownTakes, hooked, crashes,
                    historyVars, started, attempt, request, notice, timedOut>>

-----------------------------------------------------------------------------
(* Mediator::claim: the dispute and its sessions are read under the store  *)
(* lock, which is released before own_takes is locked.                     *)

ClaimReads(a, d) ==
  /\ attempt[a].step = "idle"
  /\ requests[d] > 0
  /\ requests' = [requests EXCEPT ![d] = @ - 1]
  /\ attempt' = [attempt EXCEPT ![a] =
       [step |-> "claiming", dispute |-> d, lifecycle |-> row[d].lifecycle,
        hadSession |-> \E b \in Attempts : session[b].dispute = d]]
  /\ UNCHANGED <<notifierOnly, nodeVars, dbVars, ownTakes, boot, started, request,
                 notice, timedOut>>

\* eligibility::check.  The mistake would be to leave the takes in flight to
\* the sessions table.
EligibleBesideATake(a) ==
  /\ boot \in {"ready", "reconsidered"}
  /\ attempt[a].lifecycle = "notified"
  /\ ~attempt[a].hadSession
Eligible(a) ==
  /\ boot \in {"ready", "reconsidered"}
  /\ attempt[a].lifecycle = "notified"
  /\ ~attempt[a].hadSession
  /\ attempt[a].dispute \notin ownTakes

ClaimDecides(a) ==
  /\ attempt[a].step = "claiming"
  /\ IF Eligible(a)
     THEN /\ Goes(a, "node_info")
          /\ ownTakes' = ownTakes \union {attempt[a].dispute}
     ELSE /\ Goes(a, "done")
          /\ UNCHANGED ownTakes
  /\ UNCHANGED <<notifierOnly, nodeVars, dbVars, requests, boot, started, request,
                 notice, timedOut>>

-----------------------------------------------------------------------------
(* Mediator::take: the node must speak protocol v2, then the request; the  *)
(* answer may not come within MOSTRO_TIMEOUT.                              *)

NodeUnfit(a) ==
  /\ attempt[a].step = "node_info"
  /\ Returns(a)
  /\ UNCHANGED <<notifierOnly, nodeVars, dbVars, requests, boot, started, request,
                 notice, timedOut>>

SendsTake(a) ==
  /\ attempt[a].step = "node_info"
  /\ Goes(a, "asking")
  /\ request' = [request EXCEPT ![a] = "sent"]
  /\ UNCHANGED <<notifierOnly, nodeVars, dbVars, ownTakes, requests, boot, started,
                 notice, timedOut>>

\* External: the node grants a take of a dispute that waits, may repeat its
\* answer to the solver that holds the dispute, and refuses any other; a
\* request may reach it long after Serbero stopped waiting.
NodeAnswersTake(a) ==
  LET d == attempt[a].dispute
  IN /\ request[a] = "sent"
     /\ \/ /\ node[d].status = "initiated"
           /\ node' = [node EXCEPT ![d] = [status |-> "in-progress",
                                           holder |-> "serbero"]]
           /\ Publish(d, "in-progress", "serbero")
           /\ request' = [request EXCEPT ![a] = "granted"]
        \/ /\ node[d] = [status |-> "in-progress", holder |-> "serbero"]
           /\ request' = [request EXCEPT ![a] = "repeated"]
           /\ UNCHANGED nodeVars
        \/ /\ node[d].status # "initiated"
           /\ request' = [request EXCEPT ![a] = "refused"]
           /\ UNCHANGED nodeVars
     /\ UNCHANGED <<notifierOnly, dbVars, ownTakes, requests, boot, started, attempt,
                    notice, timedOut>>

TakeGranted(a) ==
  /\ attempt[a].step = "asking"
  /\ request[a] \in {"granted", "repeated"}
  /\ Goes(a, "creating")
  /\ UNCHANGED <<notifierOnly, nodeVars, dbVars, ownTakes, requests, boot, started,
                 request, notice, timedOut>>

TakeRefused(a) ==
  /\ attempt[a].step = "asking"
  /\ request[a] = "refused"
  /\ Returns(a)
  /\ UNCHANGED <<notifierOnly, nodeVars, dbVars, requests, boot, started, request,
                 notice, timedOut>>

\* TakeError::MissingInfo: the node granted the take but sent no dispute
\* info; consider returns as if the dispute had not been taken.
TakeWithoutInfo(a) ==
  /\ attempt[a].step = "asking"
  /\ request[a] \in {"granted", "repeated"}
  /\ Returns(a)
  /\ UNCHANGED <<notifierOnly, nodeVars, dbVars, requests, boot, started, request,
                 notice, timedOut>>

\* The mistake would be to wait for the answer without a deadline.
TakeWaitsForever(a) == FALSE

TakeTimesOut(a) ==
  /\ attempt[a].step = "asking"
  /\ Returns(a)
  /\ timedOut' = timedOut \union {a}
  /\ UNCHANGED <<notifierOnly, nodeVars, dbVars, requests, boot, started, request,
                 notice>>

-----------------------------------------------------------------------------
(* Mediator::create_session and greet.                                     *)

\* The answer lacks a trade key: there is no session to hand off.
KeysMissing(a) ==
  /\ attempt[a].step = "creating"
  /\ Goes(a, "abandon_bare")
  /\ UNCHANGED <<notifierOnly, nodeVars, dbVars, ownTakes, requests, boot, started,
                 request, notice, timedOut>>

\* The mistake would be to insert without the unique index.
MayInsertBeside(d) == TRUE
MayInsert(d) == LiveFor(d) = {}

\* After the order facts were fetched (which takes time): sessions::insert
\* under the partial unique index, stamped with the time of the insert.
InsertSession(a) ==
  LET d == attempt[a].dispute
  IN /\ attempt[a].step = "creating"
     /\ IF MayInsert(d)
        THEN /\ session' = [session EXCEPT ![a] =
                              [state |-> "opening", dispute |-> d, openedAt |-> clock]]
             /\ Goes(a, "subscribing")
        ELSE /\ Goes(a, "abandon_bare")
             /\ UNCHANGED session
     /\ UNCHANGED <<notifierOnly, nodeVars, row, ownTakes, requests, boot, started,
                    request, notice, timedOut>>

\* Chats::open; when it fails, create_session returns an error and open()
\* no longer has the session it inserted.
OpenChats(a) ==
  /\ attempt[a].step = "subscribing"
  /\ Goes(a, "greet_buyer") \/ Goes(a, "abandon_bare")
  /\ UNCHANGED <<notifierOnly, nodeVars, dbVars, ownTakes, requests, boot, started,
                 request, notice, timedOut>>

\* send_to_party checks that the session is not over; a relay may accept
\* the message or none does.
Greet(a) ==
  LET next == IF attempt[a].step = "greet_buyer" THEN "greet_seller" ELSE "activate"
  IN /\ attempt[a].step \in Greeting
     /\ \/ session[a].state \notin Terminal /\ Goes(a, next)
        \/ Goes(a, "abandon")
     /\ UNCHANGED <<notifierOnly, nodeVars, dbVars, ownTakes, requests, boot, started,
                    request, notice, timedOut>>

\* The mistake would be to update the row without looking at its state.
MayActivateAny(a) == TRUE
MayActivate(a) == session[a].state \in Live

\* set_state(Active): any session that is not over.
Activate(a) ==
  /\ attempt[a].step = "activate"
  /\ session' = IF MayActivate(a)
                THEN [session EXCEPT ![a].state = "active"] ELSE session
  /\ Goes(a, "tell")
  /\ UNCHANGED <<notifierOnly, nodeVars, row, ownTakes, requests, boot, started,
                 request, notice, timedOut>>

\* The solvers hear that mediation started; then consider() returns.
Tell(a) ==
  /\ attempt[a].step = "tell"
  /\ Returns(a)
  /\ UNCHANGED <<notifierOnly, nodeVars, dbVars, requests, boot, started, request,
                 notice, timedOut>>

-----------------------------------------------------------------------------
(* Mediator::abandon: Serbero holds the dispute but cannot mediate it.     *)

\* The mistake would be to record the notice only after trying to send it.
NoticeAfterSending(d) == notice
NoticePending(d) == [notice EXCEPT ![d] = "pending"]

\* One transaction: the handoff of the session open() still has, and the
\* pending notice.
Abandon(a) ==
  /\ attempt[a].step \in {"abandon", "abandon_bare"}
  /\ session' = IF /\ attempt[a].step = "abandon"
                   /\ session[a].state \in {"opening", "active", "guiding"}
                THEN [session EXCEPT ![a].state = "handed_off"] ELSE session
  /\ notice' = NoticePending(attempt[a].dispute)
  /\ Goes(a, "notify")
  /\ UNCHANGED <<notifierOnly, nodeVars, row, ownTakes, requests, boot, started,
                 request, timedOut>>

\* send_opening_notice: closed once a solver got it.
SendNotice(a) ==
  /\ attempt[a].step = "notify"
  /\ Returns(a)
  /\ \/ notice' = [notice EXCEPT ![attempt[a].dispute] = "sent"]
     \/ UNCHANGED notice
  /\ UNCHANGED <<notifierOnly, nodeVars, dbVars, requests, boot, started, request,
                 timedOut>>

\* The mistake would be to retry for waiting disputes: a dispute with a
\* failed opening is a taken one.
RetriesWaiting(d) == notice[d] = "pending" /\ row[d].lifecycle \in Waiting
Retries(d) == notice[d] = "pending" /\ row[d].lifecycle # "resolved"

\* timers::retry_opening_notices, when a solver receives it.
RetryNotice(d) ==
  /\ Retries(d)
  /\ notice' = [notice EXCEPT ![d] = "sent"]
  /\ UNCHANGED <<notifierVars, boot, started, attempt, request, timedOut>>

-----------------------------------------------------------------------------

OpeningInit ==
  /\ NotifierInit
  /\ boot = "starting"
  /\ started = 0
  /\ attempt = [a \in Attempts |-> IdleAttempt]
  /\ request = [a \in Attempts |-> "none"]
  /\ notice = [d \in Disputes |-> "none"]
  /\ timedOut = {}

\* A restart ends every attempt where it stands.
OpeningRestart ==
  /\ Restart
  /\ boot' = "starting"
  /\ attempt' = [a \in Attempts |->
                   IF attempt[a].step = "idle" THEN attempt[a]
                   ELSE [attempt[a] EXCEPT !.step = "done"]]
  /\ UNCHANGED <<started, request, notice, timedOut>>

Startup == InstallHooks \/ JudgePassesChecks \/ Reconsider

\* A step of the call of consider itself, never of the node.
Considers(a) ==
  \/ \E d \in Disputes : ClaimReads(a, d)
  \/ ClaimDecides(a)
  \/ NodeUnfit(a) \/ SendsTake(a)
  \/ TakeGranted(a) \/ TakeRefused(a) \/ TakeWithoutInfo(a) \/ TakeTimesOut(a)
  \/ KeysMissing(a) \/ InsertSession(a) \/ OpenChats(a)
  \/ Greet(a) \/ Activate(a) \/ Tell(a)
  \/ Abandon(a) \/ SendNotice(a)

OpeningNext ==
  \/ NotifierNext /\ UNCHANGED openingVars
  \/ Startup
  \/ \E a \in Attempts : Considers(a) \/ NodeAnswersTake(a)
  \/ \E d \in Disputes : RetryNotice(d)
  \/ OpeningRestart

OpeningSpec == OpeningInit /\ [][OpeningNext]_vars

(* Every await of an attempt is bounded by a timeout, so an attempt always *)
(* goes on; the timer task keeps ticking and a solver is reachable again.  *)
OpeningFairness ==
  /\ \A a \in Attempts : WF_vars(Considers(a))
  /\ \A d \in Disputes : WF_vars(RetryNotice(d))

FairOpeningSpec == OpeningSpec /\ OpeningFairness

-----------------------------------------------------------------------------
(* Properties.                                                             *)

OpeningTypeOK ==
  /\ NotifierTypeOK
  /\ boot \in {"starting", "checking", "ready", "reconsidered"}
  /\ started \in Nat
  /\ attempt \in [Attempts -> AttemptState]
  /\ request \in [Attempts -> {"none", "sent", "granted", "repeated", "refused"}]
  /\ notice \in [Disputes -> {"none", "pending", "sent"}]
  /\ timedOut \in SUBSET Attempts

\* Two calls of consider for one dispute, from its first DM, a reminder or
\* the reconsideration, never take it at the same time, however their
\* reads and claims interleave and whatever a restart cut off (claim,
\* release).
TakesNeverOverlap ==
  \A a, b \in Attempts :
    /\ attempt[a].step \in Claimed
    /\ attempt[b].step \in Claimed
    /\ attempt[a].dispute = attempt[b].dispute
    => a = b

\* A dispute has at most one session that is not over, also when a second
\* attempt decided on a stale read of the sessions table (sessions::insert
\* and its partial unique index).
OneLiveSession ==
  \A a, b \in Attempts :
    /\ session[a].state \in Live
    /\ session[b].state \in Live
    /\ session[a].dispute = session[b].dispute
    => a = b

\* Serbero's own take never supersedes Serbero's own session, whenever the
\* in-progress revision of that take is delivered: a superseded session has
\* seen a revision of a person's take newer than its opening
\* (create_session stamps opened_at at the insert; transition compares).
OnlyPeopleSupersede ==
  \A a \in Attempts : session[a].state = "superseded" =>
    \E r \in seen[session[a].dispute] :
      r.by = "human" /\ r.status = "in-progress" /\ r.at > session[a].openedAt

\* A session that opening gave up on always has the notice that asks the
\* solvers to take over, pending or sent, wherever a restart falls
\* (abandon writes both in one transaction).
AbandonedIsNoticed ==
  \A a \in Attempts :
    session[a].state = "handed_off" => notice[session[a].dispute] # "none"

\* Mediation never gets ahead of notification: a dispute Serbero takes or
\* has a session for was first heard of by a solver (claim requires
\* `notified`, mark_notified a delivered DM).
NotificationComesFirst ==
  \A a \in Attempts :
    /\ attempt[a].step \in Claimed => told[attempt[a].dispute] # {}
    /\ session[a].state # "none" => told[session[a].dispute] # {}

\* When solvers are told that someone else took the dispute on the revision
\* of Serbero's own take, no granted attempt is at work on it and none of
\* its sessions lives (taken_by_serbero reads own_takes first, then the live
\* session: an attempt inserts its session before it releases the dispute).
OwnTakeAnnouncedAsOwn ==
  [][\A t \in Tasks :
       LET d == task[t].dispute
       IN (/\ task[t].step \in {"own_takes", "live_session"}
           /\ task[t].revision = "serbero"
           /\ task'[t].step = "idle"
           /\ announced'[d] = "other")
          => \A a \in Attempts :
               /\ ~(session[a].dispute = d /\ session[a].state \in Live)
               /\ ~(/\ attempt[a].dispute = d /\ attempt[a].step \in Claimed
                    /\ request[a] = "granted")]_vars

\* The sessions table as the rest of Serbero knows it.
Life == INSTANCE SessionLife
          WITH Sessions <- Attempts,
               state <- [a \in Attempts |-> session[a].state],
               dispute <- [a \in Attempts |-> session[a].dispute]

\* Opening sessions implements the life of a session: whatever the tasks
\* interleave, no row moves back, ends twice or lives beside another.
SessionsHaveALife == Life!LifeSpec

\* Every attempt returns, so no dispute stays claimed in own_takes: each
\* wait on the node or on a relay is bounded (MOSTRO_TIMEOUT).
AttemptsReturn ==
  \A a \in Attempts :
    (attempt[a].step \in {"claiming"} \union Claimed) ~> (attempt[a].step = "done")

\* A pending opening notice reaches a solver or its dispute is resolved,
\* also when the attempt's own try failed or a restart came before it
\* (retry_opening_notices).
NoticeArrives ==
  \A d \in Disputes :
    (notice[d] = "pending") ~> (notice[d] = "sent" \/ row[d].lifecycle = "resolved")

-----------------------------------------------------------------------------
(* What the documents and comments say and the code does not do.           *)

\* docs/spec.md 10: "Take-dispute fails or times out: No session; the
\* dispute stays a normal notified dispute".  A request that reached the
\* node although its answer did not makes the node publish Serbero's take,
\* which handle_event records as taken.
TimedOutStaysNotified ==
  \A a \in timedOut :
    LET d == attempt[a].dispute
    IN (\A r \in published[d] : r.by # "human") =>
         row[d].lifecycle \in {"notified", "resolved"}

\* docs/spec.md 6, step 5: "On a terminal dispute status, close any open
\* session".  A session inserted after the final revision was recorded is
\* never closed.
FinalClosesSession ==
  \A d \in Disputes : row[d].lifecycle = "resolved" => LiveFor(d) = {}

=============================================================================
