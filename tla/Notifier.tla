----------------------------- MODULE Notifier ------------------------------
(***************************************************************************)
(* Dispute detection, solver notifications and reminders                   *)
(* (src/src/notifier/mod.rs over src/src/store/disputes.rs).               *)
(*                                                                         *)
(* The Mostro node publishes revisions of each dispute; relays hand any of *)
(* them to Serbero in any order and any number of times.  Two tasks call   *)
(* Notifier::handle_event (the event loop and the backlog sync) and a      *)
(* third one runs the reminder ticks.  A call records its revision in one  *)
(* transaction and then awaits DMs to the solvers, so every other task may *)
(* move the dispute between the record and what follows from it.           *)
(*                                                                         *)
(* This module alone is Serbero with mediation disabled: no session is     *)
(* ever inserted and no hook installed.  Opening adds mediation.           *)
(***************************************************************************)
EXTENDS Integers, FiniteSets

CONSTANTS
  Disputes,       \* disputes the node publishes
  Solvers,        \* configured solvers
  Handlers,       \* tasks calling handle_event: the event loop, the backlog sync
  Reminder,       \* the reminder task
  Attempts,       \* calls of Mediator::consider; each opens at most one session
  None,           \* no dispute
  RenotifyAfter,  \* [notify].renotify_after
  MaxClock,       \* bound: the last second of a behaviour
  MaxCrashes      \* bound: restarts in a behaviour

ASSUME NotifierAssumption ==
  /\ None \notin Disputes
  /\ Reminder \notin Handlers
  /\ RenotifyAfter \in Nat
  /\ MaxClock \in Nat
  /\ MaxCrashes \in Nat

VARIABLES
  clock,      \* Unix seconds, one clock for the node and Serbero
  node,       \* external: status and holder of each dispute at the node
  published,  \* external: the revisions the relays may deliver
  row,        \* the disputes table
  session,    \* the sessions table, by the attempt that inserted the row
  task,       \* what each notifier task is doing
  due,        \* disputes the current reminder tick has still to visit
  ownTakes,   \* OwnTakes: disputes Serbero is taking right now
  hooked,     \* the new-dispute hook is installed
  requests,   \* requests[d]: spawned Mediator::consider calls not started yet
  crashes,    \* restarts so far
  seen,       \* history: revisions handled, applied or stale
  told,       \* history: solvers that received a new-dispute DM or a reminder
  takenChanges, \* history: how often handling a revision returned Change::Taken
  announced   \* history: who solvers were told took the dispute

nodeVars == <<node, published>>
dbVars == <<row, session>>
historyVars == <<seen, told, takenChanges, announced>>
notifierVars == <<clock, node, published, row, session, task, due, ownTakes,
                  hooked, requests, crashes, seen, told, takenChanges, announced>>

Tasks == Handlers \union {Reminder}

NoTime == -1

Status == {"initiated", "in-progress", "final"}

\* "absent" stands for a dispute with no row.
Lifecycle == {"absent", "new", "notified", "taken", "resolved"}

Waiting == {"new", "notified"}

Revision == [at : Nat, status : Status, by : {"party", "serbero", "human"}]

Row == [lifecycle : Lifecycle, status : Status \union {"none"}, statusAt : Int,
        firstSeen : Int, lastNotified : Int]

Terminal == {"closed", "superseded"}

Live == {"opening", "active", "guiding", "handed_off"}

Session == [state : {"none"} \union Live \union Terminal,
            dispute : Disputes \union {None}, openedAt : Nat]

TaskState == [step : {"idle", "announce", "mark", "own_takes", "live_session"},
              dispute : Disputes \union {None}, fresh : BOOLEAN, now : Nat,
              revision : {"party", "serbero", "human"}]

IdleTask == [step |-> "idle", dispute |-> None, fresh |-> FALSE, now |-> 0,
             revision |-> "party"]

-----------------------------------------------------------------------------
(* The node (external): it publishes a revision with every status change   *)
(* and every take.  A person may take a dispute that waits, and a solver   *)
(* with write permission may take one over, from Serbero or another.       *)

Publish(d, status, by) ==
  published' = [published EXCEPT ![d] =
                  @ \union {[at |-> clock, status |-> status, by |-> by]}]

NodeOpens(d) ==
  /\ node[d].status = "none"
  /\ node' = [node EXCEPT ![d].status = "initiated"]
  /\ Publish(d, "initiated", "party")
  /\ UNCHANGED <<clock, dbVars, task, due, ownTakes, hooked, requests, crashes,
                 historyVars>>

HumanTakes(d) ==
  /\ node[d].status \in {"initiated", "in-progress"}
  /\ node' = [node EXCEPT ![d] = [status |-> "in-progress", holder |-> "human"]]
  /\ Publish(d, "in-progress", "human")
  /\ UNCHANGED <<clock, dbVars, task, due, ownTakes, hooked, requests, crashes,
                 historyVars>>

NodeResolves(d) ==
  /\ node[d].status \in {"initiated", "in-progress"}
  /\ node' = [node EXCEPT ![d].status = "final"]
  /\ Publish(d, "final", "human")
  /\ UNCHANGED <<clock, dbVars, task, due, ownTakes, hooked, requests, crashes,
                 historyVars>>

-----------------------------------------------------------------------------
(* Notifier::handle_event: the record step, under the outbound gate and in *)
(* one transaction.                                                        *)

LiveFor(d) == {a \in Attempts : session[a].dispute = d /\ session[a].state \in Live}

\* apply_status: only a revision newer than the stored one applies.  The
\* mistake would be to apply whatever the relays deliver.
IsNewerUnordered(d, r) == TRUE
IsNewer(d, r) == r.at > row[d].statusAt

\* Change::Taken: the first in-progress revision.  The mistake would be to
\* report every newer one.
TakesAlways(d, r) == r.status = "in-progress"
Takes(d, r) == r.status = "in-progress" /\ row[d].lifecycle \in Waiting

\* The mistake would be to store the published status as the lifecycle.
NextLifecycleAsPublished(lifecycle, status) ==
  IF status = "initiated" THEN lifecycle ELSE status

\* The lifecycle after a newer revision: final resolves it, the first
\* in-progress takes it, anything else leaves it.
NextLifecycle(lifecycle, status) ==
  CASE status = "final" -> "resolved"
    [] status = "in-progress" /\ lifecycle \in Waiting -> "taken"
    [] OTHER -> lifecycle

\* The mistake would be to supersede on a revision of the opening second,
\* which may be that of Serbero's own take.
SupersedesInTheSameSecond(s, r) == r.status = "in-progress" /\ r.at >= s.openedAt
Supersedes(s, r) == r.status = "in-progress" /\ r.at > s.openedAt

\* A session row after a newer revision of its dispute: a final status
\* closes it, an in-progress one newer than its opening supersedes it.
Ended(s, d, r) ==
  IF s.dispute # d \/ s.state \notin Live THEN s
  ELSE IF r.status = "final" THEN [s EXCEPT !.state = "closed"]
  ELSE IF Supersedes(s, r) THEN [s EXCEPT !.state = "superseded"]
  ELSE s

\* What handle_event still has to do once it recorded the revision.
Follow(h, d, r, step) ==
  task' = [task EXCEPT ![h] =
             IF step = "idle" THEN IdleTask
             ELSE [step |-> step, dispute |-> d, fresh |-> TRUE, now |-> clock,
                   revision |-> r.by]]

\* A dispute Serbero did not know: only an initiated one is announced.
FirstSight(h, d, r) ==
  /\ task[h].step = "idle"
  /\ r \in published[d]
  /\ row[d].lifecycle = "absent"
  /\ row' = [row EXCEPT ![d] =
               [lifecycle |-> CASE r.status = "initiated" -> "new"
                                [] r.status = "final" -> "resolved"
                                [] OTHER -> "taken",
                status |-> r.status, statusAt |-> r.at,
                firstSeen |-> clock, lastNotified |-> NoTime]]
  /\ Follow(h, d, r, IF r.status = "initiated" THEN "announce" ELSE "idle")
  /\ seen' = [seen EXCEPT ![d] = @ \union {r}]
  /\ UNCHANGED <<clock, nodeVars, session, due, ownTakes, hooked, requests,
                 crashes, told, takenChanges, announced>>

\* A revision strictly newer than the stored one.
Applies(h, d, r) ==
  LET taken == Takes(d, r)
  IN /\ task[h].step = "idle"
     /\ r \in published[d]
     /\ row[d].lifecycle # "absent"
     /\ IsNewer(d, r)
     /\ row' = [row EXCEPT ![d].status = r.status, ![d].statusAt = r.at,
                           ![d].lifecycle = NextLifecycle(@, r.status)]
     /\ session' = [a \in Attempts |-> Ended(session[a], d, r)]
     /\ Follow(h, d, r, IF taken THEN "own_takes" ELSE "idle")
     /\ seen' = [seen EXCEPT ![d] = @ \union {r}]
     /\ takenChanges' = [takenChanges EXCEPT ![d] = @ + (IF taken THEN 1 ELSE 0)]
     /\ UNCHANGED <<clock, nodeVars, due, ownTakes, hooked, requests, crashes,
                    told, announced>>

\* A replay or an older revision changes nothing in the store.
Stale(h, d, r) ==
  /\ task[h].step = "idle"
  /\ r \in published[d]
  /\ row[d].lifecycle # "absent"
  /\ ~IsNewer(d, r)
  /\ seen' = [seen EXCEPT ![d] = @ \union {r}]
  /\ UNCHANGED <<clock, nodeVars, dbVars, task, due, ownTakes, hooked, requests,
                 crashes, told, takenChanges, announced>>

-----------------------------------------------------------------------------
(* What follows the record: DMs, the notified mark and the hook.           *)

\* A dispute is marked once a solver received the DM.  The mistake would be
\* to mark it once the DMs were attempted.
DeliveredIfAttempted(reached, recorded) == recorded
Delivered(reached, recorded) == recorded /\ reached # {}

\* notify_solvers: each solver is tried; the call fails when an attempt
\* could not be recorded, and the dispute is then not marked.  A failing
\* call also ends the reminder tick.
Announce(t) ==
  /\ task[t].step = "announce"
  /\ \E reached \in SUBSET Solvers, recorded \in BOOLEAN :
       /\ told' = [told EXCEPT ![task[t].dispute] = @ \union reached]
       /\ task' = [task EXCEPT ![t] =
                     IF Delivered(reached, recorded) THEN [@ EXCEPT !.step = "mark"]
                     ELSE IdleTask]
       /\ due' = IF t = Reminder /\ ~recorded THEN {} ELSE due
  /\ UNCHANGED <<clock, nodeVars, dbVars, ownTakes, hooked, requests, crashes,
                 seen, takenChanges, announced>>

\* The mistake would be to mark whatever became of the dispute meanwhile.
MarkableAlways(d) == row[d].lifecycle # "absent"
Markable(d) == row[d].lifecycle \in Waiting

\* disputes::mark_notified, which leaves a dispute taken or resolved
\* meanwhile alone, and then the new-dispute hook.
Mark(t) ==
  LET d == task[t].dispute
  IN /\ task[t].step = "mark"
     /\ row' = IF Markable(d)
               THEN [row EXCEPT ![d].lifecycle = "notified",
                                ![d].lastNotified = task[t].now]
               ELSE row
     /\ requests' = IF task[t].fresh /\ hooked
                    THEN [requests EXCEPT ![d] = @ + 1] ELSE requests
     /\ task' = [task EXCEPT ![t] = IdleTask]
     /\ UNCHANGED <<clock, nodeVars, session, due, ownTakes, hooked, crashes,
                    historyVars>>

\* The mistake would be to know Serbero's takes by their sessions only.
TakingNever(d) == FALSE
Taking(d) == d \in ownTakes

\* taken_by_serbero reads the takes in flight first and, in a second lock,
\* the live session.
CheckOwnTakes(t) ==
  LET d == task[t].dispute
  IN /\ task[t].step = "own_takes"
     /\ IF Taking(d)
        THEN /\ task' = [task EXCEPT ![t] = IdleTask]
             /\ announced' = [announced EXCEPT ![d] = "serbero"]
        ELSE /\ task' = [task EXCEPT ![t].step = "live_session"]
             /\ UNCHANGED announced
     /\ UNCHANGED <<clock, nodeVars, dbVars, due, ownTakes, hooked, requests,
                    crashes, seen, told, takenChanges>>

CheckLiveSession(t) ==
  LET d == task[t].dispute
  IN /\ task[t].step = "live_session"
     /\ task' = [task EXCEPT ![t] = IdleTask]
     /\ announced' = [announced EXCEPT ![d] =
                        IF LiveFor(d) # {} THEN "serbero" ELSE "other"]
     /\ UNCHANGED <<clock, nodeVars, dbVars, due, ownTakes, hooked, requests,
                    crashes, seen, told, takenChanges>>

-----------------------------------------------------------------------------
(* Notifier::remind.                                                       *)

LastHeard(d) == IF row[d].lastNotified = NoTime THEN row[d].firstSeen
                ELSE row[d].lastNotified

\* The mistake would be to remind only of disputes already announced.
AwaitingSecondNotice == {d \in Disputes : /\ row[d].lifecycle = "notified"
                                          /\ LastHeard(d) <= clock - RenotifyAfter}

\* disputes::list_awaiting_solver.
AwaitingSolver == {d \in Disputes : /\ row[d].lifecycle \in Waiting
                                    /\ LastHeard(d) <= clock - RenotifyAfter}

\* The due list, read once; the tick keeps its own `now`.
RemindTick ==
  /\ task[Reminder].step = "idle"
  /\ due = {}
  /\ AwaitingSolver # {}
  /\ due' = AwaitingSolver
  /\ task' = [task EXCEPT ![Reminder].now = clock]
  /\ UNCHANGED <<clock, nodeVars, dbVars, ownTakes, hooked, requests, crashes,
                 historyVars>>

\* Each dispute is read again right before sending.
RemindNext(d) ==
  /\ task[Reminder].step = "idle"
  /\ d \in due
  /\ due' = due \ {d}
  /\ task' = IF row[d].lifecycle \in Waiting
             THEN [task EXCEPT ![Reminder].step = "announce",
                               ![Reminder].dispute = d,
                               ![Reminder].fresh = (row[d].lifecycle = "new")]
             ELSE task
  /\ UNCHANGED <<clock, nodeVars, dbVars, ownTakes, hooked, requests, crashes,
                 historyVars>>

-----------------------------------------------------------------------------
(* Time and restarts.  The store survives a restart, nothing else does.    *)

Tick ==
  /\ clock < MaxClock
  /\ clock' = clock + 1
  /\ UNCHANGED <<nodeVars, dbVars, task, due, ownTakes, hooked, requests,
                 crashes, historyVars>>

Restart ==
  /\ crashes < MaxCrashes
  /\ crashes' = crashes + 1
  /\ task' = [t \in Tasks |-> IdleTask]
  /\ due' = {}
  /\ ownTakes' = {}
  /\ hooked' = FALSE
  /\ requests' = [d \in Disputes |-> 0]
  /\ UNCHANGED <<clock, nodeVars, dbVars, historyVars>>

NotifierInit ==
  /\ clock = 0
  /\ node = [d \in Disputes |-> [status |-> "none", holder |-> "nobody"]]
  /\ published = [d \in Disputes |-> {}]
  /\ row = [d \in Disputes |->
              [lifecycle |-> "absent", status |-> "none", statusAt |-> NoTime,
               firstSeen |-> NoTime, lastNotified |-> NoTime]]
  /\ session = [a \in Attempts |-> [state |-> "none", dispute |-> None, openedAt |-> 0]]
  /\ task = [t \in Tasks |-> IdleTask]
  /\ due = {}
  /\ ownTakes = {}
  /\ hooked = FALSE
  /\ requests = [d \in Disputes |-> 0]
  /\ crashes = 0
  /\ seen = [d \in Disputes |-> {}]
  /\ told = [d \in Disputes |-> {}]
  /\ takenChanges = [d \in Disputes |-> 0]
  /\ announced = [d \in Disputes |-> "nobody"]

NodeNext == \E d \in Disputes : NodeOpens(d) \/ HumanTakes(d) \/ NodeResolves(d)

Handle(h) ==
  \E d \in Disputes : \E r \in published[d] :
    FirstSight(h, d, r) \/ Applies(h, d, r) \/ Stale(h, d, r)

Proceed(t) == Announce(t) \/ Mark(t) \/ CheckOwnTakes(t) \/ CheckLiveSession(t)

Remind == RemindTick \/ \E d \in Disputes : RemindNext(d)

NotifierNext ==
  \/ NodeNext
  \/ \E h \in Handlers : Handle(h)
  \/ \E t \in Tasks : Proceed(t)
  \/ Remind
  \/ Tick

NotifierSpec == NotifierInit /\ [][NotifierNext \/ Restart]_notifierVars

(* A solver is reachable again and again and the attempts are recorded:    *)
(* relays come back (docs/spec.md 10), and every task is a loop the        *)
(* runtime keeps scheduling.                                               *)
ReachesSolver(t) ==
  /\ Announce(t)
  /\ task'[t].step = "mark"

NotifierFairness ==
  /\ \A t \in Tasks : WF_notifierVars(Proceed(t))
  /\ \A t \in Tasks : SF_notifierVars(ReachesSolver(t))
  /\ WF_notifierVars(Remind)

FairNotifierSpec == NotifierSpec /\ NotifierFairness

-----------------------------------------------------------------------------
(* Properties.                                                             *)

NotifierTypeOK ==
  /\ clock \in Nat
  /\ node \in [Disputes -> [status : Status \union {"none"},
                            holder : {"nobody", "serbero", "human"}]]
  /\ published \in [Disputes -> SUBSET Revision]
  /\ row \in [Disputes -> Row]
  /\ session \in [Attempts -> Session]
  /\ task \in [Tasks -> TaskState]
  /\ due \in SUBSET Disputes
  /\ ownTakes \in SUBSET Disputes
  /\ hooked \in BOOLEAN
  /\ requests \in [Disputes -> Nat]
  /\ crashes \in Nat
  /\ seen \in [Disputes -> SUBSET Revision]
  /\ told \in [Disputes -> SUBSET Solvers]
  /\ takenChanges \in [Disputes -> Nat]
  /\ announced \in [Disputes -> {"nobody", "serbero", "other"}]

\* Whatever the order and the task in which revisions were handled, the row
\* carries the newest of them, and a dispute is resolved when the newest
\* handled revision is final (ties in the same second aside) and only if
\* some handled revision was: a stale delivery from a slow relay or an
\* overlapping backlog sync never wins over a newer one (apply_status,
\* transition).
NewestWins ==
  \A d \in Disputes : row[d].lifecycle # "absent" =>
    /\ \A r \in seen[d] : r.at <= row[d].statusAt
    /\ \E r \in seen[d] : r.at = row[d].statusAt /\ r.status = row[d].status
    /\ (\A r \in seen[d] : r.at = row[d].statusAt => r.status = "final")
         => row[d].lifecycle = "resolved"
    /\ row[d].lifecycle = "resolved" => \E r \in seen[d] : r.status = "final"

\* Solvers are told that a dispute was taken at most once, although the
\* notified mark of a slow DM may come after the taking revision: the mark
\* must not put a taken dispute back among the waiting ones (mark_notified).
TakenOnce == \A d \in Disputes : takenChanges[d] <= 1

Rank(lifecycle) ==
  CASE lifecycle = "absent" -> 0
    [] lifecycle = "new" -> 1
    [] lifecycle = "notified" -> 2
    [] lifecycle = "taken" -> 3
    [] OTHER -> 4

\* No step of any task, restarts included, moves a dispute back in its
\* lifecycle new, notified, taken, resolved (docs/spec.md 6): neither a late
\* mark nor a late revision puts a taken dispute back among the waiting.
LifecycleForward ==
  [][\A d \in Disputes : Rank(row[d].lifecycle) <= Rank(row'[d].lifecycle)]_row

\* A dispute marked notified was really received by a solver, also when the
\* first DM failed, its attempt could not be recorded, or Serbero restarted
\* between the DM and the mark (notify_new, remind).
NotifiedWasHeard ==
  \A d \in Disputes : row[d].lifecycle = "notified" => told[d] # {}

\* A dispute whose first notification got through to nobody, or was cut
\* off by a restart, does not stay unannounced: the reminder task retries it
\* until a solver has it or it stopped waiting (remind).
SolversEventuallyHear ==
  \A d \in Disputes : (row[d].lifecycle = "new") ~> (row[d].lifecycle # "new")

=============================================================================
