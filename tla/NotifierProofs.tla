-------------------------- MODULE NotifierProofs ---------------------------
(***************************************************************************)
(* What Notifier guarantees for every set of disputes, solvers and tasks,  *)
(* every renotify_after, and behaviours of any length with any number of   *)
(* restarts.  Each invariant is shown to hold initially and to be          *)
(* preserved by every action; the step lemmas are stated without the       *)
(* specification so that Opening, which adds actions, can cite them.       *)
(***************************************************************************)
EXTENDS Notifier, TLAPS

-----------------------------------------------------------------------------
(* Type correctness.                                                       *)

\* A task between two calls, and one that goes on with its call.
LEMMA IdleTyped == IdleTask \in TaskState
BY DEF IdleTask, TaskState

LEMMA TaskStepTyped ==
  ASSUME NEW x \in TaskState,
         NEW step \in {"idle", "announce", "mark", "own_takes", "live_session"}
  PROVE  [x EXCEPT !.step = step] \in TaskState
BY DEF TaskState

\* The starting state of Serbero and the node is well typed.
LEMMA NotifierInitTyped == NotifierInit => NotifierTypeOK
<1> SUFFICES ASSUME NotifierInit PROVE NotifierTypeOK
  OBVIOUS
<1>1. row \in [Disputes -> Row]
  BY DEF NotifierInit, Row, Lifecycle, NoTime
<1>2. session \in [Attempts -> Session]
  BY DEF NotifierInit, Session
<1>3. task \in [Tasks -> TaskState]
  BY IdleTyped DEF NotifierInit
<1> QED BY <1>1, <1>2, <1>3 DEF NotifierInit, NotifierTypeOK

\* What the node publishes is a revision.
LEMMA NodeNextTyped ==
  ASSUME NotifierTypeOK, NodeNext PROVE NotifierTypeOK'
<1>1. ASSUME NEW d \in Disputes, NodeOpens(d) PROVE NotifierTypeOK'
  BY <1>1 DEF NodeOpens, Publish, NotifierTypeOK, Revision, Status, dbVars, historyVars
<1>2. ASSUME NEW d \in Disputes, HumanTakes(d) PROVE NotifierTypeOK'
  BY <1>2 DEF HumanTakes, Publish, NotifierTypeOK, Revision, Status, dbVars, historyVars
<1>3. ASSUME NEW d \in Disputes, NodeResolves(d) PROVE NotifierTypeOK'
  BY <1>3 DEF NodeResolves, Publish, NotifierTypeOK, Revision, Status, dbVars, historyVars
<1> QED BY <1>1, <1>2, <1>3 DEF NodeNext

\* Handling a revision keeps every row, session and task well typed.
LEMMA HandleTyped ==
  ASSUME NotifierTypeOK, NEW h \in Handlers, Handle(h) PROVE NotifierTypeOK'
<1>0. h \in Tasks BY DEF Tasks
<1>1. ASSUME NEW d \in Disputes, NEW r \in published[d], FirstSight(h, d, r)
      PROVE NotifierTypeOK'
  <2>1. r \in Revision BY DEF NotifierTypeOK
  <2>2. row' \in [Disputes -> Row]
    BY <1>1, <2>1 DEF FirstSight, NotifierTypeOK, Row, Revision, Lifecycle, Status, NoTime
  <2>3. task' \in [Tasks -> TaskState]
    BY <1>1, <1>0, <2>1, IdleTyped DEF FirstSight, Follow, NotifierTypeOK, TaskState, Revision
  <2> QED BY <1>1, <2>1, <2>2, <2>3 DEF FirstSight, NotifierTypeOK, nodeVars
<1>2. ASSUME NEW d \in Disputes, NEW r \in published[d], Applies(h, d, r)
      PROVE NotifierTypeOK'
  <2>1. r \in Revision BY DEF NotifierTypeOK
  <2>2. row' \in [Disputes -> Row]
    <3>1. NextLifecycle(row[d].lifecycle, r.status) \in Lifecycle
      BY DEF NextLifecycle, NotifierTypeOK, Row, Lifecycle
    <3>2. row \in [Disputes -> Row] /\ row[d] \in Row
      BY DEF NotifierTypeOK
    <3>3. [row[d] EXCEPT !.status = r.status, !.statusAt = r.at,
                         !.lifecycle = NextLifecycle(@, r.status)] \in Row
      <4>1. r.status \in Status \union {"none"} /\ r.at \in Int
        BY <2>1 DEF Revision
      <4> QED BY <4>1, <3>1, <3>2 DEF Row
    <3>4. row' = [row EXCEPT ![d] =
                    [row[d] EXCEPT !.status = r.status, !.statusAt = r.at,
                                   !.lifecycle = NextLifecycle(@, r.status)]]
      BY <1>2, <3>2 DEF Applies, Row
    <3> QED BY <3>2, <3>3, <3>4
  <2>3. task' \in [Tasks -> TaskState]
    BY <1>2, <1>0, <2>1, IdleTyped DEF Applies, Follow, NotifierTypeOK, TaskState, Revision
  <2>4. session' \in [Attempts -> Session]
    <3>1. ASSUME NEW a \in Attempts PROVE Ended(session[a], d, r) \in Session
      BY DEF NotifierTypeOK, Ended, Session, Terminal
    <3> QED BY <1>2, <3>1 DEF Applies
  <2>5. takenChanges' \in [Disputes -> Nat]
    BY <1>2 DEF Applies, NotifierTypeOK
  <2> QED BY <1>2, <2>1, <2>2, <2>3, <2>4, <2>5 DEF Applies, NotifierTypeOK, nodeVars
<1>3. ASSUME NEW d \in Disputes, NEW r \in published[d], Stale(h, d, r)
      PROVE NotifierTypeOK'
  BY <1>3 DEF Stale, NotifierTypeOK, nodeVars, dbVars
<1> QED BY <1>1, <1>2, <1>3 DEF Handle

\* So does what follows the record: DMs, the mark, the hook, the news of
\* a take.
LEMMA ProceedTyped ==
  ASSUME NotifierTypeOK, NEW t \in Tasks, Proceed(t) PROVE NotifierTypeOK'
<1>0. task[t] \in TaskState
  BY DEF NotifierTypeOK
<1>1. CASE Announce(t)
  <2>1. task' \in [Tasks -> TaskState]
    <3>1. [task[t] EXCEPT !.step = "mark"] \in TaskState
      BY <1>0, TaskStepTyped
    <3> QED BY <1>1, <3>1, IdleTyped DEF Announce, NotifierTypeOK
  <2>2. told' \in [Disputes -> SUBSET Solvers]
    <3>1. PICK reached \in SUBSET Solvers :
            told' = [told EXCEPT ![task[t].dispute] = @ \union reached]
      BY <1>1 DEF Announce
    <3>2. told \in [Disputes -> SUBSET Solvers]
      BY DEF NotifierTypeOK
    <3> QED BY <3>1, <3>2
  <2>3. due' \in SUBSET Disputes
    BY <1>1 DEF Announce, NotifierTypeOK
  <2> QED BY <1>1, <2>1, <2>2, <2>3 DEF Announce, NotifierTypeOK, nodeVars, dbVars
<1>2. CASE Mark(t)
  <2>1. row' \in [Disputes -> Row]
    <3>1. task[t].now \in Int
      BY <1>0 DEF TaskState
    <3>2. row \in [Disputes -> Row]
      BY DEF NotifierTypeOK
    <3>3. ASSUME NEW d \in Disputes
          PROVE  [row[d] EXCEPT !.lifecycle = "notified",
                                !.lastNotified = task[t].now] \in Row
      BY <3>1, <3>2 DEF Row, Lifecycle
    <3>4. row' = [row EXCEPT ![task[t].dispute] =
                    [row[task[t].dispute] EXCEPT !.lifecycle = "notified",
                                                 !.lastNotified = task[t].now]]
          \/ row' = row
      BY <1>2, <3>2 DEF Mark, Row
    <3> QED BY <3>2, <3>3, <3>4
  <2>2. task' \in [Tasks -> TaskState]
    BY <1>2, IdleTyped DEF Mark, NotifierTypeOK
  <2>3. requests' \in [Disputes -> Nat]
    <3>1. requests \in [Disputes -> Nat]
      BY DEF NotifierTypeOK
    <3>2. \/ requests' = requests
          \/ requests' = [requests EXCEPT ![task[t].dispute] = @ + 1]
      BY <1>2 DEF Mark
    <3> QED BY <3>1, <3>2
  <2> QED BY <1>2, <2>1, <2>2, <2>3 DEF Mark, NotifierTypeOK, nodeVars, historyVars
<1>3. CASE CheckOwnTakes(t)
  <2>1. task' \in [Tasks -> TaskState]
    <3>1. [task[t] EXCEPT !.step = "live_session"] \in TaskState
      BY <1>0, TaskStepTyped
    <3> QED BY <1>3, <3>1, IdleTyped DEF CheckOwnTakes, NotifierTypeOK
  <2> QED BY <1>3, <2>1 DEF CheckOwnTakes, NotifierTypeOK, nodeVars, dbVars
<1>4. CASE CheckLiveSession(t)
  <2>1. task' \in [Tasks -> TaskState]
    BY <1>4, IdleTyped DEF CheckLiveSession, NotifierTypeOK
  <2> QED BY <1>4, <2>1 DEF CheckLiveSession, NotifierTypeOK, nodeVars, dbVars
<1> QED BY <1>1, <1>2, <1>3, <1>4 DEF Proceed

\* So do reminder ticks, time and restarts.
LEMMA RemindTyped == ASSUME NotifierTypeOK, Remind PROVE NotifierTypeOK'
<1>1. CASE RemindTick
  <2>1. task' \in [Tasks -> TaskState]
    BY <1>1 DEF RemindTick, NotifierTypeOK, TaskState, Tasks
  <2> QED BY <1>1, <2>1 DEF RemindTick, AwaitingSolver, NotifierTypeOK, nodeVars, dbVars,
                         historyVars
<1>2. ASSUME NEW d \in Disputes, RemindNext(d) PROVE NotifierTypeOK'
  <2>1. task' \in [Tasks -> TaskState]
    <3>1. task \in [Tasks -> TaskState] /\ task[Reminder] \in TaskState
      BY DEF NotifierTypeOK, Tasks
    <3>2. ASSUME NEW fresh \in BOOLEAN
          PROVE  [task[Reminder] EXCEPT !.step = "announce", !.dispute = d,
                                        !.fresh = fresh] \in TaskState
      BY <3>1 DEF TaskState
    <3>3. \/ task' = task
          \/ \E fresh \in BOOLEAN :
               task' = [task EXCEPT ![Reminder].step = "announce",
                                    ![Reminder].dispute = d,
                                    ![Reminder].fresh = fresh]
      BY <1>2 DEF RemindNext
    <3>4. ASSUME NEW fresh \in BOOLEAN,
                 task' = [task EXCEPT ![Reminder].step = "announce",
                                      ![Reminder].dispute = d,
                                      ![Reminder].fresh = fresh]
          PROVE  task' = [task EXCEPT ![Reminder] =
                            [task[Reminder] EXCEPT !.step = "announce", !.dispute = d,
                                                   !.fresh = fresh]]
      BY <3>1, <3>4 DEF TaskState
    <3> QED BY <3>1, <3>2, <3>3, <3>4
  <2> QED BY <1>2, <2>1 DEF RemindNext, NotifierTypeOK, nodeVars, dbVars, historyVars
<1> QED BY <1>1, <1>2 DEF Remind

LEMMA TickTyped == ASSUME NotifierTypeOK, Tick PROVE NotifierTypeOK'
BY DEF Tick, NotifierTypeOK, nodeVars, dbVars, historyVars

LEMMA RestartTyped == ASSUME NotifierTypeOK, Restart PROVE NotifierTypeOK'
<1>1. task' \in [Tasks -> TaskState]
  BY IdleTyped DEF Restart
<1>2. hooked' \in BOOLEAN
  BY Zenon DEF Restart
<1> QED BY <1>1, <1>2 DEF Restart, NotifierTypeOK, nodeVars, dbVars, historyVars

LEMMA NotifierStepTyped ==
  ASSUME NotifierTypeOK, NotifierNext \/ Restart PROVE NotifierTypeOK'
BY NodeNextTyped, HandleTyped, ProceedTyped, RemindTyped, TickTyped, RestartTyped
   DEF NotifierNext

\* Every variable of the notifier, the tables included, keeps its type
\* through all interleavings and restarts.
THEOREM NotifierTypeCorrect == NotifierSpec => []NotifierTypeOK
<1>1. NotifierTypeOK /\ [NotifierNext \/ Restart]_notifierVars => NotifierTypeOK'
  <2>1. CASE UNCHANGED notifierVars
    BY <2>1 DEF notifierVars, NotifierTypeOK
  <2> QED BY <2>1, NotifierStepTyped
<1> QED BY <1>1, NotifierInitTyped, PTL DEF NotifierSpec

-----------------------------------------------------------------------------
(* The newest revision wins.                                               *)

\* A dispute without a row has been handled no revision.
Unseen == \A d \in Disputes : row[d].lifecycle = "absent" => seen[d] = {}

NewestInv == NotifierTypeOK /\ Unseen /\ NewestWins

\* The notified mark of a dispute that is still waiting leaves the revision
\* it carries alone, and a waiting dispute is not resolved.
LEMMA MarkKeepsNewest ==
  ASSUME NewestInv, NEW t \in Tasks, Mark(t) PROVE (Unseen /\ NewestWins)'
<1>1. row \in [Disputes -> Row] /\ seen' = seen
  BY DEF NewestInv, NotifierTypeOK, Mark, historyVars
<1>2. ASSUME NEW d \in Disputes
      PROVE  /\ row'[d].status = row[d].status
             /\ row'[d].statusAt = row[d].statusAt
             /\ \/ row'[d].lifecycle = row[d].lifecycle
                \/ row[d].lifecycle \in Waiting /\ row'[d].lifecycle = "notified"
  BY <1>1 DEF Mark, Markable, Row
<1>3. ASSUME NEW d \in Disputes, row'[d].lifecycle = "absent" PROVE seen'[d] = {}
  BY <1>1, <1>2, <1>3 DEF NewestInv, Unseen
<1>4. ASSUME NEW d \in Disputes, row'[d].lifecycle # "absent"
      PROVE  /\ \A r \in seen'[d] : r.at <= row'[d].statusAt
             /\ \E r \in seen'[d] : r.at = row'[d].statusAt /\ r.status = row'[d].status
             /\ (\A r \in seen'[d] : r.at = row'[d].statusAt => r.status = "final")
                  => row'[d].lifecycle = "resolved"
             /\ row'[d].lifecycle = "resolved" => \E r \in seen'[d] : r.status = "final"
  <2>1. row[d].lifecycle # "absent"
    BY <1>2, <1>4 DEF Waiting
  <2> QED BY <1>1, <1>2, <2>1 DEF NewestInv, NewestWins, Waiting
<1> QED BY <1>3, <1>4 DEF Unseen, NewestWins

\* Whatever revision a call of handle_event records, the row carries the
\* newest handled one afterwards.
LEMMA HandleKeepsNewest ==
  ASSUME NewestInv, NEW h \in Handlers, Handle(h) PROVE (Unseen /\ NewestWins)'
<1> USE DEF NewestInv
<1>0. row \in [Disputes -> Row] /\ seen \in [Disputes -> SUBSET Revision]
  BY DEF NotifierTypeOK
<1>d. PICK d \in Disputes : \E r \in published[d] :
        FirstSight(h, d, r) \/ Applies(h, d, r) \/ Stale(h, d, r)
  BY DEF Handle
<1>1. PICK r \in published[d] :
        FirstSight(h, d, r) \/ Applies(h, d, r) \/ Stale(h, d, r)
  BY <1>d
<1>2. r \in Revision /\ r.at \in Nat
  BY DEF NotifierTypeOK, Revision
<1>3. seen' = [seen EXCEPT ![d] = @ \union {r}]
  BY <1>1 DEF FirstSight, Applies, Stale
<1>4. \A e \in Disputes : e # d => row'[e] = row[e] /\ seen'[e] = seen[e]
  BY <1>0, <1>1, <1>3 DEF FirstSight, Applies, Stale, dbVars
<1>5. /\ row'[d].lifecycle # "absent"
      /\ \A x \in seen'[d] : x.at <= row'[d].statusAt
      /\ \E x \in seen'[d] : x.at = row'[d].statusAt /\ x.status = row'[d].status
      /\ (\A x \in seen'[d] : x.at = row'[d].statusAt => x.status = "final")
           => row'[d].lifecycle = "resolved"
      /\ row'[d].lifecycle = "resolved" => \E x \in seen'[d] : x.status = "final"
  <2>1. CASE FirstSight(h, d, r)
    <3>1. seen'[d] = {r}
      BY <1>0, <1>3, <2>1 DEF FirstSight, Unseen
    <3>2. /\ row'[d].statusAt = r.at /\ row'[d].status = r.status
          /\ row'[d].lifecycle = (CASE r.status = "initiated" -> "new"
                                    [] r.status = "final" -> "resolved"
                                    [] OTHER -> "taken")
      BY <1>0, <2>1 DEF FirstSight
    <3> QED BY <3>1, <3>2, <1>2
  <2>2. CASE Applies(h, d, r)
    <3>1. /\ row'[d].statusAt = r.at /\ row'[d].status = r.status
          /\ row'[d].lifecycle = NextLifecycle(row[d].lifecycle, r.status)
          /\ row[d].lifecycle # "absent" /\ r.at > row[d].statusAt
      BY <1>0, <2>2 DEF Applies, IsNewer, Row
    <3>2. seen'[d] = seen[d] \union {r}
      BY <1>0, <1>3
    <3>3. \A x \in seen[d] : x.at < r.at /\ x.at \in Nat
      BY <1>0, <1>2, <3>1 DEF NewestWins, Revision, Row
    <3>4. row'[d].lifecycle # "absent" /\ (r.status = "final" => row'[d].lifecycle = "resolved")
      BY <3>1 DEF NextLifecycle
    <3>5. row'[d].lifecycle = "resolved" => r.status = "final" \/ row[d].lifecycle = "resolved"
      BY <3>1 DEF NextLifecycle
    <3>6. row[d].lifecycle = "resolved" => \E x \in seen[d] : x.status = "final"
      BY <3>1 DEF NewestWins
    <3>7. \A x \in seen'[d] : x.at <= row'[d].statusAt
      BY <1>2, <3>1, <3>2, <3>3
    <3>8. r \in seen'[d] /\ r.at = row'[d].statusAt /\ r.status = row'[d].status
      BY <3>1, <3>2
    <3> QED BY <3>2, <3>4, <3>5, <3>6, <3>7, <3>8
  <2>3. CASE Stale(h, d, r)
    <3>1. row' = row /\ row[d].lifecycle # "absent" /\ ~(r.at > row[d].statusAt)
      BY <2>3 DEF Stale, IsNewer, dbVars
    <3>2. seen'[d] = seen[d] \union {r}
      BY <1>0, <1>3
    <3>3. r.at <= row[d].statusAt
      BY <1>0, <1>2, <3>1 DEF Row
    <3> QED BY <3>1, <3>2, <3>3 DEF NewestWins
  <2> QED BY <1>1, <2>1, <2>2, <2>3
<1> QED BY <1>4, <1>5 DEF Unseen, NewestWins

\* No other step touches the rows or the handled revisions.
LEMMA NewestStep ==
  ASSUME NewestInv, NotifierNext \/ Restart PROVE NewestInv'
<1>1. NotifierTypeOK'
  BY NotifierStepTyped DEF NewestInv
<1>2. ASSUME UNCHANGED <<row, seen>> PROVE (Unseen /\ NewestWins)'
  BY <1>2 DEF NewestInv, Unseen, NewestWins
<1>3. NodeNext \/ Remind \/ Tick \/ Restart => UNCHANGED <<row, seen>>
  BY DEF NodeNext, NodeOpens, HumanTakes, NodeResolves, Remind, RemindTick, RemindNext,
         Tick, Restart, dbVars, historyVars
<1>4. ASSUME NEW t \in Tasks, Proceed(t) PROVE (Unseen /\ NewestWins)'
  <2>1. CASE Mark(t)
    BY <2>1, MarkKeepsNewest
  <2>2. CASE Announce(t) \/ CheckOwnTakes(t) \/ CheckLiveSession(t)
    BY <2>2, <1>2 DEF Announce, CheckOwnTakes, CheckLiveSession, dbVars
  <2> QED BY <1>4, <2>1, <2>2 DEF Proceed
<1> QED BY <1>1, <1>2, <1>3, <1>4, HandleKeepsNewest DEF NotifierNext, NewestInv

\* However many relays, restarts and overlapping syncs deliver revisions in
\* whatever order, each row carries the newest one handled (transition,
\* apply_status).
THEOREM NewestAlwaysWins == NotifierSpec => []NewestWins
<1>1. NotifierInit => NewestInv
  BY NotifierInitTyped DEF NotifierInit, NewestInv, Unseen, NewestWins
<1>2. NewestInv /\ [NotifierNext \/ Restart]_notifierVars => NewestInv'
  <2>1. ASSUME NewestInv, UNCHANGED notifierVars PROVE NewestInv'
    BY <2>1 DEF notifierVars, NewestInv, NotifierTypeOK, Unseen, NewestWins
  <2> QED BY <2>1, NewestStep
<1>3. NewestInv => NewestWins
  BY DEF NewestInv
<1> QED BY <1>1, <1>2, <1>3, PTL DEF NotifierSpec

-----------------------------------------------------------------------------
(* The lifecycle only moves forward, and a take is news once.              *)

\* How one step may change the lifecycle of a dispute and the number of
\* times solvers were told it was taken.
LifecycleStep(d) ==
  \/ /\ row'[d].lifecycle = row[d].lifecycle
     /\ takenChanges'[d] = takenChanges[d]
  \/ /\ Rank(row[d].lifecycle) <= Rank(row'[d].lifecycle)
     /\ row'[d].lifecycle # "absent"
     /\ takenChanges'[d] = takenChanges[d]
     /\ row'[d].lifecycle \in Waiting => row[d].lifecycle \in Waiting \union {"absent"}
  \/ /\ row[d].lifecycle \in Waiting
     /\ row'[d].lifecycle = "taken"
     /\ takenChanges'[d] = takenChanges[d] + 1

\* Recording a revision.
LEMMA HandleMovesOn ==
  ASSUME NotifierTypeOK, NEW h \in Handlers, Handle(h), NEW e \in Disputes
  PROVE  LifecycleStep(e)
<1>0. row \in [Disputes -> Row] /\ takenChanges \in [Disputes -> Nat]
  BY DEF NotifierTypeOK
<1>1. PICK d \in Disputes : \E r \in published[d] :
        FirstSight(h, d, r) \/ Applies(h, d, r) \/ Stale(h, d, r)
  BY DEF Handle
<1>2. PICK r \in published[d] :
        FirstSight(h, d, r) \/ Applies(h, d, r) \/ Stale(h, d, r)
  BY <1>1
<1>3. CASE FirstSight(h, d, r)
  <2>1. CASE e = d
    <3>1. /\ row[d].lifecycle = "absent"
          /\ row'[d].lifecycle \in {"new", "resolved", "taken"}
          /\ takenChanges' = takenChanges
      BY <1>0, <1>3 DEF FirstSight
    <3> QED BY <2>1, <3>1 DEF LifecycleStep, Rank, Waiting
  <2>2. CASE e # d
    BY <1>0, <1>3, <2>2 DEF FirstSight, LifecycleStep
  <2> QED BY <2>1, <2>2
<1>4. CASE Applies(h, d, r)
  <2>0. /\ row'[d].lifecycle = NextLifecycle(row[d].lifecycle, r.status)
        /\ row[d].lifecycle \in Lifecycle \ {"absent"}
        /\ takenChanges'[d] = takenChanges[d] + (IF Takes(d, r) THEN 1 ELSE 0)
        /\ \A x \in Disputes : x # d => /\ row'[x] = row[x]
                                        /\ takenChanges'[x] = takenChanges[x]
    BY <1>0, <1>4 DEF Applies, Row
  <2>1. CASE e # d
    BY <2>0, <2>1 DEF LifecycleStep
  <2>2. CASE e = d /\ Takes(d, r)
    <3>1. row'[d].lifecycle = "taken" /\ row[d].lifecycle \in Waiting
      BY <2>0, <2>2 DEF Takes, NextLifecycle
    <3> QED BY <2>0, <2>2, <3>1 DEF LifecycleStep
  <2>3. CASE e = d /\ ~Takes(d, r)
    <3>1. takenChanges'[d] = takenChanges[d]
      BY <1>0, <2>0, <2>3
    <3>2. row'[d].lifecycle = "resolved" \/ row'[d].lifecycle = row[d].lifecycle
      BY <2>0, <2>3 DEF Takes, NextLifecycle
    <3>3. Rank(row[d].lifecycle) <= 4 /\ Rank("resolved") = 4
      BY <2>0 DEF Rank, Lifecycle
    <3> QED BY <2>3, <3>1, <3>2, <3>3 DEF LifecycleStep, Waiting
  <2> QED BY <2>1, <2>2, <2>3
<1>5. CASE Stale(h, d, r)
  BY <1>5 DEF Stale, dbVars, LifecycleStep
<1> QED BY <1>2, <1>3, <1>4, <1>5

\* Every step of every task, restarts included.
LEMMA EveryStepMovesOn ==
  ASSUME NotifierTypeOK, NotifierNext \/ Restart, NEW d \in Disputes
  PROVE  LifecycleStep(d)
<1>1. ASSUME UNCHANGED <<row, takenChanges>> PROVE LifecycleStep(d)
  BY <1>1 DEF LifecycleStep
<1>2. NodeNext \/ Remind \/ Tick \/ Restart => UNCHANGED <<row, takenChanges>>
  BY DEF NodeNext, NodeOpens, HumanTakes, NodeResolves, Remind, RemindTick, RemindNext,
         Tick, Restart, dbVars, historyVars
<1>3. ASSUME NEW t \in Tasks, Proceed(t) PROVE LifecycleStep(d)
  <2>1. CASE Mark(t)
    <3>0. row \in [Disputes -> Row] /\ takenChanges' = takenChanges
      BY <2>1 DEF NotifierTypeOK, Mark, historyVars
    <3>1. \/ row'[d].lifecycle = row[d].lifecycle
          \/ row[d].lifecycle \in Waiting /\ row'[d].lifecycle = "notified"
      BY <2>1, <3>0 DEF Mark, Markable, Row
    <3> QED BY <3>0, <3>1 DEF LifecycleStep, Rank, Waiting
  <2>2. CASE Announce(t) \/ CheckOwnTakes(t) \/ CheckLiveSession(t)
    BY <2>2, <1>1 DEF Announce, CheckOwnTakes, CheckLiveSession, dbVars
  <2> QED BY <1>3, <2>1, <2>2 DEF Proceed
<1> QED BY <1>1, <1>2, <1>3, HandleMovesOn DEF NotifierNext

LEMMA RankBounds ==
  ASSUME NEW x \in Lifecycle PROVE Rank(x) \in 0..4
BY DEF Rank, Lifecycle

\* No step of any task, late marks, late revisions and restarts included,
\* moves a dispute back in its lifecycle (mark_notified, transition).
THEOREM LifecycleNeverReturns == NotifierSpec => LifecycleForward
<1>1. ASSUME NotifierTypeOK, [NotifierNext \/ Restart]_notifierVars, NEW d \in Disputes
      PROVE  Rank(row[d].lifecycle) <= Rank(row'[d].lifecycle)
  <2>0. Rank(row[d].lifecycle) \in 0..4
    <3>1. row[d].lifecycle \in Lifecycle
      BY <1>1 DEF NotifierTypeOK, Row
    <3> QED BY <3>1, RankBounds
  <2>1. CASE UNCHANGED notifierVars
    BY <2>0, <2>1 DEF notifierVars
  <2>2. CASE NotifierNext \/ Restart
    <3>1. LifecycleStep(d)
      BY <1>1, <2>2, EveryStepMovesOn
    <3> QED BY <2>0, <3>1 DEF LifecycleStep, Rank, Waiting
  <2> QED BY <1>1, <2>1, <2>2
<1>2. NotifierTypeOK /\ [NotifierNext \/ Restart]_notifierVars
        => [\A d \in Disputes : Rank(row[d].lifecycle) <= Rank(row'[d].lifecycle)]_row
  BY <1>1
<1> QED BY <1>2, NotifierTypeCorrect, PTL DEF NotifierSpec, LifecycleForward

\* While a dispute waits, or is unknown, nobody was told that it was taken.
TakenInv ==
  /\ NotifierTypeOK
  /\ TakenOnce
  /\ \A d \in Disputes :
       row[d].lifecycle \in Waiting \union {"absent"} => takenChanges[d] = 0

\* Solvers hear once that a dispute was taken, although marks of slow DMs
\* and takeovers come after it.
THEOREM TakenIsNewsOnce == NotifierSpec => []TakenOnce
<1>1. NotifierInit => TakenInv
  BY NotifierInitTyped DEF NotifierInit, TakenInv, TakenOnce
<1>2. TakenInv /\ [NotifierNext \/ Restart]_notifierVars => TakenInv'
  <2>1. ASSUME TakenInv, UNCHANGED notifierVars PROVE TakenInv'
    BY <2>1 DEF notifierVars, TakenInv, NotifierTypeOK, TakenOnce
  <2>2. ASSUME TakenInv, NotifierNext \/ Restart PROVE TakenInv'
    <3>1. NotifierTypeOK'
      BY <2>2, NotifierStepTyped DEF TakenInv
    <3>2. ASSUME NEW d \in Disputes
          PROVE  /\ takenChanges'[d] <= 1
                 /\ row'[d].lifecycle \in Waiting \union {"absent"} => takenChanges'[d] = 0
      <4>1. LifecycleStep(d)
        BY <2>2, EveryStepMovesOn DEF TakenInv
      <4> QED BY <2>2, <4>1 DEF LifecycleStep, TakenInv, TakenOnce, Waiting
    <3> QED BY <3>1, <3>2 DEF TakenInv, TakenOnce
  <2> QED BY <2>1, <2>2
<1>3. TakenInv => TakenOnce
  BY DEF TakenInv
<1> QED BY <1>1, <1>2, <1>3, PTL DEF NotifierSpec

-----------------------------------------------------------------------------
(* A notified dispute was heard of.                                        *)

\* A call that is about to mark a dispute has reached a solver with it, and
\* a call in progress is about a dispute.
HeardInv ==
  /\ NotifierTypeOK
  /\ NotifiedWasHeard
  /\ \A t \in Tasks : /\ task[t].step # "idle" => task[t].dispute \in Disputes
                      /\ task[t].step = "mark" => told[task[t].dispute] # {}

\* Nothing but a mark makes a dispute notified, and what was told stays.
LEMMA HeardStep ==
  ASSUME HeardInv, NotifierNext \/ Restart
  PROVE  HeardInv'
<1> USE DEF HeardInv
<1>0. /\ row \in [Disputes -> Row] /\ task \in [Tasks -> TaskState]
      /\ told \in [Disputes -> SUBSET Solvers] /\ Handlers \subseteq Tasks
      /\ Reminder \in Tasks
  BY DEF NotifierTypeOK, Tasks
<1>1. NotifierTypeOK'
  BY NotifierStepTyped
<1>2. CASE NodeNext \/ Tick
  BY <1>1, <1>2 DEF NodeNext, NodeOpens, HumanTakes, NodeResolves, Tick, dbVars, historyVars,
                    NotifiedWasHeard
<1>3. CASE Restart
  BY <1>1, <1>3 DEF Restart, dbVars, historyVars, NotifiedWasHeard, IdleTask
<1>4. ASSUME NEW h \in Handlers, Handle(h) PROVE HeardInv'
  <2>1. PICK d \in Disputes : \E r \in published[d] :
          FirstSight(h, d, r) \/ Applies(h, d, r) \/ Stale(h, d, r)
    BY <1>4 DEF Handle
  <2>2. PICK r \in published[d] :
          FirstSight(h, d, r) \/ Applies(h, d, r) \/ Stale(h, d, r)
    BY <2>1
  <2>3. told' = told
    BY <2>2 DEF FirstSight, Applies, Stale, historyVars
  <2>4. \A e \in Disputes : row'[e].lifecycle = "notified" => row[e].lifecycle = "notified"
    BY <1>0, <2>2 DEF FirstSight, Applies, Stale, NextLifecycle, dbVars, Row
  <2>5. \A t \in Tasks : \/ task'[t] = task[t]
                         \/ task'[t].step \in {"idle", "announce", "own_takes"}
                            /\ (task'[t].step # "idle" => task'[t].dispute = d)
    BY <1>0, <2>2 DEF FirstSight, Applies, Stale, Follow, IdleTask
  <2> QED BY <1>1, <2>3, <2>4, <2>5 DEF NotifiedWasHeard
<1>5. ASSUME NEW t \in Tasks, Proceed(t) PROVE HeardInv'
  <2>1. CASE Announce(t)
    <3>1. PICK reached \in SUBSET Solvers, recorded \in BOOLEAN :
            /\ told' = [told EXCEPT ![task[t].dispute] = @ \union reached]
            /\ task' = [task EXCEPT ![t] =
                          IF Delivered(reached, recorded) THEN [@ EXCEPT !.step = "mark"]
                          ELSE IdleTask]
      BY <2>1 DEF Announce
    <3>2. \A d \in Disputes : told[d] \subseteq told'[d]
      BY <1>0, <3>1
    <3>3. row' = row
      BY <2>1 DEF Announce, dbVars
    <3>4. task[t].dispute \in Disputes
      BY <2>1 DEF Announce
    <3>5. CASE Delivered(reached, recorded)
      <4>1. reached \subseteq told'[task[t].dispute] /\ reached # {}
        BY <1>0, <3>1, <3>4, <3>5 DEF Delivered
      <4>2. task' = [task EXCEPT ![t] = [task[t] EXCEPT !.step = "mark"]]
        BY <3>1, <3>5
      <4>3. task'[t].step = "mark" /\ task'[t].dispute = task[t].dispute
        BY <1>0, <4>2 DEF TaskState
      <4>4. \A u \in Tasks : u # t => task'[u] = task[u]
        BY <1>0, <4>2
      <4> QED BY <1>1, <3>2, <3>3, <3>4, <4>1, <4>3, <4>4 DEF NotifiedWasHeard
    <3>6. CASE ~Delivered(reached, recorded)
      <4>1. task'[t].step = "idle"
        BY <1>0, <3>1, <3>6 DEF IdleTask
      <4>2. \A u \in Tasks : u # t => task'[u] = task[u]
        BY <1>0, <3>1
      <4> QED BY <1>1, <3>2, <3>3, <4>1, <4>2 DEF NotifiedWasHeard
    <3> QED BY <3>5, <3>6
  <2>2. CASE Mark(t)
    <3>1. told' = told /\ task[t].dispute \in Disputes /\ told[task[t].dispute] # {}
      BY <2>2 DEF Mark, historyVars
    <3>2. \A d \in Disputes : d # task[t].dispute => row'[d] = row[d]
      BY <1>0, <2>2 DEF Mark
    <3>3. \A u \in Tasks : task'[u] = task[u] \/ task'[u].step = "idle"
      BY <1>0, <2>2 DEF Mark, IdleTask
    <3> QED BY <1>1, <3>1, <3>2, <3>3 DEF NotifiedWasHeard
  <2>3. CASE CheckOwnTakes(t) \/ CheckLiveSession(t)
    <3>1. told' = told /\ row' = row
      BY <2>3 DEF CheckOwnTakes, CheckLiveSession, dbVars
    <3>2. \A u \in Tasks : \/ task'[u] = task[u]
                           \/ task'[u].step = "idle"
                           \/ /\ task'[u].step = "live_session"
                              /\ task'[u].dispute = task[u].dispute
                              /\ task[u].step = "own_takes"
      BY <1>0, <2>3 DEF CheckOwnTakes, CheckLiveSession, IdleTask, TaskState
    <3> QED BY <1>1, <3>1, <3>2 DEF NotifiedWasHeard
  <2> QED BY <1>5, <2>1, <2>2, <2>3 DEF Proceed
<1>6. CASE Remind
  <2>1. told' = told /\ row' = row
    BY <1>6 DEF Remind, RemindTick, RemindNext, dbVars, historyVars
  <2>2. \A u \in Tasks : \/ task'[u] = task[u]
                         \/ task'[u].step = "idle"
                         \/ task'[u].step = "announce" /\ task'[u].dispute \in Disputes
    <3>1. CASE RemindTick
      <4>1. task'[Reminder].step = "idle"
        BY <1>0, <3>1 DEF RemindTick, TaskState
      <4>2. \A u \in Tasks : u # Reminder => task'[u] = task[u]
        BY <1>0, <3>1 DEF RemindTick
      <4> QED BY <4>1, <4>2
    <3>2. ASSUME NEW d \in Disputes, RemindNext(d)
          PROVE  \/ task' = task
                 \/ /\ task'[Reminder].step = "announce"
                    /\ task'[Reminder].dispute = d
                    /\ \A u \in Tasks : u # Reminder => task'[u] = task[u]
      BY <1>0, <3>2 DEF RemindNext, TaskState
    <3> QED BY <1>6, <3>1, <3>2 DEF Remind
  <2> QED BY <1>1, <2>1, <2>2 DEF NotifiedWasHeard
<1> QED BY <1>2, <1>3, <1>4, <1>5, <1>6 DEF NotifierNext

\* A dispute marked notified was received by a solver, whatever failed or
\* restarted between a DM and its mark (notify_new, remind).
THEOREM NotifiedIsHeard == NotifierSpec => []NotifiedWasHeard
<1>1. NotifierInit => HeardInv
  BY NotifierInitTyped DEF NotifierInit, HeardInv, NotifiedWasHeard, IdleTask
<1>2. HeardInv /\ [NotifierNext \/ Restart]_notifierVars => HeardInv'
  <2>1. ASSUME HeardInv, UNCHANGED notifierVars PROVE HeardInv'
    BY <2>1 DEF notifierVars, HeardInv, NotifierTypeOK, NotifiedWasHeard
  <2> QED BY <2>1, HeardStep
<1>3. HeardInv => NotifiedWasHeard
  BY DEF HeardInv
<1> QED BY <1>1, <1>2, <1>3, PTL DEF NotifierSpec

=============================================================================
