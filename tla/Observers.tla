----------------------------- MODULE Observers -----------------------------
(***************************************************************************)
(* Observer notices (src/src/notifier/observers.rs, mediation/             *)
(* observers.rs, and their queries in store/events.rs): mediation queues   *)
(* one in the transaction that records what it reports, and one task       *)
(* delivers the queue, retrying with a growing delay for a day.            *)
(*                                                                         *)
(* One dispute; its notices tell a subject to an observer.  The delivery   *)
(* task takes the time before it lists the queue, and records with that    *)
(* time whatever it did.  Any send may fail, and a failed one may still    *)
(* have reached its observer: a relay took it and the answer was late.     *)
(***************************************************************************)
EXTENDS Naturals, Sequences, SequencesExt, FiniteSets, FiniteSetsExt

CONSTANTS
  Subjects,       \* what mediation reports
  Observers,      \* whoever may be configured as an observer
  RetryWindow,    \* RETRY_WINDOW_SECS
  RetryBase, RetryMax,  \* RETRY_BASE_SECS, RETRY_MAX_SECS
  MaxDoublings,   \* doublings after which the delay grows no more
  MaxMisses,      \* bound: sends that fail
  LastTime,       \* bound: the clock
  MaxReboots      \* bound: restarts in a behaviour

ASSUME ObserversAssumption ==
  /\ IsFiniteSet(Observers) /\ MaxMisses \in Nat
  /\ RetryWindow \in Nat /\ RetryBase \in Nat \ {0} /\ RetryMax \in 0..RetryWindow
  /\ MaxDoublings \in Nat /\ LastTime \in Nat \ {0} /\ MaxReboots \in Nat

\* Arithmetic: a delay doubled more often is no shorter.
ASSUME DoublingsAssumption ==
  \A i, j \in 0..MaxDoublings :
    /\ RetryBase * 2^i \in Nat
    /\ i <= j => RetryBase * 2^i <= RetryBase * 2^j

VARIABLES
  time,        \* Unix seconds
  configured,  \* the configured observers
  queue,       \* observer_pending events, by id
  failed,      \* observer_failed events: their stamps
  notified,    \* observer_notified events: their stamps
  deliverer,   \* the delivery task
  booted,      \* the process runs
  reboots,
  misses,      \* the sends that failed
  told,        \* history: how often a relay took a notice
  unheard      \* history: how often one did and no record says so

eventsOfObservers == <<queue, failed, notified>>
observersVars == <<time, configured, eventsOfObservers, deliverer, booted, reboots,
                   misses, told, unheard>>

Notice == [subject: Subjects, observer: Observers]

\* The batch of a pass: the ids it has still to visit, each with the failures it
\* read.
Asleep == [step |-> "asleep", now |-> 0, batch |-> << >>]

Since(now) == IF now > RetryWindow THEN now - RetryWindow ELSE 0

-----------------------------------------------------------------------------
(* queue: inside the transaction of what is reported.                      *)

\* observer_queued: however long ago.
Queued(n) == \E i \in DOMAIN queue : queue[i].notice = n

QueueSubject(subject) ==
  LET new == {n \in Notice : /\ n.subject = subject
                             /\ n.observer \in configured
                             /\ ~Queued(n)}
      row(n) == [notice |-> n, at |-> time]
  IN /\ booted
     /\ new # {}
     /\ queue' = queue \o SetToSeq({row(n) : n \in new})
     /\ UNCHANGED <<time, configured, failed, notified, deliverer, booted, reboots, misses,
                    told, unheard>>

-----------------------------------------------------------------------------
(* run_observer_notices and deliver_due.                                   *)

\* A wake, or RETRY_EVERY.
Wake ==
  /\ booted
  /\ deliverer.step = "asleep"
  /\ deliverer' = [Asleep EXCEPT !.step = "awake", !.now = time]
  /\ UNCHANGED <<time, configured, eventsOfObservers, booted, reboots, misses, told, unheard>>

\* pending_observer_notices: each row with its failures, by the events of the
\* window.
StampsSince(stamps, since) == {at \in stamps : at >= since}

UndeliveredUntried(row, since) ==
  /\ row.at >= since
  /\ StampsSince(notified[row.notice] \union failed[row.notice], since) = {}

Undelivered(row, since) ==
  /\ row.at >= since
  /\ StampsSince(notified[row.notice], since) = {}

ListPending ==
  LET since == Since(deliverer.now)
      pending == {i \in DOMAIN queue : Undelivered(queue[i], since)}
  IN /\ deliverer.step = "awake"
     /\ deliverer' =
          [deliverer EXCEPT
             !.step = "sending",
             !.batch = [i \in pending |-> StampsSince(failed[queue[i].notice], since)]]
     /\ UNCHANGED <<time, configured, eventsOfObservers, booted, reboots, misses, told, unheard>>

Lesser(a, b) == IF a < b THEN a ELSE b

\* A minute, doubling up to an hour.
Wait(failures) ==
  LET doublings == IF failures > 0 THEN Lesser(failures - 1, MaxDoublings) ELSE 0
  IN Lesser(RetryBase * 2^doublings, RetryMax)

DueAtOnce(failures, now) == TRUE

Due(failures, now) ==
  \A at \in failures : now >= at + Wait(Cardinality(failures))

\* The oldest notice first.
CurrentId == Min(DOMAIN deliverer.batch)

Current == queue[CurrentId].notice

HasCurrent == deliverer.step = "sending" /\ DOMAIN deliverer.batch # {}

Tried ==
  /\ Current.observer \in configured
  /\ Due(deliverer.batch[CurrentId], deliverer.now)

\* The pass goes on to the next notice.
GoesOn ==
  deliverer' = [deliverer EXCEPT !.step = "sending",
                                 !.batch = [i \in DOMAIN @ \ {CurrentId} |-> @[i]]]

PassOver ==
  /\ HasCurrent
  /\ ~Tried
  /\ GoesOn
  /\ UNCHANGED <<time, configured, eventsOfObservers, booted, reboots, misses, told, unheard>>

\* A relay took the notice.
Tell ==
  /\ HasCurrent
  /\ Tried
  /\ told' = [told EXCEPT ![Current] = @ + 1]
  /\ deliverer' = [deliverer EXCEPT !.step = "told"]
  /\ UNCHANGED <<time, configured, eventsOfObservers, booted, reboots, misses, unheard>>

RecordTold ==
  /\ deliverer.step = "told"
  /\ notified' = [notified EXCEPT ![Current] = @ \union {deliverer.now}]
  /\ GoesOn
  /\ UNCHANGED <<time, configured, queue, failed, booted, reboots, misses, told, unheard>>

\* An error, or SEND_TIMEOUT passed: after a relay took the notice, if taken.
FailToTell(taken) ==
  LET copies == IF taken THEN 1 ELSE 0
  IN /\ HasCurrent
     /\ Tried
     /\ misses < MaxMisses
     /\ misses' = misses + 1
     /\ failed' = [failed EXCEPT ![Current] = @ \union {deliverer.now}]
     /\ told' = [told EXCEPT ![Current] = @ + copies]
     /\ unheard' = [unheard EXCEPT ![Current] = @ + copies]
     /\ GoesOn
     /\ UNCHANGED <<time, configured, queue, notified, booted, reboots>>

Sleep ==
  /\ deliverer.step = "sending"
  /\ DOMAIN deliverer.batch = {}
  /\ deliverer' = Asleep
  /\ UNCHANGED <<time, configured, eventsOfObservers, booted, reboots, misses, told, unheard>>

-----------------------------------------------------------------------------
PassTime ==
  /\ time < LastTime
  /\ time' = time + 1
  /\ UNCHANGED <<configured, eventsOfObservers, deliverer, booted, reboots, misses, told, unheard>>

ShutDown ==
  /\ booted
  /\ reboots < MaxReboots
  /\ reboots' = reboots + 1
  /\ booted' = FALSE
  /\ unheard' = IF deliverer.step = "told" THEN [unheard EXCEPT ![Current] = @ + 1]
                                           ELSE unheard
  /\ deliverer' = Asleep
  /\ UNCHANGED <<time, configured, eventsOfObservers, misses, told>>

\* A restart reads the configuration again.
Boot(observers) ==
  /\ ~booted
  /\ booted' = TRUE
  /\ configured' = observers
  /\ UNCHANGED <<time, eventsOfObservers, deliverer, reboots, misses, told, unheard>>

ObserversInit ==
  /\ time = 1
  /\ configured = Observers
  /\ queue = << >>
  /\ failed = [n \in Notice |-> {}]
  /\ notified = [n \in Notice |-> {}]
  /\ deliverer = Asleep
  /\ booted = TRUE /\ reboots = 0
  /\ told = [n \in Notice |-> 0]
  /\ misses = 0 /\ unheard = [n \in Notice |-> 0]

ObserversNext ==
  \/ \E subject \in Subjects : QueueSubject(subject)
  \/ Wake \/ ListPending \/ PassOver \/ Tell \/ RecordTold \/ Sleep
  \/ \E taken \in BOOLEAN : FailToTell(taken)
  \/ PassTime \/ ShutDown
  \/ \E observers \in SUBSET Observers : Boot(observers)

\* The next step of the delivery task.
Deliver ==
  \/ ListPending \/ PassOver \/ Tell \/ RecordTold \/ Sleep
  \/ \E taken \in BOOLEAN : FailToTell(taken)

\* The runtime polls the task, a send ends or is cut off by its timeout, time
\* passes, and the process is started again.  No send owes success: the budget
\* of MaxMisses runs out.
ObserversFairness ==
  /\ WF_observersVars(Wake)
  /\ WF_observersVars(Deliver)
  /\ WF_observersVars(PassTime)
  /\ WF_observersVars(\E observers \in SUBSET Observers : Boot(observers))

ObserversSpec == ObserversInit /\ [][ObserversNext]_observersVars

ObserversFairSpec == ObserversSpec /\ ObserversFairness

-----------------------------------------------------------------------------
Rows(n) == {i \in DOMAIN queue : queue[i].notice = n}

\* Types.  Only a running process delivers, and only what was queued, which
\* was queued once.
ObserversTypeOK ==
  /\ time \in 1..LastTime
  /\ configured \subseteq Observers
  /\ queue \in Seq([notice: Notice, at: 1..LastTime])
  /\ failed \in [Notice -> SUBSET (1..LastTime)]
  /\ notified \in [Notice -> SUBSET (1..LastTime)]
  /\ deliverer.step \in {"asleep", "awake", "sending", "told"}
  /\ deliverer.now \in 0..LastTime
  /\ ~booted => deliverer = Asleep
  /\ misses \in 0..MaxMisses
  /\ told \in [Notice -> Nat] /\ unheard \in [Notice -> Nat]
  /\ \A n \in Notice : /\ Cardinality(Rows(n)) <= 1
                       /\ Rows(n) = {} => told[n] = 0 /\ failed[n] = {}

\* Whether the record of a delivery is older than the notice: the task took its
\* time, then the notice was queued, then the task listed it.
Backdated(n) ==
  \E i \in Rows(n), at \in notified[n] : at < queue[i].at

\* An observer is told a subject once, however often mediation reports it, and
\* once more for each time a relay took the notice and no record says so: its
\* answer came after SEND_TIMEOUT, or a restart cut off the record.  The
\* exception is a record older than its notice, which leaves the window first
\* (notifier/observers.rs queue, store/events.rs pending_observer_notices).
ToldOnce ==
  \A n \in Notice : told[n] > 1 + unheard[n] => Backdated(n)

\* What delay the retries of a notice keep: a failure waits at least as long as
\* the ones before it did, so a day has few of them
\* (notifier/observers.rs due).
RetriesBackOff ==
  \A n \in Notice : \A at, next \in failed[n] :
    at < next =>
      next - at >= Wait(Cardinality({t \in failed[n] : t <= at /\ t >= Since(next)}))

\* The queue repeats no notice it knows told, and hurries none that failed
\* (notifier/observers.rs deliver_due).
NoticesAreSound == ToldOnce /\ RetriesBackOff

\* Whether the run's clock ends before the notice may be tried again.
NeverDue(n) ==
  LET failures == StampsSince(failed[n], Since(LastTime))
  IN \E at \in failures : at + Wait(Cardinality(failures)) > LastTime

\* A notice arrives, whichever sends failed before, or its day passes, or the
\* configuration drops the observer; or the run ends before its next retry
\* (notifier/observers.rs deliver_due).
NoticesArrive ==
  \A n \in Notice :
    Rows(n) # {}
      ~> \/ notified[n] # {}
         \/ n.observer \notin configured
         \/ \E i \in Rows(n) : time > queue[i].at + RetryWindow
         \/ NeverDue(n)

=============================================================================
