------------------------------ MODULE Closing ------------------------------
(***************************************************************************)
(* The closing of a mediated dispute: the thanks to the parties who        *)
(* resolved it and the final report to the solvers (Mediator::finish and   *)
(* finish_pending in src/src/mediation/guide.rs).                          *)
(*                                                                         *)
(* Three tasks close a dispute: the hook the notifier calls once it        *)
(* recorded the resolution, the pass after the first backlog sync, and     *)
(* each tick of the timers.  They share a mutex; what a send did is known  *)
(* by its record, which follows it.                                        *)
(***************************************************************************)
EXTENDS Naturals, Sequences, SequencesExt, FiniteSets

CONSTANTS
  Solvers,           \* recipients of the report
  Lookback,          \* FINISH_LOOKBACK_SECS
  LastDay,           \* bound: the clock
  MaxUnsent,         \* bound: sends that fail
  MaxKills           \* bound: restarts in a behaviour

ASSUME ClosingAssumption ==
  /\ IsFiniteSet(Solvers) /\ Solvers # {}
  /\ Solvers \intersect {"buyer", "seller"} = {}
  /\ Lookback \in Nat /\ LastDay \in Nat /\ MaxUnsent \in Nat /\ MaxKills \in Nat

VARIABLES
  day,         \* the clock
  mediation,   \* the dispute's latest session: its state, and whether it has a
               \* handoff reason
  resolution,  \* the `resolved` event
  thanks,      \* resolved_thanks rows of messages, per party
  reports,     \* final_report notification_sent events, per solver
  finished,    \* `finished` events
  alive,       \* the process runs
  swept,       \* the pass after the first sync was made
  closer,      \* what each task is doing
  unsent, kills

recordVars == <<thanks, reports, finished>>
closingVars == <<day, mediation, resolution, recordVars, alive, swept, closer, unsent,
                 kills>>

Closers == {"hook", "startup", "timer"}

Parties == <<"buyer", "seller">>

NoResolution == [by_parties |-> FALSE, at |-> 0, known |-> FALSE]

Idle == [step |-> "idle", jobs |-> << >>, ok |-> TRUE, told |-> FALSE]

\* The store's lifecycle of a session, as far as a closing reads it.
MediationState == {"none", "live", "closed", "superseded"}

-----------------------------------------------------------------------------
(* The dispute.                                                            *)

\* Opening inserts the session, perhaps after the dispute was resolved.
Mediate ==
  /\ alive
  /\ mediation.state = "none"
  /\ mediation' = [mediation EXCEPT !.state = "live"]
  /\ UNCHANGED <<day, resolution, recordVars, alive, swept, closer, unsent, kills>>

\* hand_off.
GetReason ==
  /\ alive
  /\ mediation.state = "live" /\ ~mediation.reason
  /\ mediation' = [mediation EXCEPT !.reason = TRUE]
  /\ UNCHANGED <<day, resolution, recordVars, alive, swept, closer, unsent, kills>>

\* A solver takes the dispute over.
Supersede ==
  /\ alive
  /\ ~resolution.known
  /\ mediation.state = "live"
  /\ mediation' = [mediation EXCEPT !.state = "superseded"]
  /\ UNCHANGED <<day, resolution, recordVars, alive, swept, closer, unsent, kills>>

\* The notifier records the final status, ends the live session, and calls the
\* hook if it is installed.
Resolve(by_parties, hooked) ==
  /\ alive
  /\ ~resolution.known
  /\ resolution' = [by_parties |-> by_parties, at |-> day, known |-> TRUE]
  /\ mediation' = IF mediation.state = "live"
                  THEN [mediation EXCEPT !.state = "closed"] ELSE mediation
  /\ closer' = IF hooked THEN [closer EXCEPT !["hook"].step = "called"] ELSE closer
  /\ UNCHANGED <<day, recordVars, alive, swept, unsent, kills>>

NextDay ==
  /\ day < LastDay
  /\ day' = day + 1
  /\ UNCHANGED <<mediation, resolution, recordVars, alive, swept, closer, unsent, kills>>

-----------------------------------------------------------------------------
(* finish and finish_pending.                                              *)

Reported == \E s \in Solvers : reports[s] > 0

\* unfinished_resolutions.
Unfinished ==
  /\ resolution.known
  /\ resolution.at + Lookback >= day
  /\ mediation.state # "none"
  /\ finished = 0

\* The pass after the first sync; the timers.
Sweep(t) ==
  /\ alive
  /\ t \in {"startup", "timer"}
  /\ closer[t].step = "idle"
  /\ t = "startup" => ~swept
  /\ closer' = IF Unfinished THEN [closer EXCEPT ![t].step = "called"] ELSE closer
  /\ swept' = (swept \/ t = "startup")
  /\ UNCHANGED <<day, mediation, resolution, recordVars, alive, unsent, kills>>

MayCloseBeside == TRUE

\* Nobody holds the mutex `finishing`.
MayClose == \A t \in Closers : closer[t].step \in {"idle", "called"}

\* outcome: what the session recorded before it ended.
SelfResolved ==
  /\ ~mediation.reason
  /\ mediation.state # "superseded"
  /\ resolution.by_parties

\* The session and the history, read under the mutex, say what is to be sent.
Enter(t) ==
  /\ closer[t].step = "called"
  /\ MayClose
  /\ closer' =
       [closer EXCEPT ![t] =
          IF mediation.state = "none" \/ finished > 0
          THEN Idle
          ELSE [step |-> "sending",
                jobs |-> (IF SelfResolved THEN Parties ELSE << >>)
                           \o (IF Reported THEN << >> ELSE SetToSeq(Solvers)),
                ok |-> TRUE,
                told |-> Reported]]
  /\ UNCHANGED <<day, mediation, resolution, recordVars, alive, swept, unsent, kills>>

ToParty(job) == job \in ToSet(Parties)

\* A party with a record of its thanks is not thanked again.
Received(job) == ToParty(job) /\ thanks[job] > 0

\* send_after_close: only a closed session.
Allowed(job) == ToParty(job) => mediation.state = "closed"

\* What a closing still has to send: its jobs, without the one it is at.
Rest(t, ok, told) ==
  [step |-> "sending", jobs |-> Tail(closer[t].jobs), ok |-> ok, told |-> told]

NextJob(t) ==
  /\ closer[t].step = "sending"
  /\ closer[t].jobs # << >>

Skip(t) ==
  /\ NextJob(t)
  /\ Received(Head(closer[t].jobs))
  /\ closer' = [closer EXCEPT ![t] = Rest(t, closer[t].ok, closer[t].told)]
  /\ UNCHANGED <<day, mediation, resolution, recordVars, alive, swept, unsent, kills>>

\* A relay accepts it.
SendJob(t) ==
  LET job == Head(closer[t].jobs)
  IN /\ NextJob(t)
     /\ ~Received(job) /\ Allowed(job)
     /\ closer' = [closer EXCEPT ![t].step = "sent"]
     /\ UNCHANGED <<day, mediation, resolution, recordVars, alive, swept, unsent, kills>>

\* No thanks for a party leave the closing unfinished; a solver who misses the
\* report does not, if another gets it.
LoseJob(t) ==
  LET job == Head(closer[t].jobs)
  IN /\ NextJob(t)
     /\ ~Received(job)
     /\ IF Allowed(job)
        THEN unsent < MaxUnsent /\ unsent' = unsent + 1
        ELSE UNCHANGED unsent
     /\ closer' = [closer EXCEPT ![t] = Rest(t, closer[t].ok /\ ~ToParty(job), closer[t].told)]
     /\ UNCHANGED <<day, mediation, resolution, recordVars, alive, swept, kills>>

\* The message, or the notification_sent event, is stored.
RecordJob(t) ==
  LET job == Head(closer[t].jobs)
  IN /\ closer[t].step = "sent"
     /\ thanks' = IF ToParty(job) THEN [thanks EXCEPT ![job] = @ + 1] ELSE thanks
     /\ reports' = IF ToParty(job) THEN reports ELSE [reports EXCEPT ![job] = @ + 1]
     /\ closer' = [closer EXCEPT ![t] = Rest(t, closer[t].ok, closer[t].told \/ ~ToParty(job))]
     /\ UNCHANGED <<day, mediation, resolution, finished, alive, swept, unsent, kills>>

\* All of it went out.
Complete(t) == closer[t].ok /\ closer[t].told

Leave(t) ==
  /\ closer[t].step = "sending"
  /\ closer[t].jobs = << >>
  /\ finished' = IF Complete(t) THEN finished + 1 ELSE finished
  /\ closer' = [closer EXCEPT ![t] = Idle]
  /\ UNCHANGED <<day, mediation, resolution, thanks, reports, alive, swept, unsent, kills>>

-----------------------------------------------------------------------------
Kill ==
  /\ alive
  /\ kills < MaxKills
  /\ kills' = kills + 1
  /\ alive' = FALSE
  /\ closer' = [t \in Closers |-> Idle]
  /\ UNCHANGED <<day, mediation, resolution, recordVars, swept, unsent>>

Revive ==
  /\ ~alive
  /\ alive' = TRUE
  /\ swept' = FALSE
  /\ UNCHANGED <<day, mediation, resolution, recordVars, closer, unsent, kills>>

ClosingInit ==
  /\ day = 0
  /\ mediation = [state |-> "none", reason |-> FALSE]
  /\ resolution = NoResolution
  /\ thanks = [p \in ToSet(Parties) |-> 0]
  /\ reports = [s \in Solvers |-> 0]
  /\ finished = 0
  /\ alive = TRUE /\ swept = FALSE
  /\ closer = [t \in Closers |-> Idle]
  /\ unsent = 0 /\ kills = 0

ClosingNext ==
  \/ Mediate \/ GetReason \/ Supersede \/ NextDay
  \/ \E by_parties, hooked \in BOOLEAN : Resolve(by_parties, hooked)
  \/ \E t \in Closers :
       \/ Sweep(t) \/ Enter(t)
       \/ Skip(t) \/ SendJob(t) \/ LoseJob(t) \/ RecordJob(t) \/ Leave(t)
  \/ Kill \/ Revive

\* The runtime polls the tasks, the timers tick, and a send ends: accepted or
\* lost, as the relays please.
ClosingFairness ==
  /\ \A t \in Closers :
       /\ WF_closingVars(Sweep(t)) /\ WF_closingVars(Enter(t))
       /\ WF_closingVars(Skip(t) \/ SendJob(t) \/ LoseJob(t))
       /\ WF_closingVars(RecordJob(t)) /\ WF_closingVars(Leave(t))
  /\ WF_closingVars(Revive)

ClosingSpec == ClosingInit /\ [][ClosingNext]_closingVars

ClosingFairSpec == ClosingSpec /\ ClosingFairness

-----------------------------------------------------------------------------
\* Types.  One closing is at work at a time.
ClosingTypeOK ==
  /\ day \in 0..LastDay
  /\ mediation \in [state: MediationState, reason: BOOLEAN]
  /\ resolution \in [by_parties: BOOLEAN, at: 0..LastDay, known: BOOLEAN]
  /\ thanks \in [ToSet(Parties) -> Nat]
  /\ reports \in [Solvers -> Nat]
  /\ finished \in 0..1
  /\ alive \in BOOLEAN /\ swept \in BOOLEAN
  /\ closer \in [Closers -> [step: {"idle", "called", "sending", "sent"},
                             jobs: Seq(ToSet(Parties) \union Solvers),
                             ok: BOOLEAN, told: BOOLEAN]]

\* Whoever closes the dispute, and however often, no party has two records of
\* thanks and no solver two of the report (mediation/guide.rs:170-172).
ClosedOnce ==
  /\ \A p \in ToSet(Parties) : thanks[p] <= 1
  /\ \A s \in Solvers : reports[s] <= 1

\* A closing recorded as finished is done: some solver has the report, and
\* parties who resolved the dispute under mediation were both thanked
\* (mediation/guide.rs:155-157).
FinishedMeansDone ==
  finished > 0 =>
    /\ Reported
    /\ SelfResolved => \A p \in ToSet(Parties) : thanks[p] = 1

\* Thanks are for parties who resolved the dispute themselves: never beside a
\* live session, one a person took over, or one handed off
\* (mediation/guide.rs outcome, chat/mod.rs send_after_close).
ThanksAreEarned ==
  \A p \in ToSet(Parties) :
    thanks[p] > 0 => /\ mediation.state = "closed" /\ ~mediation.reason
                     /\ resolution.known /\ resolution.by_parties

\* Three tasks, lost sends and restarts never record a thank or a report twice,
\* count as done what is missing, or thank who did not earn it.  A restart before
\* the record of a send repeats the send (mediation/guide.rs finish).
ClosingIsSound == ClosedOnce /\ FinishedMeansDone /\ ThanksAreEarned

\* The closing of a resolved dispute is finished in the days the sweeps look
\* back, whichever send failed and wherever a restart fell; not beside a session
\* inserted after the resolution, whose thanks are refused
\* (mediation/guide.rs finish_pending).
ClosingCompletes ==
  resolution.known /\ mediation.state # "none"
    ~> \/ finished > 0
       \/ day > resolution.at + Lookback
       \/ mediation.state = "live"

=============================================================================
