---------------------------- MODULE SolverProofs ----------------------------
(***************************************************************************)
(* What solvers get and answer, for any solvers, lost sends, restarts,     *)
(* clocks and days.  Closing a dispute: the mutex of finish keeps one      *)
(* closing at work, and with it no thanks and no report is recorded twice, *)
(* what is recorded as finished is done, and thanks go to those who earned *)
(* them.  Feedback: what a solver calls wrong is recorded against the      *)
(* newest judgment its brief could show, but for one turn it may not have  *)
(* shown yet.                                                              *)
(***************************************************************************)
EXTENDS Closing, Feedback, Integers, FiniteSetTheorems, WellFoundedInduction, TLAPS

\* A finite set in some order, each member once.
LEMMA EachOnce ==
  ASSUME NEW S, IsFiniteSet(S)
  PROVE  /\ SetToSeq(S) \in Seq(S) /\ (S # {} => SetToSeq(S) # << >>)
         /\ \A i, j \in DOMAIN SetToSeq(S) : SetToSeq(S)[i] = SetToSeq(S)[j] => i = j
<1> DEFINE n == Cardinality(S)
<1>1. n \in Nat /\ ExistsBijection(1..n, S)
  BY FS_CardinalityType
<1>2. \E f \in [1..n -> S] : IsInjective(f)
  BY <1>1 DEF ExistsBijection, Bijection, Injection
<1>3. SetToSeq(S) \in [1..n -> S] /\ IsInjective(SetToSeq(S))
  BY <1>2 DEF SetToSeq
<1>4. S # {} => n # 0
  BY FS_EmptySet
<1> QED
  BY <1>1, <1>3, <1>4 DEF IsInjective

-----------------------------------------------------------------------------
(* Closing a dispute (finish).                                             *)

Job == ToSet(Parties) \union Solvers

Steps == {"idle", "called", "sending", "sent"}

Closer == [step: Steps, jobs: Seq(Job), ok: BOOLEAN, told: BOOLEAN]

RecordTypes ==
  /\ mediation \in [state: MediationState, reason: BOOLEAN]
  /\ resolution \in [by_parties: BOOLEAN, at: Nat, known: BOOLEAN]
  /\ day \in Nat
  /\ thanks \in [ToSet(Parties) -> Nat]
  /\ reports \in [Solvers -> Nat]
  /\ finished \in Nat
  /\ closer \in [Closers -> Closer]

HoldsMutex(t) == closer[t].step \in {"sending", "sent"}

\* The mutex, and what whoever was called knows of the dispute.
OneAtWork ==
  /\ \A t, u \in Closers : HoldsMutex(t) /\ HoldsMutex(u) => t = u
  /\ \A t \in Closers : closer[t].step # "idle" => resolution.known
  /\ \A t \in Closers : HoldsMutex(t) => mediation.state # "none"
  /\ finished > 0 => resolution.known /\ mediation.state # "none"

\* A party whose thanks are still to be sent has earned them, if its session is
\* closed; a live one stays live, and its thanks are refused.
MayStillBeThanked ==
  /\ resolution.by_parties
  /\ mediation.state \in {"live", "closed"}
  /\ mediation.state = "closed" => ~mediation.reason

\* What the closing at work has still to send was sent to nobody, and is all
\* that is missing.
WorkFits(t) ==
  LET jobs == closer[t].jobs
  IN /\ \A i \in DOMAIN jobs : jobs[i] \in Solvers => reports[jobs[i]] = 0
     /\ \A i, j \in DOMAIN jobs : jobs[i] = jobs[j] /\ jobs[i] \in Solvers => i = j
     /\ \A i \in DOMAIN jobs : ToParty(jobs[i]) => MayStillBeThanked
     /\ closer[t].told => Reported
     /\ closer[t].ok /\ SelfResolved =>
          \A p \in ToSet(Parties) : thanks[p] > 0 \/ \E i \in DOMAIN jobs : jobs[i] = p
     /\ closer[t].step = "sent" =>
          /\ jobs # << >>
          /\ ToParty(Head(jobs)) => thanks[Head(jobs)] = 0 /\ mediation.state = "closed"

WorkInv == \A t \in Closers : HoldsMutex(t) => WorkFits(t)

ClosingInv == RecordTypes /\ OneAtWork /\ WorkInv /\ ClosingIsSound

LEMMA PartiesAre == ToSet(Parties) = {"buyer", "seller"}
  BY DEF ToSet, Parties

\* A sequence and what is left after its head.
LEMMA TailOf ==
  ASSUME NEW S, NEW q \in Seq(S), q # << >>
  PROVE  /\ Tail(q) \in Seq(S)
         /\ 1 \in DOMAIN q /\ Head(q) = q[1] /\ Head(q) \in S
         /\ \A i \in DOMAIN Tail(q) : i + 1 \in DOMAIN q /\ i + 1 # 1 /\ Tail(q)[i] = q[i + 1]
         /\ \A i \in DOMAIN q : i # 1 => i - 1 \in DOMAIN Tail(q) /\ Tail(q)[i - 1] = q[i]
  OBVIOUS

\* What a closing sets out to send.
LEMMA JobsOfACall ==
  ASSUME NEW a \in {<< >>, Parties}, NEW b \in {<< >>, SetToSeq(Solvers)}
  PROVE  /\ a \o b \in Seq(Job)
         /\ \A i \in DOMAIN (a \o b) : (a \o b)[i] \in Solvers => b # << >>
         /\ \A i, j \in DOMAIN (a \o b) :
              (a \o b)[i] = (a \o b)[j] /\ (a \o b)[i] \in Solvers => i = j
         /\ \A i \in DOMAIN (a \o b) : (a \o b)[i] \in ToSet(Parties) => a # << >>
         /\ a # << >> => \A p \in ToSet(Parties) :
                           \E i \in DOMAIN (a \o b) : (a \o b)[i] = p
<1>1. /\ a \in Seq(ToSet(Parties)) /\ b \in Seq(Solvers)
      /\ \A i, j \in DOMAIN b : b[i] = b[j] => i = j
      /\ a # << >> => a = <<"buyer", "seller">>
  <2>1. a \in Seq({"buyer", "seller"})
    <3>1. << >> \in Seq({"buyer", "seller"})
      OBVIOUS
    <3>2. <<"buyer", "seller">> \in Seq({"buyer", "seller"})
      OBVIOUS
    <3> QED
      BY <3>1, <3>2 DEF Parties
  <2>2. b \in Seq(Solvers) /\ \A i, j \in DOMAIN b : b[i] = b[j] => i = j
    <3>1. CASE b = << >>
      BY <3>1
    <3>2. CASE b = SetToSeq(Solvers)
      BY <3>2, EachOnce, ClosingAssumption
    <3> QED
      BY <3>1, <3>2
  <2>3. a # << >> => a = <<"buyer", "seller">>
    BY DEF Parties
  <2> QED
    BY <2>1, <2>2, <2>3, PartiesAre
<1>2. Solvers \intersect ToSet(Parties) = {}
  BY PartiesAre, ClosingAssumption
<1> DEFINE c == a \o b
<1>3. /\ a \o b \in Seq(Job)
      /\ DOMAIN c = 1..(Len(a) + Len(b))
      /\ \A i \in DOMAIN c : /\ i <= Len(a) => i \in DOMAIN a /\ c[i] = a[i]
                             /\ i > Len(a) => i - Len(a) \in DOMAIN b
                                              /\ c[i] = b[i - Len(a)]
  BY <1>1 DEF Job
<1>4. \A i \in DOMAIN c : /\ c[i] \in Solvers => i > Len(a)
                          /\ c[i] \in ToSet(Parties) => i <= Len(a)
  BY <1>1, <1>2, <1>3
<1>5. a # << >> => \A p \in ToSet(Parties) : \E i \in DOMAIN c : c[i] = p
  <2> SUFFICES ASSUME a # << >> PROVE \A p \in ToSet(Parties) : \E i \in DOMAIN c : c[i] = p
    OBVIOUS
  <2>1. Len(a) = 2 /\ a[1] = "buyer" /\ a[2] = "seller" /\ Len(b) \in Nat
    BY <1>1
  <2>2. 1 \in DOMAIN c /\ 2 \in DOMAIN c
    BY <1>3, <2>1
  <2>3. c[1] = "buyer" /\ c[2] = "seller"
    BY <1>3, <2>1, <2>2
  <2> QED
    BY <2>2, <2>3, PartiesAre
<1>6. \A i, j \in DOMAIN c : c[i] = c[j] /\ c[i] \in Solvers => i = j
  <2> SUFFICES ASSUME NEW i \in DOMAIN c, NEW j \in DOMAIN c, c[i] = c[j], c[i] \in Solvers
               PROVE  i = j
    OBVIOUS
  <2>1. i > Len(a) /\ j > Len(a)
    BY <1>4
  <2>2. /\ i - Len(a) \in DOMAIN b /\ j - Len(a) \in DOMAIN b
        /\ b[i - Len(a)] = b[j - Len(a)]
    BY <1>3, <2>1
  <2>3. i - Len(a) = j - Len(a)
    BY <1>1, <2>2
  <2> QED
    BY <1>1, <1>3, <2>3
<1> QED
  BY <1>1, <1>3, <1>4, <1>5, <1>6

\* A task's next step, or a new state of a task.
LEMMA StepOfATask ==
  ASSUME RecordTypes, NEW t \in Closers, NEW x \in Steps,
         closer' = [closer EXCEPT ![t].step = x]
  PROVE  /\ closer' \in [Closers -> Closer]
         /\ \A u \in Closers \ {t} : closer'[u] = closer[u]
         /\ closer'[t].step = x
         /\ closer'[t].jobs = closer[t].jobs
         /\ closer'[t].ok = closer[t].ok /\ closer'[t].told = closer[t].told
  BY DEF RecordTypes, Closer

LEMMA NewStateOfATask ==
  ASSUME RecordTypes, NEW t \in Closers, NEW c \in Closer,
         closer' = [closer EXCEPT ![t] = c]
  PROVE  /\ closer' \in [Closers -> Closer]
         /\ closer'[t] = c
         /\ \A u \in Closers \ {t} : closer'[u] = closer[u]
  BY DEF RecordTypes

LEMMA IdleIsAState == Idle \in Closer
<1>1. << >> \in Seq(Job)
  OBVIOUS
<1> QED
  BY <1>1 DEF Idle, Closer, Steps

\* A task goes on to its next job.
LEMMA NextJobOfATask ==
  ASSUME RecordTypes, NEW t \in Closers, closer[t].jobs # << >>,
         NEW ok \in BOOLEAN, NEW told \in BOOLEAN,
         closer' = [closer EXCEPT ![t] = Rest(t, ok, told)]
  PROVE  /\ closer' \in [Closers -> Closer]
         /\ \A u \in Closers \ {t} : closer'[u] = closer[u]
         /\ closer'[t].step = "sending"
         /\ closer'[t].jobs = Tail(closer[t].jobs)
         /\ closer'[t].ok = ok /\ closer'[t].told = told
<1>1. closer[t].jobs \in Seq(Job)
  BY DEF RecordTypes, Closer
<1>2. Tail(closer[t].jobs) \in Seq(Job)
  BY <1>1, TailOf
<1>3. Rest(t, ok, told) \in Closer
  BY <1>2 DEF Rest, Closer, Steps
<1>4. closer'[t] = Rest(t, ok, told)
  BY <1>3, NewStateOfATask
<1> QED
  BY <1>3, <1>4, NewStateOfATask DEF Rest

LEMMA ClosingStarts == ClosingInit => ClosingInv
<1> SUFFICES ASSUME ClosingInit PROVE ClosingInv
  OBVIOUS
<1>1. RecordTypes
  BY IdleIsAState DEF ClosingInit, RecordTypes, MediationState, NoResolution
<1>2. \A t \in Closers : closer[t].step = "idle"
  BY DEF ClosingInit, Idle
<1>3. OneAtWork /\ WorkInv
  BY <1>2 DEF OneAtWork, WorkInv, HoldsMutex, ClosingInit
<1>4. ClosingIsSound
  BY DEF ClosingInit, ClosingIsSound, ClosedOnce, FinishedMeansDone, ThanksAreEarned
<1> QED
  BY <1>1, <1>3, <1>4 DEF ClosingInv

(* The dispute.                                                            *)

\* Before the resolution nobody closes, and nothing was thanked or finished.
LEMMA BeforeTheResolution ==
  ASSUME ClosingInv, ~resolution.known
  PROVE  /\ \A t \in Closers : closer[t].step = "idle"
         /\ finished = 0
         /\ \A p \in ToSet(Parties) : ~(thanks[p] > 0)
<1>1. finished \in Nat
  BY DEF ClosingInv, RecordTypes
<1> QED
  BY <1>1 DEF ClosingInv, OneAtWork, ClosingIsSound, ThanksAreEarned

\* Steps of the dispute that leave the records alone, and come before the
\* resolution or leave the closings with nothing to thank for.
LEMMA DisputeMoves ==
  ASSUME ClosingInv,
         UNCHANGED recordVars,
         mediation' \in [state: MediationState, reason: BOOLEAN],
         resolution' \in [by_parties: BOOLEAN, at: Nat, known: BOOLEAN],
         closer' \in [Closers -> Closer],
         day' \in Nat,
         \A t \in Closers : closer'[t].step \in {"idle", "called"},
         \A t \in Closers : closer'[t].step # "idle" => resolution'.known,
         finished = 0,
         \A p \in ToSet(Parties) : ~(thanks[p] > 0)
  PROVE  ClosingInv'
<1>1. RecordTypes' /\ OneAtWork' /\ WorkInv'
  BY DEF ClosingInv, RecordTypes, OneAtWork, WorkInv, HoldsMutex, recordVars
<1>2. ClosedOnce' /\ FinishedMeansDone' /\ ThanksAreEarned'
  BY DEF ClosingInv, RecordTypes, ClosingIsSound, ClosedOnce, FinishedMeansDone,
         ThanksAreEarned, recordVars
<1> QED
  BY <1>1, <1>2 DEF ClosingInv, ClosingIsSound

LEMMA MediateKeeps ==
  ASSUME ClosingInv, Mediate
  PROVE  ClosingInv'
<1>1. /\ mediation.state = "none"
      /\ UNCHANGED <<recordVars, closer, resolution, day>>
  BY DEF Mediate
<1>2. mediation' \in [state: MediationState, reason: BOOLEAN]
  BY DEF Mediate, ClosingInv, RecordTypes, MediationState
<1>3. finished = 0 /\ \A p \in ToSet(Parties) : ~(thanks[p] > 0)
  BY <1>1 DEF ClosingInv, RecordTypes, OneAtWork, ClosingIsSound, ThanksAreEarned
<1>4. \A t \in Closers : closer'[t].step \in {"idle", "called"}
  BY <1>1 DEF ClosingInv, RecordTypes, OneAtWork, HoldsMutex, Closer, Steps
<1> QED
  BY <1>1, <1>2, <1>3, <1>4, DisputeMoves DEF ClosingInv, RecordTypes, OneAtWork

\* A handoff leaves no closing anything to thank for.
LEMMA ReasonKeeps ==
  ASSUME ClosingInv, GetReason
  PROVE  ClosingInv'
<1>1. /\ mediation.state = "live"
      /\ mediation' = [mediation EXCEPT !.reason = TRUE]
      /\ UNCHANGED <<recordVars, closer, resolution, day>>
  BY DEF GetReason
<1>2. /\ mediation' \in [state: MediationState, reason: BOOLEAN]
      /\ mediation'.state = "live" /\ mediation'.reason
  BY <1>1 DEF ClosingInv, RecordTypes, MediationState
<1>3. RecordTypes' /\ OneAtWork'
  BY <1>1, <1>2 DEF ClosingInv, RecordTypes, OneAtWork, HoldsMutex, recordVars
<1>4. ~SelfResolved'
  BY <1>2 DEF SelfResolved
<1>5. ASSUME NEW t \in Closers, HoldsMutex(t)'
      PROVE  WorkFits(t)'
  <2>1. WorkFits(t)
    BY <1>1, <1>5 DEF ClosingInv, WorkInv, HoldsMutex
  <2>2. MayStillBeThanked => MayStillBeThanked'
    BY <1>1, <1>2 DEF MayStillBeThanked
  <2>3. closer[t].step = "sent" /\ ToParty(Head(closer[t].jobs)) => FALSE
    BY <1>1, <2>1 DEF WorkFits
  <2> QED
    BY <1>1, <1>4, <2>1, <2>2, <2>3 DEF WorkFits, recordVars, Reported, ToParty
<1>6. ClosedOnce' /\ FinishedMeansDone' /\ ThanksAreEarned'
  BY <1>1, <1>4
  DEF ClosingInv, ClosingIsSound, ClosedOnce, FinishedMeansDone, ThanksAreEarned,
      Reported, recordVars
<1> QED
  BY <1>3, <1>5, <1>6 DEF ClosingInv, WorkInv, ClosingIsSound

LEMMA SupersedeKeeps ==
  ASSUME ClosingInv, Supersede
  PROVE  ClosingInv'
<1>1. mediation' \in [state: MediationState, reason: BOOLEAN]
  BY DEF Supersede, ClosingInv, RecordTypes, MediationState
<1> QED
  BY <1>1, BeforeTheResolution, DisputeMoves DEF Supersede, ClosingInv, RecordTypes

LEMMA ResolveKeeps ==
  ASSUME ClosingInv, NEW by_parties \in BOOLEAN, NEW hooked \in BOOLEAN,
         Resolve(by_parties, hooked)
  PROVE  ClosingInv'
<1>1. mediation' \in [state: MediationState, reason: BOOLEAN]
  BY DEF Resolve, ClosingInv, RecordTypes, MediationState
<1>2. /\ resolution' \in [by_parties: BOOLEAN, at: Nat, known: BOOLEAN]
      /\ resolution'.known
  BY DEF Resolve, ClosingInv, RecordTypes
<1>3. \A t \in Closers : closer[t].step = "idle"
  BY BeforeTheResolution DEF Resolve
<1>4. /\ closer' \in [Closers -> Closer]
      /\ \A t \in Closers : closer'[t].step \in {"idle", "called"}
  <2>1. CASE hooked
    <3>1. closer' = [closer EXCEPT !["hook"].step = "called"]
      BY <2>1 DEF Resolve
    <3>2. "hook" \in Closers /\ "called" \in Steps
      BY DEF Closers, Steps
    <3> QED
      BY <1>3, <3>1, <3>2, StepOfATask DEF ClosingInv
  <2>2. CASE ~hooked
    BY <1>3, <2>2 DEF Resolve, ClosingInv, RecordTypes
  <2> QED
    BY <2>1, <2>2
<1> QED
  BY <1>1, <1>2, <1>3, <1>4, BeforeTheResolution, DisputeMoves
  DEF Resolve, ClosingInv, RecordTypes

(* finish and finish_pending.                                              *)

\* Nothing is recorded, and the dispute stays as it was.
LEMMA SoundKept ==
  ASSUME ClosingInv, UNCHANGED <<mediation, resolution, recordVars>>
  PROVE  ClosingIsSound'
  BY DEF ClosingInv, ClosingIsSound, ClosedOnce, FinishedMeansDone, ThanksAreEarned,
         Reported, SelfResolved, recordVars

\* What a step of one task has to show.
LEMMA OneTaskMoves ==
  ASSUME ClosingInv, NEW t \in Closers,
         UNCHANGED <<mediation, resolution, day>>,
         thanks' \in [ToSet(Parties) -> Nat],
         reports' \in [Solvers -> Nat],
         finished' \in Nat,
         closer' \in [Closers -> Closer],
         \A u \in Closers \ {t} : closer'[u] = closer[u],
         closer'[t].step # "idle" => resolution.known,
         HoldsMutex(t) \/ UNCHANGED <<thanks, reports>>,
         HoldsMutex(t)' =>
           /\ mediation.state # "none"
           /\ \A u \in Closers : HoldsMutex(u) => u = t
           /\ WorkFits(t)',
         finished' > 0 => resolution.known /\ mediation.state # "none",
         ClosingIsSound'
  PROVE  ClosingInv'
<1>1. RecordTypes'
  BY DEF ClosingInv, RecordTypes
<1>2. \A u \in Closers \ {t} : HoldsMutex(u)' <=> HoldsMutex(u)
  BY DEF HoldsMutex
<1>3. OneAtWork'
  BY <1>2 DEF ClosingInv, OneAtWork
<1>4. ASSUME NEW u \in Closers, HoldsMutex(u)'
      PROVE  WorkFits(u)'
  <2>1. CASE u = t
    BY <1>4, <2>1
  <2>2. CASE u # t
    <3>1. HoldsMutex(u) /\ WorkFits(u) /\ closer'[u] = closer[u]
      BY <1>2, <1>4, <2>2 DEF ClosingInv, WorkInv
    <3>2. UNCHANGED <<thanks, reports>>
      BY <2>2, <3>1 DEF ClosingInv, OneAtWork
    <3> QED
      BY <3>1, <3>2 DEF WorkFits, MayStillBeThanked, Reported, SelfResolved, ToParty
  <2> QED
    BY <2>1, <2>2
<1> QED
  BY <1>1, <1>3, <1>4 DEF ClosingInv, WorkInv

LEMMA SweepKeeps ==
  ASSUME ClosingInv, NEW t \in Closers, Sweep(t)
  PROVE  ClosingInv'
<1>1. /\ closer[t].step = "idle"
      /\ UNCHANGED <<day, mediation, resolution, recordVars>>
  BY DEF Sweep
<1>2. CASE Unfinished
  <2>1. closer' = [closer EXCEPT ![t].step = "called"] /\ "called" \in Steps
    BY <1>2 DEF Sweep, Steps
  <2>2. /\ closer' \in [Closers -> Closer]
        /\ \A u \in Closers \ {t} : closer'[u] = closer[u]
        /\ closer'[t].step = "called"
    BY <2>1, StepOfATask DEF ClosingInv
  <2> QED
    BY <1>1, <1>2, <2>2, SoundKept, OneTaskMoves
    DEF ClosingInv, RecordTypes, OneAtWork, HoldsMutex, Unfinished, recordVars
<1>3. CASE ~Unfinished
  <2>1. closer' = closer
    BY <1>3 DEF Sweep
  <2> QED
    BY <1>1, <2>1, SoundKept, OneTaskMoves
    DEF ClosingInv, RecordTypes, OneAtWork, HoldsMutex, recordVars
<1> QED
  BY <1>2, <1>3

\* The mutex is free: what is left to send is read from the records.
LEMMA EnterKeeps ==
  ASSUME ClosingInv, NEW t \in Closers, Enter(t)
  PROVE  ClosingInv'
<1>1. /\ closer[t].step = "called"
      /\ \A u \in Closers : ~HoldsMutex(u)
      /\ UNCHANGED <<day, mediation, resolution, recordVars>>
  BY DEF Enter, MayClose, HoldsMutex
<1>2. CASE mediation.state = "none" \/ finished > 0
  <2>1. closer' = [closer EXCEPT ![t] = Idle]
    BY <1>2 DEF Enter
  <2>2. /\ closer' \in [Closers -> Closer]
        /\ closer'[t] = Idle
        /\ \A u \in Closers \ {t} : closer'[u] = closer[u]
    BY <2>1, IdleIsAState, NewStateOfATask DEF ClosingInv
  <2>3. closer'[t].step = "idle" /\ ~HoldsMutex(t)'
    BY <2>2 DEF Idle, HoldsMutex
  <2> QED
    BY <1>1, <2>2, <2>3, SoundKept, OneTaskMoves
    DEF ClosingInv, RecordTypes, OneAtWork, recordVars
<1>3. CASE ~(mediation.state = "none" \/ finished > 0)
  <2> DEFINE a == IF SelfResolved THEN Parties ELSE << >>
             b == IF Reported THEN << >> ELSE SetToSeq(Solvers)
             c == [step |-> "sending", jobs |-> a \o b, ok |-> TRUE, told |-> Reported]
  <2>1. closer' = [closer EXCEPT ![t] = c]
    BY <1>3 DEF Enter
  <2>2. a \in {<< >>, Parties} /\ b \in {<< >>, SetToSeq(Solvers)}
    OBVIOUS
  <2>3. /\ a \o b \in Seq(Job)
        /\ \A i \in DOMAIN (a \o b) : (a \o b)[i] \in Solvers => b # << >>
        /\ \A i, j \in DOMAIN (a \o b) :
             (a \o b)[i] = (a \o b)[j] /\ (a \o b)[i] \in Solvers => i = j
        /\ \A i \in DOMAIN (a \o b) : (a \o b)[i] \in ToSet(Parties) => a # << >>
        /\ a # << >> => \A p \in ToSet(Parties) :
                          \E i \in DOMAIN (a \o b) : (a \o b)[i] = p
    BY <2>2, JobsOfACall
  <2>4. Reported \in BOOLEAN
    BY DEF Reported
  <2>5. c \in Closer
    BY <2>3, <2>4 DEF Closer, Steps
  <2>6. /\ closer' \in [Closers -> Closer]
        /\ closer'[t] = c
        /\ \A u \in Closers \ {t} : closer'[u] = closer[u]
    BY <2>1, <2>5, NewStateOfATask DEF ClosingInv
  <2>7. SelfResolved => MayStillBeThanked
    BY <1>3 DEF SelfResolved, MayStillBeThanked, ClosingInv, RecordTypes, MediationState
  <2>8. a # << >> <=> SelfResolved
    BY DEF Parties
  <2>9. b # << >> => \A s \in Solvers : reports[s] = 0
    BY DEF Reported, ClosingInv, RecordTypes
  <2>10. closer'[t].jobs = a \o b /\ closer'[t].step = "sending"
    <3>1. c.jobs = a \o b /\ c.step = "sending"
      <4> HIDE DEF a, b
      <4> QED
        BY Zenon
    <3> HIDE DEF c
    <3> QED
      BY <2>6, <3>1
  <2>11. closer'[t].told => Reported
    BY <2>6
  <2>12. WorkFits(t)'
    <3> HIDE DEF a, b, c
    <3> QED
      BY <1>1, <2>3, <2>7, <2>8, <2>9, <2>10, <2>11
      DEF WorkFits, ToParty, Reported, SelfResolved, MayStillBeThanked, recordVars
  <2>13. resolution.known
    BY <1>1 DEF ClosingInv, OneAtWork
  <2> QED
    BY <1>1, <1>3, <2>6, <2>10, <2>12, <2>13, SoundKept, OneTaskMoves
    DEF ClosingInv, RecordTypes, OneAtWork, recordVars
<1> QED
  BY <1>2, <1>3

\* The head of the jobs is done with: what is left still fits.
LEMMA HeadIsDone ==
  ASSUME ClosingInv, NEW t \in Closers, HoldsMutex(t), closer[t].jobs # << >>,
         UNCHANGED <<mediation, resolution>>,
         closer'[t].step = "sending",
         closer'[t].jobs = Tail(closer[t].jobs),
         \A p \in ToSet(Parties) : thanks[p] > 0 => thanks'[p] > 0,
         \A s \in Solvers : s # Head(closer[t].jobs) => reports'[s] = reports[s],
         closer'[t].told => Reported',
         closer'[t].ok => closer[t].ok
                          /\ (ToParty(Head(closer[t].jobs)) => thanks'[Head(closer[t].jobs)] > 0)
  PROVE  WorkFits(t)'
<1> DEFINE q == closer[t].jobs
           r == Tail(q)
<1>1. WorkFits(t) /\ q \in Seq(Job)
  BY DEF ClosingInv, WorkInv, RecordTypes, Closer
<1>2. /\ 1 \in DOMAIN q /\ Head(q) = q[1]
      /\ \A i \in DOMAIN r : i + 1 \in DOMAIN q /\ i + 1 # 1 /\ r[i] = q[i + 1]
      /\ \A i \in DOMAIN q : i # 1 => i - 1 \in DOMAIN r /\ r[i - 1] = q[i]
  BY <1>1, TailOf
<1>3. \A i \in DOMAIN r : i \in Nat
  BY <1>1, TailOf
<1> HIDE DEF q, r
<1>4. closer'[t].jobs = r /\ closer[t].jobs = q
  BY DEF q, r
<1>5. \A i \in DOMAIN r : r[i] \in Solvers => reports'[r[i]] = 0
  <2> SUFFICES ASSUME NEW i \in DOMAIN r, r[i] \in Solvers
               PROVE  reports'[r[i]] = 0
    OBVIOUS
  <2>1. reports[q[i + 1]] = 0 /\ q[i + 1] # q[1]
    BY <1>1, <1>2, <1>4 DEF WorkFits
  <2> QED
    BY <1>2, <1>4, <2>1
<1>6. \A i, j \in DOMAIN r : r[i] = r[j] /\ r[i] \in Solvers => i = j
  <2> SUFFICES ASSUME NEW i \in DOMAIN r, NEW j \in DOMAIN r, r[i] = r[j], r[i] \in Solvers
               PROVE  i = j
    OBVIOUS
  <2>1. i + 1 = j + 1
    BY <1>1, <1>2, <1>4 DEF WorkFits
  <2> QED
    BY <1>3, <2>1
<1>7. \A i \in DOMAIN r : ToParty(r[i]) => MayStillBeThanked'
  BY <1>1, <1>2, <1>4 DEF WorkFits, MayStillBeThanked
<1>8. closer'[t].ok /\ SelfResolved' =>
        \A p \in ToSet(Parties) : thanks'[p] > 0 \/ \E i \in DOMAIN r : r[i] = p
  <2> SUFFICES ASSUME closer'[t].ok, SelfResolved', NEW p \in ToSet(Parties), ~(thanks'[p] > 0)
               PROVE  \E i \in DOMAIN r : r[i] = p
    OBVIOUS
  <2>1. closer[t].ok /\ SelfResolved
    BY DEF SelfResolved
  <2>2. PICK i \in DOMAIN q : q[i] = p
    BY <1>1, <1>4, <2>1 DEF WorkFits
  <2>3. i # 1
    BY <1>2, <1>4, <2>2 DEF ToParty
  <2> QED
    BY <1>2, <2>2, <2>3
<1> QED
  BY <1>4, <1>5, <1>6, <1>7, <1>8 DEF WorkFits, ToParty

\* What a task at work knows.
LEMMA WhileAtWork ==
  ASSUME ClosingInv, NEW t \in Closers, HoldsMutex(t)
  PROVE  /\ resolution.known /\ mediation.state # "none"
         /\ \A u \in Closers : HoldsMutex(u) => u = t
         /\ WorkFits(t)
         /\ closer[t].jobs \in Seq(Job)
         /\ closer[t].ok \in BOOLEAN /\ closer[t].told \in BOOLEAN
  BY DEF ClosingInv, OneAtWork, WorkInv, HoldsMutex, RecordTypes, Closer

LEMMA SkipKeeps ==
  ASSUME ClosingInv, NEW t \in Closers, Skip(t)
  PROVE  ClosingInv'
<1>1. /\ closer[t].jobs # << >> /\ HoldsMutex(t)
      /\ Received(Head(closer[t].jobs))
      /\ closer' = [closer EXCEPT ![t] = Rest(t, closer[t].ok, closer[t].told)]
      /\ UNCHANGED <<day, mediation, resolution, recordVars>>
  BY DEF Skip, NextJob, HoldsMutex
<1>2. /\ closer' \in [Closers -> Closer]
      /\ \A u \in Closers \ {t} : closer'[u] = closer[u]
      /\ closer'[t].step = "sending"
      /\ closer'[t].jobs = Tail(closer[t].jobs)
      /\ closer'[t].ok = closer[t].ok /\ closer'[t].told = closer[t].told
  BY <1>1, NextJobOfATask, WhileAtWork DEF ClosingInv
<1>3. closer'[t].told => Reported'
  BY <1>1, <1>2, WhileAtWork DEF WorkFits, Reported, recordVars
<1>4. WorkFits(t)'
  BY <1>1, <1>2, <1>3, HeadIsDone DEF Received, recordVars
<1> QED
  BY <1>1, <1>2, <1>4, WhileAtWork, SoundKept, OneTaskMoves
  DEF ClosingInv, RecordTypes, OneAtWork, recordVars

\* Without a party's thanks, the closing is not finished.
LEMMA LoseJobKeeps ==
  ASSUME ClosingInv, NEW t \in Closers, LoseJob(t)
  PROVE  ClosingInv'
<1> DEFINE ok == closer[t].ok /\ ~ToParty(Head(closer[t].jobs))
<1>1. /\ closer[t].jobs # << >> /\ HoldsMutex(t)
      /\ closer' = [closer EXCEPT ![t] = Rest(t, ok, closer[t].told)]
      /\ UNCHANGED <<day, mediation, resolution, recordVars>>
  BY DEF LoseJob, NextJob, HoldsMutex
<1>2. ok \in BOOLEAN
  OBVIOUS
<1>3. /\ closer' \in [Closers -> Closer]
      /\ \A u \in Closers \ {t} : closer'[u] = closer[u]
      /\ closer'[t].step = "sending"
      /\ closer'[t].jobs = Tail(closer[t].jobs)
      /\ closer'[t].ok = ok /\ closer'[t].told = closer[t].told
  <2> HIDE DEF ok
  <2> QED
    BY <1>1, <1>2, NextJobOfATask, WhileAtWork DEF ClosingInv
<1>4. closer'[t].told => Reported'
  BY <1>1, <1>3, WhileAtWork DEF WorkFits, Reported, recordVars
<1>5. closer'[t].ok => closer[t].ok /\ ~ToParty(Head(closer[t].jobs))
  BY <1>3
<1>6. WorkFits(t)'
  BY <1>1, <1>3, <1>4, <1>5, HeadIsDone DEF recordVars
<1> QED
  BY <1>1, <1>3, <1>6, WhileAtWork, SoundKept, OneTaskMoves
  DEF ClosingInv, RecordTypes, OneAtWork, recordVars

LEMMA SendJobKeeps ==
  ASSUME ClosingInv, NEW t \in Closers, SendJob(t)
  PROVE  ClosingInv'
<1>1. /\ closer[t].jobs # << >> /\ HoldsMutex(t)
      /\ ~Received(Head(closer[t].jobs)) /\ Allowed(Head(closer[t].jobs))
      /\ closer' = [closer EXCEPT ![t].step = "sent"] /\ "sent" \in Steps
      /\ UNCHANGED <<day, mediation, resolution, recordVars>>
  BY DEF SendJob, NextJob, HoldsMutex, Steps
<1>2. /\ closer' \in [Closers -> Closer]
      /\ \A u \in Closers \ {t} : closer'[u] = closer[u]
      /\ closer'[t].step = "sent"
      /\ closer'[t].jobs = closer[t].jobs
      /\ closer'[t].ok = closer[t].ok /\ closer'[t].told = closer[t].told
  BY <1>1, StepOfATask DEF ClosingInv
<1>3. ToParty(Head(closer[t].jobs)) => thanks[Head(closer[t].jobs)] = 0
  BY <1>1 DEF Received, ToParty, ClosingInv, RecordTypes
<1>4. WorkFits(t)'
  BY <1>1, <1>2, <1>3, WhileAtWork
  DEF WorkFits, Allowed, ToParty, MayStillBeThanked, Reported, SelfResolved, recordVars
<1> QED
  BY <1>1, <1>2, <1>4, WhileAtWork, SoundKept, OneTaskMoves
  DEF ClosingInv, RecordTypes, OneAtWork, recordVars

\* The record of what was sent: the only step that thanks or reports.
LEMMA RecordJobKeeps ==
  ASSUME ClosingInv, NEW t \in Closers, RecordJob(t)
  PROVE  ClosingInv'
<1> DEFINE q == closer[t].jobs
           job == Head(q)
           told == closer[t].told \/ ~ToParty(job)
<1>1. /\ closer[t].step = "sent" /\ HoldsMutex(t)
      /\ thanks' = IF ToParty(job) THEN [thanks EXCEPT ![job] = @ + 1] ELSE thanks
      /\ reports' = IF ToParty(job) THEN reports ELSE [reports EXCEPT ![job] = @ + 1]
      /\ closer' = [closer EXCEPT ![t] = Rest(t, closer[t].ok, told)]
      /\ UNCHANGED <<day, mediation, resolution, finished>>
  BY DEF RecordJob, HoldsMutex
<1>2. WorkFits(t) /\ q \in Seq(Job) /\ q # << >>
  BY <1>1, WhileAtWork DEF WorkFits
<1>3. /\ 1 \in DOMAIN q /\ job = q[1] /\ job \in Job
      /\ ~ToParty(job) => job \in Solvers /\ reports[job] = 0
      /\ ToParty(job) => /\ thanks[job] = 0 /\ mediation.state = "closed"
                         /\ MayStillBeThanked
  <2>1. 1 \in DOMAIN q /\ job = q[1] /\ job \in Job
    BY <1>2, TailOf
  <2>2. ~ToParty(job) => job \in Solvers
    BY <2>1 DEF Job, ToParty
  <2> HIDE DEF job
  <2>3. ~ToParty(job) => reports[job] = 0
    BY <1>2, <2>1, <2>2 DEF WorkFits
  <2>4. ToParty(job) => thanks[job] = 0 /\ mediation.state = "closed"
    BY <1>1, <1>2 DEF WorkFits, job
  <2>5. ToParty(job) => MayStillBeThanked
    BY <1>2, <2>1 DEF WorkFits
  <2> QED
    BY <2>1, <2>2, <2>3, <2>4, <2>5
<1>4. told \in BOOLEAN
  OBVIOUS
<1>5. /\ closer' \in [Closers -> Closer]
      /\ \A u \in Closers \ {t} : closer'[u] = closer[u]
      /\ closer'[t].step = "sending"
      /\ closer'[t].jobs = Tail(q)
      /\ closer'[t].ok = closer[t].ok /\ closer'[t].told = told
  <2> HIDE DEF told
  <2> QED
    BY <1>1, <1>2, <1>4, NextJobOfATask, WhileAtWork DEF ClosingInv
<1> HIDE DEF q, job, told
<1>6. /\ thanks' \in [ToSet(Parties) -> Nat]
      /\ reports' \in [Solvers -> Nat]
      /\ \A p \in ToSet(Parties) : /\ p # job => thanks'[p] = thanks[p]
                                   /\ p = job => thanks'[p] = 1
      /\ \A s \in Solvers : /\ s # job => reports'[s] = reports[s]
                            /\ s = job => reports'[s] = reports[s] \/ reports'[s] = 1
      /\ ~ToParty(job) => job \in Solvers /\ reports'[job] = 1
      /\ Reported => Reported'
  <2>1. CASE ToParty(job)
    BY <1>1, <1>3, <2>1 DEF ToParty, ClosingInv, RecordTypes, Reported
  <2>2. CASE ~ToParty(job)
    <3>1. /\ thanks' = thanks /\ reports' = [reports EXCEPT ![job] = @ + 1]
          /\ job \in Solvers /\ reports[job] = 0 /\ reports \in [Solvers -> Nat]
      BY <1>1, <1>3, <2>2 DEF ClosingInv, RecordTypes
    <3>2. /\ reports' \in [Solvers -> Nat] /\ reports'[job] = 1
          /\ \A s \in Solvers : s # job => reports'[s] = reports[s]
      BY <3>1
    <3>3. Reported'
      BY <3>1, <3>2 DEF Reported
    <3> QED
      BY <2>2, <3>1, <3>2, <3>3 DEF ToParty, ClosingInv, RecordTypes
  <2> QED
    BY <2>1, <2>2
<1>7. WorkFits(t)'
  <2>1. closer'[t].told => Reported'
    <3>1. ~ToParty(job) => Reported'
      BY <1>6 DEF Reported
    <3>2. closer[t].told => Reported
      BY <1>2 DEF WorkFits
    <3>3. closer'[t].told => closer[t].told \/ ~ToParty(job)
      BY <1>5 DEF told
    <3> QED
      BY <1>6, <3>1, <3>2, <3>3
  <2>2. \A p \in ToSet(Parties) : thanks[p] > 0 => thanks'[p] > 0
    BY <1>6
  <2>3. ToParty(job) => thanks'[job] > 0
    BY <1>6 DEF ToParty
  <2> QED
    BY <1>1, <1>2, <1>5, <1>6, <2>1, <2>2, <2>3, HeadIsDone DEF q, job
<1>8. ClosedOnce'
  BY <1>6 DEF ClosingInv, ClosingIsSound, ClosedOnce
<1>9. FinishedMeansDone'
  <2> SUFFICES ASSUME finished > 0
               PROVE  /\ Reported'
                      /\ SelfResolved' => \A p \in ToSet(Parties) : thanks'[p] = 1
    BY <1>1 DEF FinishedMeansDone
  <2>1. Reported /\ (SelfResolved => \A p \in ToSet(Parties) : thanks[p] = 1)
    BY DEF ClosingInv, ClosingIsSound, FinishedMeansDone
  <2>2. SelfResolved' => SelfResolved
    BY <1>1 DEF SelfResolved
  <2> QED
    BY <1>6, <2>1, <2>2
<1>10. ThanksAreEarned'
  <2> SUFFICES ASSUME NEW p \in ToSet(Parties), thanks'[p] > 0
               PROVE  /\ mediation.state = "closed" /\ ~mediation.reason
                      /\ resolution.known /\ resolution.by_parties
    BY <1>1 DEF ThanksAreEarned
  <2>1. CASE p = job
    BY <1>1, <1>3, <2>1, WhileAtWork DEF ToParty, MayStillBeThanked
  <2>2. CASE p # job
    BY <1>6, <2>2 DEF ClosingInv, ClosingIsSound, ThanksAreEarned
  <2> QED
    BY <2>1, <2>2
<1>11. ClosingIsSound'
  BY <1>8, <1>9, <1>10 DEF ClosingIsSound
<1> QED
  BY <1>1, <1>5, <1>6, <1>7, <1>11, WhileAtWork, OneTaskMoves
  DEF ClosingInv, RecordTypes, OneAtWork

\* Every job was done with: what the closing says of them is what finishes it.
LEMMA LeaveKeeps ==
  ASSUME ClosingInv, NEW t \in Closers, Leave(t)
  PROVE  ClosingInv'
<1>1. /\ HoldsMutex(t) /\ closer[t].jobs = << >>
      /\ finished' = IF Complete(t) THEN finished + 1 ELSE finished
      /\ closer' = [closer EXCEPT ![t] = Idle]
      /\ UNCHANGED <<day, mediation, resolution, thanks, reports>>
  BY DEF Leave, HoldsMutex
<1>2. /\ closer' \in [Closers -> Closer]
      /\ closer'[t] = Idle
      /\ \A u \in Closers \ {t} : closer'[u] = closer[u]
  BY <1>1, IdleIsAState, NewStateOfATask DEF ClosingInv
<1>3. closer'[t].step = "idle" /\ ~HoldsMutex(t)'
  BY <1>2 DEF Idle, HoldsMutex
<1>4. finished' \in Nat
  BY <1>1 DEF ClosingInv, RecordTypes
<1>5. /\ thanks \in [ToSet(Parties) -> Nat]
      /\ ClosedOnce
      /\ FinishedMeansDone
      /\ ThanksAreEarned
  BY DEF ClosingInv, RecordTypes, ClosingIsSound
<1>6. FinishedMeansDone'
  <2>1. CASE Complete(t)
    <3>1. Reported
      BY <1>1, <2>1, WhileAtWork DEF WorkFits, Complete
    <3>2. SelfResolved => \A p \in ToSet(Parties) : thanks[p] > 0
      BY <1>1, <2>1, WhileAtWork DEF WorkFits, Complete
    <3>3. SelfResolved => \A p \in ToSet(Parties) : thanks[p] = 1
      BY <1>5, <3>2 DEF ClosedOnce
    <3> QED
      BY <1>1, <3>1, <3>3 DEF FinishedMeansDone, Reported, SelfResolved
  <2>2. CASE ~Complete(t)
    BY <1>1, <1>5, <2>2 DEF FinishedMeansDone, Reported, SelfResolved
  <2> QED
    BY <2>1, <2>2
<1>7. ClosingIsSound'
  BY <1>1, <1>5, <1>6 DEF ClosingIsSound, ClosedOnce, ThanksAreEarned
<1> QED
  BY <1>1, <1>2, <1>3, <1>4, <1>7, WhileAtWork, OneTaskMoves
  DEF ClosingInv, RecordTypes

\* A restart leaves nobody at work, and the records as they were.
LEMMA KillKeeps ==
  ASSUME ClosingInv, Kill
  PROVE  ClosingInv'
<1>1. /\ closer' = [t \in Closers |-> Idle]
      /\ UNCHANGED <<day, mediation, resolution, recordVars>>
  BY DEF Kill
<1>2. /\ closer' \in [Closers -> Closer]
      /\ \A t \in Closers : closer'[t].step = "idle"
  BY <1>1, IdleIsAState DEF Idle
<1>3. RecordTypes' /\ OneAtWork' /\ WorkInv'
  BY <1>1, <1>2 DEF ClosingInv, RecordTypes, OneAtWork, WorkInv, HoldsMutex, recordVars
<1> QED
  BY <1>1, <1>3, SoundKept DEF ClosingInv

\* What the invariant speaks of, the clock aside, stays as it is.
LEMMA NothingMoves ==
  ASSUME ClosingInv, day' \in Nat,
         UNCHANGED <<mediation, resolution, recordVars, closer>>
  PROVE  ClosingInv'
<1>1. RecordTypes' /\ OneAtWork'
  BY DEF ClosingInv, RecordTypes, OneAtWork, HoldsMutex, recordVars
<1>2. \A t \in Closers : HoldsMutex(t)' => HoldsMutex(t) /\ WorkFits(t)
  BY DEF ClosingInv, WorkInv, HoldsMutex
<1>3. WorkInv'
  BY <1>2
  DEF WorkInv, WorkFits, MayStillBeThanked, Reported, SelfResolved, ToParty, recordVars
<1> QED
  BY <1>1, <1>3, SoundKept DEF ClosingInv

LEMMA ClosingKeeps == ClosingInv /\ [ClosingNext]_closingVars => ClosingInv'
<1> SUFFICES ASSUME ClosingInv, [ClosingNext]_closingVars PROVE ClosingInv'
  OBVIOUS
<1>1. day \in Nat
  BY DEF ClosingInv, RecordTypes
<1>2. CASE Mediate \/ GetReason \/ Supersede
  BY <1>2, MediateKeeps, ReasonKeeps, SupersedeKeeps
<1>3. CASE NextDay \/ Revive
  BY <1>1, <1>3, NothingMoves DEF NextDay, Revive
<1>4. CASE \E by_parties, hooked \in BOOLEAN : Resolve(by_parties, hooked)
  BY <1>4, ResolveKeeps
<1>5. CASE \E t \in Closers :
             \/ Sweep(t) \/ Enter(t)
             \/ Skip(t) \/ SendJob(t) \/ LoseJob(t) \/ RecordJob(t) \/ Leave(t)
  BY <1>5, SweepKeeps, EnterKeeps, SkipKeeps, SendJobKeeps, LoseJobKeeps,
     RecordJobKeeps, LeaveKeeps
<1>6. CASE Kill
  BY <1>6, KillKeeps
<1>7. CASE UNCHANGED closingVars
  BY <1>1, <1>7, NothingMoves DEF closingVars
<1> QED
  BY <1>2, <1>3, <1>4, <1>5, <1>6, <1>7 DEF ClosingNext

\* However many sends are lost and restarts fall, the hook, the sweep after the
\* start and the timer neither record a thank or a report twice, nor record as
\* finished what is not, nor thank who did not earn it
\* (mediation/guide.rs finish).
THEOREM ClosingStaysSound == ClosingSpec => []ClosingIsSound
<1>1. ClosingInv => ClosingIsSound
  BY DEF ClosingInv
<1> QED
  BY ClosingStarts, ClosingKeeps, <1>1, PTL DEF ClosingSpec

-----------------------------------------------------------------------------
(* The types of a closing.                                                 *)

\* A closing at work is the first to be finished.
FinishesOnce ==
  /\ day \in 0..LastDay /\ resolution.at \in 0..LastDay
  /\ alive \in BOOLEAN /\ swept \in BOOLEAN
  /\ finished \in 0..1
  /\ \A t \in Closers : HoldsMutex(t) => finished = 0

LEMMA FinishesStart == ClosingInit => FinishesOnce
<1> SUFFICES ASSUME ClosingInit PROVE FinishesOnce
  OBVIOUS
<1>1. /\ day = 0 /\ resolution.at = 0 /\ finished = 0
      /\ alive = TRUE /\ swept = FALSE
  BY DEF ClosingInit, NoResolution
<1>2. LastDay \in Nat
  BY ClosingAssumption
<1>3. alive \in BOOLEAN /\ swept \in BOOLEAN
  BY <1>1
<1> QED
  BY <1>1, <1>2, <1>3 DEF FinishesOnce

LEMMA FinishesKeep ==
  ASSUME ClosingInv, FinishesOnce, [ClosingNext]_closingVars PROVE FinishesOnce'
<1>1. /\ day \in 0..LastDay /\ resolution.at \in 0..LastDay /\ LastDay \in Nat
      /\ alive \in BOOLEAN /\ swept \in BOOLEAN /\ finished \in 0..1
      /\ \A t \in Closers : HoldsMutex(t) => finished = 0
  BY ClosingAssumption DEF FinishesOnce
<1>2. closer \in [Closers -> Closer] /\ Idle \in Closer
  BY DEF ClosingInv, RecordTypes, Idle, Closer, Steps, Job
<1>3. ASSUME UNCHANGED <<day, resolution>>, alive' \in BOOLEAN, swept' \in BOOLEAN,
             finished' \in 0..1, \A u \in Closers : HoldsMutex(u)' => finished' = 0
      PROVE  FinishesOnce'
  BY <1>1, <1>3 DEF FinishesOnce
<1>4. CASE Mediate \/ GetReason \/ Supersede
  <2>1. UNCHANGED <<day, resolution, alive, swept, finished, closer>>
    BY <1>4 DEF Mediate, GetReason, Supersede, recordVars
  <2> QED
    BY <1>1, <2>1 DEF FinishesOnce, HoldsMutex
<1>5. CASE NextDay
  <2>1. UNCHANGED <<resolution, alive, swept, finished, closer>> /\ day < LastDay /\ day' = day + 1
    BY <1>5 DEF NextDay, recordVars
  <2>2. day' \in 0..LastDay
    BY <1>1, <2>1
  <2> QED
    BY <1>1, <2>1, <2>2 DEF FinishesOnce, HoldsMutex
<1>6. ASSUME NEW by_parties \in BOOLEAN, NEW hooked \in BOOLEAN, Resolve(by_parties, hooked)
      PROVE  FinishesOnce'
  <2>1. /\ UNCHANGED <<day, alive, swept, finished>>
        /\ resolution' = [by_parties |-> by_parties, at |-> day, known |-> TRUE]
        /\ closer' = IF hooked THEN [closer EXCEPT !["hook"].step = "called"] ELSE closer
    BY <1>6 DEF Resolve, recordVars
  <2>2. \A u \in Closers : HoldsMutex(u)' => HoldsMutex(u)
    BY <1>2, <2>1 DEF HoldsMutex, Closer
  <2> QED
    BY <1>1, <2>1, <2>2 DEF FinishesOnce
<1>7. ASSUME NEW t \in Closers, Sweep(t) PROVE FinishesOnce'
  <2>1. /\ UNCHANGED <<day, resolution, alive, finished>> /\ swept' \in BOOLEAN
        /\ closer' = closer \/ closer' = [closer EXCEPT ![t].step = "called"]
    BY <1>1, <1>7 DEF Sweep, recordVars
  <2>2. \A u \in Closers : HoldsMutex(u)' => HoldsMutex(u)
    BY <1>2, <2>1 DEF HoldsMutex, Closer
  <2> QED
    BY <1>1, <1>3, <2>1, <2>2
<1>8. ASSUME NEW t \in Closers, Enter(t) PROVE FinishesOnce'
  <2>1. UNCHANGED <<day, resolution, alive, swept, finished>> /\ MayClose
    BY <1>8 DEF Enter, recordVars
  <2>2. /\ \A u \in Closers \ {t} : closer'[u] = closer[u]
        /\ finished > 0 => closer'[t] = Idle
    BY <1>2, <1>8 DEF Enter
  <2>3. \A u \in Closers : HoldsMutex(u)' => finished = 0
    <3>1. ASSUME NEW u \in Closers, u # t, HoldsMutex(u)' PROVE finished = 0
      BY <1>1, <2>2, <3>1 DEF HoldsMutex
    <3>2. ASSUME HoldsMutex(t)' PROVE finished = 0
      <4>1. ~(finished > 0)
        BY <2>2, <3>2 DEF HoldsMutex, Idle
      <4> QED
        BY <1>1, <4>1
    <3> QED
      BY <3>1, <3>2
  <2> QED
    BY <1>1, <1>3, <2>1, <2>3
<1>9. ASSUME NEW t \in Closers, Skip(t) \/ SendJob(t) \/ LoseJob(t) \/ RecordJob(t)
      PROVE  FinishesOnce'
  <2>1. UNCHANGED <<day, resolution, alive, swept, finished>> /\ HoldsMutex(t)
    BY <1>9 DEF Skip, SendJob, LoseJob, RecordJob, NextJob, recordVars, HoldsMutex
  <2>2. \A u \in Closers \ {t} : closer'[u] = closer[u]
    BY <1>2, <1>9 DEF Skip, SendJob, LoseJob, RecordJob
  <2>3. \A u \in Closers : HoldsMutex(u)' => HoldsMutex(u)
    BY <2>1, <2>2 DEF HoldsMutex
  <2> QED
    BY <1>1, <1>3, <2>1, <2>3
<1>10. ASSUME NEW t \in Closers, Leave(t) PROVE FinishesOnce'
  <2>1. UNCHANGED <<day, resolution, alive, swept>> /\ HoldsMutex(t)
        /\ closer' = [closer EXCEPT ![t] = Idle]
        /\ (finished' = finished \/ finished' = finished + 1)
    BY <1>10 DEF Leave, HoldsMutex
  <2>2. finished = 0 /\ finished' \in 0..1
    BY <1>1, <2>1
  <2>3. \A u \in Closers : ~HoldsMutex(u)'
    <3>1. \A u \in Closers : HoldsMutex(u) => u = t
      BY <2>1 DEF ClosingInv, OneAtWork
    <3> QED
      BY <1>2, <2>1, <3>1 DEF HoldsMutex, Idle
  <2> QED
    BY <1>1, <1>3, <2>1, <2>2, <2>3
<1>11. CASE Kill \/ Revive
  <2>1. UNCHANGED <<day, resolution, finished>> /\ alive' \in BOOLEAN /\ swept' \in BOOLEAN
        /\ (closer' = closer \/ closer' = [t \in Closers |-> Idle])
    BY <1>1, <1>11 DEF Kill, Revive, recordVars
  <2>2. \A u \in Closers : HoldsMutex(u)' => HoldsMutex(u)
    BY <2>1 DEF HoldsMutex, Idle
  <2> QED
    BY <1>1, <1>3, <2>1, <2>2
<1>12. CASE UNCHANGED closingVars
  <2>1. UNCHANGED <<day, resolution, alive, swept, finished, closer>>
    BY <1>12 DEF closingVars, recordVars
  <2> QED
    BY <1>1, <2>1 DEF FinishesOnce, HoldsMutex
<1> QED
  BY <1>4, <1>5, <1>6, <1>7, <1>8, <1>9, <1>10, <1>11, <1>12 DEF ClosingNext

\* The types of a closing: one is at work at a time, and what it finished stays
\* finished once (mediation/guide.rs finish).
THEOREM ClosingTypesStay == ClosingSpec => []ClosingTypeOK
<1>1. ClosingInv /\ FinishesOnce => ClosingTypeOK
  <2> SUFFICES ASSUME ClosingInv, FinishesOnce PROVE ClosingTypeOK
    OBVIOUS
  <2>1. /\ mediation \in [state: MediationState, reason: BOOLEAN]
        /\ resolution \in [by_parties: BOOLEAN, at: Nat, known: BOOLEAN]
        /\ thanks \in [ToSet(Parties) -> Nat] /\ reports \in [Solvers -> Nat]
        /\ closer \in [Closers -> Closer]
    BY DEF ClosingInv, RecordTypes
  <2>2. resolution \in [by_parties: BOOLEAN, at: 0..LastDay, known: BOOLEAN]
    BY <2>1 DEF FinishesOnce
  <2> QED
    BY <2>1, <2>2 DEF FinishesOnce, ClosingTypeOK, Closer, Steps, Job
<1>2. ClosingInv /\ FinishesOnce /\ [ClosingNext]_closingVars => FinishesOnce'
  BY FinishesKeep
<1> QED
  BY <1>1, <1>2, FinishesStart, ClosingStarts, ClosingKeeps, PTL DEF ClosingSpec

-----------------------------------------------------------------------------
(* What solvers call wrong (feedback.rs record).                           *)

\* A set of ids has a newest one: the ids above one get fewer as one goes up.
LEMMA NewestIs ==
  ASSUME NEW n \in Nat, NEW S \in SUBSET (1..n), S # {}
  PROVE  Max(S) \in S /\ \A j \in S : j <= Max(S)
<1> DEFINE Up(i) == {j \in S : i < j}
           U == {Up(i) : i \in S}
           O == StrictSubsetOrdering(1..n)
           F == FiniteSubsetsOf(1..n)
<1>0. IsFiniteSet(1..n) /\ \A j \in S : j \in Nat
  BY FS_Interval
<1>1. IsWellFoundedOn(O, F)
  BY FS_StrictSubsetOrderingWellFounded, FS_Interval
<1>2. U \subseteq F /\ U # {}
  <2>1. \A i \in S : Up(i) \in SUBSET (1..n) /\ IsFiniteSet(Up(i))
    <3>1. \A i \in S : Up(i) \in SUBSET (1..n)
      OBVIOUS
    <3> HIDE DEF Up
    <3> QED
      BY <1>0, <3>1, FS_Subset
  <2> HIDE DEF Up
  <2>2. \A i \in S : Up(i) \in F
    BY <2>1 DEF FiniteSubsetsOf
  <2> HIDE DEF F
  <2>3. \E i : i \in S
    OBVIOUS
  <2> QED
    BY <2>2, <2>3
<1>3. PICK m \in U : \A k \in U : ~(<<k, m>> \in O)
  <2> HIDE DEF O, F, U
  <2> QED
    BY <1>1, <1>2, WFMin
<1>4. PICK top \in S : m = Up(top)
  OBVIOUS
<1>5. ASSUME NEW j \in S, top < j PROVE FALSE
  <2>1. Up(j) \subseteq Up(top) /\ j \notin Up(j) /\ j \in Up(top)
    <3>1. \A i \in S : j < i => top < i
      BY <1>0, <1>5
    <3>2. j \notin Up(j)
      BY <1>0
    <3> QED
      BY <1>5, <3>1, <3>2
  <2>2. Up(j) \in SUBSET (1..n) /\ Up(top) \in SUBSET (1..n)
    OBVIOUS
  <2>3. <<Up(j), m>> \in O
    <3> HIDE DEF Up
    <3> QED
      BY <2>1, <2>2, <1>4 DEF StrictSubsetOrdering
  <2> QED
    BY <2>3, <1>3
<1>7. \E i \in S : \A j \in S : i >= j
  BY <1>0, <1>5
<1>8. Max(S) \in S /\ \A j \in S : Max(S) >= j
  BY <1>7 DEF Max
<1> QED
  BY <1>0, <1>8

Evaluation == [dispute: Disputes, at: Nat, asked: SUBSET Questions]

BriefRow == [dispute: Disputes, to: Readers, at: Nat, exist: Nat]

Reply == [from: Readers, question: Questions, names: BOOLEAN, written: Int, answers: Nat]

FeedbackRow == [source: Nat, dispute: Disputes, evaluation: Nat, brief: Nat]

Courier == [busy: BOOLEAN, left: Seq(Readers), at: Nat, exist: Nat]

\* The rows, and what is on its way to become one.
FeedbackTypes ==
  /\ second \in Nat
  /\ evaluations \in Seq(Evaluation)
  /\ briefs \in Seq(BriefRow)
  /\ replies \in Seq(Reply)
  /\ feedback \in Seq(FeedbackRow)
  /\ judging \in [Disputes -> [began: Nat]]
  /\ courier \in [Couriers -> Courier]
  /\ \A c \in Couriers : courier[c].at > 0 => courier[c].left # << >>

\* The rows, one by one.
LEMMA RowsAre ==
  ASSUME FeedbackTypes
  PROVE  /\ \A i \in DOMAIN evaluations : evaluations[i] \in Evaluation /\ i \in Nat
         /\ \A i \in DOMAIN briefs : briefs[i] \in BriefRow /\ i \in Nat
  BY DEF FeedbackTypes

\* What clocks say of turns: none is of the future.
TurnsArePast ==
  /\ \A i \in DOMAIN evaluations : evaluations[i].at <= second
  /\ \A d \in Disputes : judging[d].began <= second

\* The evaluations of a dispute after one.
Later(d, exist) == {i \in DOMAIN evaluations : evaluations[i].dispute = d /\ i > exist}

\* A stamp of a brief, and the newest evaluation then: what existed is no later
\* than the stamp, and of what came after only the first may have begun before
\* it, the turn that was then at the judge.
Stamped(d, at, exist) ==
  /\ at <= second /\ exist <= Len(evaluations)
  /\ \A i \in DOMAIN evaluations :
       evaluations[i].dispute = d /\ i <= exist => evaluations[i].at <= at
  /\ judging[d] # NoJudging /\ judging[d].began < at => Later(d, exist) = {}
  /\ \A i, e \in Later(d, exist) : i < e => at <= evaluations[e].at

ClocksHold ==
  /\ TurnsArePast
  /\ \A i \in DOMAIN briefs : Stamped(briefs[i].dispute, briefs[i].at, briefs[i].exist)
  /\ \A c \in Couriers :
       courier[c].at > 0 => Stamped(c[1], courier[c].at, courier[c].exist)

\* A reply answers a brief its solver got, and is written no earlier, give or
\* take the skew.
AnswersABrief(m) ==
  LET r == replies[m]
  IN /\ r.answers \in DOMAIN briefs
     /\ briefs[r.answers].to = r.from
     /\ briefs[r.answers].at <= r.written + ReaderSkew

\* What is recorded is of rows that exist.
RecordedOf(f) ==
  /\ f.source \in DOMAIN replies /\ f.evaluation \in DOMAIN evaluations
  /\ f.brief \in DOMAIN briefs /\ briefs[f.brief].exist <= Len(evaluations)

FeedbackInv ==
  /\ FeedbackTypes
  /\ ClocksHold
  /\ \A m \in DOMAIN replies : AnswersABrief(m)
  /\ \A j \in DOMAIN feedback : RecordedOf(feedback[j])
  /\ FeedbackIsSound

\* What a row of feedback claims: at worst one turn was unseen, nothing shown is
\* passed over, and its brief is not before the one answered.
Blames(f) ==
  LET b == briefs[f.brief]
      e == evaluations[f.evaluation]
      later == Later(f.dispute, b.exist)
  IN /\ e.dispute = f.dispute
     /\ f.evaluation \in later =>
          \/ e.at = b.at
          \/ /\ e.at < b.at
             /\ \A i \in later : f.evaluation <= i

Exhausts(f) ==
  \A i \in DOMAIN evaluations :
    /\ evaluations[i].dispute = f.dispute
    /\ i <= briefs[f.brief].exist
    /\ replies[f.source].question \in evaluations[i].asked
    => i <= f.evaluation

Finds(f) == ReaderSkew <= ClockSkew => f.brief >= replies[f.source].answers

Claims(f) == Blames(f) /\ Exhausts(f) /\ Finds(f)

\* The soundness of feedback, row by row.
LEMMA SoundIs == FeedbackIsSound <=> \A j \in DOMAIN feedback : Claims(feedback[j])
<1>1. OneTurnUnseen <=> \A j \in DOMAIN feedback : Blames(feedback[j])
  BY DEF OneTurnUnseen, Blames, Later
<1>2. NothingShownIsPassedOver <=> \A j \in DOMAIN feedback : Exhausts(feedback[j])
  BY DEF NothingShownIsPassedOver, Exhausts
<1>3. NoOlderBriefIsTaken <=> \A j \in DOMAIN feedback : Finds(feedback[j])
  BY DEF NoOlderBriefIsTaken, Finds
<1> QED
  BY <1>1, <1>2, <1>3 DEF FeedbackIsSound, Claims

\* A sequence that is appended to, or stays, keeps its rows.
Grows(old, new) ==
  /\ DOMAIN old \subseteq DOMAIN new
  /\ \A i \in DOMAIN old : new[i] = old[i]

\* What an appended sequence holds.
LEMMA AppendGrows ==
  ASSUME NEW S, NEW q \in Seq(S), NEW x \in S
  PROVE  /\ Append(q, x) \in Seq(S) /\ Grows(q, Append(q, x))
         /\ Len(q) + 1 \in DOMAIN Append(q, x) /\ Append(q, x)[Len(q) + 1] = x
         /\ \A i \in DOMAIN Append(q, x) : i \in DOMAIN q \/ i = Len(q) + 1
  BY DEF Grows

\* Rows are only added, so what a row of feedback claims stays true.
LEMMA ClaimsStay ==
  ASSUME FeedbackInv, FeedbackTypes', Grows(evaluations, evaluations'),
         Grows(briefs, briefs'), Grows(replies, replies'), NEW f, f \in FeedbackRow,
         RecordedOf(f), Claims(f)
  PROVE  RecordedOf(f)' /\ Claims(f)'
<1>0. /\ DOMAIN evaluations = 1..Len(evaluations) /\ Len(evaluations) \in Nat
      /\ DOMAIN evaluations' = 1..Len(evaluations') /\ Len(evaluations') \in Nat
      /\ Len(evaluations) <= Len(evaluations')
  <2>1. /\ DOMAIN evaluations = 1..Len(evaluations) /\ Len(evaluations) \in Nat
        /\ DOMAIN evaluations' = 1..Len(evaluations') /\ Len(evaluations') \in Nat
    BY DEF FeedbackInv, FeedbackTypes
  <2>2. 1..Len(evaluations) \subseteq 1..Len(evaluations')
    BY <2>1 DEF Grows
  <2>3. \A x, y \in Nat : 1..x \subseteq 1..y => x <= y
    OBVIOUS
  <2> QED
    BY <2>1, <2>2, <2>3
<1>1. /\ evaluations'[f.evaluation] = evaluations[f.evaluation]
      /\ replies'[f.source] = replies[f.source]
      /\ briefs'[f.brief] = briefs[f.brief]
      /\ \A i \in DOMAIN evaluations : evaluations'[i] = evaluations[i]
  BY DEF RecordedOf, Grows
<1>2. f.evaluation \in Nat /\ f.brief \in Nat /\ briefs[f.brief].exist \in Nat
  BY RowsAre DEF FeedbackRow, RecordedOf, FeedbackInv, BriefRow
<1>3. RecordedOf(f)'
  BY <1>0, <1>1, <1>2 DEF RecordedOf, Grows
<1>4. \A i \in DOMAIN evaluations' : i \in DOMAIN evaluations \/ i > Len(evaluations)
  BY <1>0
<1>5. Blames(f)'
  <2> DEFINE later == Later(f.dispute, briefs[f.brief].exist)
  <2>1. ASSUME NEW i \in later' PROVE i \in later \/ f.evaluation <= i
    <3>1. i \in DOMAIN evaluations' /\ evaluations'[i].dispute = f.dispute
          /\ i > briefs[f.brief].exist
      BY <1>1, <2>1 DEF Later
    <3>2. CASE i \in DOMAIN evaluations
      BY <1>1, <3>1, <3>2 DEF Later
    <3>3. CASE i > Len(evaluations)
      BY <1>0, <3>1, <3>3 DEF RecordedOf
    <3> QED
      BY <1>4, <3>1, <3>2, <3>3
  <2>2. f.evaluation \in later' => f.evaluation \in later
    BY <1>1 DEF Later, RecordedOf
  <2> QED
    BY <1>1, <2>1, <2>2 DEF Claims, Blames
<1>6. Exhausts(f)'
  <2> SUFFICES ASSUME NEW i \in DOMAIN evaluations',
                      evaluations'[i].dispute = f.dispute, i <= briefs[f.brief].exist,
                      replies[f.source].question \in evaluations'[i].asked
               PROVE  i <= f.evaluation
    BY <1>1 DEF Exhausts
  <2>1. i \in DOMAIN evaluations
    BY <1>0, <1>2, <1>4 DEF RecordedOf
  <2> QED
    BY <1>1, <2>1 DEF Claims, Exhausts
<1>7. Finds(f)'
  BY <1>1 DEF Claims, Finds
<1> QED
  BY <1>3, <1>5, <1>6, <1>7 DEF Claims

\* Steps that add rows of evaluations, briefs or replies, and no feedback.
LEMMA RowsGrow ==
  ASSUME FeedbackInv, FeedbackTypes', ClocksHold', feedback' = feedback,
         Grows(evaluations, evaluations'), Grows(briefs, briefs'), Grows(replies, replies'),
         \A m \in DOMAIN replies' : m \in DOMAIN replies \/ AnswersABrief(m)'
  PROVE  FeedbackInv'
<1>1. \A m \in DOMAIN replies : AnswersABrief(m)'
  BY DEF FeedbackInv, AnswersABrief, Grows
<1>2. ASSUME NEW j \in DOMAIN feedback
      PROVE  RecordedOf(feedback[j])' /\ Claims(feedback[j])'
  <2> DEFINE f == feedback[j]
  <2>1. RecordedOf(f) /\ Claims(f) /\ f \in FeedbackRow
    BY SoundIs DEF FeedbackInv, FeedbackTypes
  <2>2. f' = f
    OBVIOUS
  <2> HIDE DEF f
  <2>3. \A g : g = f => RecordedOf(g)' /\ Claims(g)'
    BY <2>1, ClaimsStay
  <2>4. RecordedOf(f)' /\ Claims(f)'
    BY <2>2, <2>3 DEF RecordedOf, Claims, Blames, Exhausts, Finds, Later
  <2> QED
    BY <2>4 DEF f
<1>3. FeedbackIsSound'
  <2>1. \A j \in DOMAIN feedback' : Claims(feedback[j])'
    BY <1>2
  <2>2. OneTurnUnseen'
    BY <2>1 DEF Claims, OneTurnUnseen, Blames, Later
  <2>3. NothingShownIsPassedOver'
    BY <2>1 DEF Claims, NothingShownIsPassedOver, Exhausts
  <2>4. NoOlderBriefIsTaken'
    BY <2>1 DEF Claims, NoOlderBriefIsTaken, Finds
  <2> QED
    BY <2>2, <2>3, <2>4 DEF FeedbackIsSound
<1> QED
  BY <1>1, <1>2, <1>3 DEF FeedbackInv

\* Steps that add no row.
LEMMA SameRows ==
  ASSUME FeedbackInv, UNCHANGED <<evaluations, briefs, replies, feedback>>, FeedbackTypes',
         ClocksHold'
  PROVE  FeedbackInv'
  BY RowsGrow DEF Grows

\* A stamp holds on while no turn ends.
LEMMA StampedStays ==
  ASSUME FeedbackTypes, FeedbackTypes', evaluations' = evaluations, second <= second',
         NEW d \in Disputes, judging'[d] = judging[d] \/ judging'[d].began = second,
         NEW at \in Nat, NEW exist \in Nat, Stamped(d, at, exist)
  PROVE  Stamped(d, at, exist)'
<1>1. Later(d, exist)' = Later(d, exist)
  BY DEF Later
<1>2. at <= second /\ second \in Nat /\ second' \in Nat
  BY DEF Stamped, FeedbackTypes
<1>3. at <= second'
  BY <1>2
<1>4. judging'[d] # NoJudging /\ judging'[d].began < at => Later(d, exist) = {}
  BY <1>2 DEF Stamped
<1> QED
  BY <1>1, <1>3, <1>4 DEF Stamped

\* Clocks, while no turn ends: what is newly stamped holds now.
LEMMA ClocksStay ==
  ASSUME FeedbackInv, FeedbackTypes', evaluations' = evaluations, second <= second',
         \A d \in Disputes : judging'[d] = judging[d] \/ judging'[d].began = second,
         \A i \in DOMAIN briefs' :
           Stamped(briefs'[i].dispute, briefs'[i].at, briefs'[i].exist),
         \A c \in Couriers :
           courier'[c].at > 0 => Stamped(c[1], courier'[c].at, courier'[c].exist)
  PROVE  ClocksHold'
<1>0. FeedbackTypes /\ second \in Nat /\ second' \in Nat
  BY DEF FeedbackInv, FeedbackTypes
<1>1. TurnsArePast'
  <2>1. \A i \in DOMAIN evaluations : evaluations[i].at \in Nat /\ evaluations[i].at <= second
    BY RowsAre DEF FeedbackInv, Evaluation, ClocksHold, TurnsArePast
  <2>2. \A d \in Disputes : judging[d].began \in Nat /\ judging[d].began <= second
    BY DEF FeedbackInv, FeedbackTypes, ClocksHold, TurnsArePast
  <2> QED
    BY <1>0, <2>1, <2>2 DEF TurnsArePast
<1>2. ASSUME NEW i \in DOMAIN briefs'
      PROVE  Stamped(briefs[i].dispute, briefs[i].at, briefs[i].exist)'
  <2>1. briefs'[i] \in BriefRow
    BY DEF FeedbackTypes
  <2>2. PICK d \in Disputes : d = briefs'[i].dispute
    BY <2>1 DEF BriefRow
  <2>3. PICK at \in Nat : at = briefs'[i].at
    BY <2>1 DEF BriefRow
  <2>4. PICK exist \in Nat : exist = briefs'[i].exist
    BY <2>1 DEF BriefRow
  <2>5. Stamped(d, at, exist)
    BY <2>2, <2>3, <2>4
  <2>6. judging'[d] = judging[d] \/ judging'[d].began = second
    OBVIOUS
  <2>7. Stamped(d, at, exist)'
    BY <1>0, <2>5, <2>6, StampedStays
  <2> QED
    BY <2>2, <2>3, <2>4, <2>7 DEF Stamped, Later
<1>3. ASSUME NEW c \in Couriers, courier'[c].at > 0
      PROVE  Stamped(c[1], courier[c].at, courier[c].exist)'
  <2>1. courier'[c] \in Courier
    BY DEF FeedbackTypes
  <2>2. PICK d \in Disputes : d = c[1]
    BY DEF Couriers
  <2>3. PICK at \in Nat : at = courier'[c].at
    BY <2>1 DEF Courier
  <2>4. PICK exist \in Nat : exist = courier'[c].exist
    BY <2>1 DEF Courier
  <2>5. Stamped(d, at, exist)
    BY <1>3, <2>2, <2>3, <2>4
  <2>6. judging'[d] = judging[d] \/ judging'[d].began = second
    OBVIOUS
  <2>7. Stamped(d, at, exist)'
    BY <1>0, <2>5, <2>6, StampedStays
  <2> QED
    BY <2>2, <2>3, <2>4, <2>7 DEF Stamped, Later
<1> QED
  BY <1>1, <1>2, <1>3 DEF ClocksHold

\* Turns.
LEMMA JudgedGrows ==
  ASSUME FeedbackTypes, NEW d \in Disputes, NEW asked \in SUBSET Questions, Judged(d, asked)
  PROVE  /\ evaluations' \in Seq(Evaluation) /\ Grows(evaluations, evaluations')
         /\ judging' \in [Disputes -> [began: Nat]]
<1>1. [dispute |-> d, at |-> judging[d].began, asked |-> asked] \in Evaluation
  BY DEF FeedbackTypes, Evaluation
<1>2. NoJudging \in [began: Nat]
  BY DEF NoJudging
<1> QED
  BY <1>1, <1>2, AppendGrows DEF Judged, FeedbackTypes

\* A stamp holds on when a turn ends: if it began before, it is the first after.
LEMMA StampedOutlivesTurn ==
  ASSUME FeedbackTypes, second' = second,
         NEW x \in Disputes, NEW asked \in SUBSET Questions, Judged(x, asked),
         NEW d \in Disputes, NEW at \in Nat, NEW exist \in Nat, Stamped(d, at, exist)
  PROVE  Stamped(d, at, exist)'
<1> DEFINE row == [dispute |-> x, at |-> judging[x].began, asked |-> asked]
           n == Len(evaluations) + 1
<1>1. /\ row \in Evaluation /\ row.dispute = x /\ row.at = judging[x].began
      /\ evaluations' = Append(evaluations, row) /\ evaluations \in Seq(Evaluation)
      /\ judging' = [judging EXCEPT ![x] = NoJudging] /\ judging[x] # NoJudging
      /\ judging \in [Disputes -> [began: Nat]]
  BY DEF Judged, FeedbackTypes, Evaluation
<1> HIDE DEF row
<1>2. /\ Len(evaluations) \in Nat /\ DOMAIN evaluations = 1..Len(evaluations)
      /\ Len(evaluations') = n /\ DOMAIN evaluations' = 1..n
      /\ evaluations'[n] = row
      /\ \A i \in DOMAIN evaluations : evaluations'[i] = evaluations[i]
  BY <1>1
<1>3. /\ at <= second /\ exist <= Len(evaluations)
      /\ \A i \in DOMAIN evaluations :
           evaluations[i].dispute = d /\ i <= exist => evaluations[i].at <= at
      /\ judging[d] # NoJudging /\ judging[d].began < at => Later(d, exist) = {}
      /\ \A i, e \in Later(d, exist) : i < e => at <= evaluations[e].at
  BY DEF Stamped
<1>4. \A i \in DOMAIN evaluations' :
        evaluations'[i].dispute = d /\ i <= exist => evaluations'[i].at <= at
  BY <1>2, <1>3
<1>5. exist <= Len(evaluations')
  BY <1>2, <1>3
<1>6. \A i \in Later(d, exist)' : i \in Later(d, exist) \/ (i = n /\ x = d)
  BY <1>1, <1>2 DEF Later
<1>7. \A i \in Later(d, exist) : i \in DOMAIN evaluations /\ i < n
  BY <1>2 DEF Later
<1>8. judging'[d] # NoJudging /\ judging'[d].began < at => Later(d, exist)' = {}
  BY <1>1, <1>3, <1>6
<1>9. ASSUME NEW i \in Later(d, exist)', NEW e \in Later(d, exist)', i < e
      PROVE  at <= evaluations'[e].at
  <2>1. CASE e \in Later(d, exist)
    <3>1. i \in Later(d, exist)
      BY <1>2, <1>6, <1>7, <1>9, <2>1
    <3> QED
      BY <1>2, <1>3, <1>7, <1>9, <2>1, <3>1
  <2>2. CASE e = n /\ x = d
    <3>0. n \in Nat /\ ~(n < n)
      BY <1>2
    <3>1. i \in Later(d, exist)
      BY <1>6, <1>9, <2>2, <3>0
    <3>2. ~(judging[d].began < at)
      BY <1>1, <1>3, <2>2, <3>1
    <3>3. judging[d].began \in Nat /\ evaluations'[e].at = judging[d].began
      BY <1>1, <1>2, <2>2
    <3> QED
      BY <3>2, <3>3
  <2> QED
    BY <1>6, <2>1, <2>2
<1> QED
  BY <1>3, <1>4, <1>5, <1>8, <1>9 DEF Stamped

\* Clocks, when a turn ends.
LEMMA JudgedClocks ==
  ASSUME FeedbackInv, FeedbackTypes', second' = second, briefs' = briefs,
         \A c \in Couriers : courier'[c].at > 0 => courier'[c] = courier[c],
         NEW x \in Disputes, NEW asked \in SUBSET Questions, Judged(x, asked)
  PROVE  ClocksHold'
<1>0. FeedbackTypes /\ ClocksHold
  BY DEF FeedbackInv
<1>1. TurnsArePast'
  <2>1. /\ \A d \in Disputes : judging'[d].began <= second
        /\ judging[x].began \in Nat /\ judging[x].began <= second
    BY <1>0 DEF Judged, FeedbackTypes, NoJudging, ClocksHold, TurnsArePast
  <2>2. \A i \in DOMAIN evaluations' :
          \/ i \in DOMAIN evaluations /\ evaluations'[i] = evaluations[i]
          \/ evaluations'[i].at = judging[x].began
    BY <1>0 DEF Judged, FeedbackTypes
  <2> QED
    BY <1>0, <2>1, <2>2 DEF ClocksHold, TurnsArePast
<1>2. ASSUME NEW i \in DOMAIN briefs
      PROVE  Stamped(briefs[i].dispute, briefs[i].at, briefs[i].exist)'
  <2>1. briefs[i] \in BriefRow
    BY <1>0 DEF FeedbackTypes
  <2>2. PICK d \in Disputes : d = briefs[i].dispute
    BY <2>1 DEF BriefRow
  <2>3. PICK at \in Nat : at = briefs[i].at
    BY <2>1 DEF BriefRow
  <2>4. PICK exist \in Nat : exist = briefs[i].exist
    BY <2>1 DEF BriefRow
  <2>5. Stamped(d, at, exist)
    BY <1>0, <2>2, <2>3, <2>4 DEF ClocksHold
  <2>6. Stamped(d, at, exist)'
    BY <1>0, <2>5, StampedOutlivesTurn
  <2> QED
    BY <2>2, <2>3, <2>4, <2>6 DEF Stamped, Later
<1>3. ASSUME NEW c \in Couriers, courier'[c].at > 0
      PROVE  Stamped(c[1], courier[c].at, courier[c].exist)'
  <2>1. courier[c] \in Courier /\ courier'[c] = courier[c]
    BY <1>0, <1>3 DEF FeedbackTypes
  <2>2. PICK d \in Disputes : d = c[1]
    BY DEF Couriers
  <2>3. PICK at \in Nat : at = courier[c].at
    BY <2>1 DEF Courier
  <2>4. PICK exist \in Nat : exist = courier[c].exist
    BY <2>1 DEF Courier
  <2>5. Stamped(d, at, exist)
    BY <1>0, <1>3, <2>1, <2>2, <2>3, <2>4 DEF ClocksHold
  <2>6. Stamped(d, at, exist)'
    BY <1>0, <2>5, StampedOutlivesTurn
  <2> QED
    BY <2>1, <2>2, <2>3, <2>4, <2>6 DEF Stamped, Later
<1> QED
  BY <1>1, <1>2, <1>3 DEF ClocksHold

\* A courier with nothing to bring, and one that begins.
LEMMA AtWorkIsACourier == AtWork \in Courier /\ AtWork.left # << >> /\ NoCourier \in Courier
                          /\ NoCourier.at = 0 /\ AtWork.at = 0
<1>1. NoCourier \in Courier /\ NoCourier.at = 0
  BY DEF NoCourier, Courier
<1> DEFINE busy == [NoCourier EXCEPT !.busy = TRUE]
<1>2. busy \in Courier /\ busy.at = 0
  BY <1>1 DEF Courier
<1>3. AtWork = [busy EXCEPT !.left = SetToSeq(Readers)]
  BY DEF AtWork
<1> HIDE DEF busy
<1> QED
  BY <1>1, <1>2, <1>3, EachOnce, FeedbackAssumption DEF Courier

\* A new state of a courier.
LEMMA CourierMoves ==
  ASSUME FeedbackTypes, NEW c \in Couriers, NEW x \in Courier, x.at > 0 => x.left # << >>,
         courier' = [courier EXCEPT ![c] = x]
  PROVE  /\ courier' \in [Couriers -> Courier]
         /\ \A b \in Couriers : courier'[b].at > 0 => courier'[b].left # << >>
  BY DEF FeedbackTypes

\* The newest evaluation of a dispute, or none.
LEMMA ExistIs ==
  ASSUME FeedbackTypes, NEW d \in Disputes
  PROVE  /\ ExistOf(d) \in Nat /\ ExistOf(d) <= Len(evaluations)
         /\ Later(d, ExistOf(d)) = {}
<1> DEFINE n == Len(evaluations)
           ids == {i \in DOMAIN evaluations : evaluations[i].dispute = d}
           S == {0} \union ids
<1>1. n \in Nat /\ ids \in SUBSET (1..n)
  BY DEF FeedbackTypes
<1>2. ExistOf(d) \in S /\ \A j \in S : ExistOf(d) >= j
  <2>1. CASE ids = {}
    <3> HIDE DEF ids
    <3> QED
      BY <2>1 DEF ExistOf, Max, ids
  <2>2. CASE ids # {}
    <3>1. Max(ids) \in ids /\ \A j \in ids : j <= Max(ids)
      BY <1>1, <2>2, NewestIs
    <3>a. Max(ids) \in Nat /\ \A j \in ids : j \in Nat
      BY <1>1, <3>1
    <3>2. \E x \in S : \A y \in S : x >= y
      <4> HIDE DEF ids
      <4>1. Max(ids) \in S /\ \A y \in S : Max(ids) >= y
        BY <3>1, <3>a
      <4> QED
        BY <4>1
    <3>3. Max(S) \in S /\ \A j \in S : Max(S) >= j
      BY <3>2 DEF Max
    <3> QED
      BY <3>3 DEF ExistOf
  <2> QED
    BY <2>1, <2>2
<1>3. \A i \in DOMAIN evaluations : evaluations[i].dispute = d => ~(i > ExistOf(d))
  BY <1>1, <1>2
<1> QED
  BY <1>1, <1>2, <1>3 DEF Later

\* What is stamped now holds: whatever exists is of the past.
LEMMA StampedNow ==
  ASSUME FeedbackInv, NEW d \in Disputes PROVE Stamped(d, second, ExistOf(d))
<1>1. /\ second \in Nat /\ \A i \in DOMAIN evaluations : evaluations[i].at <= second
      /\ second <= second /\ FeedbackTypes
  BY DEF FeedbackInv, FeedbackTypes, ClocksHold, TurnsArePast
<1>2. ExistOf(d) <= Len(evaluations) /\ Later(d, ExistOf(d)) = {}
  BY <1>1, ExistIs
<1> QED
  BY <1>1, <1>2 DEF Stamped

\* A turn begins to judge, asks or concludes; the timers send again.
LEMMA TurnsKeep ==
  ASSUME FeedbackInv, NEW d \in Disputes,
         \/ BeginJudging(d) \/ SendAgain(d)
         \/ \E asked \in SUBSET Questions :
              Ask(d, asked) \/ \E next \in {"guiding", "handed_off"} : Conclude(d, asked, next)
  PROVE  FeedbackInv'
<1>0. FeedbackTypes /\ ClocksHold /\ second \in Nat /\ second <= second
  BY DEF FeedbackInv, FeedbackTypes
<1>1. CASE BeginJudging(d)
  <2>1. /\ judging' \in [Disputes -> [began: Nat]]
        /\ \A x \in Disputes : judging'[x] = judging[x] \/ judging'[x].began = second
    BY <1>0, <1>1 DEF BeginJudging, FeedbackTypes
  <2>2. UNCHANGED <<second, evaluations, briefs, courier, replies, feedback>>
    BY <1>1 DEF BeginJudging
  <2>3. FeedbackTypes'
    BY <1>0, <2>1, <2>2 DEF FeedbackTypes
  <2>4. ClocksHold'
    BY <1>0, <2>1, <2>2, <2>3, ClocksStay DEF ClocksHold
  <2> QED
    BY <2>2, <2>3, <2>4, SameRows
<1>2. CASE SendAgain(d)
  <2>1. <<d, "timers">> \in Couriers
    BY DEF Couriers
  <2>2. /\ courier' \in [Couriers -> Courier]
        /\ \A b \in Couriers : courier'[b].at > 0 => courier'[b].left # << >>
    BY <1>0, <1>2, <2>1, AtWorkIsACourier, CourierMoves DEF SendAgain
  <2>3. /\ UNCHANGED <<second, evaluations, briefs, judging, replies, feedback>>
        /\ \A b \in Couriers : courier'[b].at > 0 => courier'[b] = courier[b]
    BY <1>0, <1>2, <2>1, AtWorkIsACourier DEF SendAgain, FeedbackTypes
  <2>4. FeedbackTypes'
    BY <1>0, <2>2, <2>3 DEF FeedbackTypes
  <2>5. ClocksHold'
    BY <1>0, <2>3, <2>4, ClocksStay DEF ClocksHold
  <2> QED
    BY <2>3, <2>4, <2>5, SameRows
<1>3. ASSUME NEW asked \in SUBSET Questions,
             Ask(d, asked) \/ \E next \in {"guiding", "handed_off"} : Conclude(d, asked, next)
      PROVE  FeedbackInv'
  <2>1. /\ evaluations' \in Seq(Evaluation) /\ Grows(evaluations, evaluations')
        /\ judging' \in [Disputes -> [began: Nat]]
    BY <1>0, <1>3, JudgedGrows DEF Ask, Conclude
  <2>2. /\ UNCHANGED <<second, briefs, replies, feedback>> /\ Judged(d, asked)
        /\ courier' = courier \/ courier' = [courier EXCEPT ![<<d, "turn">>] = AtWork]
    BY <1>3 DEF Ask, Conclude
  <2>3. /\ courier' \in [Couriers -> Courier]
        /\ \A b \in Couriers : courier'[b].at > 0 => courier'[b].left # << >>
        /\ \A b \in Couriers : courier'[b].at > 0 => courier'[b] = courier[b]
    <3>1. <<d, "turn">> \in Couriers
      BY DEF Couriers
    <3>2. CASE courier' = courier
      BY <1>0, <3>2 DEF FeedbackTypes
    <3>3. CASE courier' = [courier EXCEPT ![<<d, "turn">>] = AtWork]
      <4>1. \A b \in Couriers : courier'[b].at > 0 => courier'[b] = courier[b]
        BY <1>0, <3>1, <3>3, AtWorkIsACourier DEF FeedbackTypes
      <4> QED
        BY <1>0, <3>1, <3>3, <4>1, AtWorkIsACourier, CourierMoves
    <3> QED
      BY <2>2, <3>2, <3>3
  <2>4. FeedbackTypes'
    BY <1>0, <2>1, <2>2, <2>3 DEF FeedbackTypes
  <2>5. ClocksHold'
    BY <2>2, <2>3, <2>4, JudgedClocks
  <2> QED
    BY <2>1, <2>2, <2>4, <2>5, RowsGrow DEF Grows
<1> QED
  BY <1>1, <1>2, <1>3

\* A courier goes on to its next reader, or is done.
LEMMA OnwardIsACourier ==
  ASSUME FeedbackTypes, NEW c \in Couriers, courier[c].at > 0
  PROVE  Onward(c) \in Courier /\ Onward(c).at = 0
<1>1. CASE Tail(courier[c].left) = << >>
  BY <1>1, AtWorkIsACourier DEF Onward
<1>2. CASE Tail(courier[c].left) # << >>
  <2>1. /\ courier[c] \in Courier /\ courier[c].left \in Seq(Readers) /\ courier[c].left # << >>
    BY DEF FeedbackTypes, Courier
  <2>2. Tail(courier[c].left) \in Seq(Readers)
    BY <2>1
  <2> DEFINE one == [courier[c] EXCEPT !.left = Tail(courier[c].left)]
             two == [one EXCEPT !.at = 0]
             three == [two EXCEPT !.exist = 0]
  <2>3. one \in Courier
    BY <2>1, <2>2 DEF Courier
  <2> HIDE DEF one
  <2>4. two \in Courier /\ two.at = 0
    BY <2>3 DEF Courier
  <2> HIDE DEF two
  <2>5. three \in Courier /\ three.at = 0
    BY <2>4 DEF Courier
  <2>6. Onward(c) = three
    BY <1>2, <2>1 DEF Onward, one, two, Courier
  <2> HIDE DEF three
  <2> QED
    BY <2>5, <2>6
<1> QED
  BY <1>1, <1>2

\* A brief on its way, and its record.
LEMMA BriefsKeep ==
  ASSUME FeedbackInv, NEW c \in Couriers, Stamp(c) \/ Brief(c) \/ MissReader(c)
  PROVE  FeedbackInv'
<1>0. FeedbackTypes /\ ClocksHold /\ courier[c] \in Courier /\ second <= second
  BY DEF FeedbackInv, FeedbackTypes
<1>1. CASE Stamp(c)
  <2> DEFINE one == [courier[c] EXCEPT !.at = second]
             two == [one EXCEPT !.exist = ExistOf(c[1])]
  <2>1. second \in Nat /\ ExistOf(c[1]) \in Nat
    BY <1>0, ExistIs DEF FeedbackTypes, Couriers
  <2>2. courier[c].left # << >>
    BY <1>1 DEF Stamp
  <2>3. one \in Courier /\ one.left # << >>
    BY <1>0, <2>1, <2>2 DEF Courier
  <2>5. courier' = [courier EXCEPT ![c] = two]
    BY <1>0, <1>1 DEF Stamp, FeedbackTypes
  <2>a. one.at = second
    BY <1>0 DEF Courier
  <2> HIDE DEF one
  <2>4. two \in Courier /\ two.left # << >> /\ two.at = second /\ two.exist = ExistOf(c[1])
    BY <2>1, <2>3, <2>a DEF Courier
  <2> HIDE DEF two
  <2>6. /\ courier' \in [Couriers -> Courier]
        /\ \A b \in Couriers : courier'[b].at > 0 => courier'[b].left # << >>
    BY <1>0, <2>4, <2>5, CourierMoves
  <2>7. /\ courier'[c].at = second /\ courier'[c].exist = ExistOf(c[1])
        /\ \A b \in Couriers : b # c => courier'[b] = courier[b]
    BY <1>0, <2>4, <2>5 DEF FeedbackTypes
  <2>8. UNCHANGED <<second, evaluations, briefs, judging, replies, feedback>>
    BY <1>1 DEF Stamp
  <2>9. FeedbackTypes'
    BY <1>0, <2>6, <2>8 DEF FeedbackTypes
  <2>10. Stamped(c[1], courier'[c].at, courier'[c].exist)
    <3>1. c[1] \in Disputes
      BY DEF Couriers
    <3>2. Stamped(c[1], second, ExistOf(c[1]))
      BY <3>1, StampedNow
    <3> QED
      BY <2>7, <3>2
  <2>11. \A b \in Couriers :
           courier'[b].at > 0 => Stamped(b[1], courier'[b].at, courier'[b].exist)
    <3>1. ASSUME NEW b \in Couriers, b # c, courier'[b].at > 0
          PROVE  Stamped(b[1], courier'[b].at, courier'[b].exist)
      <4>1. courier'[b] = courier[b] /\ courier[b].at > 0
        BY <2>7, <3>1
      <4>2. Stamped(b[1], courier[b].at, courier[b].exist)
        BY <1>0, <4>1 DEF ClocksHold
      <4> QED
        BY <4>1, <4>2
    <3> QED
      BY <2>10, <3>1
  <2>12. ClocksHold'
    BY <1>0, <2>8, <2>9, <2>11, ClocksStay DEF ClocksHold
  <2> QED
    BY <2>8, <2>9, <2>12, SameRows
<1>2. CASE Brief(c) \/ MissReader(c)
  <2>1. courier[c].at > 0 /\ courier' = [courier EXCEPT ![c] = Onward(c)]
    BY <1>2 DEF Brief, MissReader
  <2>2. /\ courier' \in [Couriers -> Courier]
        /\ \A b \in Couriers : courier'[b].at > 0 => courier'[b].left # << >>
    <3>1. Onward(c) \in Courier /\ ~(Onward(c).at > 0)
      BY <1>0, <2>1, OnwardIsACourier
    <3> QED
      BY <1>0, <2>1, <3>1, CourierMoves
  <2>a. \A b \in Couriers :
          courier'[b].at > 0 => Stamped(b[1], courier'[b].at, courier'[b].exist)
    <3>1. ASSUME NEW b \in Couriers, courier'[b].at > 0 PROVE courier'[b] = courier[b]
      <4>1. Onward(c).at = 0
        BY <1>0, <2>1, OnwardIsACourier
      <4> QED
        BY <1>0, <2>1, <3>1, <4>1 DEF FeedbackTypes
    <3>2. \A b \in Couriers : courier[b].at > 0 => Stamped(b[1], courier[b].at, courier[b].exist)
      BY <1>0 DEF ClocksHold
    <3> QED
      BY <3>1, <3>2
  <2>3. CASE MissReader(c)
    <3>1. UNCHANGED <<second, evaluations, briefs, judging, replies, feedback>>
      BY <2>3 DEF MissReader
    <3>2. FeedbackTypes'
      BY <1>0, <2>2, <3>1 DEF FeedbackTypes
    <3>3. ClocksHold'
      BY <1>0, <2>a, <3>1, <3>2, ClocksStay DEF ClocksHold
    <3> QED
      BY <3>1, <3>2, <3>3, SameRows
  <2>4. CASE Brief(c)
    <3> DEFINE b == [dispute |-> c[1], to |-> Head(courier[c].left),
                     at |-> courier[c].at, exist |-> courier[c].exist]
    <3>1. courier[c].left \in Seq(Readers) /\ courier[c].left # << >>
      BY <1>0, <2>1 DEF FeedbackTypes, Courier
    <3>2. Head(courier[c].left) \in Readers /\ c[1] \in Disputes
      BY <3>1 DEF Couriers
    <3>3. /\ b \in BriefRow /\ b.dispute = c[1] /\ b.at = courier[c].at
          /\ b.exist = courier[c].exist
      BY <1>0, <3>2 DEF BriefRow, Courier
    <3>4. briefs' = Append(briefs, b)
      BY <2>4 DEF Brief, Sent
    <3> HIDE DEF b
    <3>5. /\ briefs' \in Seq(BriefRow) /\ Grows(briefs, briefs')
          /\ \A i \in DOMAIN briefs' : i \in DOMAIN briefs \/ briefs'[i] = b
      BY <1>0, <3>3, <3>4, AppendGrows DEF FeedbackTypes
    <3>6. UNCHANGED <<second, evaluations, judging, replies, feedback>>
      BY <2>4 DEF Brief
    <3>7. FeedbackTypes'
      BY <1>0, <2>2, <3>5, <3>6 DEF FeedbackTypes
    <3>8. Stamped(b.dispute, b.at, b.exist)
      BY <1>0, <2>1, <3>3 DEF ClocksHold
    <3>9. \A i \in DOMAIN briefs' :
            Stamped(briefs'[i].dispute, briefs'[i].at, briefs'[i].exist)
      BY <1>0, <3>5, <3>8 DEF ClocksHold, Grows
    <3>10. ClocksHold'
      BY <1>0, <2>a, <3>6, <3>7, <3>9, ClocksStay
    <3> QED
      BY <3>5, <3>6, <3>7, <3>10, RowsGrow DEF Grows
  <2> QED
    BY <1>2, <2>3, <2>4
<1> QED
  BY <1>1, <1>2

\* A solver answers a brief it got.
LEMMA ReplyKeeps ==
  ASSUME FeedbackInv, NEW i \in DOMAIN briefs, NEW question \in Questions, NEW names \in BOOLEAN,
         Answer(i, question, names)
  PROVE  FeedbackInv'
<1>0. FeedbackTypes /\ i \in Nat /\ briefs[i].to \in Readers
  <2>1. briefs \in Seq(BriefRow) /\ FeedbackTypes
    BY DEF FeedbackInv, FeedbackTypes
  <2>2. briefs[i] \in BriefRow /\ i \in Nat
    BY <2>1
  <2> QED
    BY <2>1, <2>2 DEF BriefRow
<1>a. second \in Nat /\ ReaderSkew \in Nat
  BY <1>0, FeedbackAssumption DEF FeedbackTypes
<1>1. PICK written \in Max({0, second - ReaderSkew})..(second + ReaderSkew) :
        replies' = Append(replies, [from |-> briefs[i].to, question |-> question, names |-> names,
                                    written |-> written, answers |-> i])
  BY DEF Answer
<1>b. written \in Int /\ second <= written + ReaderSkew
  <2> DEFINE low == second - ReaderSkew
  <2>1. low \in Int
    BY <1>a
  <2>2. Max({0, low}) \in {0, low} /\ Max({0, low}) >= low
    <3> HIDE DEF low
    <3>1. \E x \in {0, low} : \A y \in {0, low} : x >= y
      BY <2>1
    <3> QED
      BY <3>1 DEF Max
  <2>3. Max({0, low}) \in Int
    BY <2>1, <2>2
  <2> QED
    BY <1>a, <1>1, <2>2, <2>3
<1>c. briefs[i].at \in Nat /\ briefs[i].at <= second
  BY <1>0, RowsAre DEF FeedbackInv, ClocksHold, Stamped, BriefRow
<1>d. briefs[i].at <= written + ReaderSkew
  BY <1>a, <1>b, <1>c
<1> DEFINE m == [from |-> briefs[i].to, question |-> question, names |-> names,
                 written |-> written, answers |-> i]
<1>2. m \in Reply /\ m.answers = i /\ m.from = briefs[i].to /\ m.written = written
  BY <1>0, <1>b DEF Reply
<1>3. replies' = Append(replies, m)
  BY <1>1
<1> HIDE DEF m
<1>4. /\ replies' \in Seq(Reply) /\ Grows(replies, replies')
      /\ \A k \in DOMAIN replies' : k \in DOMAIN replies \/ replies'[k] = m
  BY <1>0, <1>2, <1>3, AppendGrows DEF FeedbackTypes
<1>5. UNCHANGED <<second, evaluations, briefs, judging, courier, feedback>>
  BY DEF Answer
<1>6. FeedbackTypes'
  BY <1>0, <1>4, <1>5 DEF FeedbackTypes
<1>7. \A k \in DOMAIN replies' : k \in DOMAIN replies \/ AnswersABrief(k)'
  BY <1>d, <1>2, <1>4, <1>5 DEF AnswersABrief
<1>8. ClocksHold'
  <2>1. ClocksHold /\ second <= second
    BY <1>a DEF FeedbackInv
  <2> QED
    BY <1>5, <1>6, <2>1, ClocksStay DEF ClocksHold
<1> QED
  BY <1>4, <1>5, <1>6, <1>7, <1>8, RowsGrow DEF Grows

\* The brief a reply is matched with: one its solver got until it wrote, of the
\* dispute found; and no older than the one answered, if the clocks agree.
LEMMA BriefIs ==
  ASSUME FeedbackInv, NEW m \in DOMAIN replies, Matches(m)
  PROVE  /\ AboutDispute(m) \in Disputes
         /\ BriefOf(m) \in DOMAIN briefs
         /\ briefs[BriefOf(m)].dispute = AboutDispute(m)
         /\ ReaderSkew <= ClockSkew => BriefOf(m) >= replies[m].answers
<1> DEFINE d == AboutDispute(m)
           r == replies[m]
           before == BriefsBefore(m)
           about == {i \in before : briefs[i].dispute = d}
<1>0. /\ FeedbackTypes /\ r \in Reply
      /\ r.answers \in DOMAIN briefs /\ briefs[r.answers].to = r.from
      /\ briefs[r.answers].at <= r.written + ReaderSkew
      /\ DOMAIN briefs = 1..Len(briefs) /\ Len(briefs) \in Nat
      /\ \A i \in DOMAIN briefs : briefs[i] \in BriefRow
  BY DEF FeedbackInv, FeedbackTypes, AnswersABrief
<1>1. before \subseteq DOMAIN briefs /\ before # {}
  BY DEF BriefsBefore, Matches
<1>2. Max(before) \in before /\ \A i \in before : i <= Max(before)
  <2> HIDE DEF before
  <2> QED
    BY <1>0, <1>1, NewestIs
<1>3. d \in Disputes
  BY <1>0, <1>1, <1>2 DEF AboutDispute, BriefRow
<1>4. about # {}
  <2>1. CASE r.names
    <3>1. d = briefs[r.answers].dispute
      BY <2>1 DEF AboutDispute
    <3>2. \E i \in before : briefs[i].dispute = briefs[r.answers].dispute
      BY <2>1 DEF Matches
    <3> QED
      BY <3>1, <3>2
  <2>2. CASE ~r.names
    BY <1>2, <2>2 DEF AboutDispute
  <2> QED
    BY <2>1, <2>2
<1>5. Max(about) \in about /\ \A i \in about : i <= Max(about)
  <2>1. about \in SUBSET (1..Len(briefs))
    BY <1>0, <1>1
  <2> HIDE DEF about
  <2> QED
    BY <1>0, <1>4, <2>1, NewestIs
<1>6. BriefOf(m) = Max(about)
  BY DEF BriefOf
<1>7. ASSUME ReaderSkew <= ClockSkew PROVE Max(about) >= r.answers
  <2>1. r.answers \in before
    <3>1. briefs[r.answers].at \in Nat /\ r.written \in Int
      BY <1>0 DEF BriefRow, Reply
    <3>2. briefs[r.answers].at <= r.written + ClockSkew
      BY <1>0, <1>7, <3>1, FeedbackAssumption
    <3> QED
      BY <1>0, <3>2 DEF BriefsBefore, Until
  <2>2. CASE r.names
    <3>1. d = briefs[r.answers].dispute
      BY <2>2 DEF AboutDispute
    <3>2. r.answers \in about
      BY <2>1, <3>1
    <3>3. r.answers <= Max(about)
      <4> HIDE DEF about
      <4> QED
        BY <1>5, <3>2
    <3>4. Max(about) \in Nat /\ r.answers \in Nat
      BY <1>0, <1>1, <1>5
    <3> HIDE DEF about
    <3> QED
      BY <3>3, <3>4
  <2>3. CASE ~r.names
    <3>1. d = briefs[Max(before)].dispute
      BY <2>3 DEF AboutDispute
    <3>2. Max(before) \in about
      BY <1>2, <3>1
    <3>3. r.answers <= Max(before)
      <4> HIDE DEF before
      <4> QED
        BY <1>2, <2>1
    <3>4. Max(before) <= Max(about)
      <4> HIDE DEF about
      <4> QED
        BY <1>5, <3>2
    <3>5. Max(about) \in Nat /\ r.answers \in Nat /\ Max(before) \in Nat
      BY <1>0, <1>1, <1>2, <1>5
    <3> HIDE DEF about, before
    <3> QED
      BY <3>3, <3>4, <3>5
  <2> QED
    BY <2>2, <2>3
<1> HIDE DEF about
<1>8. Max(about) \in DOMAIN briefs /\ briefs[Max(about)].dispute = d
  BY <1>1, <1>5 DEF about
<1> QED
  BY <1>3, <1>6, <1>7, <1>8

\* What record finds for a reply: the newest evaluation its brief may have shown.
LEMMA RecordFinds ==
  ASSUME FeedbackInv, NEW m \in DOMAIN replies, Matches(m)
  PROVE  LET f == [source |-> m, dispute |-> AboutDispute(m), evaluation |-> Max(Candidates(m)),
                   brief |-> BriefOf(m)]
         IN f \in FeedbackRow /\ RecordedOf(f) /\ Claims(f)
<1> DEFINE d == AboutDispute(m)
           e == Max(Candidates(m))
           k == BriefOf(m)
           f == [source |-> m, dispute |-> d, evaluation |-> e, brief |-> k]
<1>0. /\ FeedbackTypes /\ m \in Nat /\ ClocksHold
      /\ DOMAIN evaluations = 1..Len(evaluations) /\ Len(evaluations) \in Nat
      /\ \A i \in DOMAIN evaluations : evaluations[i].at \in Nat
  <2>1. FeedbackTypes /\ ClocksHold
    BY DEF FeedbackInv
  <2>2. /\ DOMAIN evaluations = 1..Len(evaluations) /\ Len(evaluations) \in Nat
        /\ DOMAIN replies = 1..Len(replies)
    BY <2>1 DEF FeedbackTypes
  <2>3. \A i \in DOMAIN evaluations : evaluations[i].at \in Nat
    BY <2>1, RowsAre DEF Evaluation
  <2> QED
    BY <2>1, <2>2, <2>3
<1>1. /\ d \in Disputes /\ k \in DOMAIN briefs /\ briefs[k].dispute = d
      /\ ReaderSkew <= ClockSkew => k >= replies[m].answers
  BY BriefIs
<1>2. /\ e \in Candidates(m) /\ \A i \in Candidates(m) : i <= e
  <2>1. Candidates(m) \in SUBSET (1..Len(evaluations)) /\ Candidates(m) # {}
    BY <1>0 DEF Candidates, Matches
  <2> QED
    BY <1>0, <2>1, NewestIs
<1>3. /\ e \in DOMAIN evaluations /\ evaluations[e].dispute = d
      /\ evaluations[e].at <= briefs[k].at /\ e \in Nat
  BY <1>0, <1>2 DEF Candidates, ShownBy, BriefedAt
<1>4. k \in Nat /\ briefs[k].at \in Nat /\ Stamped(d, briefs[k].at, briefs[k].exist)
  <2>1. briefs[k] \in BriefRow /\ k \in Nat
    BY <1>0, <1>1, RowsAre
  <2>2. Stamped(briefs[k].dispute, briefs[k].at, briefs[k].exist)
    BY <1>0, <1>1 DEF ClocksHold
  <2> QED
    BY <1>1, <2>1, <2>2 DEF BriefRow
<1>5. \A i \in DOMAIN evaluations :
        /\ evaluations[i].dispute = d /\ i <= briefs[k].exist
        /\ replies[m].question \in evaluations[i].asked
        => i <= e
  <2> SUFFICES ASSUME NEW i \in DOMAIN evaluations, evaluations[i].dispute = d,
                      i <= briefs[k].exist, replies[m].question \in evaluations[i].asked
               PROVE  i <= e
    OBVIOUS
  <2>1. evaluations[i].at <= briefs[k].at
    BY <1>4 DEF Stamped
  <2>2. i \in Candidates(m)
    BY <2>1 DEF Candidates, ShownBy, BriefedAt
  <2> HIDE DEF e
  <2> QED
    BY <1>2, <2>2
<1>6. ASSUME e \in Later(d, briefs[k].exist), evaluations[e].at # briefs[k].at
      PROVE  /\ evaluations[e].at < briefs[k].at
             /\ \A i \in Later(d, briefs[k].exist) : e <= i
  <2>1. evaluations[e].at < briefs[k].at
    BY <1>0, <1>3, <1>4, <1>6
  <2>2. ASSUME NEW i \in Later(d, briefs[k].exist) PROVE e <= i
    <3>1. i \in Nat
      BY <1>0 DEF Later
    <3>2. i < e => briefs[k].at <= evaluations[e].at
      BY <1>4, <1>6 DEF Stamped
    <3>3. ~(i < e)
      BY <1>0, <1>3, <1>4, <2>1, <3>2
    <3> QED
      BY <1>3, <3>1, <3>3
  <2> QED
    BY <2>1, <2>2
<1>7. briefs[k].exist <= Len(evaluations)
  BY <1>4 DEF Stamped
<1> HIDE DEF d, e, k
<1>8. /\ f.source = m /\ f.dispute = d /\ f.evaluation = e /\ f.brief = k
      /\ f \in FeedbackRow
  BY <1>0, <1>1, <1>3, <1>4 DEF FeedbackRow
<1> HIDE DEF f
<1>9. RecordedOf(f)
  BY <1>1, <1>3, <1>7, <1>8 DEF RecordedOf
<1>10. Blames(f)
  BY <1>3, <1>6, <1>8 DEF Blames
<1>11. Exhausts(f)
  BY <1>5, <1>8 DEF Exhausts
<1>12. Finds(f)
  BY <1>1, <1>8 DEF Finds
<1> QED
  BY <1>8, <1>9, <1>10, <1>11, <1>12 DEF Claims, f, d, e, k

\* What is recorded is as RecordFinds says, and what was recorded stays.
LEMMA RecordKeeps ==
  ASSUME FeedbackInv, NEW m \in DOMAIN replies, Handle(m) PROVE FeedbackInv'
<1> DEFINE f == [source |-> m, dispute |-> AboutDispute(m), evaluation |-> Max(Candidates(m)),
                 brief |-> BriefOf(m)]
<1>1. f \in FeedbackRow /\ RecordedOf(f) /\ Claims(f)
  BY RecordFinds DEF Handle
<1>2. feedback' = Append(feedback, f)
  BY DEF Handle
<1>3. UNCHANGED <<second, evaluations, briefs, judging, courier, replies>>
  BY DEF Handle
<1> HIDE DEF f
<1>4. /\ feedback' \in Seq(FeedbackRow) /\ Grows(feedback, feedback')
      /\ \A j \in DOMAIN feedback' : j \in DOMAIN feedback \/ feedback'[j] = f
  BY <1>1, <1>2, AppendGrows DEF FeedbackInv, FeedbackTypes
<1>5. \A j \in DOMAIN feedback : RecordedOf(feedback[j]) /\ Claims(feedback[j])
  BY SoundIs DEF FeedbackInv
<1>6. \A j \in DOMAIN feedback' : RecordedOf(feedback'[j]) /\ Claims(feedback'[j])
  BY <1>1, <1>4, <1>5 DEF Grows
<1>7. \A j \in DOMAIN feedback' : RecordedOf(feedback[j])' /\ Claims(feedback[j])'
  BY <1>3, <1>6 DEF RecordedOf, Claims, Blames, Exhausts, Finds, Later
<1>8. FeedbackIsSound'
  <2>1. OneTurnUnseen'
    BY <1>7 DEF Claims, OneTurnUnseen, Blames, Later
  <2>2. NothingShownIsPassedOver'
    BY <1>7 DEF Claims, NothingShownIsPassedOver, Exhausts
  <2>3. NoOlderBriefIsTaken'
    BY <1>7 DEF Claims, NoOlderBriefIsTaken, Finds
  <2> QED
    BY <2>1, <2>2, <2>3 DEF FeedbackIsSound
<1>9. FeedbackTypes' /\ \A k \in DOMAIN replies' : AnswersABrief(k)'
  BY <1>3, <1>4 DEF FeedbackInv, FeedbackTypes, AnswersABrief
<1>10. ClocksHold'
  BY <1>3 DEF FeedbackInv, ClocksHold, TurnsArePast, Stamped, Later
<1> QED
  BY <1>7, <1>8, <1>9, <1>10 DEF FeedbackInv

LEMMA FeedbackStarts == FeedbackInit => FeedbackInv
<1> SUFFICES ASSUME FeedbackInit PROVE FeedbackInv
  OBVIOUS
<1>1. FeedbackTypes
  BY AtWorkIsACourier DEF FeedbackInit, FeedbackTypes, NoJudging
<1>2. ClocksHold
  BY AtWorkIsACourier DEF FeedbackInit, ClocksHold, TurnsArePast, NoJudging
<1>3. OneTurnUnseen /\ NothingShownIsPassedOver /\ NoOlderBriefIsTaken
  BY DEF FeedbackInit, OneTurnUnseen, NothingShownIsPassedOver, NoOlderBriefIsTaken
<1> QED
  BY <1>1, <1>2, <1>3 DEF FeedbackInit, FeedbackInv, FeedbackIsSound

\* Every step keeps the invariant.
LEMMA FeedbackKeeps == FeedbackInv /\ [FeedbackNext]_feedbackVars => FeedbackInv'
<1> SUFFICES ASSUME FeedbackInv, [FeedbackNext]_feedbackVars PROVE FeedbackInv'
  OBVIOUS
<1>1. CASE NextSecond
  <2>1. FeedbackTypes' /\ second <= second'
    BY <1>1 DEF FeedbackInv, FeedbackTypes, NextSecond
  <2>2. UNCHANGED <<evaluations, briefs, judging, courier, replies, feedback>> /\ ClocksHold
    BY <1>1 DEF NextSecond, FeedbackInv
  <2>3. ClocksHold'
    BY <2>1, <2>2, ClocksStay DEF ClocksHold
  <2> QED
    BY <2>1, <2>2, <2>3, SameRows
<1>2. CASE UNCHANGED feedbackVars
  <2>1. FeedbackTypes' /\ ClocksHold'
    BY <1>2 DEF FeedbackInv, FeedbackTypes, feedbackVars, ClocksHold, TurnsArePast, Stamped,
                Later
  <2> QED
    BY <1>2, <2>1, SameRows DEF feedbackVars
<1> QED
  BY <1>1, <1>2, TurnsKeep, BriefsKeep, ReplyKeeps, RecordKeeps DEF FeedbackNext

\* What a solver called wrong is recorded against the newest judgment its brief
\* could show, where at worst the one turn then at the judge, or one of that very
\* second, was not shown yet; and that brief is none before the one it read, if
\* its clock is off by no more than the skew: whatever turns, briefs, second
\* attempts and replays interleave (mediation/feedback.rs record).
THEOREM FeedbackStaysSound == FeedbackSpec => []FeedbackIsSound
<1>1. FeedbackInv => FeedbackIsSound
  BY DEF FeedbackInv
<1> QED
  BY <1>1, FeedbackStarts, FeedbackKeeps, PTL DEF FeedbackSpec

-----------------------------------------------------------------------------
(* The types of feedback.                                                  *)

AtTheJudge == {d \in Disputes : judging[d] # NoJudging}

\* Whoever judges has room for its row, so what a brief could show is bounded.
JudgedFits ==
  /\ IsFiniteSet(AtTheJudge)
  /\ Len(evaluations) + Cardinality(AtTheJudge) <= MaxEvaluations
  /\ \A d \in AtTheJudge : judging[d].began \in 1..LastSecond
  /\ \A i \in DOMAIN evaluations : evaluations[i].at \in 1..LastSecond

Seen(at, exist) == at \in 0..LastSecond /\ exist \in 0..MaxEvaluations

BriefsFit ==
  /\ \A c \in Couriers : Seen(courier[c].at, courier[c].exist)
  /\ \A i \in DOMAIN briefs : Seen(briefs[i].at, briefs[i].exist) /\ briefs[i].at > 0

RecordsOnce ==
  \A j, k \in DOMAIN feedback : feedback[j].source = feedback[k].source => j = k

FeedbackFits ==
  /\ second \in 1..LastSecond
  /\ phase \in [Disputes -> {"active", "guiding", "handed_off"}]
  /\ pending \subseteq Disputes
  /\ JudgedFits /\ BriefsFit /\ RecordsOnce

LEMMA FeedbackFitsStart == FeedbackInit => FeedbackFits
<1> SUFFICES ASSUME FeedbackInit PROVE FeedbackFits
  OBVIOUS
<1>1. LastSecond \in Nat \ {0} /\ MaxEvaluations \in Nat
  BY FeedbackAssumption
<1>2. second \in 1..LastSecond
  BY <1>1 DEF FeedbackInit
<1>3. AtTheJudge = {}
  BY DEF AtTheJudge, FeedbackInit
<1>4. IsFiniteSet({}) /\ Cardinality({}) = 0
  BY FS_EmptySet
<1>5. evaluations = << >> /\ briefs = << >> /\ feedback = << >>
  BY DEF FeedbackInit
<1>6. JudgedFits
  BY <1>1, <1>3, <1>4, <1>5 DEF JudgedFits
<1>7. \A c \in Couriers : courier[c].at = 0 /\ courier[c].exist = 0
  BY DEF FeedbackInit, NoCourier
<1>8. BriefsFit
  BY <1>1, <1>5, <1>7 DEF BriefsFit, Seen
<1>9. RecordsOnce
  BY <1>5 DEF RecordsOnce
<1>10. phase \in [Disputes -> {"active", "guiding", "handed_off"}] /\ pending \subseteq Disputes
  BY DEF FeedbackInit
<1> QED
  BY <1>2, <1>6, <1>8, <1>9, <1>10 DEF FeedbackFits

\* A turn goes to the judge with room for its row.
LEMMA BeginFits ==
  ASSUME FeedbackInv, FeedbackFits, NEW d \in Disputes, BeginJudging(d)
  PROVE  JudgedFits'
<1>1. /\ judging \in [Disputes -> [began: Nat]] /\ evaluations \in Seq(Evaluation)
      /\ second \in 1..LastSecond /\ JudgedFits /\ MaxEvaluations \in Nat
  BY FeedbackAssumption DEF FeedbackInv, FeedbackTypes, FeedbackFits
<1>2. /\ judging' = [judging EXCEPT ![d] = [began |-> second]] /\ judging[d] = NoJudging
      /\ Len(evaluations) + Cardinality(AtTheJudge) < MaxEvaluations
      /\ evaluations' = evaluations
  BY DEF BeginJudging, AtTheJudge
<1>3. [began |-> second] # NoJudging
  BY <1>1 DEF NoJudging
<1>4. AtTheJudge' = AtTheJudge \union {d} /\ d \notin AtTheJudge
  BY <1>1, <1>2, <1>3 DEF AtTheJudge
<1>5. IsFiniteSet(AtTheJudge') /\ Cardinality(AtTheJudge') = Cardinality(AtTheJudge) + 1
  BY <1>1, <1>4, FS_AddElement DEF JudgedFits
<1>6. Len(evaluations) + Cardinality(AtTheJudge') <= MaxEvaluations
  <2>1. Cardinality(AtTheJudge) \in Nat /\ Len(evaluations) \in Nat
    BY <1>1, FS_CardinalityType DEF JudgedFits
  <2> QED
    BY <1>1, <1>2, <1>5, <2>1
<1>7. \A x \in AtTheJudge' : judging'[x].began \in 1..LastSecond
  <2>1. \A x \in AtTheJudge : judging'[x] = judging[x]
    BY <1>1, <1>2, <1>4 DEF AtTheJudge
  <2>2. judging'[d].began = second
    BY <1>1, <1>2
  <2> QED
    BY <1>1, <1>4, <2>1, <2>2 DEF JudgedFits
<1>8. \A i \in DOMAIN evaluations' : evaluations'[i].at \in 1..LastSecond
  BY <1>1, <1>2 DEF JudgedFits
<1> QED
  BY <1>2, <1>5, <1>6, <1>7, <1>8 DEF JudgedFits

\* Its row is added.
LEMMA JudgedStillFits ==
  ASSUME FeedbackInv, FeedbackFits, NEW d \in Disputes, NEW asked \in SUBSET Questions,
         Judged(d, asked)
  PROVE  JudgedFits'
<1> DEFINE e == [dispute |-> d, at |-> judging[d].began, asked |-> asked]
<1>1. /\ judging \in [Disputes -> [began: Nat]] /\ evaluations \in Seq(Evaluation)
      /\ JudgedFits /\ MaxEvaluations \in Nat
  BY FeedbackAssumption DEF FeedbackInv, FeedbackTypes, FeedbackFits
<1>2. /\ evaluations' = Append(evaluations, e) /\ d \in AtTheJudge
      /\ judging' = [judging EXCEPT ![d] = NoJudging]
  BY DEF Judged, AtTheJudge
<1>3. e \in Evaluation /\ e.at \in 1..LastSecond
  BY <1>1, <1>2 DEF Evaluation, JudgedFits
<1>4. AtTheJudge' = AtTheJudge \ {d}
  BY <1>1, <1>2 DEF AtTheJudge
<1>5. IsFiniteSet(AtTheJudge') /\ Cardinality(AtTheJudge') = Cardinality(AtTheJudge) - 1
  BY <1>1, <1>2, <1>4, FS_RemoveElement DEF JudgedFits
<1> HIDE DEF e
<1>6. /\ Len(evaluations') = Len(evaluations) + 1
      /\ \A i \in DOMAIN evaluations' : i \in DOMAIN evaluations \/ evaluations'[i] = e
      /\ \A i \in DOMAIN evaluations : evaluations'[i] = evaluations[i]
  BY <1>1, <1>2, <1>3
<1>7. Len(evaluations') + Cardinality(AtTheJudge') <= MaxEvaluations
  <2>1. /\ Cardinality(AtTheJudge) \in Nat /\ Len(evaluations) \in Nat
        /\ Len(evaluations) + Cardinality(AtTheJudge) <= MaxEvaluations
    BY <1>1, FS_CardinalityType DEF JudgedFits
  <2> QED
    BY <1>1, <1>5, <1>6, <2>1
<1>8. \A x \in AtTheJudge' : judging'[x].began \in 1..LastSecond
  BY <1>1, <1>2, <1>4 DEF AtTheJudge, JudgedFits
<1>9. \A i \in DOMAIN evaluations' : evaluations'[i].at \in 1..LastSecond
  BY <1>1, <1>3, <1>6 DEF JudgedFits
<1> QED
  BY <1>5, <1>7, <1>8, <1>9 DEF JudgedFits

\* No brief can show more than there is.
LEMMA ExistFits ==
  ASSUME FeedbackInv, FeedbackFits, NEW d \in Disputes PROVE ExistOf(d) \in 0..MaxEvaluations
<1> DEFINE ids == {i \in DOMAIN evaluations : evaluations[i].dispute = d}
           S == {0} \union ids
           n == Len(evaluations)
<1>1. n \in Nat /\ ids \in SUBSET (1..n)
  BY DEF FeedbackInv, FeedbackTypes
<1>2. n <= MaxEvaluations /\ MaxEvaluations \in Nat
  <2>1. /\ Cardinality(AtTheJudge) \in Nat /\ n + Cardinality(AtTheJudge) <= MaxEvaluations
    BY FS_CardinalityType DEF FeedbackFits, JudgedFits
  <2>2. MaxEvaluations \in Nat
    BY FeedbackAssumption
  <2> HIDE DEF n
  <2> QED
    BY <1>1, <2>1, <2>2
<1>3. \E x \in S : \A y \in S : x >= y
  <2>1. CASE ids = {}
    BY <2>1
  <2>2. CASE ids # {}
    <3>1. Max(ids) \in ids /\ \A j \in ids : j <= Max(ids)
      BY <1>1, <2>2, NewestIs
    <3>2. Max(ids) \in Nat
      BY <1>1, <3>1
    <3> HIDE DEF ids
    <3> QED
      BY <1>1, <3>1, <3>2
  <2> QED
    BY <2>1, <2>2
<1>4. Max(S) \in S
  BY <1>3 DEF Max
<1>5. S \subseteq 0..MaxEvaluations
  BY <1>1, <1>2
<1> QED
  BY <1>4, <1>5 DEF ExistOf

\* A new state of a courier.
LEMMA CourierFits ==
  ASSUME FeedbackInv, BriefsFit, NEW c \in Couriers, NEW x, Seen(x.at, x.exist),
         courier' = [courier EXCEPT ![c] = x], briefs' = briefs
  PROVE  BriefsFit'
<1>1. courier \in [Couriers -> Courier]
  BY DEF FeedbackInv, FeedbackTypes
<1>2. \A b \in Couriers : courier'[b] = IF b = c THEN x ELSE courier[b]
  BY <1>1
<1> QED
  BY <1>2 DEF BriefsFit, Seen

LEMMA NoneSeen == Seen(0, 0) /\ NoCourier.at = 0 /\ NoCourier.exist = 0
                  /\ AtWork.at = 0 /\ AtWork.exist = 0
<1>1. LastSecond \in Nat /\ MaxEvaluations \in Nat
  BY FeedbackAssumption
<1>2. NoCourier.at = 0 /\ NoCourier.exist = 0
  BY DEF NoCourier
<1>3. AtWork.at = 0 /\ AtWork.exist = 0
  BY AtWorkIsACourier DEF AtWork, NoCourier
<1> QED
  BY <1>1, <1>2, <1>3 DEF Seen

\* A brief is stamped, arrives or is missed.
LEMMA BriefFits ==
  ASSUME FeedbackInv, FeedbackFits, NEW c \in Couriers, Stamp(c) \/ Brief(c) \/ MissReader(c)
  PROVE  BriefsFit' /\ UNCHANGED <<second, phase, evaluations, judging, feedback>>
         /\ pending' \subseteq Disputes
<1>1. /\ courier \in [Couriers -> Courier] /\ courier[c] \in Courier
      /\ briefs \in Seq(BriefRow) /\ BriefsFit /\ pending \subseteq Disputes
      /\ second \in 1..LastSecond /\ c[1] \in Disputes
  BY DEF FeedbackInv, FeedbackTypes, FeedbackFits, Couriers
<1>2. CASE Stamp(c)
  <2> DEFINE one == [courier[c] EXCEPT !.at = second]
             two == [one EXCEPT !.exist = ExistOf(c[1])]
  <2>1. courier' = [courier EXCEPT ![c] = two]
    BY <1>1, <1>2 DEF Stamp
  <2>2. one \in Courier /\ one.at = second
    <3>1. second \in Nat
      BY DEF FeedbackInv, FeedbackTypes
    <3> QED
      BY <1>1, <3>1 DEF Courier
  <2> HIDE DEF one
  <2>3. two.at = second /\ two.exist = ExistOf(c[1])
    BY <2>2 DEF Courier
  <2> HIDE DEF two
  <2>4. Seen(two.at, two.exist)
    BY <1>1, <2>3, ExistFits DEF Seen
  <2> QED
    BY <1>1, <1>2, <2>1, <2>4, CourierFits DEF Stamp
<1>3. CASE Brief(c) \/ MissReader(c)
  <2>1. courier' = [courier EXCEPT ![c] = Onward(c)] /\ courier[c].at > 0
    BY <1>3 DEF Brief, MissReader
  <2>2. Onward(c).at = 0 /\ Onward(c).exist = 0
    <3>1. CASE Tail(courier[c].left) = << >>
      BY <3>1, NoneSeen DEF Onward
    <3>2. CASE Tail(courier[c].left) # << >>
      <4> DEFINE one == [courier[c] EXCEPT !.left = Tail(courier[c].left)]
                 two == [one EXCEPT !.at = 0]
      <4>1. Onward(c) = [two EXCEPT !.exist = 0]
        BY <1>1, <3>2 DEF Onward, Courier
      <4>2. DOMAIN one = {"busy", "left", "at", "exist"}
        BY <1>1 DEF Courier
      <4> HIDE DEF one
      <4>3. DOMAIN two = {"busy", "left", "at", "exist"} /\ two.at = 0
        BY <4>2
      <4> HIDE DEF two
      <4> QED
        BY <4>1, <4>3
    <3> QED
      BY <3>1, <3>2
  <2>3. Seen(Onward(c).at, Onward(c).exist)
    BY <2>2, NoneSeen
  <2>4. CASE MissReader(c)
    BY <1>1, <2>1, <2>3, <2>4, CourierFits DEF MissReader
  <2>5. CASE Brief(c)
    <3> DEFINE b == [dispute |-> c[1], to |-> Head(courier[c].left),
                     at |-> courier[c].at, exist |-> courier[c].exist]
    <3>1. briefs' = Append(briefs, b) /\ b.at = courier[c].at /\ b.exist = courier[c].exist
      BY <2>5 DEF Brief, Sent
    <3> HIDE DEF b
    <3>2. \A i \in DOMAIN briefs' :
            briefs'[i] = b \/ (i \in DOMAIN briefs /\ briefs'[i] = briefs[i])
      BY <1>1, <3>1
    <3>3. Seen(b.at, b.exist) /\ b.at > 0
      BY <1>1, <2>1, <3>1 DEF BriefsFit
    <3>4. \A i \in DOMAIN briefs' : Seen(briefs'[i].at, briefs'[i].exist) /\ briefs'[i].at > 0
      BY <1>1, <3>2, <3>3 DEF BriefsFit
    <3>5. \A x \in Couriers : Seen(courier'[x].at, courier'[x].exist)
      <4>1. \A x \in Couriers : courier'[x] = IF x = c THEN Onward(c) ELSE courier[x]
        BY <1>1, <2>1
      <4> QED
        BY <1>1, <2>3, <4>1 DEF BriefsFit
    <3>6. BriefsFit'
      BY <3>4, <3>5 DEF BriefsFit, Seen
    <3> QED
      BY <1>1, <2>5, <3>6 DEF Brief
  <2> QED
    BY <1>3, <2>4, <2>5
<1> QED
  BY <1>2, <1>3

\* A reply is recorded once.
LEMMA RecordFits ==
  ASSUME FeedbackInv, RecordsOnce, NEW m \in DOMAIN replies, Handle(m)
  PROVE  RecordsOnce'
<1> DEFINE f == [source |-> m, dispute |-> AboutDispute(m), evaluation |-> Max(Candidates(m)),
                 brief |-> BriefOf(m)]
<1>1. feedback \in Seq(FeedbackRow)
  BY DEF FeedbackInv, FeedbackTypes
<1>2. /\ feedback' = Append(feedback, f) /\ f.source = m
      /\ \A j \in DOMAIN feedback : feedback[j].source # m
  BY DEF Handle, FeedbackRecorded
<1> HIDE DEF f
<1>3. /\ \A j \in DOMAIN feedback : feedback'[j] = feedback[j]
      /\ feedback'[Len(feedback) + 1] = f
      /\ \A j \in DOMAIN feedback' : j \in DOMAIN feedback \/ j = Len(feedback) + 1
  BY <1>1, <1>2
<1> QED
  BY <1>2, <1>3 DEF RecordsOnce

LEMMA FeedbackFitsKeep ==
  FeedbackInv /\ FeedbackFits /\ [FeedbackNext]_feedbackVars => FeedbackFits'
<1> SUFFICES ASSUME FeedbackInv, FeedbackFits, [FeedbackNext]_feedbackVars PROVE FeedbackFits'
  OBVIOUS
<1>0. /\ second \in 1..LastSecond /\ LastSecond \in Nat
      /\ phase \in [Disputes -> {"active", "guiding", "handed_off"}]
      /\ pending \subseteq Disputes /\ JudgedFits /\ BriefsFit /\ RecordsOnce
  BY FeedbackAssumption DEF FeedbackFits
<1>1. ASSUME NEW d \in Disputes, BeginJudging(d) PROVE FeedbackFits'
  <2>1. UNCHANGED <<second, phase, pending, courier, briefs, feedback>>
    BY <1>1 DEF BeginJudging
  <2>2. JudgedFits'
    BY <1>1, BeginFits
  <2> QED
    BY <1>0, <2>1, <2>2 DEF FeedbackFits, BriefsFit, RecordsOnce, Seen
<1>2. ASSUME NEW d \in Disputes, SendAgain(d) PROVE FeedbackFits'
  <2>1. /\ UNCHANGED <<second, phase, pending, briefs, feedback, evaluations, judging>>
        /\ courier' = [courier EXCEPT ![<<d, "timers">>] = AtWork]
    BY <1>2 DEF SendAgain
  <2>2. <<d, "timers">> \in Couriers
    BY DEF Couriers
  <2>3. BriefsFit'
    BY <1>0, <2>1, <2>2, CourierFits, NoneSeen
  <2>4. JudgedFits'
    BY <1>0, <2>1 DEF JudgedFits, AtTheJudge
  <2> QED
    BY <1>0, <2>1, <2>3, <2>4 DEF FeedbackFits, RecordsOnce
<1>3. ASSUME NEW d \in Disputes, NEW asked \in SUBSET Questions, Ask(d, asked)
      PROVE  FeedbackFits'
  <2>1. UNCHANGED <<second, phase, pending, courier, briefs, feedback>> /\ Judged(d, asked)
    BY <1>3 DEF Ask
  <2>2. JudgedFits'
    BY <1>3, <2>1, JudgedStillFits
  <2> QED
    BY <1>0, <2>1, <2>2 DEF FeedbackFits, BriefsFit, RecordsOnce, Seen
<1>4. ASSUME NEW d \in Disputes, NEW asked \in SUBSET Questions,
             NEW next \in {"guiding", "handed_off"}, Conclude(d, asked, next)
      PROVE  FeedbackFits'
  <2>1. /\ UNCHANGED <<second, briefs, feedback>> /\ Judged(d, asked)
        /\ phase' = [phase EXCEPT ![d] = next] /\ pending' = pending \union {d}
        /\ courier' = [courier EXCEPT ![<<d, "turn">>] = AtWork]
    BY <1>4 DEF Conclude
  <2>2. JudgedFits'
    BY <1>4, <2>1, JudgedStillFits
  <2>3. <<d, "turn">> \in Couriers
    BY DEF Couriers
  <2>4. BriefsFit'
    BY <1>0, <2>1, <2>3, CourierFits, NoneSeen
  <2>5. phase' \in [Disputes -> {"active", "guiding", "handed_off"}] /\ pending' \subseteq Disputes
    BY <1>0, <2>1
  <2> QED
    BY <1>0, <2>1, <2>2, <2>4, <2>5 DEF FeedbackFits, RecordsOnce
<1>5. ASSUME NEW c \in Couriers, Stamp(c) \/ Brief(c) \/ MissReader(c) PROVE FeedbackFits'
  <2>1. /\ BriefsFit' /\ UNCHANGED <<second, phase, evaluations, judging, feedback>>
        /\ pending' \subseteq Disputes
    BY <1>5, BriefFits
  <2> QED
    BY <1>0, <2>1 DEF FeedbackFits, JudgedFits, AtTheJudge, RecordsOnce
<1>6. ASSUME NEW i \in DOMAIN briefs, NEW question \in Questions, NEW names \in BOOLEAN,
             Answer(i, question, names)
      PROVE  FeedbackFits'
  <2>1. UNCHANGED <<second, phase, evaluations, briefs, pending, judging, courier, feedback>>
    BY <1>6 DEF Answer
  <2> QED
    BY <1>0, <2>1 DEF FeedbackFits, JudgedFits, AtTheJudge, BriefsFit, Seen, RecordsOnce
<1>7. ASSUME NEW m \in DOMAIN replies, Handle(m) PROVE FeedbackFits'
  <2>1. UNCHANGED <<second, phase, evaluations, briefs, pending, judging, courier>>
    BY <1>7 DEF Handle
  <2>2. RecordsOnce'
    BY <1>0, <1>7, RecordFits
  <2> QED
    BY <1>0, <2>1, <2>2 DEF FeedbackFits, JudgedFits, AtTheJudge, BriefsFit, Seen
<1>8. CASE NextSecond
  <2>1. /\ UNCHANGED <<phase, evaluations, briefs, pending, judging, courier, feedback>>
        /\ second < LastSecond /\ second' = second + 1
    BY <1>8 DEF NextSecond
  <2>2. second' \in 1..LastSecond
    BY <1>0, <2>1
  <2> QED
    BY <1>0, <2>1, <2>2 DEF FeedbackFits, JudgedFits, AtTheJudge, BriefsFit, Seen, RecordsOnce
<1>9. CASE UNCHANGED feedbackVars
  <2>1. UNCHANGED <<second, phase, evaluations, briefs, pending, judging, courier, feedback>>
    BY <1>9 DEF feedbackVars
  <2> QED
    BY <1>0, <2>1 DEF FeedbackFits, JudgedFits, AtTheJudge, BriefsFit, Seen, RecordsOnce
<1> QED
  BY <1>1, <1>2, <1>3, <1>4, <1>5, <1>6, <1>7, <1>8, <1>9 DEF FeedbackNext

\* The types of feedback: every row is of what exists, and a DM is recorded
\* once however often relays deliver it (mediation/feedback.rs handle).
THEOREM FeedbackTypesStay == FeedbackSpec => []FeedbackTypeOK
<1>1. FeedbackInv /\ FeedbackFits => FeedbackTypeOK
  <2> SUFFICES ASSUME FeedbackInv, FeedbackFits PROVE FeedbackTypeOK
    OBVIOUS
  <2>1. /\ evaluations \in Seq(Evaluation) /\ briefs \in Seq(BriefRow)
        /\ \A j \in DOMAIN feedback : RecordedOf(feedback[j])
    BY DEF FeedbackInv, FeedbackTypes
  <2>2. ASSUME NEW i \in DOMAIN evaluations
        PROVE  evaluations[i] \in [dispute: Disputes, at: 1..LastSecond, asked: SUBSET Questions]
    <3>1. evaluations[i] \in Evaluation /\ evaluations[i].at \in 1..LastSecond
      BY <2>1 DEF FeedbackFits, JudgedFits
    <3> QED
      BY <3>1 DEF Evaluation
  <2>3. ASSUME NEW i \in DOMAIN briefs
        PROVE  briefs[i] \in [dispute: Disputes, to: Readers, at: 1..LastSecond,
                              exist: 0..MaxEvaluations]
    <3>1. /\ briefs[i] \in BriefRow /\ briefs[i].at \in 0..LastSecond /\ briefs[i].at > 0
          /\ briefs[i].exist \in 0..MaxEvaluations
      BY <2>1 DEF FeedbackFits, BriefsFit, Seen
    <3>2. briefs[i].at \in 1..LastSecond
      BY <3>1
    <3> QED
      BY <3>1, <3>2 DEF BriefRow
  <2> QED
    BY <2>1, <2>2, <2>3 DEF FeedbackFits, FeedbackTypeOK, RecordsOnce, RecordedOf
<1> QED
  BY <1>1, FeedbackFitsStart, FeedbackFitsKeep, FeedbackStarts, FeedbackKeeps,
     PTL DEF FeedbackSpec

=============================================================================
