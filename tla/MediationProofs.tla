-------------------------- MODULE MediationProofs --------------------------
(***************************************************************************)
(* One session, for any judge, languages, limits, durations, clocks of the *)
(* parties, failed sends and restarts.  Each section strengthens one       *)
(* property to an invariant of the steps, beside what the types and the    *)
(* tasks have in every state (Typed):                                      *)
(*   Quiet      nothing is sent once the session is over                   *)
(*   Covering   what the solvers saw was in a brief or an update           *)
(*   Earned     a strike stands for messages of its own                    *)
(*   Reminded   a party has its reminder or the timer is about to send it  *)
(*   Asked      each question the turn still has to send is new            *)
(* Most steps move a task in one of a few ways (Moves, Starts, Decided,    *)
(* AtRestIs), and its jobs shrink or are one new list (NewJobs).           *)
(***************************************************************************)
EXTENDS Mediation, PolicyProofs, FiniteSetTheorems, WellFoundedInduction

-----------------------------------------------------------------------------
(* The last of a set of ids.                                               *)

Orders(R, S) ==
  /\ \A i, j, k \in S : <<i, j>> \in R /\ <<j, k>> \in R => <<i, k>> \in R
  /\ \A i \in S : <<i, i>> \notin R
  /\ \A i, j \in S : i = j \/ <<i, j>> \in R \/ <<j, i>> \in R

IsLast(i, ids, R) == i \in ids /\ \A j \in ids : j = i \/ <<j, i>> \in R

\* A finite set has a last element under any order.  The elements above one
\* get fewer as one goes up, and sets of a finite set cannot shrink for ever.
LEMMA SomeIsLast ==
  ASSUME NEW S, IsFiniteSet(S), NEW ids \in SUBSET S, ids # {}, NEW R, Orders(R, S)
  PROVE  \E i : IsLast(i, ids, R)
<1> DEFINE Up(i) == {j \in ids : <<i, j>> \in R}
           U == {Up(i) : i \in ids}
           O == StrictSubsetOrdering(S)
           F == FiniteSubsetsOf(S)
<1>1. IsWellFoundedOn(O, F)
  BY FS_StrictSubsetOrderingWellFounded
<1>2. U \subseteq F /\ U # {}
  <2>1. \A i \in ids : Up(i) \in SUBSET S /\ IsFiniteSet(Up(i))
    BY FS_Subset
  <2> HIDE DEF Up
  <2>2. \A i \in ids : Up(i) \in F
    BY <2>1 DEF FiniteSubsetsOf
  <2> HIDE DEF F
  <2>3. \E i : i \in ids
    OBVIOUS
  <2> QED
    BY <2>2, <2>3
<1>3. PICK m \in U : \A k \in U : ~(<<k, m>> \in O)
  <2> HIDE DEF O, F, U
  <2> QED
    BY <1>1, <1>2, WFMin
<1>4. PICK i \in ids : m = Up(i)
  OBVIOUS
<1>5. ASSUME NEW j \in Up(i) PROVE FALSE
  <2>1. Up(j) \subseteq Up(i) /\ j \notin Up(j)
    BY DEF Orders
  <2>2. <<Up(j), m>> \in O
    BY <2>1, <1>4, <1>5 DEF StrictSubsetOrdering
  <2> QED
    BY <2>2, <1>3
<1> QED
  BY <1>5 DEF Orders, IsLast

LEMMA LastIs ==
  ASSUME NEW n \in Nat, NEW ids \in SUBSET (1..n)
  PROVE  /\ Last(ids) \in 0..n
         /\ \A j \in ids : j <= Last(ids)
         /\ Last(ids) # 0 => Last(ids) \in ids
         /\ Last(ids) = 0 <=> ids = {}
<1>1. CASE ids = {}
  BY <1>1 DEF Last
<1>2. CASE ids # {}
  <2> DEFINE S == 1..n
             R == {r \in S \X S : r[1] < r[2]}
  <2>1. IsFiniteSet(S)
    BY FS_Interval
  <2>2. \A i, j \in S : <<i, j>> \in R <=> i < j
    OBVIOUS
  <2>3. PICK i : IsLast(i, ids, R)
    <3>1. Orders(R, S)
      BY <2>2 DEF Orders
    <3>2. ids \in SUBSET S
      OBVIOUS
    <3> HIDE DEF R, S
    <3> QED
      BY <1>2, <2>1, <3>1, <3>2, SomeIsLast
  <2>4. \A j \in ids : j <= i
    <3>1. ids \subseteq S /\ \A j \in S : j \in Nat
      OBVIOUS
    <3>2. \A j \in ids : j = i \/ <<j, i>> \in R
      BY <2>3 DEF IsLast
    <3>3. i \in S
      BY <2>3, <3>1 DEF IsLast
    <3> HIDE DEF R, S
    <3>4. \A j \in ids : j = i \/ j < i
      BY <2>2, <3>1, <3>2, <3>3
    <3> QED
      BY <3>1, <3>3, <3>4
  <2>5. Last(ids) \in ids /\ \A j \in ids : j <= Last(ids)
    BY <1>2, <2>3, <2>4 DEF Last, IsLast
  <2>6. ids \subseteq 1..n
    OBVIOUS
  <2>7. Last(ids) \in 1..n
    BY <2>5, <2>6
  <2> QED
    BY <1>2, <2>5, <2>7
<1> QED
  BY <1>1, <1>2

LEMMA CoveredIs ==
  ASSUME NEW n \in Nat, NEW ids \in SUBSET (1..n), ids # {},
         \A i \in 1..n : messages[i].at \in Int
  PROVE  /\ Covered(ids) \in ids
         /\ \A j \in ids : j = Covered(ids) \/ Before(j, Covered(ids))
<1> DEFINE S == 1..n
           R == {r \in S \X S : Before(r[1], r[2])}
<1>1. IsFiniteSet(S)
  BY FS_Interval
<1>2. \A i, j \in S : <<i, j>> \in R <=> Before(i, j)
  OBVIOUS
<1>3. PICK i : IsLast(i, ids, R)
  <2>1. Orders(R, S)
    BY <1>2 DEF Before, Orders
  <2>2. ids \in SUBSET S
    OBVIOUS
  <2> HIDE DEF R, S
  <2> QED
    BY <1>1, <2>1, <2>2, SomeIsLast
<1>4. \E k \in ids : \A j \in ids : j = k \/ Before(j, k)
  BY <1>2, <1>3 DEF IsLast
<1> QED
  BY <1>4 DEF Covered

-----------------------------------------------------------------------------
(* Types of what the tasks keep.                                           *)

SendJobs(parties, templates, after) ==
  [kind : {"send"}, party : parties, template : templates, must : BOOLEAN, after : after]
RoundJobs == [kind : {"round"}, party : Party]
BriefJobs(subjects) == [kind : {"brief"}, about : subjects]

JobType == SendJobs(Party, Template, Time) \union RoundJobs \union BriefJobs(Subject)

ActType ==
  {NoAct, [do |-> "hold"]}
    \union [do : {"ask"}, templates : [Party -> Seq(Sendable)], asks : SUBSET Party]
    \union {HandoffFor(reason) : reason \in HandoffReason}
    \union {[do |-> "guide", path |-> path] : path \in Path}

ActsOf(t) ==
  IF t = "turn" THEN ActType
  ELSE {NoAct} \union {HandoffFor(reason) : reason \in HandoffReason}

ThensOf(t) == IF t = "turn" THEN {"idle", "reading", "judging"} ELSE {"idle", "retrying"}

StepsOf(t) ==
  IF t = "turn"
  THEN {"idle", "reading", "judging", "acting", "working", "sending", "briefing", "updating"}
  ELSE {"idle", "checking", "retrying", "acting", "working", "sending", "briefing"}

Steps == {"idle", "reading", "judging", "checking", "retrying", "acting", "working",
          "sending", "briefing", "updating"}

Thens == {"idle", "reading", "judging", "retrying"}

TaskState ==
  [step : Steps, then : Thens, now : Nat, state : Live, read : Nat,
   jobs : Seq(JobType), act : ActType, carry : SUBSET Nat, sendAt : Nat,
   speaks : [Party -> Languages]]

Busy == {"working", "sending", "briefing"}

\* What a task t keeps, when n messages are stored.
Fits(t, k, n) ==
  /\ k \in TaskState
  /\ k.step \in StepsOf(t) /\ k.then \in ThensOf(t) /\ k.act \in ActsOf(t)
  /\ k.read <= n /\ k.carry \subseteq 1..n
  /\ k.step \in Busy => k.jobs # << >>
  /\ k.step = "sending" => Head(k.jobs).kind = "send"
  /\ k.step = "briefing" => Head(k.jobs).kind = "brief"
  /\ k.step = "updating" => k.carry # {}

TasksFit ==
  /\ task \in [Tasks -> TaskState]
  /\ \A t \in Tasks : Fits(t, task[t], Len(messages))

LEMMA OneTaskMoves ==
  ASSUME TasksFit, NEW t \in Tasks, NEW k, Fits(t, k, Len(messages')),
         task' = [task EXCEPT ![t] = k],
         Len(messages) \in Nat, Len(messages') \in Nat, Len(messages) <= Len(messages')
  PROVE  TasksFit'
<1>1. k \in TaskState
  BY DEF Fits
<1>2. task' \in [Tasks -> TaskState]
  BY <1>1 DEF TasksFit
<1>3. ASSUME NEW u \in Tasks PROVE Fits(u, task'[u], Len(messages'))
  <2>1. CASE u = t
    BY <2>1 DEF TasksFit
  <2>2. CASE u # t
    <3>1. task'[u] = task[u] /\ Fits(u, task[u], Len(messages))
      BY <2>2 DEF TasksFit
    <3>2. task[u].read \in Nat
      BY DEF TasksFit, TaskState
    <3> QED
      BY <3>1, <3>2 DEF Fits
  <2> QED
    BY <2>1, <2>2
<1> QED
  BY <1>2, <1>3 DEF TasksFit

\* The records a task passes through, field by field.
LEMMA RecordFits ==
  ASSUME NEW step \in Steps, NEW then \in Thens, NEW now \in Nat, NEW phase \in Live,
         NEW read \in Nat, NEW jobs \in Seq(JobType), NEW act \in ActType,
         NEW carry \in SUBSET Nat, NEW sendAt \in Nat, NEW speaks \in [Party -> Languages]
  PROVE  [step |-> step, then |-> then, now |-> now, state |-> phase, read |-> read,
          jobs |-> jobs, act |-> act, carry |-> carry, sendAt |-> sendAt,
          speaks |-> speaks] \in TaskState
BY DEF TaskState

AtRestIs(k) ==
  /\ k \in TaskState
  /\ k.step = "idle" /\ k.then = "idle" /\ k.jobs = << >> /\ k.act = NoAct
  /\ k.carry = {} /\ k.sendAt = 0 /\ k.read = 0 /\ k.state = "active"

LEMMA IdleIs ==
  ASSUME MediationAssumption, NEW now \in Nat, NEW phase \in Live, NEW read \in Nat
  PROVE  /\ AtRestIs(IdleTask)
         /\ AtRestIs([IdleTask EXCEPT !.now = now])
         /\ [IdleTask EXCEPT !.now = now].now = now
         /\ [IdleTask EXCEPT !.now = now, !.state = phase, !.read = read] \in TaskState
<1> DEFINE begun == [step |-> "idle", then |-> "idle", now |-> now, state |-> phase,
                     read |-> read, jobs |-> << >>, act |-> NoAct, carry |-> {},
                     sendAt |-> 0, speaks |-> [p \in Party |-> DefaultLanguage]]
<1>1. /\ [p \in Party |-> DefaultLanguage] \in [Party -> Languages]
      /\ << >> \in Seq(JobType) /\ NoAct \in ActType /\ "active" \in Live
  BY DEF MediationAssumption, ActType, Live, Mediating
<1>2. AtRestIs(IdleTask)
  <2>1. IdleTask \in TaskState
    BY <1>1, RecordFits DEF IdleTask, Steps, Thens
  <2> QED
    BY <2>1 DEF AtRestIs, IdleTask
<1> HIDE DEF IdleTask
<1>3. AtRestIs([IdleTask EXCEPT !.now = now]) /\ [IdleTask EXCEPT !.now = now].now = now
  BY <1>2 DEF AtRestIs, TaskState
<1>4. [IdleTask EXCEPT !.now = now, !.state = phase, !.read = read] \in TaskState
  <2> DEFINE k1 == [IdleTask EXCEPT !.now = now]
             k2 == [k1 EXCEPT !.state = phase]
             k3 == [k2 EXCEPT !.read = read]
  <2>0. [IdleTask EXCEPT !.now = now, !.state = phase, !.read = read] = k3
    OBVIOUS
  <2>1. k1 \in TaskState
    BY <1>3 DEF AtRestIs
  <2> HIDE DEF k1
  <2>2. k2 \in TaskState
    BY <2>1 DEF TaskState
  <2> HIDE DEF k2
  <2> QED
    BY <2>0, <2>2 DEF TaskState
<1> QED
  BY <1>2, <1>3, <1>4

LEMMA WorkingIs ==
  ASSUME NEW k \in TaskState, NEW then \in Thens, NEW jobs \in Seq(JobType)
  PROVE  LET r == AtWork(k, jobs, then)
         IN
         /\ r \in TaskState
         /\ r.step = (IF jobs = << >> THEN then ELSE "working") /\ r.then = then /\ r.jobs = jobs
         /\ r.act = NoAct /\ r.carry = {} /\ r.sendAt = 0
         /\ r.now = k.now /\ r.state = k.state /\ r.read = k.read
         /\ r.speaks = k.speaks
<1> DEFINE step == IF jobs = << >> THEN then ELSE "working"
           r == AtWork(k, jobs, then)
           k1 == [k EXCEPT !.jobs = jobs]
           k2 == [k1 EXCEPT !.then = then]
           k3 == [k2 EXCEPT !.act = NoAct]
           k4 == [k3 EXCEPT !.carry = {}]
           k5 == [k4 EXCEPT !.sendAt = 0]
           k6 == [k5 EXCEPT !.step = step]
           Kept(x) == /\ x \in TaskState
                      /\ x.now = k.now /\ x.state = k.state /\ x.read = k.read
                      /\ x.speaks = k.speaks
<1>0. r = k6 /\ step \in Steps
  BY DEF AtWork, Steps, Thens
<1> HIDE DEF step, r
<1>1. Kept(k1) /\ k1.jobs = jobs
  BY DEF TaskState
<1> HIDE DEF k1
<1>2. Kept(k2) /\ k2.jobs = jobs /\ k2.then = then
  BY <1>1 DEF TaskState
<1> HIDE DEF k2
<1>3. Kept(k3) /\ k3.jobs = jobs /\ k3.then = then /\ k3.act = NoAct
  BY <1>2 DEF TaskState, ActType
<1> HIDE DEF k3
<1>4. Kept(k4) /\ k4.jobs = jobs /\ k4.then = then /\ k4.act = NoAct /\ k4.carry = {}
  BY <1>3 DEF TaskState
<1> HIDE DEF k4
<1>5. /\ Kept(k5) /\ k5.jobs = jobs /\ k5.then = then /\ k5.act = NoAct /\ k5.carry = {}
      /\ k5.sendAt = 0
  BY <1>4 DEF TaskState
<1> HIDE DEF k5
<1>6. /\ Kept(k6) /\ k6.jobs = jobs /\ k6.then = then /\ k6.act = NoAct /\ k6.carry = {}
      /\ k6.sendAt = 0 /\ k6.step = step
  BY <1>0, <1>5 DEF TaskState
<1> HIDE DEF k6
<1> QED
  BY <1>0, <1>6 DEF r, step

LEMMA DecidedIs ==
  ASSUME NEW k \in TaskState, NEW act \in ActType, NEW then \in Thens
  PROVE  LET r == Acting(k, act, then)
         IN
         /\ r \in TaskState
         /\ r.step = "acting" /\ r.then = then /\ r.jobs = << >> /\ r.act = act
         /\ r.carry = k.carry /\ r.sendAt = k.sendAt
         /\ r.now = k.now /\ r.state = k.state /\ r.read = k.read
         /\ r.speaks = k.speaks
<1> DEFINE r == Acting(k, act, then)
           k1 == [k EXCEPT !.act = act]
           k2 == [k1 EXCEPT !.then = then]
           k3 == [k2 EXCEPT !.jobs = << >>]
           k4 == [k3 EXCEPT !.step = "acting"]
           Kept(x) == /\ x \in TaskState
                      /\ x.now = k.now /\ x.state = k.state /\ x.read = k.read
                      /\ x.speaks = k.speaks /\ x.carry = k.carry /\ x.sendAt = k.sendAt
                      /\ x.act = act
<1>0. r = k4
  BY DEF Acting
<1> HIDE DEF r
<1>1. Kept(k1)
  BY DEF TaskState
<1> HIDE DEF k1
<1>2. Kept(k2) /\ k2.then = then
  BY <1>1 DEF TaskState
<1> HIDE DEF k2
<1>3. Kept(k3) /\ k3.then = then /\ k3.jobs = << >>
  <2>1. << >> \in Seq(JobType)
    OBVIOUS
  <2> QED BY <1>2, <2>1 DEF TaskState
<1> HIDE DEF k3
<1>4. Kept(k4) /\ k4.then = then /\ k4.jobs = << >> /\ k4.step = "acting"
  BY <1>3 DEF TaskState, Steps
<1> HIDE DEF k4
<1> QED
  BY <1>0, <1>4 DEF r

LEMMA RestFits ==
  ASSUME NEW t \in Tasks, NEW n \in Nat, NEW k, AtRestIs(k)
  PROVE  Fits(t, k, n)
BY DEF AtRestIs, Fits, StepsOf, ThensOf, ActsOf, ActType, Busy, Tasks

LEMMA AtRestFits ==
  ASSUME MediationAssumption, TasksFit, NEW t \in Tasks
  PROVE  AtRestIs(AtRest(t))
<1>1. task[t].now \in Nat /\ "active" \in Live
  BY DEF TasksFit, TaskState, Live, Mediating
<1> QED
  BY <1>1, IdleIs DEF AtRest

\* How a task is left by Works.
Moves(t, jobs, then) ==
  /\ TasksFit'
  /\ \A u \in Tasks : u # t => task'[u] = task[u]
  /\ task'[t].step = IF jobs = << >> THEN then ELSE "working"
  /\ task'[t].jobs = jobs /\ task'[t].then = then
  /\ task'[t].act = NoAct /\ task'[t].carry = {} /\ task'[t].sendAt = 0
  /\ \/ AtRestIs(task'[t])
     \/ /\ task'[t].step # "idle"
        /\ task'[t].read = task[t].read /\ task'[t].state = task[t].state
        /\ task'[t].speaks = task[t].speaks /\ task'[t].now = task[t].now

\* Messages are only added.
Grows == Len(messages) \in Nat /\ Len(messages') \in Nat /\ Len(messages) <= Len(messages')

LEMMA WorksFits ==
  ASSUME MediationAssumption, TasksFit, NEW t \in Tasks, NEW jobs \in Seq(JobType),
         NEW then \in ThensOf(t), Works(t, jobs, then), Grows
  PROVE  Moves(t, jobs, then)
<1> USE DEF Moves, Grows
<1> DEFINE rest == AtWork(task[t], jobs, then)
           k == IF jobs = << >> /\ then = "idle" THEN AtRest(t) ELSE rest
<1>1. task' = [task EXCEPT ![t] = k]
  BY DEF Works
<1>2. task[t] \in TaskState /\ Fits(t, task[t], Len(messages))
  BY DEF TasksFit
<1>3. CASE jobs = << >> /\ then = "idle"
  <2>1. k = AtRest(t)
    BY <1>3
  <2>2. AtRestIs(k)
    BY <2>1, AtRestFits
  <2>3. task'[t] = k /\ \A u \in Tasks : u # t => task'[u] = task[u]
    BY <1>1 DEF TasksFit
  <2> HIDE DEF k
  <2> QED
    BY <1>1, <1>3, <2>2, <2>3, RestFits, OneTaskMoves DEF AtRestIs
<1>4. CASE ~(jobs = << >> /\ then = "idle")
  <2>1. k = rest
    BY <1>4
  <2>2. then \in Thens
    BY DEF ThensOf, Thens
  <2>3. NoAct \in ActsOf(t)
    BY DEF ActType, ActsOf
  <2>5. /\ rest \in TaskState
        /\ rest.step = (IF jobs = << >> THEN then ELSE "working")
        /\ rest.jobs = jobs /\ rest.then = then /\ rest.act = NoAct
        /\ rest.carry = {} /\ rest.sendAt = 0
        /\ rest.read = task[t].read /\ rest.state = task[t].state
        /\ rest.speaks = task[t].speaks /\ rest.now = task[t].now
    BY <1>2, <2>2, WorkingIs
  <2> HIDE DEF rest
  <2>6. Fits(t, rest, Len(messages'))
    BY <1>2, <2>3, <2>5 DEF Fits, TaskState, StepsOf, ThensOf, Busy, Tasks
  <2>7. task'[t] = rest /\ \A u \in Tasks : u # t => task'[u] = task[u]
    BY <1>1, <2>1 DEF TasksFit
  <2>8. rest.step # "idle"
    BY <1>4, <2>5
  <2> HIDE DEF k
  <2> QED
    BY <1>1, <2>1, <2>5, <2>6, <2>7, <2>8, OneTaskMoves
<1> QED
  BY <1>3, <1>4

\* How a task is left by Decides.
Decided(t, act, then) ==
  /\ TasksFit'
  /\ \A u \in Tasks : u # t => task'[u] = task[u]
  /\ task'[t].jobs = << >>
  /\ IF act.do = "wait" THEN task'[t] = AtRest(t) /\ AtRestIs(AtRest(t))
     ELSE /\ task'[t].step = "acting" /\ task'[t].act = act /\ task'[t].then = then
          /\ task'[t].carry = task[t].carry /\ task'[t].sendAt = task[t].sendAt
          /\ task'[t].read = task[t].read /\ task'[t].state = task[t].state
          /\ task'[t].speaks = task[t].speaks /\ task'[t].now = task[t].now

LEMMA DecidesFits ==
  ASSUME MediationAssumption, TasksFit, NEW t \in Tasks, NEW act, NEW then \in ThensOf(t),
         act.do # "wait" => act \in ActsOf(t), Decides(t, act, then), Grows
  PROVE  Decided(t, act, then)
<1> USE DEF Decided, Grows
<1> DEFINE acting == Acting(task[t], act, then)
           k == IF act.do = "wait" THEN AtRest(t) ELSE acting
<1>1. task' = [task EXCEPT ![t] = k]
  BY DEF Decides
<1>2. task[t] \in TaskState /\ Fits(t, task[t], Len(messages))
  BY DEF TasksFit
<1>3. task'[t] = k /\ \A u \in Tasks : u # t => task'[u] = task[u]
  BY <1>1 DEF TasksFit
<1>4. CASE act.do = "wait"
  <2>1. k = AtRest(t)
    BY <1>4
  <2>2. AtRestIs(k)
    BY <2>1, AtRestFits
  <2> HIDE DEF k
  <2> QED
    BY <1>1, <1>3, <1>4, <2>1, <2>2, RestFits, OneTaskMoves DEF AtRestIs
<1>5. CASE act.do # "wait"
  <2>1. k = acting
    BY <1>5
  <2>2. then \in Thens /\ act \in ActType /\ act \in ActsOf(t)
    BY <1>5 DEF ThensOf, Thens, ActsOf, ActType
  <2>3. /\ acting \in TaskState
        /\ acting.step = "acting" /\ acting.then = then /\ acting.jobs = << >>
        /\ acting.act = act /\ acting.carry = task[t].carry
        /\ acting.sendAt = task[t].sendAt
        /\ acting.read = task[t].read /\ acting.state = task[t].state
        /\ acting.speaks = task[t].speaks /\ acting.now = task[t].now
    BY <1>2, <2>2, DecidedIs
  <2> HIDE DEF acting
  <2>4. Fits(t, acting, Len(messages'))
    BY <1>2, <2>2, <2>3 DEF Fits, TaskState, StepsOf, ThensOf, Busy, Tasks
  <2> HIDE DEF k
  <2> QED
    BY <1>1, <1>3, <1>5, <2>1, <2>3, <2>4, OneTaskMoves
<1> QED
  BY <1>4, <1>5

-----------------------------------------------------------------------------
(* Lists of jobs, with what is in them.                                    *)

LEMMA ListsOfJobs ==
  ASSUME NEW S
  PROVE  /\ << >> \in Seq(S)
         /\ \A a \in S : <<a>> \in Seq(S)
         /\ \A a, b \in S : <<a, b>> \in Seq(S)
         /\ \A r, s \in Seq(S) : r \o s \in Seq(S)
         /\ \A s \in Seq(S) : s # << >> => Head(s) \in S /\ Tail(s) \in Seq(S)
OBVIOUS

LEMMA OnlyIfIs ==
  ASSUME NEW S, NEW needed, NEW job, needed => job \in S
  PROVE  OnlyIf(needed, job) \in Seq(S)
BY DEF OnlyIf

LEMMA JobsAre ==
  /\ \A p, q, must, after, P, T, A :
       p \in P /\ q \in T /\ must \in BOOLEAN /\ after \in A
         => Send(p, q, must, after) \in SendJobs(P, T, A)
  /\ \A p \in Party : Round(p) \in RoundJobs
  /\ \A s, S : s \in S => Brief(s) \in BriefJobs(S)
BY DEF Send, SendJobs, Round, RoundJobs, Brief, BriefJobs

LEMMA BothIs ==
  ASSUME NEW template, NEW after
  PROVE  Both(template, after) \in Seq(SendJobs(Party, {template}, {after}))
<1> DEFINE S == SendJobs(Party, {template}, {after})
<1>1. Send("buyer", template, FALSE, after) \in S
      /\ Send("seller", template, FALSE, after) \in S
  BY JobsAre DEF Party
<1> HIDE DEF S
<1>2. Both(template, after) \in Seq(S)
  BY <1>1, ListsOfJobs DEF Both
<1> QED
  BY <1>2 DEF S

GuideTemplate == {"guide_arrived_seller", "guide_arrived_buyer", "guide_not_sent_buyer",
                  "guide_not_sent_seller"}

LEMMA GuideJobsAre ==
  ASSUME NEW path
  PROVE  /\ GuideJobs(path) \in Seq(SendJobs(Party, GuideTemplate, {0}))
         /\ GuideJobs(path) # << >>
<1> DEFINE S == SendJobs(Party, GuideTemplate, {0})
<1>1. /\ Send("seller", "guide_arrived_seller", FALSE, 0) \in S
      /\ Send("buyer", "guide_arrived_buyer", FALSE, 0) \in S
      /\ Send("buyer", "guide_not_sent_buyer", FALSE, 0) \in S
      /\ Send("seller", "guide_not_sent_seller", FALSE, 0) \in S
  BY JobsAre DEF Party, GuideTemplate
<1> HIDE DEF S
<1>2. GuideJobs(path) \in Seq(S) /\ GuideJobs(path) # << >>
  BY <1>1, ListsOfJobs DEF GuideJobs
<1> QED
  BY <1>2 DEF S

\* The jobs of a turn that asks.
LEMMA AskJobsAre ==
  ASSUME NEW T, NEW act, \A p \in Party : act.templates[p] \in Seq(T)
  PROVE  AskJobs(act) \in Seq(SendJobs(Party, T, {NoTime}) \union RoundJobs)
<1> DEFINE J == SendJobs(Party, T, {NoTime}) \union RoundJobs
           of(p) == Questions(p, act.templates[p]) \o OnlyIf(p \in act.asks, Round(p))
<1>1. ASSUME NEW p \in Party PROVE of(p) \in Seq(J)
  <2>1. \A q \in T : Send(p, q, TRUE, NoTime) \in J
    BY JobsAre
  <2>2. Round(p) \in J
    BY JobsAre
  <2> HIDE DEF J
  <2>3. Questions(p, act.templates[p]) \in Seq(J)
    <3> DEFINE templates == act.templates[p]
    <3>1. templates \in Seq(T)
      OBVIOUS
    <3> HIDE DEF templates
    <3>2. Questions(p, templates) \in Seq(J)
      <4> DEFINE job(i) == Send(p, templates[i], TRUE, NoTime)
      <4>1. ASSUME NEW i \in 1..Len(templates) PROVE job(i) \in J
        <5>1. templates[i] \in T
          BY <3>1
        <5> QED
          BY <5>1, <2>1
      <4>2. Questions(p, templates) = [i \in 1..Len(templates) |-> job(i)]
        BY DEF Questions
      <4>3. Len(templates) \in Nat
        BY <3>1
      <4> HIDE DEF job
      <4> QED
        BY <4>1, <4>2, <4>3
    <3> QED
      BY <3>2 DEF templates
  <2>4. OnlyIf(p \in act.asks, Round(p)) \in Seq(J)
    BY <2>2, OnlyIfIs
  <2> QED
    BY <2>3, <2>4, ListsOfJobs
<1>2. "buyer" \in Party /\ "seller" \in Party
  BY DEF Party
<1>4. AskJobs(act) = of("buyer") \o of("seller")
  BY DEF AskJobs
<1> HIDE DEF J, of
<1>3. of("buyer") \o of("seller") \in Seq(J)
  BY <1>1, <1>2, ListsOfJobs
<1> QED
  BY <1>3, <1>4 DEF J

LEMMA RemindJobsAre ==
  ASSUME NEW parties
  PROVE  RemindJobs(parties) \in Seq(SendJobs(Party \cap parties, {"reminder"}, {NoTime}))
<1> DEFINE J == SendJobs(Party \cap parties, {"reminder"}, {NoTime})
           of(p) == OnlyIf(p \in parties, Send(p, "reminder", TRUE, NoTime))
<1>1. \A p \in Party : p \in parties => Send(p, "reminder", TRUE, NoTime) \in J
  BY JobsAre
<1> HIDE DEF J
<1>2. of("buyer") \in Seq(J) /\ of("seller") \in Seq(J)
  BY <1>1, OnlyIfIs DEF Party
<1>3. RemindJobs(parties) = of("buyer") \o of("seller")
  BY DEF RemindJobs
<1> HIDE DEF of
<1>4. RemindJobs(parties) \in Seq(J)
  BY <1>2, <1>3, ListsOfJobs
<1> QED
  BY <1>4 DEF J

\* What the timer sends again.
Again == GuideTemplate \union {"handoff_notice", "hold_notice"}

LEMMA MissingNoticesAre ==
  ASSUME held.cutoff \in Time
  PROVE  MissingNotices \in Seq(SendJobs(Party, Again, Time))
<1> DEFINE J == SendJobs(Party, Again, Time)
           notice(p) == OnlyIf(~Received(p, "handoff_notice", 0),
                               Send(p, "handoff_notice", FALSE, NoTime))
<1>1. /\ "buyer" \in Party /\ "seller" \in Party /\ 0 \in Time /\ NoTime \in Time
      /\ "handoff_notice" \in Again /\ "hold_notice" \in Again
      /\ \A q \in GuideTemplate : q \in Again
  BY DEF Party, Time, Again
<1>2. \A p \in Party, q \in Again, after \in Time : Send(p, q, FALSE, after) \in J
  BY JobsAre
<1> HIDE DEF J
<1>3. notice("buyer") \in Seq(J) /\ notice("seller") \in Seq(J)
  BY <1>1, <1>2, OnlyIfIs
<1>5. GuideJobs(guided.path) \in Seq(J)
  <2>1. /\ Send("seller", "guide_arrived_seller", FALSE, 0) \in J
        /\ Send("buyer", "guide_arrived_buyer", FALSE, 0) \in J
        /\ Send("buyer", "guide_not_sent_buyer", FALSE, 0) \in J
        /\ Send("seller", "guide_not_sent_seller", FALSE, 0) \in J
    BY <1>1, <1>2 DEF GuideTemplate
  <2> QED
    BY <2>1, ListsOfJobs DEF GuideJobs
<1>6. Both("hold_notice", held.cutoff) \in Seq(J)
  <2>1. /\ Send("buyer", "hold_notice", FALSE, held.cutoff) \in J
        /\ Send("seller", "hold_notice", FALSE, held.cutoff) \in J
    BY <1>1, <1>2
  <2> QED
    BY <2>1, ListsOfJobs DEF Both
<1>7. \/ MissingNotices = notice("buyer") \o notice("seller")
      \/ MissingNotices = GuideJobs(guided.path)
      \/ MissingNotices = Both("hold_notice", held.cutoff)
      \/ MissingNotices = << >>
  BY DEF MissingNotices
<1> HIDE DEF notice
<1>8. MissingNotices \in Seq(J)
  BY <1>3, <1>5, <1>6, <1>7, ListsOfJobs
<1> QED
  BY <1>8 DEF J

LEMMA PendingBriefsAre ==
  /\ PendingBriefs \in Seq(BriefJobs(Subject))
  /\ briefs["handoff"] # "pending" => PendingBriefs \in Seq(BriefJobs({"guide"}))
<1>1. ASSUME NEW S, briefs["guide"] = "pending" => Brief("guide") \in S,
             briefs["handoff"] = "pending" => Brief("handoff") \in S
      PROVE  PendingBriefs \in Seq(S)
  <2>1. PendingBrief("guide") \in Seq(S) /\ PendingBrief("handoff") \in Seq(S)
    BY <1>1, OnlyIfIs DEF PendingBrief
  <2> QED
    BY <2>1, ListsOfJobs DEF PendingBriefs
<1>2. Brief("guide") \in BriefJobs(Subject) /\ Brief("handoff") \in BriefJobs(Subject)
      /\ Brief("guide") \in BriefJobs({"guide"})
  BY JobsAre DEF Subject
<1> QED
  BY <1>1, <1>2

-----------------------------------------------------------------------------
(* What is decided.                                                        *)

LEMMA ActFaces ==
  ASSUME NEW act \in ActType
  PROVE  /\ act.do = "handoff" => act.reason \in HandoffReason
         /\ act.do = "guide" => act.path \in Path
         /\ act.do = "ask" => \A p \in Party : act.templates[p] \in Seq(Sendable)
         /\ act.do # "wait" /\ act.do # "remind"
BY DEF ActType, NoAct, HandoffFor

LEMMA DecisionFits ==
  ASSUME NEW turn, Decide(turn).do # "wait"
  PROVE  Decide(turn) \in ActType
<1>1. Decide(turn) \in Decisions(turn)
  BY DecisionIs
<1> DEFINE act == Decide(turn)
<1>2. AskOf(turn) \in ActType
  <2>1. NextQuestions(turn.facts, turn.history) \in [Party -> Seq(Sendable)]
    <3>1. \A p \in Party : NextQuestions(turn.facts, turn.history)[p] \in Seq(Sendable)
      BY NextIsNew DEF OneQuestion
    <3>2. NextQuestions(turn.facts, turn.history)
            = [p \in Party |-> NextQuestions(turn.facts, turn.history)[p]]
      BY DEF NextQuestions
    <3> HIDE DEF NextQuestions
    <3> QED
      BY <3>1, <3>2
  <2> DEFINE asks == {p \in Party : Asks(p, turn.facts, turn.history)}
             templates == NextQuestions(turn.facts, turn.history)
  <2>2. asks \in SUBSET Party
    OBVIOUS
  <2>3. AskOf(turn) = [do |-> "ask", templates |-> templates, asks |-> asks]
    BY DEF AskOf
  <2> HIDE DEF asks, templates
  <2> QED
    BY <2>1, <2>2, <2>3 DEF ActType, templates
<1>3. act # Wait
  BY FacesOfDecisions
<1> HIDE DEF act
<1>4. act \in Decisions(turn) => act \in ActType
  BY <1>2, <1>3 DEF Decisions, ActType
<1> QED
  BY <1>1, <1>4 DEF act

LEMMA CheckIs ==
  ASSUME NEW clocks, NEW timeouts
  PROVE  LET timer == Check(clocks, timeouts)
         IN \/ timer = [do |-> "nothing"]
            \/ \E reason \in HandoffReason : timer = HandoffFor(reason)
            \/ /\ clocks.phase # "guiding"
               /\ timer = [do |-> "remind",
                           parties |-> {p \in Party : Response(clocks.party[p], clocks.now,
                                                               timeouts.response) = "remind"}]
<1> DEFINE response == [p \in Party |->
                          Response(clocks.party[p], clocks.now, timeouts.response)]
           remind == {p \in Party : response[p] = "remind"}
           remindOf == {p \in Party : Response(clocks.party[p], clocks.now,
                                              timeouts.response) = "remind"}
           A == HandoffFor("self_resolution_stalled")
           B == HandoffFor("facts_gathered")
           C == HandoffFor("unresponsive")
           N == [do |-> "nothing"]
           R == [do |-> "remind", parties |-> remind]
<1>1. remind = remindOf
  OBVIOUS
<1>2. \/ Check(clocks, timeouts) \in {A, B, C, N}
      \/ Check(clocks, timeouts) = R /\ clocks.phase # "guiding"
  BY DEF Check
<1>3. \A reason \in {"self_resolution_stalled", "facts_gathered", "unresponsive"} :
        reason \in HandoffReason
  BY DEF HandoffReason
<1> HIDE DEF remind, remindOf
<1> QED
  BY <1>1, <1>2, <1>3 DEF remindOf

-----------------------------------------------------------------------------
(* Every variable keeps its type.                                          *)

\* The first questions stay where Opening put them.
Opened(stored) ==
  /\ Len(stored) >= 2
  /\ stored[1] = Opener("buyer") /\ stored[2] = Opener("seller")

Typed == MediationTypeOK /\ TasksFit /\ Opened(messages)

RowsTyped ==
  /\ Opened(messages)
  /\ clock \in Nat
  /\ state \in Live \union Terminal
  /\ language \in [Party -> Languages]
  /\ rounds \in [Party -> Nat]
  /\ messages \in Seq(Message)
  /\ held \in [at : Time, cutoff : Nat]
  /\ guided \in [at : Time, path : Path \union {"none"}]
  /\ handoff \in [at : Time, reason : HandoffReason \union {"none"}]
  /\ lastSeen \in 0..Len(messages)
  /\ briefs \in [Subject -> {"none", "pending", "sent"}]
  /\ evaluated \in 0..Len(messages)
  /\ strikes \in [Party -> Nat]
  /\ struck \in 0..Len(messages)
  /\ due \in BOOLEAN /\ judge \in BOOLEAN /\ chat \in Chat
  /\ failures \in 0..MaxFailures /\ crashes \in 0..MaxCrashes
  /\ mediatedUntil \in Time
  /\ shown \subseteq 1..Len(messages)
  /\ switched \in [Party -> SUBSET (1..Len(messages))]

\* The steps of the tasks follow from what the tasks keep.
LEMMA TypedIs ==
  /\ RowsTyped /\ TasksFit => Typed
  /\ Typed => RowsTyped
  /\ RowsTyped' /\ TasksFit' => Typed'
<1>1. TasksFit => /\ task["turn"].step \in StepsOf("turn")
                  /\ task["timer"].step \in StepsOf("timer")
  BY DEF TasksFit, Fits, Tasks
<1>2. TasksFit' => /\ task'["turn"].step \in StepsOf("turn")
                   /\ task'["timer"].step \in StepsOf("timer")
  BY DEF TasksFit, Fits, Tasks
<1> QED
  BY <1>1, <1>2 DEF Typed, RowsTyped, MediationTypeOK, StepsOf

\* The list a task has left, and the job it is at.
LEMMA JobsLeft ==
  ASSUME TasksFit, NEW t \in Tasks, task[t].step \in Busy
  PROVE  /\ task[t].jobs \in Seq(JobType) /\ task[t].jobs # << >>
         /\ Job(t) \in JobType /\ Tail(task[t].jobs) \in Seq(JobType)
         /\ task[t].then \in ThensOf(t)
         /\ << >> \in Seq(JobType)
<1>1. task[t].jobs \in Seq(JobType) /\ task[t].jobs # << >> /\ task[t].then \in ThensOf(t)
  BY DEF TasksFit, Fits, TaskState
<1> QED
  BY <1>1, ListsOfJobs DEF Job

LEMMA JobFaces ==
  ASSUME NEW job \in JobType
  PROVE  /\ job.kind = "send" => /\ job.party \in Party /\ job.template \in Template
                                 /\ job.must \in BOOLEAN /\ job.after \in Time
         /\ job.kind = "round" => job.party \in Party
         /\ job.kind = "brief" => job.about \in Subject
BY DEF JobType, SendJobs, RoundJobs, BriefJobs

LEMMA LengthIsNat == ASSUME Typed PROVE Len(messages) \in Nat
BY TypedIs DEF RowsTyped

LEMMA LengthStays == ASSUME Typed, messages' = messages PROVE Grows
BY LengthIsNat DEF Grows

LEMMA JobDoneMoves ==
  ASSUME MediationAssumption, Typed, NEW t \in Tasks, task[t].step \in Busy, JobDone(t), Grows
  PROVE  Moves(t, Tail(task[t].jobs), task[t].then)
<1> DEFINE jobs == Tail(task[t].jobs)
           then == task[t].then
<1>1. jobs \in Seq(JobType) /\ then \in ThensOf(t) /\ TasksFit
  BY JobsLeft DEF Typed
<1>2. Works(t, jobs, then)
  BY DEF JobDone
<1> HIDE DEF jobs, then
<1>3. Moves(t, jobs, then)
  BY <1>1, <1>2, WorksFits
<1> QED
  BY <1>3 DEF jobs, then

LEMMA GoesMoves ==
  ASSUME MediationAssumption, Typed, NEW t \in Tasks, NEW then \in ThensOf(t), Goes(t, then), Grows
  PROVE  Moves(t, << >>, then)
<1>1. << >> \in Seq(JobType)
  OBVIOUS
<1> QED
  BY <1>1, WorksFits DEF Goes, Typed

LEMMA GivenUpMoves ==
  ASSUME MediationAssumption, Typed, NEW t \in Tasks, task[t].step \in Busy,
         SendGivenUp(t), Grows
  PROVE  \E jobs \in {<< >>, Tail(task[t].jobs)} : Moves(t, jobs, task[t].then)
<1>1. Goes(t, task[t].then) \/ JobDone(t)
  BY DEF SendGivenUp
<1>2. task[t].then \in ThensOf(t)
  BY JobsLeft DEF Typed
<1> QED
  BY <1>1, <1>2, JobDoneMoves, GoesMoves

\* A task goes from a job to carrying it out.
Starts(t, step) ==
  /\ TasksFit'
  /\ \A u \in Tasks : u # t => task'[u] = task[u]
  /\ task'[t].step = step
  /\ task'[t].then = task[t].then /\ task'[t].jobs = task[t].jobs /\ task'[t].act = task[t].act
  /\ task'[t].now = task[t].now /\ task'[t].state = task[t].state
  /\ task'[t].read = task[t].read /\ task'[t].speaks = task[t].speaks

LEMMA SendingStarts ==
  ASSUME Typed, NEW t \in Tasks, task[t].step \in Busy, Job(t).kind = "send", messages' = messages,
         task' = [task EXCEPT ![t].step = "sending", ![t].sendAt = clock]
  PROVE  Starts(t, "sending") /\ task'[t].sendAt = clock /\ task'[t].carry = task[t].carry
<1> DEFINE k1 == [task[t] EXCEPT !.step = "sending"]
           k == [k1 EXCEPT !.sendAt = clock]
<1>1. task' = [task EXCEPT ![t] = k]
  BY DEF Typed, TasksFit
<1>2. Fits(t, task[t], Len(messages)) /\ task[t] \in TaskState /\ clock \in Nat
  BY TypedIs DEF Typed, TasksFit, RowsTyped
<1>3. /\ k1 \in TaskState /\ k1.step = "sending" /\ k1.then = task[t].then
      /\ k1.jobs = task[t].jobs /\ k1.act = task[t].act
      /\ k1.read = task[t].read /\ k1.carry = task[t].carry
      /\ k1.now = task[t].now /\ k1.state = task[t].state /\ k1.speaks = task[t].speaks
  BY <1>2 DEF TaskState, Steps
<1> HIDE DEF k1
<1>4. /\ k \in TaskState /\ k.step = "sending" /\ k.then = task[t].then
      /\ k.jobs = task[t].jobs /\ k.act = task[t].act
      /\ k.read = task[t].read /\ k.carry = task[t].carry
      /\ k.now = task[t].now /\ k.state = task[t].state /\ k.speaks = task[t].speaks
      /\ k.sendAt = clock
  BY <1>2, <1>3 DEF TaskState
<1> HIDE DEF k
<1>5. Fits(t, k, Len(messages'))
  BY <1>2, <1>4, JobsLeft DEF Fits, StepsOf, Busy, Job, Typed
<1>6. TasksFit'
  BY <1>1, <1>5, LengthStays, OneTaskMoves DEF Typed, Grows
<1>7. task'[t] = k /\ \A u \in Tasks : u # t => task'[u] = task[u]
  BY <1>1 DEF Typed, TasksFit
<1> QED
  BY <1>4, <1>6, <1>7 DEF Starts

LEMMA BriefingStarts ==
  ASSUME Typed, NEW t \in Tasks, task[t].step \in Busy, Job(t).kind = "brief", messages' = messages,
         task' = [task EXCEPT ![t].step = "briefing", ![t].carry = Transcript(t)]
  PROVE  /\ Starts(t, "briefing") /\ task'[t].sendAt = task[t].sendAt
         /\ task'[t].carry = 1..Len(messages)
<1> DEFINE k1 == [task[t] EXCEPT !.step = "briefing"]
           k == [k1 EXCEPT !.carry = Transcript(t)]
<1>1. task' = [task EXCEPT ![t] = k]
  BY DEF Typed, TasksFit
<1>2. Fits(t, task[t], Len(messages)) /\ task[t] \in TaskState /\ Len(messages) \in Nat
  BY LengthIsNat DEF Typed, TasksFit
<1>3. /\ k1 \in TaskState /\ k1.step = "briefing" /\ k1.then = task[t].then
      /\ k1.jobs = task[t].jobs /\ k1.act = task[t].act
      /\ k1.read = task[t].read /\ k1.sendAt = task[t].sendAt
      /\ k1.now = task[t].now /\ k1.state = task[t].state /\ k1.speaks = task[t].speaks
  BY <1>2 DEF TaskState, Steps
<1> HIDE DEF k1
<1>4. /\ k \in TaskState /\ k.step = "briefing" /\ k.then = task[t].then
      /\ k.jobs = task[t].jobs /\ k.act = task[t].act
      /\ k.read = task[t].read /\ k.sendAt = task[t].sendAt
      /\ k.now = task[t].now /\ k.state = task[t].state /\ k.speaks = task[t].speaks
      /\ k.carry = 1..Len(messages)
  <2>1. Transcript(t) = 1..Len(messages) /\ 1..Len(messages) \in SUBSET Nat
    BY <1>2 DEF Transcript
  <2> QED
    BY <1>3, <2>1 DEF TaskState
<1> HIDE DEF k
<1>5. Fits(t, k, Len(messages'))
  BY <1>2, <1>4, JobsLeft DEF Fits, StepsOf, Busy, Job, Typed
<1>6. TasksFit'
  BY <1>1, <1>5, LengthStays, OneTaskMoves DEF Typed, Grows
<1>7. task'[t] = k /\ \A u \in Tasks : u # t => task'[u] = task[u]
  BY <1>1 DEF Typed, TasksFit
<1> QED
  BY <1>4, <1>6, <1>7 DEF Starts

LEMMA SendStartsTyped ==
  ASSUME MediationAssumption, Typed, NEW t \in Tasks, SendStarts(t)
  PROVE  /\ Typed'
         /\ \/ \E jobs \in {<< >>, Tail(task[t].jobs)} : Moves(t, jobs, task[t].then)
            \/ /\ Starts(t, "sending") /\ task'[t].sendAt = clock
               /\ task'[t].carry = task[t].carry /\ MaySend(t)
<1>1. task[t].step \in Busy /\ Job(t).kind = "send" /\ messages' = messages /\ Grows
  BY LengthStays DEF SendStarts, Doing, Busy
<1>2. RowsTyped'
  BY TypedIs DEF SendStarts, RowsTyped, rowVars, eventVars, boundVars, historyVars
<1>3. CASE JobDone(t) \/ SendGivenUp(t)
  <2>1. \E jobs \in {<< >>, Tail(task[t].jobs)} : Moves(t, jobs, task[t].then)
    BY <1>1, <1>3, JobDoneMoves, GivenUpMoves
  <2> QED
    BY <1>2, <2>1, TypedIs DEF Moves
<1>4. CASE MaySend(t) /\ task' = [task EXCEPT ![t].step = "sending", ![t].sendAt = clock]
  BY <1>1, <1>2, <1>4, SendingStarts, TypedIs DEF Starts
<1> QED
  BY <1>3, <1>4 DEF SendStarts

LEMMA MessageFits ==
  ASSUME NEW dir \in {"in", "out"}, NEW party \in Party, NEW template \in Template,
         NEW lang \in Languages \union {"any"}, NEW at \in Int,
         messages \in Seq(Message),
         messages' = Append(messages, [dir |-> dir, party |-> party, template |-> template,
                                       language |-> lang, at |-> at])
  PROVE  /\ messages' \in Seq(Message)
         /\ Len(messages) \in Nat /\ Len(messages') = Len(messages) + 1
         /\ messages'[Len(messages)+1] = [dir |-> dir, party |-> party,
                template |-> template, language |-> lang, at |-> at]
         /\ \A i \in 1..Len(messages) : messages'[i] = messages[i]
<1>1. [dir |-> dir, party |-> party, template |-> template, language |-> lang, at |-> at]
        \in Message
  BY DEF Message
<1> QED
  BY <1>1

LEMMA OpenedStays ==
  ASSUME Opened(messages), Len(messages) \in Nat, Len(messages') \in Nat, Len(messages) <= Len(messages'),
         \A i \in 1..Len(messages) : messages'[i] = messages[i]
  PROVE  Opened(messages')
BY DEF Opened, Opener

LEMMA SendEndsTyped ==
  ASSUME MediationAssumption, Typed, NEW t \in Tasks, SendEnds(t)
  PROVE  Typed'
<1>1. task[t].step \in Busy /\ Job(t).kind = "send"
  BY DEF SendEnds, Busy, Typed, TasksFit, Fits, Job
<1>2. /\ Job(t).party \in Party /\ Job(t).template \in Template
      /\ task[t].sendAt \in Int /\ Speaks(t)[Job(t).party] \in Languages
  <2>1. Job(t).party \in Party /\ Job(t).template \in Template
    BY <1>1, JobsLeft, JobFaces DEF Typed
  <2>2. Speaks(t) \in [Party -> Languages] /\ task[t].sendAt \in Nat
    BY TypedIs DEF Speaks, Typed, TasksFit, TaskState, RowsTyped
  <2> QED
    BY <2>1, <2>2
<1>3. /\ messages' \in Seq(Message)
      /\ Len(messages) \in Nat /\ Len(messages') = Len(messages) + 1
      /\ \A i \in 1..Len(messages) : messages'[i] = messages[i]
  BY <1>2, MessageFits, TypedIs DEF SendEnds, RowsTyped
<1>6. Opened(messages')
  BY <1>3, TypedIs, OpenedStays DEF RowsTyped
<1>4. RowsTyped'
  <2>1. UNCHANGED <<clock, state, rowVars, eventVars, due, judge, chat, boundVars, historyVars>>
    BY DEF SendEnds
  <2>2. \A n \in 0..Len(messages) : n \in 0..Len(messages')
    BY <1>3
  <2>3. 1..Len(messages) \subseteq 1..Len(messages')
    BY <1>3
  <2>4. switched \in [Party -> SUBSET (1..Len(messages'))]
    BY <2>3, TypedIs DEF RowsTyped
  <2> QED
    BY <1>3, <1>6, <2>1, <2>2, <2>3, <2>4, TypedIs
    DEF RowsTyped, rowVars, eventVars, boundVars, historyVars
<1>5. TasksFit'
  BY <1>1, <1>3, JobDoneMoves DEF SendEnds, Grows, Moves
<1> QED
  BY <1>4, <1>5, TypedIs

LEMMA SendFailsTyped ==
  ASSUME MediationAssumption, Typed, NEW t \in Tasks, SendFails(t)
  PROVE  Typed'
<1>1. task[t].step \in Busy /\ messages' = messages /\ SendGivenUp(t)
  BY DEF SendFails, Busy
<1>2. RowsTyped'
  <2>1. failures' \in 0..MaxFailures
    BY TypedIs DEF SendFails, RowsTyped, MediationAssumption
  <2> QED
    BY <2>1, TypedIs DEF SendFails, RowsTyped, rowVars, eventVars, historyVars
<1> QED
  BY <1>1, <1>2, LengthStays, GivenUpMoves, TypedIs DEF Moves

LEMMA CountRoundTyped ==
  ASSUME MediationAssumption, Typed, NEW t \in Tasks, CountRound(t)
  PROVE  Typed'
<1>1. task[t].step \in Busy /\ messages' = messages /\ Job(t).kind = "round"
  BY DEF CountRound, Busy, Doing
<1>2. Job(t).party \in Party
  BY <1>1, JobsLeft, JobFaces DEF Typed
<1>3. RowsTyped'
  <2>1. rounds' \in [Party -> Nat]
    BY <1>2, TypedIs DEF CountRound, RowsTyped
  <2> QED
    BY <2>1, TypedIs DEF CountRound, RowsTyped, eventVars, historyVars, boundVars
<1>4. TasksFit'
  BY <1>1, LengthStays, JobDoneMoves DEF CountRound, Moves
<1> QED
  BY <1>3, <1>4, TypedIs

LEMMA BriefStartsTyped ==
  ASSUME MediationAssumption, Typed, NEW t \in Tasks, BriefStarts(t)
  PROVE  /\ Typed'
         /\ Starts(t, "briefing") /\ task'[t].sendAt = task[t].sendAt
         /\ task'[t].carry = 1..Len(messages)
<1>1. task[t].step \in Busy /\ Job(t).kind = "brief" /\ messages' = messages
  BY DEF BriefStarts, Doing, Busy
<1>2. RowsTyped'
  BY TypedIs DEF BriefStarts, RowsTyped, rowVars, eventVars, boundVars, historyVars
<1> QED
  BY <1>1, <1>2, BriefingStarts, TypedIs DEF BriefStarts, Starts

LEMMA BriefEndsTyped ==
  ASSUME MediationAssumption, Typed, NEW t \in Tasks, BriefEnds(t)
  PROVE  Typed'
<1>1. task[t].step \in Busy /\ messages' = messages /\ Job(t).kind = "brief"
  BY DEF BriefEnds, Busy, Typed, TasksFit, Fits, Job
<1>2. Job(t).about \in Subject /\ task[t].carry \subseteq 1..Len(messages)
  BY <1>1, JobsLeft, JobFaces DEF Typed, TasksFit, Fits
<1>3. RowsTyped'
  BY <1>2, TypedIs DEF BriefEnds, RowsTyped, rowVars, boundVars
<1>4. TasksFit'
  BY <1>1, LengthStays, JobDoneMoves DEF BriefEnds, Moves
<1> QED
  BY <1>3, <1>4, TypedIs

LEMMA UpdateEndsTyped ==
  ASSUME MediationAssumption, Typed, UpdateEnds
  PROVE  Typed' /\ Moves("turn", << >>, "idle")
<1> DEFINE fresh == task["turn"].carry
<1>1. "turn" \in Tasks /\ "idle" \in ThensOf("turn") /\ << >> \in Seq(JobType)
  BY DEF Tasks, ThensOf
<1>2. fresh \subseteq 1..Len(messages) /\ fresh # {} /\ Len(messages) \in Nat
  BY <1>1, LengthIsNat DEF UpdateEnds, Typed, TasksFit, Fits
<1>3. \A i \in 1..Len(messages) : messages[i].at \in Int
  <2>1. messages \in Seq(Message)
    BY TypedIs DEF RowsTyped
  <2>2. \A m \in Message : m.at \in Int
    BY DEF Message
  <2> QED
    BY <2>1, <2>2
<1>4. Covered(fresh) \in 1..Len(messages)
  BY <1>2, <1>3, CoveredIs
<1>5. Larger(lastSeen, Covered(fresh)) \in 0..Len(messages)
  BY <1>4, TypedIs DEF Larger, RowsTyped
<1> HIDE DEF fresh
<1>6. \/ lastSeen' = Larger(lastSeen, Covered(fresh)) /\ shown' = shown \union fresh
      \/ lastSeen' = lastSeen /\ shown' = shown
  BY DEF UpdateEnds, fresh
<1>7. RowsTyped'
  BY <1>2, <1>5, <1>6, TypedIs DEF UpdateEnds, RowsTyped, rowVars, boundVars
<1>8. Moves("turn", << >>, "idle")
  BY <1>1, GoesMoves, LengthStays DEF UpdateEnds
<1> QED
  BY <1>7, <1>8, TypedIs DEF Moves

LEMMA SeqOfMore ==
  ASSUME NEW S, NEW T, S \subseteq T, NEW s \in Seq(S)
  PROVE  s \in Seq(T)
OBVIOUS

LEMMA TemplatesAre ==
  /\ Sendable \subseteq Template /\ Again \subseteq Template /\ GuideTemplate \subseteq Again
  /\ Question \subseteq Template /\ "reminder" \in Template /\ NoTemplate \in Template
  /\ \A q \in Question : q \notin Again /\ q # "reminder" /\ q # NoTemplate
  /\ \A q \in Courtesy : q \notin Again /\ q # "reminder" /\ q # NoTemplate
<1>1. Question \subseteq {QuestionsOf(p)[i] : p \in Party, i \in 1..3}
  <2>1. /\ QuestionsOf("buyer")[1] = "ask_buyer_sent"
        /\ QuestionsOf("buyer")[2] = "ask_buyer_sent_simple"
        /\ QuestionsOf("buyer")[3] = "ask_buyer_details"
        /\ QuestionsOf("seller")[1] = "ask_seller_received"
        /\ QuestionsOf("seller")[2] = "ask_seller_received_simple"
        /\ QuestionsOf("seller")[3] = "ask_seller_check_account"
    BY DEF QuestionsOf, BuyerQuestions, SellerQuestions
  <2> QED
    BY <2>1 DEF Question, Party
<1>2. Courtesy \subseteq Template /\ Notice \subseteq Template /\ NoTemplate \in Template
  BY DEF Template
<1>3. Again \subseteq Notice /\ "reminder" \in Notice /\ GuideTemplate \subseteq Again
  BY DEF Again, GuideTemplate, Notice
<1>4. /\ \A q \in Question : q \notin Again /\ q # "reminder" /\ q # NoTemplate
      /\ \A q \in Courtesy : q \notin Again /\ q # "reminder" /\ q # NoTemplate
  BY DEF Question, Courtesy, Again, GuideTemplate, NoTemplate
<1> QED
  BY <1>1, <1>2, <1>3, <1>4 DEF Sendable, Template

LEMMA JobTypeHas ==
  /\ \A T, A : T \subseteq Template /\ A \subseteq Time => SendJobs(Party, T, A) \subseteq JobType
  /\ RoundJobs \subseteq JobType
  /\ \A S : S \subseteq Subject => BriefJobs(S) \subseteq JobType
BY DEF JobType, SendJobs, RoundJobs, BriefJobs

LEMMA TimesAre == 0 \in Time /\ NoTime \in Time /\ Nat \subseteq Time
BY DEF Time

LEMMA ListsFit ==
  /\ \A act : (\A p \in Party : act.templates[p] \in Seq(Sendable))
        => AskJobs(act) \in Seq(JobType)
  /\ <<Brief("handoff")>> \o Both("handoff_notice", 0) \in Seq(JobType)
  /\ \A path : <<Brief("guide")>> \o GuideJobs(path) \in Seq(JobType)
             /\ GuideJobs(path) \in Seq(JobType)
  /\ \A after \in Time : Both("hold_notice", after) \in Seq(JobType)
  /\ \A parties : RemindJobs(parties) \in Seq(JobType)
  /\ held.cutoff \in Time => PendingBriefs \o MissingNotices \in Seq(JobType)
<1> USE TemplatesAre, TimesAre, JobTypeHas
<1>1. ASSUME NEW act, \A p \in Party : act.templates[p] \in Seq(Sendable)
      PROVE  AskJobs(act) \in Seq(JobType)
  <2> DEFINE J == SendJobs(Party, Sendable, {NoTime}) \union RoundJobs
  <2>1. AskJobs(act) \in Seq(J)
    BY <1>1, AskJobsAre
  <2>2. J \subseteq JobType
    OBVIOUS
  <2> HIDE DEF J
  <2> QED
    BY <2>1, <2>2, SeqOfMore
<1>2. Brief("handoff") \in JobType /\ Brief("guide") \in JobType
  BY JobsAre DEF Subject
<1>3. ASSUME NEW template \in Again, NEW after \in Time
      PROVE  Both(template, after) \in Seq(JobType)
  <2> DEFINE J == SendJobs(Party, {template}, {after})
  <2>1. Both(template, after) \in Seq(J)
    BY BothIs
  <2>2. J \subseteq JobType
    OBVIOUS
  <2> HIDE DEF J
  <2> QED
    BY <2>1, <2>2, SeqOfMore
<1>4. ASSUME NEW path PROVE GuideJobs(path) \in Seq(JobType)
  <2> DEFINE J == SendJobs(Party, GuideTemplate, {0})
  <2>1. GuideJobs(path) \in Seq(J)
    BY GuideJobsAre
  <2>2. J \subseteq JobType
    OBVIOUS
  <2> HIDE DEF J
  <2> QED
    BY <2>1, <2>2, SeqOfMore
<1>5. ASSUME NEW parties PROVE RemindJobs(parties) \in Seq(JobType)
  <2> DEFINE J == SendJobs(Party \cap parties, {"reminder"}, {NoTime})
  <2>1. RemindJobs(parties) \in Seq(J)
    BY RemindJobsAre
  <2>2. J \subseteq JobType
    BY DEF JobType, SendJobs
  <2> HIDE DEF J
  <2> QED
    BY <2>1, <2>2, SeqOfMore
<1>6. ASSUME held.cutoff \in Time PROVE PendingBriefs \o MissingNotices \in Seq(JobType)
  <2> DEFINE J == SendJobs(Party, Again, Time)
             B == BriefJobs(Subject)
  <2>1. MissingNotices \in Seq(J) /\ PendingBriefs \in Seq(B)
    BY <1>6, MissingNoticesAre, PendingBriefsAre
  <2>2. J \subseteq JobType /\ B \subseteq JobType
    OBVIOUS
  <2> HIDE DEF J, B
  <2>3. MissingNotices \in Seq(JobType) /\ PendingBriefs \in Seq(JobType)
    BY <2>1, <2>2, SeqOfMore
  <2> QED
    BY <2>3, ListsOfJobs
<1>7. "handoff_notice" \in Again /\ "hold_notice" \in Again
  BY DEF Again
<1>8. <<Brief("handoff")>> \o Both("handoff_notice", 0) \in Seq(JobType)
  BY <1>2, <1>3, <1>7, ListsOfJobs
<1>9. \A path : <<Brief("guide")>> \o GuideJobs(path) \in Seq(JobType)
  BY <1>2, <1>4, ListsOfJobs
<1> QED
  BY <1>1, <1>3, <1>4, <1>5, <1>6, <1>7, <1>8, <1>9

\* A task carries out what was decided: one of four things.
HandsOffNow(t) ==
  /\ MayHandOff
  /\ state' = "handed_off" /\ mediatedUntil' = clock
  /\ handoff' = [at |-> task[t].now, reason |-> task[t].act.reason]
  /\ task[t].act.reason \in HandoffReason
  /\ lastSeen' = Larger(lastSeen, Len(messages))
  /\ briefs' = [briefs EXCEPT !["handoff"] = "pending"]
  /\ Moves(t, <<Brief("handoff")>> \o Both("handoff_notice", 0), task[t].then)
  /\ UNCHANGED <<held, guided>>

GuidesNow(t) ==
  /\ state = "active" /\ state' = "guiding"
  /\ guided' = [at |-> task[t].now, path |-> task[t].act.path]
  /\ task[t].act.path \in Path
  /\ briefs' = [briefs EXCEPT !["guide"] = "pending"]
  /\ Moves(t, <<Brief("guide")>> \o GuideJobs(task[t].act.path), "idle")
  /\ UNCHANGED <<held, handoff, lastSeen, mediatedUntil>>

HoldsNow(t) ==
  /\ held' = [at |-> clock, cutoff |-> Len(messages)]
  /\ Moves(t, Both("hold_notice", Len(messages)), "idle")
  /\ UNCHANGED <<state, guided, handoff, lastSeen, briefs, mediatedUntil>>

AsksNow(t) ==
  /\ task[t].act.do = "ask" /\ t = "turn"
  /\ Moves(t, AskJobs(task[t].act), "idle")
  /\ UNCHANGED <<state, eventVars, mediatedUntil>>

PassesNow(t) ==
  /\ \E then \in {task[t].then, "idle"} : Moves(t, << >>, then)
  /\ UNCHANGED <<state, eventVars, mediatedUntil>>

LEMMA ActsIs ==
  ASSUME MediationAssumption, Typed, NEW t \in Tasks, Acts(t)
  PROVE  /\ HandsOffNow(t) \/ GuidesNow(t) \/ HoldsNow(t) \/ AsksNow(t) \/ PassesNow(t)
         /\ UNCHANGED <<clock, rowVars, messages, due, judge, chat, boundVars, shown, switched>>
<1> DEFINE act == task[t].act
<1>1. messages' = messages /\ Grows /\ TasksFit
  BY LengthStays DEF Acts, Typed
<1>2. act \in ActType /\ task[t].then \in ThensOf(t) /\ "idle" \in ThensOf(t)
      /\ (act.do \in {"ask", "guide", "hold"} => t = "turn")
  BY <1>1 DEF TasksFit, Fits, TaskState, ThensOf, ActsOf, Tasks, HandoffFor, NoAct
<1>3. /\ act.do = "handoff" => act.reason \in HandoffReason
      /\ act.do = "guide" => act.path \in Path
      /\ act.do = "ask" => \A p \in Party : act.templates[p] \in Seq(Sendable)
  BY <1>2, ActFaces
<1>4. Len(messages) \in Time
  BY LengthIsNat, TimesAre
<1> HIDE DEF act
<1>5. CASE act.do = "ask" /\ Works(t, AskJobs(act), "idle")
           /\ UNCHANGED <<state, eventVars, mediatedUntil>>
  <2>1. AskJobs(act) \in Seq(JobType)
    BY <1>3, <1>5, ListsFit
  <2>2. AsksNow(t)
    BY <1>1, <1>2, <1>5, <2>1, WorksFits DEF AsksNow, act
  <2> QED
    BY <2>2 DEF Acts
<1>6. CASE act.do = "handoff" /\ HandsOff(t, act.reason, task[t].then) /\ UNCHANGED <<held, guided>>
  <2>1. CASE MayHandOff
    <3>1. Works(t, <<Brief("handoff")>> \o Both("handoff_notice", 0), task[t].then)
      BY <1>6, <2>1 DEF HandsOff
    <3>2. Moves(t, <<Brief("handoff")>> \o Both("handoff_notice", 0), task[t].then)
      BY <1>1, <1>2, <3>1, ListsFit, WorksFits
    <3>3. HandsOffNow(t)
      BY <1>3, <1>6, <2>1, <3>2 DEF HandsOffNow, HandsOff, act
    <3> QED
      BY <3>3 DEF Acts
  <2>2. CASE ~MayHandOff
    <3>1. Moves(t, << >>, task[t].then)
      BY <1>1, <1>2, <1>6, <2>2, GoesMoves DEF HandsOff
    <3>2. PassesNow(t)
      BY <1>6, <2>2, <3>1 DEF PassesNow, HandsOff, eventVars
    <3> QED
      BY <3>2 DEF Acts
  <2> QED
    BY <2>1, <2>2
<1>7. CASE act.do = "guide" /\ Guides(t, act.path)
           /\ UNCHANGED <<held, handoff, lastSeen, mediatedUntil>>
  <2>1. CASE state = "active"
    <3>1. Works(t, <<Brief("guide")>> \o GuideJobs(act.path), "idle")
      BY <1>7, <2>1 DEF Guides
    <3>2. Moves(t, <<Brief("guide")>> \o GuideJobs(act.path), "idle")
      BY <1>1, <1>2, <3>1, ListsFit, WorksFits
    <3>3. GuidesNow(t)
      BY <1>3, <1>7, <2>1, <3>2 DEF GuidesNow, Guides, act
    <3> QED
      BY <3>3 DEF Acts
  <2>2. CASE state # "active"
    <3>1. Moves(t, << >>, "idle")
      BY <1>1, <1>2, <1>7, <2>2, GoesMoves DEF Guides
    <3>2. PassesNow(t)
      BY <1>7, <2>2, <3>1 DEF PassesNow, Guides, eventVars
    <3> QED
      BY <3>2 DEF Acts
  <2> QED
    BY <2>1, <2>2
<1>8. CASE act.do = "hold" /\ StartsHold(t)
           /\ UNCHANGED <<state, guided, handoff, lastSeen, briefs, mediatedUntil>>
  <2>1. Moves(t, Both("hold_notice", Len(messages)), "idle")
    BY <1>1, <1>2, <1>4, <1>8, ListsFit, WorksFits DEF StartsHold
  <2>2. HoldsNow(t)
    BY <1>8, <2>1 DEF HoldsNow, StartsHold
  <2> QED
    BY <2>2 DEF Acts
<1> QED
  BY <1>5, <1>6, <1>7, <1>8 DEF Acts, act

LEMMA ActsTyped ==
  ASSUME MediationAssumption, Typed, NEW t \in Tasks, Acts(t)
  PROVE  Typed'
<1>1. TasksFit'
  BY ActsIs DEF Moves, HandsOffNow, GuidesNow, HoldsNow, AsksNow, PassesNow
<1>2. task[t].now \in Time /\ Nat \subseteq Time
  BY TimesAre DEF Typed, TasksFit, TaskState
<1>3. /\ RowsTyped
      /\ UNCHANGED <<clock, rowVars, messages, due, judge, chat, boundVars, shown, switched>>
      /\ HandsOffNow(t) \/ GuidesNow(t) \/ HoldsNow(t) \/ AsksNow(t) \/ PassesNow(t)
  BY ActsIs, TypedIs
<1> SUFFICES RowsTyped'
  BY <1>1, TypedIs
<1>4. CASE HandsOffNow(t)
  <2>1. Larger(lastSeen, Len(messages)) \in 0..Len(messages)
    BY <1>3 DEF Larger, RowsTyped
  <2>2. handoff' \in [at : Time, reason : HandoffReason \union {"none"}]
    BY <1>2, <1>4 DEF HandsOffNow
  <2>3. briefs' \in [Subject -> {"none", "pending", "sent"}]
    BY <1>3, <1>4 DEF HandsOffNow, RowsTyped
  <2> QED
    BY <1>2, <1>3, <1>4, <2>1, <2>2, <2>3 DEF HandsOffNow, RowsTyped, rowVars, boundVars, Live
<1>5. CASE GuidesNow(t)
  <2>1. guided' \in [at : Time, path : Path \union {"none"}]
    BY <1>2, <1>5 DEF GuidesNow
  <2>2. briefs' \in [Subject -> {"none", "pending", "sent"}]
    BY <1>3, <1>5 DEF GuidesNow, RowsTyped
  <2> QED
    BY <1>3, <1>5, <2>1, <2>2 DEF GuidesNow, RowsTyped, rowVars, boundVars, Live, Mediating
<1>6. CASE HoldsNow(t)
  <2>1. held' \in [at : Time, cutoff : Nat]
    BY <1>2, <1>3, <1>6 DEF HoldsNow, RowsTyped
  <2> QED
    BY <1>3, <1>6, <2>1 DEF HoldsNow, RowsTyped, rowVars, boundVars
<1>7. CASE AsksNow(t) \/ PassesNow(t)
  BY <1>3, <1>7 DEF AsksNow, PassesNow, RowsTyped, rowVars, boundVars, eventVars
<1> QED
  BY <1>3, <1>4, <1>5, <1>6, <1>7

-----------------------------------------------------------------------------
(* How turns and ticks begin.                                              *)

TurnBegins(k) ==
  \/ k = IdleTask
  \/ /\ k.now = clock /\ k.state = state /\ k.read = Len(messages)
     /\ k.act = NoAct /\ k.sendAt = 0
     /\ \/ /\ k.step = "updating" /\ state = "handed_off"
           /\ k.carry = Unseen /\ Unseen # {} /\ k.jobs = << >> /\ k.then = "idle"
        \/ /\ k.step = "reading" /\ state = "active"
           /\ k.carry = {} /\ k.jobs = << >> /\ k.then = "idle"
        \/ /\ k.step = "working" /\ state = "guiding"
           /\ k.carry = {} /\ k.jobs = GuideJobs(guided.path) /\ k.then = "reading"

LEMMA UnseenIs ==
  ASSUME Typed
  PROVE  Unseen \subseteq 1..Len(messages) /\ Unseen \in SUBSET Nat
BY TypedIs DEF Unseen, RowsTyped

LEMMA TurnStartsIs ==
  ASSUME MediationAssumption, Typed, TurnStarts
  PROVE  /\ TasksFit' /\ TurnBegins(task'["turn"]) /\ task'["timer"] = task["timer"]
         /\ due' = FALSE
<1> DEFINE begun == [IdleTask EXCEPT !.now = clock, !.state = state, !.read = Len(messages)]
           missing == IF state = "guiding" THEN GuideJobs(guided.path) ELSE << >>
           updating1 == [begun EXCEPT !.step = "updating"]
           updating == [updating1 EXCEPT !.carry = Unseen]
           reading == [begun EXCEPT !.step = "reading"]
           working1 == [begun EXCEPT !.step = "working"]
           working2 == [working1 EXCEPT !.jobs = missing]
           working == [working2 EXCEPT !.then = "reading"]
           k == IF state = "handed_off" /\ Unseen # {} THEN updating
                ELSE IF state = "active" THEN reading
                ELSE IF state = "guiding" THEN working ELSE IdleTask
           Begun(r) == /\ r \in TaskState /\ r.now = clock /\ r.state = state
                       /\ r.read = Len(messages) /\ r.act = NoAct /\ r.sendAt = 0
           Fit(r) == Fits("turn", r, Len(messages)) /\ TurnBegins(r)
<1>1. /\ task' = [task EXCEPT !["turn"] = k] /\ messages' = messages /\ due' = FALSE
      /\ "turn" \in Tasks /\ "timer" \in Tasks /\ TasksFit /\ Grows
  <2>1. Grows /\ "turn" \in Tasks /\ "timer" \in Tasks /\ TasksFit
    BY LengthStays DEF TurnStarts, Tasks, Typed
  <2> QED
    BY <2>1 DEF TurnStarts
<1>2. /\ clock \in Nat /\ Len(messages) \in Nat /\ NoAct \in ActType
      /\ << >> \in Seq(JobType) /\ GuideJobs(guided.path) \in Seq(JobType)
      /\ Unseen \in SUBSET Nat /\ Unseen \subseteq 1..Len(messages)
      /\ GuideJobs(guided.path) # << >>
  <2>1. << >> \in Seq(JobType) /\ NoAct \in ActType
    BY DEF ActType
  <2>2. GuideJobs(guided.path) \in Seq(JobType)
    BY ListsFit
  <2>3. clock \in Nat
    BY TypedIs DEF RowsTyped
  <2> QED
    BY <2>1, <2>2, <2>3, LengthIsNat, UnseenIs, GuideJobsAre
<1>3. ASSUME state \in Live
      PROVE  Begun(begun) /\ begun.jobs = << >> /\ begun.then = "idle" /\ begun.carry = {}
  <2> DEFINE k1 == [IdleTask EXCEPT !.now = clock]
             k2 == [k1 EXCEPT !.state = state]
             k3 == [k2 EXCEPT !.read = Len(messages)]
             Rest(r) == /\ r \in TaskState /\ r.now = clock /\ r.act = NoAct /\ r.sendAt = 0
                        /\ r.jobs = << >> /\ r.then = "idle" /\ r.carry = {}
  <2>0. begun = k3
    OBVIOUS
  <2>1. Rest(k1)
    BY <1>2, <1>3, IdleIs DEF AtRestIs
  <2> HIDE DEF k1
  <2>2. Rest(k2) /\ k2.state = state
    BY <1>3, <2>1 DEF TaskState
  <2> HIDE DEF k2
  <2>3. Rest(k3) /\ k3.state = state /\ k3.read = Len(messages)
    BY <1>2, <2>2 DEF TaskState
  <2> HIDE DEF begun, k3
  <2> QED
    BY <2>0, <2>3
<1> HIDE DEF begun
<1>4. ASSUME NEW r \in TaskState, r.step \in {"updating", "reading", "working"},
             r.then \in {"idle", "reading"}, r.act = NoAct, r.read = Len(messages),
             r.carry \subseteq 1..Len(messages), r.step = "working" => r.jobs # << >>,
             r.step = "updating" => r.carry # {}
      PROVE  Fits("turn", r, Len(messages))
  BY <1>2, <1>4 DEF Fits, StepsOf, ThensOf, ActsOf, Busy
<1>5. CASE state = "handed_off" /\ Unseen # {}
  <2>1. /\ Begun(updating1) /\ updating1.step = "updating"
        /\ updating1.jobs = << >> /\ updating1.then = "idle"
    BY <1>3, <1>5 DEF TaskState, Steps, Live
  <2> HIDE DEF updating1
  <2>2. /\ Begun(updating) /\ updating.step = "updating" /\ updating.carry = Unseen
        /\ updating.jobs = << >> /\ updating.then = "idle"
    BY <1>2, <2>1 DEF TaskState
  <2>3. k = updating
    BY <1>5
  <2> HIDE DEF updating
  <2>4. Fit(updating)
    BY <1>2, <1>4, <1>5, <2>2 DEF TurnBegins
  <2> HIDE DEF k
  <2> QED
    BY <1>1, <2>3, <2>4, OneTaskMoves DEF Grows, TasksFit
<1>6. CASE state = "active"
  <2>1. /\ Begun(reading) /\ reading.step = "reading" /\ reading.carry = {}
        /\ reading.jobs = << >> /\ reading.then = "idle"
    BY <1>3, <1>6 DEF TaskState, Steps, Live, Mediating
  <2>2. k = reading
    BY <1>6
  <2> HIDE DEF reading
  <2>3. Fit(reading)
    BY <1>4, <1>6, <2>1 DEF TurnBegins
  <2> HIDE DEF k
  <2> QED
    BY <1>1, <2>2, <2>3, OneTaskMoves DEF Grows, TasksFit
<1>7. CASE state = "guiding"
  <2>1. Begun(working1) /\ working1.step = "working" /\ working1.carry = {}
    BY <1>3, <1>7 DEF TaskState, Steps, Live, Mediating
  <2>2. missing = GuideJobs(guided.path)
    BY <1>7
  <2> HIDE DEF working1, missing
  <2>3. /\ Begun(working2) /\ working2.step = "working" /\ working2.carry = {}
        /\ working2.jobs = missing
    BY <1>2, <2>1, <2>2 DEF TaskState
  <2> HIDE DEF working2
  <2>4. /\ Begun(working) /\ working.step = "working" /\ working.carry = {}
        /\ working.jobs = missing /\ working.then = "reading"
    BY <2>3 DEF TaskState, Thens
  <2>5. k = working
    BY <1>7
  <2> HIDE DEF working
  <2>6. Fit(working)
    BY <1>2, <1>4, <1>7, <2>2, <2>4 DEF TurnBegins
  <2> HIDE DEF k
  <2> QED
    BY <1>1, <2>5, <2>6, OneTaskMoves DEF Grows, TasksFit
<1>8. CASE ~(state = "handed_off" /\ Unseen # {}) /\ state \notin Mediating
  <2>1. k = IdleTask
    BY <1>8 DEF Mediating
  <2>2. "active" \in Live /\ 0 \in Nat
    BY DEF Live, Mediating
  <2>3. AtRestIs(IdleTask)
    BY <2>2, IdleIs
  <2> HIDE DEF k
  <2>4. Fit(k)
    BY <1>1, <1>2, <2>1, <2>3, RestFits DEF TurnBegins
  <2> QED
    BY <1>1, <2>4, OneTaskMoves DEF Grows, TasksFit
<1> QED
  BY <1>5, <1>6, <1>7, <1>8 DEF Mediating

TickBegins(k) ==
  /\ k.now = clock /\ k.state = state /\ k.speaks = language
  /\ k.read = 0 /\ k.jobs = << >> /\ k.then = "idle" /\ k.act = NoAct /\ k.carry = {}
  /\ k.sendAt = 0
  /\ k.step = IF state \in Mediating THEN "checking" ELSE "retrying"

LEMMA TickStartsIs ==
  ASSUME MediationAssumption, Typed, TickStarts
  PROVE  TasksFit' /\ TickBegins(task'["timer"]) /\ task'["turn"] = task["turn"]
<1> DEFINE step == IF state \in Mediating THEN "checking" ELSE "retrying"
           k1 == [IdleTask EXCEPT !.now = clock]
           k2 == [k1 EXCEPT !.state = state]
           k3 == [k2 EXCEPT !.speaks = language]
           k == [k3 EXCEPT !.step = step]
           Rest(r) == /\ r \in TaskState /\ r.now = clock /\ r.act = NoAct /\ r.sendAt = 0
                      /\ r.jobs = << >> /\ r.then = "idle" /\ r.carry = {} /\ r.read = 0
<1>0. task' = [task EXCEPT !["timer"] =
                 [IdleTask EXCEPT !.now = clock, !.state = state, !.speaks = language,
                                  !.step = step]]
  BY DEF TickStarts
<1>1. task' = [task EXCEPT !["timer"] = k]
  <2> HIDE DEF step, IdleTask
  <2> QED
    BY <1>0
<1>2. /\ state \in Live /\ clock \in Nat /\ language \in [Party -> Languages]
      /\ step \in Steps /\ TasksFit /\ Grows /\ "timer" \in Tasks /\ "turn" \in Tasks
  BY TypedIs, LengthStays DEF TickStarts, RowsTyped, Steps, Typed, Tasks
<1>3. Rest(k1)
  BY <1>2, IdleIs DEF AtRestIs
<1> HIDE DEF k1, step
<1>4. Rest(k2) /\ k2.state = state
  BY <1>2, <1>3 DEF TaskState
<1> HIDE DEF k2
<1>5. Rest(k3) /\ k3.state = state /\ k3.speaks = language
  BY <1>2, <1>4 DEF TaskState
<1> HIDE DEF k3
<1>6. Rest(k) /\ k.state = state /\ k.speaks = language /\ k.step = step
  BY <1>2, <1>5 DEF TaskState
<1> HIDE DEF k
<1>7. TickBegins(k)
  BY <1>6 DEF TickBegins, step
<1>8. Fits("timer", k, Len(messages'))
  BY <1>2, <1>6 DEF Fits, StepsOf, ThensOf, ActsOf, Busy, Grows, step
<1> QED
  BY <1>1, <1>2, <1>7, <1>8, OneTaskMoves DEF Grows, TasksFit

-----------------------------------------------------------------------------
(* The steps of a turn and of a tick.                                      *)

LEMMA TurnReadsTyped ==
  ASSUME MediationAssumption, Typed, TurnReads
  PROVE  /\ Typed'
         /\ \/ \E then \in {"idle", "judging"} : Moves("turn", << >>, then)
            \/ Decided("turn", HandoffFor("flood"), "idle")
<1> DEFINE n == task["turn"].read
           flooding == Flooding(n)
<1>1. /\ messages' = messages /\ Grows /\ TasksFit /\ RowsTyped /\ "turn" \in Tasks
      /\ "idle" \in ThensOf("turn")
  BY TypedIs, LengthStays DEF TurnReads, Tasks, Typed, ThensOf
<1>2. n \in 0..Len(messages)
  BY <1>1, LengthIsNat DEF TasksFit, TaskState, Fits
<1>3. /\ strikes' = strikes \/ strikes' = [p \in Party |-> strikes[p] + (IF p \in flooding THEN 1 ELSE 0)]
      /\ struck' = struck \/ struck' = n
      /\ UNCHANGED <<clock, state, language, rounds, evaluated, messages, eventVars, judge,
                     chat, boundVars, historyVars>>
      /\ due' = due \/ due' = TRUE
      /\ Goes("turn", "idle") \/ Goes("turn", "judging") \/ Decides("turn", HandoffFor("flood"), "idle")
  BY DEF TurnReads
<1> HIDE DEF n, flooding
<1>4. strikes' \in [Party -> Nat]
  <2>1. strikes \in [Party -> Nat]
    BY <1>1 DEF RowsTyped
  <2>2. \A p \in Party : strikes[p] + (IF p \in flooding THEN 1 ELSE 0) \in Nat
    BY <2>1
  <2> QED
    BY <1>3, <2>1, <2>2
<1>5. RowsTyped'
  BY <1>1, <1>2, <1>3, <1>4 DEF RowsTyped, eventVars, boundVars, historyVars
<1>6. CASE Goes("turn", "idle")
  BY <1>1, <1>5, <1>6, GoesMoves, TypedIs DEF Moves
<1>7. CASE Goes("turn", "judging")
  <2>1. "judging" \in ThensOf("turn")
    BY DEF ThensOf
  <2> QED
    BY <1>1, <1>5, <1>7, <2>1, GoesMoves, TypedIs DEF Moves
<1>8. CASE Decides("turn", HandoffFor("flood"), "idle")
  <2>1. HandoffFor("flood") \in ActsOf("turn")
    BY DEF ActsOf, ActType, HandoffReason
  <2> QED
    BY <1>1, <1>5, <1>8, <2>1, DecidesFits, TypedIs DEF Decided
<1> QED
  BY <1>3, <1>6, <1>7, <1>8

LEMMA JudgeFailsTyped ==
  ASSUME MediationAssumption, Typed, JudgeFails
  PROVE  Typed' /\ Decided("turn", HandoffFor("judge_unavailable"), "idle")
<1>1. /\ messages' = messages /\ Grows /\ TasksFit /\ RowsTyped /\ "turn" \in Tasks
      /\ "idle" \in ThensOf("turn")
  BY TypedIs, LengthStays DEF JudgeFails, Tasks, Typed, ThensOf
<1>2. RowsTyped'
  BY <1>1 DEF JudgeFails, RowsTyped, rowVars, eventVars, boundVars, historyVars
<1>3. HandoffFor("judge_unavailable") \in ActsOf("turn")
  BY DEF ActsOf, ActType, HandoffReason
<1>4. Decided("turn", HandoffFor("judge_unavailable"), "idle")
  BY <1>1, <1>3, DecidesFits DEF JudgeFails
<1> QED
  BY <1>2, <1>4, TypedIs DEF Decided

\* The turn a judge's answer decides.
Answered(reading) ==
  LET n == task["turn"].read
      facts == [reading EXCEPT !.wrote = Wrote(n)]
  IN TurnOf(facts, n, Spoken(facts), {p \in Party : Spoken(facts)[p] # language[p]})

LEMMA JudgeAnswersIs ==
  ASSUME MediationAssumption, Typed, NEW reading, JudgeAnswers(reading)
  PROVE  LET n == task["turn"].read
             facts == [reading EXCEPT !.wrote = Wrote(n)]
             changed == {p \in Party : Spoken(facts)[p] # language[p]}
         IN /\ Typed' /\ task["turn"].step = "judging"
            /\ UNCHANGED <<clock, state, rounds, strikes, struck, messages, eventVars, judge,
                           chat, boundVars, mediatedUntil, shown>>
            /\ \/ Moves("turn", << >>, "idle") /\ UNCHANGED <<language, evaluated, switched>>
               \/ /\ ~NewerThan(n) /\ state = task["turn"].state
                  /\ evaluated' = n /\ language' = Spoken(facts) /\ due' = due
                  /\ switched' = [p \in Party |->
                       switched[p] \union (IF p \in changed THEN {Len(messages)} ELSE {})]
                  /\ Decided("turn", Decide(Answered(reading)), "idle")
<1> DEFINE n == task["turn"].read
           facts == [reading EXCEPT !.wrote = Wrote(n)]
           spoken == Spoken(facts)
           changed == {p \in Party : spoken[p] # language[p]}
<1>1. /\ messages' = messages /\ Grows /\ TasksFit /\ RowsTyped /\ "turn" \in Tasks
      /\ "idle" \in ThensOf("turn")
  BY TypedIs, LengthStays DEF JudgeAnswers, Tasks, Typed, ThensOf
<1>2. n \in 0..Len(messages)
  BY <1>1, LengthIsNat DEF TasksFit, TaskState, Fits
<1>3. /\ task["turn"].step = "judging"
      /\ UNCHANGED <<clock, state, rounds, strikes, struck, messages, eventVars, judge,
                     chat, boundVars, mediatedUntil, shown>>
  BY DEF JudgeAnswers
<1>4. \/ /\ due' = TRUE \/ due' = due
         /\ Goes("turn", "idle") /\ UNCHANGED <<language, evaluated, switched>>
      \/ /\ ~NewerThan(n) /\ state = task["turn"].state
         /\ evaluated' = n /\ language' = spoken /\ due' = due
         /\ switched' = [p \in Party |->
              switched[p] \union (IF p \in changed THEN {Len(messages)} ELSE {})]
         /\ Decides("turn", Decide(Answered(reading)), "idle")
  BY DEF JudgeAnswers, Answered
<1> HIDE DEF n, facts
<1>5. CASE /\ due' = TRUE \/ due' = due
           /\ Goes("turn", "idle") /\ UNCHANGED <<language, evaluated, switched>>
  <2>1. RowsTyped'
    BY <1>1, <1>3, <1>5 DEF RowsTyped, eventVars, boundVars
  <2>2. Moves("turn", << >>, "idle")
    BY <1>1, <1>5, GoesMoves
  <2>3. Typed'
    BY <2>1, <2>2, TypedIs DEF Moves
  <2> QED
    BY <1>3, <1>5, <2>2, <2>3
<1>6. CASE /\ ~NewerThan(n) /\ state = task["turn"].state
           /\ evaluated' = n /\ language' = spoken /\ due' = due
           /\ switched' = [p \in Party |->
                switched[p] \union (IF p \in changed THEN {Len(messages)} ELSE {})]
           /\ Decides("turn", Decide(Answered(reading)), "idle")
  <2>1. spoken \in [Party -> Languages]
    <3>1. language \in [Party -> Languages]
      BY <1>1 DEF RowsTyped
    <3> QED
      BY <3>1 DEF Spoken
  <2>2. Len(messages) \in 1..Len(messages)
    BY <1>1, LengthIsNat DEF RowsTyped, Opened
  <2>3. switched' \in [Party -> SUBSET (1..Len(messages))]
    <3>1. switched \in [Party -> SUBSET (1..Len(messages))]
      BY <1>1 DEF RowsTyped
    <3>2. \A p \in Party : switched[p] \union (IF p \in changed THEN {Len(messages)} ELSE {})
                            \in SUBSET (1..Len(messages))
      BY <2>2, <3>1
    <3> HIDE DEF changed
    <3> QED
      BY <1>6, <3>2
  <2>4. RowsTyped'
    <3> HIDE DEF spoken, changed
    <3> QED
      BY <1>1, <1>2, <1>3, <1>6, <2>1, <2>3 DEF RowsTyped, eventVars, boundVars
  <2>5. Decided("turn", Decide(Answered(reading)), "idle")
    <3> DEFINE act == Decide(Answered(reading))
    <3>1. act.do # "wait" => act \in ActsOf("turn")
      BY DecisionFits DEF ActsOf
    <3>2. Decides("turn", act, "idle")
      BY <1>6
    <3> HIDE DEF act
    <3>3. Decided("turn", act, "idle")
      BY <1>1, <3>1, <3>2, DecidesFits
    <3> QED
      BY <3>3 DEF act
  <2>6. Typed'
    BY <2>4, <2>5, TypedIs DEF Decided
  <2> QED
    BY <1>3, <1>6, <2>5, <2>6 DEF n, facts
<1> QED
  BY <1>4, <1>5, <1>6 DEF n, facts

TickChecksIs(timer) ==
  \/ /\ timer.do = "handoff"
     /\ \E reason \in HandoffReason : Decided("timer", HandoffFor(reason), "retrying")
  \/ /\ timer.do = "remind"
     /\ Moves("timer", RemindJobs(timer.parties), "retrying")
  \/ Moves("timer", << >>, "retrying")
  \/ Decided("timer", HandoffFor("opening_failed"), "retrying")

LEMMA TickChecksTyped ==
  ASSUME MediationAssumption, Typed, TickChecks
  PROVE  Typed' /\ TickChecksIs(Check(Clocks, Timeouts))
<1> DEFINE timer == Check(Clocks, Timeouts)
<1>1. /\ messages' = messages /\ Grows /\ TasksFit /\ RowsTyped /\ "timer" \in Tasks
      /\ "retrying" \in ThensOf("timer")
  BY TypedIs, LengthStays DEF TickChecks, Tasks, Typed, ThensOf
<1>2. \A reason \in HandoffReason : HandoffFor(reason) \in ActsOf("timer")
  BY DEF ActsOf
<1>3. \/ timer.do \notin {"handoff", "remind"}
      \/ timer.do = "remind"
      \/ timer.do = "handoff" /\ \E reason \in HandoffReason : timer = HandoffFor(reason)
  BY CheckIs DEF HandoffFor
<1>4. UNCHANGED <<clock, state, rowVars, messages, eventVars, due, judge, boundVars, historyVars>>
  BY DEF TickChecks
<1>5. /\ chat' \in Chat
      /\ \/ timer.do = "handoff" /\ Decides("timer", timer, "retrying")
         \/ timer.do = "remind" /\ Works("timer", RemindJobs(timer.parties), "retrying")
         \/ Goes("timer", "retrying")
         \/ Decides("timer", HandoffFor("opening_failed"), "retrying")
  BY <1>1 DEF TickChecks, Chat, RowsTyped
<1> HIDE DEF timer
<1>6. RowsTyped'
  BY <1>1, <1>4, <1>5 DEF RowsTyped, rowVars, eventVars, boundVars, historyVars
<1>7. TickChecksIs(timer)
  <2>1. CASE timer.do = "handoff" /\ Decides("timer", timer, "retrying")
    BY <1>1, <1>2, <1>3, <2>1, DecidesFits DEF TickChecksIs
  <2>2. CASE timer.do = "remind" /\ Works("timer", RemindJobs(timer.parties), "retrying")
    BY <1>1, <2>2, ListsFit, WorksFits DEF TickChecksIs
  <2>3. CASE Goes("timer", "retrying")
    BY <1>1, <2>3, GoesMoves DEF TickChecksIs
  <2>4. CASE Decides("timer", HandoffFor("opening_failed"), "retrying")
    <3>1. HandoffFor("opening_failed") \in ActsOf("timer")
      BY <1>2 DEF HandoffReason
    <3> QED
      BY <1>1, <2>4, <3>1, DecidesFits DEF TickChecksIs
  <2> QED
    BY <1>5, <2>1, <2>2, <2>3, <2>4
<1>8. Typed'
  BY <1>6, <1>7, TypedIs DEF TickChecksIs, Moves, Decided
<1> QED
  BY <1>7, <1>8 DEF timer

LEMMA TickRetriesTyped ==
  ASSUME MediationAssumption, Typed, TickRetries
  PROVE  /\ Typed'
         /\ \/ Moves("timer", << >>, "idle")
            \/ Moves("timer", PendingBriefs \o MissingNotices, "idle")
<1>1. /\ messages' = messages /\ Grows /\ TasksFit /\ RowsTyped /\ "timer" \in Tasks
      /\ "idle" \in ThensOf("timer")
  BY TypedIs, LengthStays DEF TickRetries, Tasks, Typed, ThensOf
<1>2. RowsTyped'
  BY <1>1 DEF TickRetries, RowsTyped, rowVars, eventVars, boundVars, historyVars
<1>3. PendingBriefs \o MissingNotices \in Seq(JobType)
  <2>1. held.cutoff \in Time
    BY <1>1, TimesAre DEF RowsTyped
  <2> QED
    BY <2>1, ListsFit
<1>4. \/ Goes("timer", "idle")
      \/ Works("timer", PendingBriefs \o MissingNotices, "idle")
  BY DEF TickRetries
<1>5. \/ Moves("timer", << >>, "idle")
      \/ Moves("timer", PendingBriefs \o MissingNotices, "idle")
  BY <1>1, <1>3, <1>4, GoesMoves, WorksFits
<1> QED
  BY <1>2, <1>5, TypedIs DEF Moves

-----------------------------------------------------------------------------
(* The parties, the dispute, time and restarts.                            *)

LEMMA PartyWritesTyped ==
  ASSUME MediationAssumption, Typed, NEW p \in Party, NEW skew \in Skews, PartyWrites(p, skew)
  PROVE  Typed'
<1>1. /\ messages \in Seq(Message) /\ NoTemplate \in Template
      /\ clock + skew \in Int /\ task' = task /\ TasksFit
  BY TypedIs, TemplatesAre DEF RowsTyped, MediationAssumption, PartyWrites, Typed
<1>2. /\ messages' \in Seq(Message)
      /\ Len(messages) \in Nat /\ Len(messages') = Len(messages) + 1
      /\ \A i \in 1..Len(messages) : messages'[i] = messages[i]
  BY <1>1, MessageFits DEF PartyWrites
<1>3. Opened(messages')
  BY <1>2, TypedIs, OpenedStays DEF RowsTyped
<1>4. RowsTyped'
  <2>1. UNCHANGED <<clock, state, rowVars, eventVars, judge, chat, boundVars, historyVars>>
        /\ due' = TRUE
    BY DEF PartyWrites
  <2>2. \A n \in 0..Len(messages) : n \in 0..Len(messages')
    BY <1>2
  <2>3. 1..Len(messages) \subseteq 1..Len(messages')
    BY <1>2
  <2>4. switched \in [Party -> SUBSET (1..Len(messages'))]
    BY <2>3, TypedIs DEF RowsTyped
  <2> QED
    BY <1>2, <1>3, <2>1, <2>2, <2>3, <2>4, TypedIs
    DEF RowsTyped, rowVars, eventVars, boundVars, historyVars
<1>5. TasksFit'
  <2>1. \A t \in Tasks : Fits(t, task[t], Len(messages'))
    BY <1>1, <1>2 DEF TasksFit, Fits, TaskState
  <2> QED
    BY <1>1, <2>1 DEF TasksFit
<1> QED
  BY <1>4, <1>5, TypedIs

LEMMA RestartTyped ==
  ASSUME MediationAssumption, Typed, Restart
  PROVE  Typed' /\ \A t \in Tasks : AtRestIs(task'[t])
<1> DEFINE rested == [IdleTask EXCEPT !.now = clock]
<1>1. /\ messages' = messages /\ Len(messages) \in Nat /\ RowsTyped /\ clock \in Nat
      /\ "active" \in Live /\ 0 \in Nat
  BY TypedIs, LengthIsNat DEF Restart, RowsTyped, Live, Mediating
<1>2. AtRestIs(IdleTask) /\ AtRestIs(rested)
  BY <1>1, IdleIs
<1>3. task' = [t \in Tasks |-> IF t = "turn" THEN IdleTask ELSE rested]
  BY DEF Restart
<1> HIDE DEF rested
<1>4. \A t \in Tasks : AtRestIs(task'[t])
  BY <1>2, <1>3
<1>5. TasksFit'
  <2>1. task' \in [Tasks -> TaskState]
    BY <1>2, <1>3 DEF AtRestIs
  <2> QED
    BY <1>1, <1>4, <2>1, RestFits DEF TasksFit
<1>6. crashes' \in 0..MaxCrashes /\ due' \in BOOLEAN /\ judge' \in BOOLEAN /\ chat' \in Chat
  <2>1. Pending \in BOOLEAN
    BY DEF Pending
  <2>2. crashes' \in 0..MaxCrashes
    <3>1. crashes < MaxCrashes /\ crashes' = crashes + 1
      BY DEF Restart
    <3>2. crashes \in 0..MaxCrashes /\ MaxCrashes \in Nat
      BY <1>1 DEF RowsTyped, MediationAssumption
    <3> QED
      BY <3>1, <3>2
  <2> QED
    BY <2>1, <2>2 DEF Restart
<1>7. RowsTyped'
  <2>1. UNCHANGED <<clock, state, rowVars, messages, eventVars, failures, historyVars>>
    BY DEF Restart
  <2> QED
    BY <1>1, <1>6, <2>1 DEF RowsTyped, rowVars, eventVars, historyVars
<1> QED
  BY <1>4, <1>5, <1>7, TypedIs

\* Steps of the environment that move one or two variables of their own.
LEMMA OthersTyped ==
  ASSUME MediationAssumption, Typed,
         \/ \E end \in Ends : DisputeEnds(end)
         \/ Tick \/ JudgePassesChecks \/ RelayConnects \/ UNCHANGED vars
  PROVE  Typed'
<1>1. RowsTyped /\ TasksFit
  BY TypedIs DEF Typed
<1>2. task' = task /\ messages' = messages
  BY DEF DisputeEnds, Tick, JudgePassesChecks, RelayConnects, vars
<1>3. TasksFit'
  BY <1>1, <1>2 DEF TasksFit
<1> SUFFICES RowsTyped'
  BY <1>3, TypedIs
<1>4. CASE \E end \in Ends : DisputeEnds(end)
  <2>1. PICK end \in Ends : DisputeEnds(end)
    BY <1>4
  <2>2. end \in Terminal /\ clock \in Time
    BY <1>1, TimesAre DEF MediationAssumption, Terminal, RowsTyped
  <2>3. mediatedUntil' \in Time
    BY <1>1, <2>1, <2>2 DEF DisputeEnds, RowsTyped
  <2> QED
    BY <1>1, <2>1, <2>2, <2>3 DEF DisputeEnds, RowsTyped, rowVars, eventVars, boundVars
<1>5. CASE Tick
  BY <1>1, <1>5 DEF Tick, RowsTyped, rowVars, eventVars, boundVars, historyVars
<1>6. CASE JudgePassesChecks
  BY <1>1, <1>6 DEF JudgePassesChecks, RowsTyped, rowVars, eventVars, boundVars, historyVars
<1>7. CASE RelayConnects
  BY <1>1, <1>7 DEF RelayConnects, RowsTyped, rowVars, eventVars, boundVars, historyVars, Chat
<1>8. CASE UNCHANGED vars
  BY <1>1, <1>8 DEF vars, RowsTyped
<1> QED
  BY <1>4, <1>5, <1>6, <1>7, <1>8

LEMMA ProceedsTyped ==
  ASSUME MediationAssumption, Typed, NEW t \in Tasks, Proceeds(t)
  PROVE  Typed'
BY SendStartsTyped, SendEndsTyped, SendFailsTyped, CountRoundTyped, BriefStartsTyped,
   BriefEndsTyped, ActsTyped DEF Proceeds

LEMMA TurnStartsTyped ==
  ASSUME MediationAssumption, Typed, TurnStarts
  PROVE  Typed'
<1>1. RowsTyped'
  BY TypedIs DEF TurnStarts, RowsTyped, rowVars, eventVars, boundVars, historyVars
<1> QED
  BY <1>1, TurnStartsIs, TypedIs

LEMMA TickStartsTyped ==
  ASSUME MediationAssumption, Typed, TickStarts
  PROVE  Typed'
<1>1. RowsTyped'
  BY TypedIs DEF TickStarts, RowsTyped, rowVars, eventVars, boundVars, historyVars
<1> QED
  BY <1>1, TickStartsIs, TypedIs

LEMMA NextTyped ==
  ASSUME MediationAssumption, Typed, [Next]_vars
  PROVE  Typed'
<1>1. "turn" \in Tasks /\ "timer" \in Tasks
  BY DEF Tasks
<1>2. CASE TurnNext
  <2>1. ASSUME NEW reading \in Readings, JudgeAnswers(reading) PROVE Typed'
    BY <2>1, JudgeAnswersIs
  <2> QED
    BY <1>1, <1>2, <2>1, TurnStartsTyped, TurnReadsTyped, JudgeFailsTyped, UpdateEndsTyped,
       ProceedsTyped DEF TurnNext
<1>3. CASE TimerNext
  BY <1>1, <1>3, TickStartsTyped, TickChecksTyped, TickRetriesTyped, ProceedsTyped DEF TimerNext
<1>4. CASE Environment
  BY <1>4, PartyWritesTyped, OthersTyped, RestartTyped DEF Environment
<1>5. CASE UNCHANGED vars
  BY <1>5, OthersTyped
<1> QED
  BY <1>2, <1>3, <1>4, <1>5 DEF Next

LEMMA InitTyped ==
  ASSUME MediationAssumption, Init
  PROVE  Typed
<1>1. Opener("buyer") \in Message /\ Opener("seller") \in Message
  <2>1. QuestionsOf("buyer")[1] \in Template /\ QuestionsOf("seller")[1] \in Template
    BY DEF Template, Party
  <2> QED
    BY <2>1 DEF Opener, Message, Party, MediationAssumption
<1>2. messages \in Seq(Message) /\ Len(messages) = 2 /\ Opened(messages)
  BY <1>1, ListsOfJobs DEF Init, Opened
<1>3. "active" \in Live /\ 0 \in Nat /\ Len(messages) \in Nat
  BY <1>2 DEF Live, Mediating
<1>4. TasksFit
  <2>1. AtRestIs(IdleTask)
    BY <1>3, IdleIs
  <2> QED
    BY <1>3, <2>1, RestFits DEF Init, TasksFit, AtRestIs
<1>5. RowsTyped
  <2>1. 0 \in Time /\ NoTime \in Time
    BY TimesAre
  <2>2. language \in [Party -> Languages] /\ MaxFailures \in Nat /\ MaxCrashes \in Nat
    BY DEF Init, MediationAssumption
  <2>3. /\ rounds \in [Party -> Nat] /\ strikes \in [Party -> Nat]
        /\ briefs \in [Subject -> {"none", "pending", "sent"}]
        /\ switched \in [Party -> SUBSET (1..Len(messages))]
    BY DEF Init
  <2>4. /\ held \in [at : Time, cutoff : Nat]
        /\ guided \in [at : Time, path : Path \union {"none"}]
        /\ handoff \in [at : Time, reason : HandoffReason \union {"none"}]
    BY <2>1 DEF Init
  <2>5. /\ clock = 0 /\ state = "active" /\ lastSeen = 0 /\ evaluated = 0 /\ struck = 0
        /\ due = FALSE /\ judge = TRUE /\ chat = "subscribed" /\ failures = 0 /\ crashes = 0
        /\ mediatedUntil = NoTime /\ shown = {}
    BY DEF Init
  <2>6. /\ clock \in Nat /\ due \in BOOLEAN /\ judge \in BOOLEAN /\ chat \in Chat
        /\ state \in Live \union Terminal /\ mediatedUntil \in Time
    BY <1>3, <2>1, <2>5 DEF Chat
  <2>7. /\ lastSeen \in 0..Len(messages) /\ evaluated \in 0..Len(messages)
        /\ struck \in 0..Len(messages) /\ shown \subseteq 1..Len(messages)
        /\ failures \in 0..MaxFailures /\ crashes \in 0..MaxCrashes
    BY <1>3, <2>2, <2>5
  <2> QED
    BY <1>2, <2>2, <2>3, <2>4, <2>6, <2>7 DEF RowsTyped
<1> QED
  BY <1>4, <1>5, TypedIs

LEMMA SpecTyped == ASSUME MediationAssumption PROVE Spec => []Typed
<1>1. Init => Typed
  BY InitTyped
<1>2. Typed /\ [Next]_vars => Typed'
  BY NextTyped
<1> QED
  BY <1>1, <1>2, PTL DEF Spec

\* Every variable has its type in every state of the session: among others the
\* ids the store and the tasks keep are ids of stored messages (lastSeen, the
\* newest judged turn, the last strike, what a brief carries).
THEOREM MediationTypeCorrect == Spec => []MediationTypeOK
<1>1. Typed => MediationTypeOK
  BY DEF Typed
<1> QED
  BY <1>1, MediationAssumption, SpecTyped, PTL

-----------------------------------------------------------------------------
(* How the variables move, whichever action moves them.                    *)

\* The steps, those a task takes on its own under one quantifier.
LEMMA StepsAre ==
  ASSUME [Next]_vars
  PROVE  \/ TurnStarts \/ TurnReads \/ JudgeFails \/ UpdateEnds
         \/ \E reading \in Readings : JudgeAnswers(reading)
         \/ TickStarts \/ TickChecks \/ TickRetries
         \/ \E t \in Tasks : \/ SendStarts(t) \/ SendEnds(t) \/ SendFails(t) \/ CountRound(t)
                           \/ BriefStarts(t) \/ BriefEnds(t) \/ Acts(t)
         \/ \E p \in Party, skew \in Skews : PartyWrites(p, skew)
         \/ \E end \in Ends : DisputeEnds(end)
         \/ Tick \/ JudgePassesChecks \/ RelayConnects \/ Restart
         \/ UNCHANGED vars
<1>1. "turn" \in Tasks /\ "timer" \in Tasks
  BY DEF Tasks
<1> QED
  BY <1>1 DEF Next, TurnNext, TimerNext, Environment, Proceeds

\* The session row and its events.
LEMMA StateMoves ==
  ASSUME MediationAssumption, Typed, [Next]_vars
  PROVE  \/ UNCHANGED <<state, mediatedUntil, handoff, guided>>
         \/ \E t \in Tasks : HandsOffNow(t) \/ GuidesNow(t)
         \/ \E end \in Ends : DisputeEnds(end)
<1>1. ASSUME NEW t \in Tasks, Acts(t)
      PROVE  \/ UNCHANGED <<state, mediatedUntil, handoff, guided>>
             \/ HandsOffNow(t) \/ GuidesNow(t)
  BY <1>1, ActsIs DEF HoldsNow, AsksNow, PassesNow, eventVars
<1>2. ASSUME NEW t \in Tasks,
             \/ SendStarts(t) \/ SendEnds(t) \/ SendFails(t) \/ CountRound(t)
             \/ BriefStarts(t) \/ BriefEnds(t)
      PROVE  UNCHANGED <<state, mediatedUntil, handoff, guided>>
  BY <1>2 DEF SendStarts, SendEnds, SendFails, CountRound, BriefStarts, BriefEnds, eventVars,
              historyVars
<1>3. ASSUME \/ TurnStarts \/ TurnReads \/ JudgeFails \/ UpdateEnds
             \/ \E reading \in Readings : JudgeAnswers(reading)
             \/ TickStarts \/ TickChecks \/ TickRetries
             \/ \E p \in Party, skew \in Skews : PartyWrites(p, skew)
             \/ Tick \/ JudgePassesChecks \/ RelayConnects \/ Restart
             \/ UNCHANGED vars
      PROVE  UNCHANGED <<state, mediatedUntil, handoff, guided>>
  BY <1>3 DEF TurnStarts, TurnReads, JudgeFails, UpdateEnds, JudgeAnswers, TickStarts,
       TickChecks, TickRetries, PartyWrites, Tick, JudgePassesChecks, RelayConnects, Restart,
       vars, eventVars, historyVars
<1> QED
  BY <1>1, <1>2, <1>3, StepsAre

\* Messages are added at the end, by a send or by a party.
Sent1(t) ==
  [dir |-> "out", party |-> Job(t).party, template |-> Job(t).template,
   language |-> Speaks(t)[Job(t).party], at |-> task[t].sendAt]

Written1(p, at) ==
  [dir |-> "in", party |-> p, template |-> NoTemplate, language |-> "any", at |-> at]

LEMMA MessagesMove ==
  ASSUME MediationAssumption, Typed, [Next]_vars
  PROVE  \/ messages' = messages
         \/ \E t \in Tasks : SendEnds(t) /\ messages' = Append(messages, Sent1(t))
         \/ \E p \in Party, skew \in Skews :
              PartyWrites(p, skew) /\ messages' = Append(messages, Written1(p, clock + skew))
<1>1. ASSUME NEW t \in Tasks, Acts(t) PROVE messages' = messages
  BY <1>1 DEF Acts
<1>2. ASSUME NEW t \in Tasks, SendEnds(t) PROVE messages' = Append(messages, Sent1(t))
  BY <1>2 DEF SendEnds, Sent1
<1>3. ASSUME NEW p \in Party, NEW skew \in Skews, PartyWrites(p, skew)
      PROVE  messages' = Append(messages, Written1(p, clock + skew))
  BY <1>3 DEF PartyWrites, Written1
<1>4. ASSUME \/ TurnStarts \/ TurnReads \/ JudgeFails \/ UpdateEnds
             \/ \E reading \in Readings : JudgeAnswers(reading)
             \/ TickStarts \/ TickChecks \/ TickRetries
             \/ \E t \in Tasks : \/ SendStarts(t) \/ SendFails(t) \/ CountRound(t)
                               \/ BriefStarts(t) \/ BriefEnds(t)
             \/ \E end \in Ends : DisputeEnds(end)
             \/ Tick \/ JudgePassesChecks \/ RelayConnects \/ Restart
             \/ UNCHANGED vars
      PROVE  messages' = messages
  BY <1>4 DEF TurnStarts, TurnReads, JudgeFails, UpdateEnds, JudgeAnswers, TickStarts,
       TickChecks, TickRetries, SendStarts, SendFails, CountRound, BriefStarts, BriefEnds,
       DisputeEnds, Tick, JudgePassesChecks, RelayConnects, Restart, vars
<1> QED
  BY <1>1, <1>2, <1>3, <1>4, StepsAre

\* The task that moves with a job it has, and the other one.
LEMMA ProceedsMoves ==
  ASSUME MediationAssumption, Typed, NEW t \in Tasks
  PROVE  /\ SendStarts(t) =>
              \/ \E jobs \in {<< >>, Tail(task[t].jobs)} : Moves(t, jobs, task[t].then)
              \/ /\ Starts(t, "sending") /\ task'[t].sendAt = clock
                 /\ task'[t].carry = task[t].carry /\ MaySend(t)
         /\ SendFails(t) => \E jobs \in {<< >>, Tail(task[t].jobs)} : Moves(t, jobs, task[t].then)
         /\ SendEnds(t) \/ CountRound(t) \/ BriefEnds(t) => Moves(t, Tail(task[t].jobs), task[t].then)
         /\ BriefStarts(t) => /\ Starts(t, "briefing") /\ task'[t].sendAt = task[t].sendAt
                              /\ task'[t].carry = 1..Len(messages)
         /\ SendStarts(t) \/ SendFails(t) \/ SendEnds(t) \/ CountRound(t) \/ BriefStarts(t)
              \/ BriefEnds(t) => task[t].step \in Busy
<1>1. ASSUME SendStarts(t) \/ SendFails(t) \/ SendEnds(t) \/ CountRound(t) \/ BriefStarts(t)
              \/ BriefEnds(t)
      PROVE  task[t].step \in Busy
  BY <1>1 DEF SendStarts, SendFails, SendEnds, CountRound, BriefStarts, BriefEnds, Doing, Busy
<1>2. ASSUME SendFails(t)
      PROVE  \E jobs \in {<< >>, Tail(task[t].jobs)} : Moves(t, jobs, task[t].then)
  BY <1>1, <1>2, LengthStays, GivenUpMoves DEF SendFails
<1>3. ASSUME CountRound(t) \/ BriefEnds(t) PROVE Moves(t, Tail(task[t].jobs), task[t].then)
  BY <1>1, <1>3, LengthStays, JobDoneMoves DEF CountRound, BriefEnds
<1>4. ASSUME SendEnds(t) PROVE Moves(t, Tail(task[t].jobs), task[t].then)
  <2>1. Grows
    <3>1. Typed' /\ messages' = Append(messages, Sent1(t)) /\ messages \in Seq(Message)
      BY <1>4, SendEndsTyped, TypedIs DEF SendEnds, Sent1, RowsTyped
    <3>2. Len(messages') = Len(messages) + 1 /\ Len(messages) \in Nat
      BY <3>1
    <3> QED
      BY <3>1, <3>2 DEF Grows
  <2> QED
    BY <1>1, <1>4, <2>1, JobDoneMoves DEF SendEnds
<1> QED
  BY <1>1, <1>2, <1>3, <1>4, SendStartsTyped, BriefStartsTyped

\* How a step leaves a task: as it was, at rest, one job further, or with what
\* its own action gave it.
Progresses(t) ==
  /\ task[t].step \in Busy
  /\ \E jobs \in {<< >>, Tail(task[t].jobs)} : Moves(t, jobs, task[t].then)

TaskMoves(t) ==
  \/ task'[t] = task[t]
  \/ AtRestIs(task'[t])
  \/ Progresses(t)
  \/ /\ SendStarts(t) /\ Starts(t, "sending") /\ task'[t].sendAt = clock
     /\ task'[t].carry = task[t].carry /\ MaySend(t)
  \/ /\ BriefStarts(t) /\ Starts(t, "briefing") /\ task'[t].sendAt = task[t].sendAt
     /\ task'[t].carry = 1..Len(messages)
  \/ Acts(t) /\ (HandsOffNow(t) \/ GuidesNow(t) \/ HoldsNow(t) \/ AsksNow(t))
  \/ \E then \in ThensOf(t) : Moves(t, << >>, then)
  \/ \E act \in ActsOf(t), then \in ThensOf(t) : act.do # "wait" /\ Decided(t, act, then)
  \/ t = "turn" /\ TurnStarts /\ TurnBegins(task'[t])
  \/ t = "timer" /\ TickStarts /\ TickBegins(task'[t])
  \/ /\ t = "timer" /\ TickChecks /\ Check(Clocks, Timeouts).do = "remind"
     /\ Moves(t, RemindJobs(Check(Clocks, Timeouts).parties), "retrying")
  \/ t = "timer" /\ TickRetries /\ Moves(t, PendingBriefs \o MissingNotices, "idle")

LEMMA TaskMovesSo ==
  ASSUME MediationAssumption, Typed, [Next]_vars, NEW t \in Tasks
  PROVE  TaskMoves(t)
<1> USE DEF TaskMoves
<1>1. CASE task'[t] = task[t]
  BY <1>1
<1>2. ASSUME NEW u \in Tasks,
             \/ SendStarts(u) \/ SendEnds(u) \/ SendFails(u) \/ CountRound(u)
             \/ BriefStarts(u) \/ BriefEnds(u)
      PROVE  TaskMoves(t)
  <2>1. CASE u # t
    <3>1. task'[t] = task[t]
      BY <1>2, <2>1, ProceedsMoves DEF Moves, Starts
    <3> QED
      BY <3>1, <1>1
  <2>2. CASE u = t
    BY <1>2, <2>2, ProceedsMoves DEF Progresses
  <2> QED
    BY <2>1, <2>2
<1>3. ASSUME NEW u \in Tasks, Acts(u) PROVE TaskMoves(t)
  <2>1. HandsOffNow(u) \/ GuidesNow(u) \/ HoldsNow(u) \/ AsksNow(u) \/ PassesNow(u)
    BY <1>3, ActsIs
  <2>2. CASE u # t
    <3>1. task'[t] = task[t]
      BY <2>1, <2>2 DEF HandsOffNow, GuidesNow, HoldsNow, AsksNow, PassesNow, Moves
    <3> QED
      BY <3>1, <1>1
  <2>3. CASE u = t
    <3>1. task[t].then \in ThensOf(t) /\ "idle" \in ThensOf(t)
      BY DEF Typed, TasksFit, Fits, ThensOf
    <3>2. PassesNow(t) => \E then \in ThensOf(t) : Moves(t, << >>, then)
      BY <3>1 DEF PassesNow
    <3> QED
      BY <1>3, <2>1, <2>3, <3>2
  <2> QED
    BY <2>2, <2>3
<1>4. Tasks = {"turn", "timer"} /\ {"idle", "judging"} \subseteq ThensOf("turn")
      /\ {"idle", "retrying"} \subseteq ThensOf("timer")
  BY DEF Tasks, ThensOf
<1>5. CASE TurnStarts
  BY <1>1, <1>4, <1>5, TurnStartsIs
<1>6. CASE TickStarts
  BY <1>1, <1>4, <1>6, TickStartsIs
<1>7. ASSUME NEW u \in Tasks, NEW act, NEW then \in ThensOf(u), Decided(u, act, then),
             act.do # "wait" => act \in ActsOf(u)
      PROVE  TaskMoves(t)
  <2>1. CASE u # t
    BY <1>1, <1>7, <2>1 DEF Decided
  <2>2. CASE u = t
    BY <1>7, <2>2 DEF Decided
  <2> QED
    BY <2>1, <2>2
<1>8. ASSUME NEW u \in Tasks, NEW then \in ThensOf(u), Moves(u, << >>, then)
      PROVE  TaskMoves(t)
  <2>1. CASE u # t
    BY <1>1, <1>8, <2>1 DEF Moves
  <2>2. CASE u = t
    BY <1>8, <2>2
  <2> QED
    BY <2>1, <2>2
<1>9. \A reason \in HandoffReason : HandoffFor(reason) \in ActsOf("turn")
                                   /\ HandoffFor(reason) \in ActsOf("timer")
  BY DEF ActsOf, ActType
<1>10. {"flood", "judge_unavailable", "opening_failed"} \subseteq HandoffReason
  BY DEF HandoffReason
<1>11. CASE TurnReads \/ JudgeFails \/ UpdateEnds
  BY <1>4, <1>7, <1>8, <1>9, <1>10, <1>11, TurnReadsTyped, JudgeFailsTyped, UpdateEndsTyped
<1>12. ASSUME NEW reading \in Readings, JudgeAnswers(reading) PROVE TaskMoves(t)
  <2> DEFINE act == Decide(Answered(reading))
  <2>1. act.do # "wait" => act \in ActsOf("turn")
    BY DecisionFits DEF ActsOf
  <2>2. Moves("turn", << >>, "idle") \/ Decided("turn", act, "idle")
    BY <1>12, JudgeAnswersIs
  <2> HIDE DEF act
  <2> QED
    BY <1>4, <1>7, <1>8, <2>1, <2>2
<1>13. CASE TickChecks
  <2>1. TickChecksIs(Check(Clocks, Timeouts))
    BY <1>13, TickChecksTyped
  <2>2. CASE Check(Clocks, Timeouts).do = "remind"
             /\ Moves("timer", RemindJobs(Check(Clocks, Timeouts).parties), "retrying")
    BY <1>1, <1>4, <1>13, <2>2 DEF Moves
  <2> HIDE DEF TaskMoves
  <2> QED
    BY <1>4, <1>7, <1>8, <1>9, <1>10, <2>1, <2>2 DEF TickChecksIs
<1>14. CASE TickRetries
  <2>1. Moves("timer", << >>, "idle") \/ Moves("timer", PendingBriefs \o MissingNotices, "idle")
    BY <1>14, TickRetriesTyped
  <2>2. CASE Moves("timer", PendingBriefs \o MissingNotices, "idle")
    BY <1>1, <1>4, <1>14, <2>2 DEF Moves
  <2> QED
    BY <1>4, <1>8, <2>1, <2>2
<1>15. CASE Restart
  BY <1>15, RestartTyped
<1>16. CASE \/ \E p \in Party, skew \in Skews : PartyWrites(p, skew)
            \/ \E end \in Ends : DisputeEnds(end)
            \/ Tick \/ JudgePassesChecks \/ RelayConnects
            \/ UNCHANGED vars
  BY <1>1, <1>16 DEF PartyWrites, DisputeEnds, Tick, JudgePassesChecks, RelayConnects, vars
<1> QED
  BY <1>2, <1>3, <1>5, <1>6, <1>11, <1>12, <1>13, <1>14, <1>15, <1>16, StepsAre

-----------------------------------------------------------------------------
(* The life of the session row.                                            *)

\* What one step does to the session row, in the words of SessionLife.
LifeStep == [Life!LifeNext]_(Life!lifeVars)

LEMMA LifeSteps ==
  ASSUME MediationAssumption, Typed, [Next]_vars
  PROVE  LifeStep
<1>1. CASE state' = state
  BY <1>1 DEF LifeStep, Life!lifeVars
<1>2. ASSUME NEW to, state' = to
      PROVE  Life!Moves("session", to)
  BY <1>2 DEF Life!Moves
<1>3. ASSUME NEW t \in Tasks, HandsOffNow(t) PROVE LifeStep
  <2>1. Life!Moves("session", "handed_off") /\ state \in Mediating
    BY <1>2, <1>3 DEF HandsOffNow, MayHandOff
  <2>2. Life!HandOff("session")
    BY <2>1 DEF Life!HandOff, Life!Mediating, Mediating
  <2> QED
    BY <2>2 DEF LifeStep, Life!LifeNext
<1>4. ASSUME NEW t \in Tasks, GuidesNow(t) PROVE LifeStep
  <2>1. Life!Moves("session", "guiding") /\ state = "active"
    BY <1>2, <1>4 DEF GuidesNow
  <2>2. Life!StartGuiding("session")
    BY <2>1 DEF Life!StartGuiding
  <2> QED
    BY <2>2 DEF LifeStep, Life!LifeNext
<1>5. ASSUME NEW end \in Ends, DisputeEnds(end) PROVE LifeStep
  <2>1. Life!Moves("session", end) /\ state \in Live /\ end \in {"closed", "superseded"}
    BY <1>2, <1>5 DEF DisputeEnds, MediationAssumption
  <2>2. PICK to \in {"closed", "superseded"} : to = end
    BY <2>1
  <2>3. to \in Life!Terminal /\ Life!Moves("session", to)
    BY <2>1, <2>2 DEF Life!Terminal
  <2>4. [s \in {"session"} |-> state]["session"] \in Life!Live
    BY <2>1 DEF Life!Live, Life!Mediating, Live, Mediating
  <2>5. Life!End("session")
    BY <2>3, <2>4 DEF Life!End
  <2> QED
    BY <2>5 DEF LifeStep, Life!LifeNext
<1> QED
  BY <1>1, <1>3, <1>4, <1>5, StateMoves

\* Turns, timers and revisions move the session row only as SessionLife lets
\* them: it is handed off once and never after it ended, and guided from
\* active only, whatever each of them read before (the guarded updates of
\* sessions.rs).
THEOREM SessionKeepsItsLife == Spec => MediationKeepsTheLife
<1>1. Typed /\ [Next]_vars => LifeStep
  BY MediationAssumption, LifeSteps
<1> QED
  BY <1>1, MediationAssumption, SpecTyped, PTL DEF Spec, MediationKeepsTheLife, LifeStep

\* The lists of jobs a step gives a task.
Asking(t, jobs) == t = "turn" /\ Acts(t) /\ AsksNow(t) /\ jobs = AskJobs(task[t].act)

Reminding(t, jobs) ==
  /\ t = "timer" /\ TickChecks /\ Check(Clocks, Timeouts).do = "remind"
  /\ jobs = RemindJobs(Check(Clocks, Timeouts).parties)

NewJobs(t, jobs) ==
  \/ HandsOffNow(t) /\ jobs = <<Brief("handoff")>> \o Both("handoff_notice", 0)
  \/ GuidesNow(t) /\ jobs = <<Brief("guide")>> \o GuideJobs(task[t].act.path)
  \/ HoldsNow(t) /\ jobs = Both("hold_notice", Len(messages))
  \/ Asking(t, jobs)
  \/ t = "turn" /\ TurnStarts /\ jobs = GuideJobs(guided.path)
  \/ Reminding(t, jobs)
  \/ t = "timer" /\ TickRetries /\ jobs = PendingBriefs \o MissingNotices

LEMMA JobsMove ==
  ASSUME Typed, NEW t \in Tasks, TaskMoves(t)
  PROVE  \/ task'[t].jobs \in {task[t].jobs, << >>}
         \/ task[t].step \in Busy /\ task'[t].jobs = Tail(task[t].jobs)
         \/ NewJobs(t, task'[t].jobs)
<1>1. TurnBegins(task'[t]) => task'[t].jobs \in {<< >>, GuideJobs(guided.path)}
  BY DEF TurnBegins, IdleTask
<1>2. CASE t = "turn" /\ TurnStarts /\ TurnBegins(task'[t])
  BY <1>1, <1>2 DEF NewJobs
<1>3. CASE Acts(t) /\ (HandsOffNow(t) \/ GuidesNow(t) \/ HoldsNow(t) \/ AsksNow(t))
  <2>1. AsksNow(t) => t = "turn" /\ task'[t].jobs = AskJobs(task[t].act)
    BY DEF AsksNow, Moves
  <2>2. HandsOffNow(t) => task'[t].jobs = <<Brief("handoff")>> \o Both("handoff_notice", 0)
    BY DEF HandsOffNow, Moves
  <2>3. GuidesNow(t) => task'[t].jobs = <<Brief("guide")>> \o GuideJobs(task[t].act.path)
    BY DEF GuidesNow, Moves
  <2>4. HoldsNow(t) => task'[t].jobs = Both("hold_notice", Len(messages))
    BY DEF HoldsNow, Moves
  <2> QED
    BY <1>3, <2>1, <2>2, <2>3, <2>4 DEF NewJobs, Asking
<1>4. CASE /\ t = "timer" /\ TickChecks /\ Check(Clocks, Timeouts).do = "remind"
           /\ Moves(t, RemindJobs(Check(Clocks, Timeouts).parties), "retrying")
  <2>1. task'[t].jobs = RemindJobs(Check(Clocks, Timeouts).parties)
    BY <1>4 DEF Moves
  <2> QED
    BY <1>4, <2>1 DEF NewJobs, Reminding
<1>5. CASE t = "timer" /\ TickRetries /\ Moves(t, PendingBriefs \o MissingNotices, "idle")
  <2>1. task'[t].jobs = PendingBriefs \o MissingNotices
    BY <1>5 DEF Moves
  <2> QED
    BY <1>5, <2>1 DEF NewJobs
<1>6. CASE \/ task'[t] = task[t] \/ AtRestIs(task'[t]) \/ Progresses(t)
           \/ Starts(t, "sending") \/ Starts(t, "briefing")
           \/ \E then \in ThensOf(t) : Moves(t, << >>, then)
           \/ \E act \in ActsOf(t), then \in ThensOf(t) : Decided(t, act, then)
           \/ TickBegins(task'[t])
  BY <1>6 DEF AtRestIs, Progresses, Starts, Moves, Decided, TickBegins
<1> QED
  BY <1>2, <1>3, <1>4, <1>5, <1>6 DEF TaskMoves

\* A property of jobs that the lists a step gives have, the jobs keep.
LEMMA JobsStay ==
  ASSUME Typed, NEW t \in Tasks, TaskMoves(t), NEW S, task[t].jobs \in Seq(S),
         \A jobs : NewJobs(t, jobs) => jobs \in Seq(S)
  PROVE  task'[t].jobs \in Seq(S)
<1>1. task[t].step \in Busy => Tail(task[t].jobs) \in Seq(S)
  <2>1. task[t].step \in Busy => task[t].jobs # << >>
    BY JobsLeft DEF Typed
  <2> QED
    BY <2>1, ListsOfJobs
<1>2. << >> \in Seq(S)
  BY ListsOfJobs
<1> QED
  BY <1>1, <1>2, JobsMove

\* What is in the lists a step gives.
LEMMA NewJobsIn ==
  ASSUME MediationAssumption, Typed, NEW t \in Tasks, NEW S, Brief("guide") \in S,
         SendJobs(Party, GuideTemplate \union {"hold_notice"}, Time) \subseteq S,
         HandsOffNow(t) \/ (TickRetries /\ briefs["handoff"] = "pending") => Brief("handoff") \in S,
         HandsOffNow(t) \/ (TickRetries /\ task["timer"].state = "handed_off")
           => SendJobs(Party, {"handoff_notice"}, Time) \subseteq S,
         NEW jobs, NewJobs(t, jobs),
         Asking(t, jobs) => SendJobs(Party, Sendable, {NoTime}) \union RoundJobs \subseteq S,
         Reminding(t, jobs) => SendJobs(Party, {"reminder"}, {NoTime}) \subseteq S
  PROVE  jobs \in Seq(S)
<1>1. /\ Len(messages) \in Time /\ 0 \in Time /\ NoTime \in Time /\ held.cutoff \in Time
      /\ "buyer" \in Party /\ "seller" \in Party
  <2>1. held.cutoff \in Nat
    BY TypedIs DEF RowsTyped
  <2> QED
    BY <2>1, LengthIsNat, TimesAre DEF Party
<1>2. ASSUME NEW q \in GuideTemplate \union {"hold_notice"}, NEW p \in Party, NEW after \in Time
      PROVE  Send(p, q, FALSE, after) \in S
  BY JobsAre
<1>3. \A path : GuideJobs(path) \in Seq(S)
  <2>1. /\ Send("seller", "guide_arrived_seller", FALSE, 0) \in S
        /\ Send("buyer", "guide_arrived_buyer", FALSE, 0) \in S
        /\ Send("buyer", "guide_not_sent_buyer", FALSE, 0) \in S
        /\ Send("seller", "guide_not_sent_seller", FALSE, 0) \in S
    BY <1>1, <1>2 DEF GuideTemplate
  <2> QED
    BY <2>1, ListsOfJobs DEF GuideJobs
<1>4. \A after \in Time : Both("hold_notice", after) \in Seq(S)
  BY <1>1, <1>2, ListsOfJobs DEF Both
<1>5. ASSUME SendJobs(Party, {"handoff_notice"}, Time) \subseteq S
      PROVE  /\ Both("handoff_notice", 0) \in Seq(S)
             /\ \A p \in Party : Send(p, "handoff_notice", FALSE, NoTime) \in S
  <2>1. \A p \in Party, after \in Time : Send(p, "handoff_notice", FALSE, after) \in S
    BY <1>5, JobsAre
  <2> QED
    BY <1>1, <2>1, ListsOfJobs DEF Both
<1>6. CASE HandsOffNow(t) /\ jobs = <<Brief("handoff")>> \o Both("handoff_notice", 0)
  BY <1>5, <1>6, ListsOfJobs
<1>7. CASE GuidesNow(t) /\ jobs = <<Brief("guide")>> \o GuideJobs(task[t].act.path)
  BY <1>3, <1>7, ListsOfJobs
<1>8. CASE jobs = Both("hold_notice", Len(messages)) \/ jobs = GuideJobs(guided.path)
  BY <1>1, <1>3, <1>4, <1>8
<1>9. CASE Asking(t, jobs)
  <2> DEFINE J == SendJobs(Party, Sendable, {NoTime}) \union RoundJobs
  <2>1. task[t].act \in ActType /\ task[t].act.do = "ask"
    BY <1>9 DEF Asking, AsksNow, Typed, TasksFit, TaskState
  <2>2. AskJobs(task[t].act) \in Seq(J)
    BY <2>1, ActFaces, AskJobsAre
  <2>3. J \subseteq S
    BY <1>9
  <2> HIDE DEF J
  <2> QED
    BY <1>9, <2>2, <2>3, SeqOfMore DEF Asking
<1>10. CASE Reminding(t, jobs)
  <2>1. \A p \in Party : Send(p, "reminder", TRUE, NoTime) \in S
    BY <1>10, JobsAre
  <2>2. \A parties : RemindJobs(parties) \in Seq(S)
    <3> TAKE parties
    <3> DEFINE of(p) == OnlyIf(p \in parties, Send(p, "reminder", TRUE, NoTime))
    <3>1. of("buyer") \in Seq(S) /\ of("seller") \in Seq(S)
      BY <1>1, <2>1, OnlyIfIs
    <3>2. RemindJobs(parties) = of("buyer") \o of("seller")
      BY DEF RemindJobs
    <3> HIDE DEF of
    <3> QED
      BY <3>1, <3>2, ListsOfJobs
  <2> QED
    BY <1>10, <2>2 DEF Reminding
<1>11. CASE TickRetries /\ jobs = PendingBriefs \o MissingNotices
  <2>1. PendingBriefs \in Seq(S)
    <3>1. PendingBrief("guide") \in Seq(S)
      BY OnlyIfIs DEF PendingBrief
    <3>2. PendingBrief("handoff") \in Seq(S)
      BY <1>11, OnlyIfIs DEF PendingBrief
    <3> QED
      BY <3>1, <3>2, ListsOfJobs DEF PendingBriefs
  <2>2. MissingNotices \in Seq(S)
    <3> DEFINE notice(p) == OnlyIf(~Received(p, "handoff_notice", 0),
                                   Send(p, "handoff_notice", FALSE, NoTime))
    <3>1. ASSUME task["timer"].state = "handed_off"
          PROVE  notice("buyer") \o notice("seller") \in Seq(S)
      <4>1. notice("buyer") \in Seq(S) /\ notice("seller") \in Seq(S)
        BY <1>1, <1>5, <1>11, <3>1, OnlyIfIs
      <4> HIDE DEF notice
      <4> QED
        BY <4>1, ListsOfJobs
    <3>2. \/ task["timer"].state = "handed_off" /\ MissingNotices = notice("buyer") \o notice("seller")
          \/ MissingNotices = GuideJobs(guided.path)
          \/ MissingNotices = Both("hold_notice", held.cutoff)
          \/ MissingNotices = << >>
      BY DEF MissingNotices
    <3> HIDE DEF notice
    <3> QED
      BY <1>1, <1>3, <1>4, <3>1, <3>2, ListsOfJobs
  <2> QED
    BY <1>11, <2>1, <2>2, ListsOfJobs
<1> QED
  BY <1>6, <1>7, <1>8, <1>9, <1>10, <1>11 DEF NewJobs

-----------------------------------------------------------------------------
(* Silence once mediation is over.                                         *)

LEMMA StoredIs ==
  ASSUME Typed, NEW i \in 1..Len(messages)
  PROVE  messages[i] \in Message /\ (messages[i].dir = "out" <=> ~IsIn(i))
<1>1. messages \in Seq(Message)
  BY DEF Typed, MediationTypeOK
<1>2. messages[i] \in Message
  BY <1>1
<1> QED
  BY <1>2 DEF Message, IsIn

\* What reached a party, or is about to, started while mediation lasted.
OnTime(at, until, now) == at <= now /\ (until # NoTime => at <= until)

Plain == {job \in JobType : job.kind = "send" => job.template # "handoff_notice"}

Proper(m, reason, until, now) ==
  m.dir = "out" =>
    IF m.template = "handoff_notice" THEN reason # "none" ELSE OnTime(m.at, until, now)

Quiet ==
  /\ state \in Mediating <=> mediatedUntil = NoTime
  /\ mediatedUntil # NoTime => mediatedUntil <= clock
  /\ state = "handed_off" \/ task["timer"].state = "handed_off" => handoff.reason # "none"
  /\ handoff.reason = "none" => \A t \in Tasks : task[t].jobs \in Seq(Plain)
  /\ \A i \in 1..Len(messages) : Proper(messages[i], handoff.reason, mediatedUntil, clock)
  /\ \A t \in Tasks : task[t].step = "sending" /\ Job(t).template # "handoff_notice"
       => OnTime(task[t].sendAt, mediatedUntil, clock)

\* How the clock and the end of mediation move.
Later ==
  /\ clock \in Nat /\ clock' \in Nat /\ clock <= clock'
  /\ mediatedUntil \in Time /\ mediatedUntil' \in Time
  /\ \/ UNCHANGED <<state, mediatedUntil, handoff>>
     \/ state = "active" /\ state' = "guiding" /\ UNCHANGED <<mediatedUntil, handoff>>
     \/ /\ state \in Mediating /\ state' = "handed_off" /\ mediatedUntil' = clock
        /\ handoff'.reason # "none"
     \/ /\ state \in Mediating /\ state' \in Terminal /\ mediatedUntil' = clock
        /\ handoff' = handoff
     \/ /\ state = "handed_off" /\ state' \in Terminal
        /\ UNCHANGED <<mediatedUntil, handoff>>

LEMMA LaterSo ==
  ASSUME MediationAssumption, Typed, [Next]_vars
  PROVE  Later
<1>1. /\ clock \in Nat /\ clock' \in Nat /\ mediatedUntil \in Time /\ mediatedUntil' \in Time
  <2>1. Typed'
    BY NextTyped
  <2> QED
    BY <2>1 DEF Typed, MediationTypeOK
<1>2. clock <= clock'
  <2>1. CASE Tick
    BY <1>1, <2>1 DEF Tick
  <2>2. CASE ~Tick
    <3>1. ASSUME NEW t \in Tasks, Acts(t) PROVE clock' = clock
      BY <3>1 DEF Acts
    <3>2. clock' = clock
      BY <2>2, <3>1, StepsAre DEF TurnStarts, TurnReads, JudgeFails, UpdateEnds, JudgeAnswers, TickStarts,
       TickChecks, TickRetries, SendStarts, SendEnds, SendFails, CountRound, BriefStarts, BriefEnds,
       PartyWrites, DisputeEnds, JudgePassesChecks, RelayConnects, Restart, vars
    <3> QED
      BY <1>1, <3>2
  <2> QED
    BY <2>1, <2>2
<1>3. CASE UNCHANGED <<state, mediatedUntil, handoff, guided>>
  BY <1>1, <1>2, <1>3 DEF Later
<1>4. ASSUME NEW t \in Tasks, HandsOffNow(t) PROVE Later
  BY <1>1, <1>2, <1>4 DEF HandsOffNow, MayHandOff, Later, HandoffReason
<1>5. ASSUME NEW t \in Tasks, GuidesNow(t) PROVE Later
  BY <1>1, <1>2, <1>5 DEF GuidesNow, Later
<1>6. ASSUME NEW end \in Ends, DisputeEnds(end) PROVE Later
  <2>1. end \in Terminal /\ state \in Live /\ state' = end
    BY <1>6 DEF MediationAssumption, Terminal, DisputeEnds
  <2>2. UNCHANGED handoff /\ mediatedUntil' = IF state \in Mediating THEN clock ELSE mediatedUntil
    BY <1>6 DEF DisputeEnds, eventVars
  <2> QED
    BY <1>1, <1>2, <2>1, <2>2 DEF Later, Live
<1> QED
  BY <1>3, <1>4, <1>5, <1>6, StateMoves

LEMMA OnTimeStays ==
  ASSUME Quiet, Later, NEW at \in Int, OnTime(at, mediatedUntil, clock)
  PROVE  OnTime(at, mediatedUntil', clock')
<1>1. \/ mediatedUntil' = mediatedUntil
      \/ mediatedUntil = NoTime /\ mediatedUntil' = clock
  BY DEF Later, Quiet
<1> QED
  BY <1>1 DEF Later, OnTime, Time, NoTime

\* A handoff is never forgotten.
LEMMA ReasonStays == ASSUME Later, handoff.reason # "none" PROVE handoff'.reason # "none"
BY DEF Later

\* A task that goes on with its jobs, or past them, is not in a job yet.
LEMMA MovedStep ==
  ASSUME NEW t \in Tasks, NEW jobs, NEW then, Moves(t, jobs, then)
  PROVE  task'[t].step \notin {"sending", "briefing", "updating"}
<1>1. task'[t].then \in Thens
  BY DEF Moves, TasksFit, TaskState
<1> QED
  BY <1>1 DEF Moves, Thens

LEMMA QuietKept ==
  ASSUME MediationAssumption, Typed, Quiet, [Next]_vars
  PROVE  Quiet'
<1>1. Later /\ Typed' /\ \A t \in Tasks : TaskMoves(t)
  BY LaterSo, NextTyped, TaskMovesSo
<1>2. state' \in Mediating <=> mediatedUntil' = NoTime
  BY <1>1 DEF Later, Quiet, Mediating, Terminal, NoTime
<1>3. mediatedUntil' # NoTime => mediatedUntil' <= clock'
  <2>1. mediatedUntil' = mediatedUntil \/ mediatedUntil' = clock
    BY <1>1 DEF Later
  <2> QED
    BY <1>1, <2>1 DEF Later, Quiet, Time, NoTime
<1>4. state' = "handed_off" \/ task'["timer"].state = "handed_off" => handoff'.reason # "none"
  <2>1. state' = "handed_off" => handoff'.reason # "none"
    BY <1>1 DEF Later, Quiet, Terminal
  <2>2. task'["timer"].state = "handed_off"
          => task["timer"].state = "handed_off" \/ state = "handed_off"
    <3>1. TaskMoves("timer")
      BY <1>1 DEF Tasks
    <3> QED
      BY <3>1 DEF TaskMoves, AtRestIs, Progresses, Moves, Starts, Decided, TickBegins, HandsOffNow,
                  GuidesNow, HoldsNow, AsksNow
  <2> QED
    BY <1>1, <2>1, <2>2, ReasonStays DEF Quiet
<1>5. handoff'.reason = "none" => \A t \in Tasks : task'[t].jobs \in Seq(Plain)
  <2> SUFFICES ASSUME handoff'.reason = "none", NEW t \in Tasks
               PROVE  task'[t].jobs \in Seq(Plain)
    OBVIOUS
  <2>1. handoff.reason = "none"
    BY <1>1, ReasonStays
  <2>2. ~HandsOffNow(t) /\ task["timer"].state # "handed_off" /\ task[t].jobs \in Seq(Plain)
    BY <2>1 DEF Quiet, HandsOffNow, HandoffReason
  <2>3. \A jobs : NewJobs(t, jobs) => jobs \in Seq(Plain)
    <3> TAKE jobs
    <3> HAVE NewJobs(t, jobs)
    <3>1. Brief("guide") \in Plain /\ Brief("handoff") \in Plain
      BY JobsAre, JobTypeHas DEF Plain, Brief, Subject
    <3>2. SendJobs(Party, GuideTemplate \union {"hold_notice"}, Time) \subseteq Plain
      <4>1. GuideTemplate \union {"hold_notice"} \subseteq Template /\ "handoff_notice" \notin GuideTemplate
        BY TemplatesAre DEF Again, GuideTemplate
      <4>2. SendJobs(Party, GuideTemplate \union {"hold_notice"}, Time) \subseteq JobType
        BY <4>1, JobTypeHas
      <4> QED
        BY <4>1, <4>2 DEF Plain, SendJobs
    <3>3. SendJobs(Party, Sendable, {NoTime}) \union RoundJobs \subseteq Plain
      <4>1. SendJobs(Party, Sendable, {NoTime}) \subseteq JobType /\ RoundJobs \subseteq JobType
        BY TemplatesAre, TimesAre, JobTypeHas
      <4>2. "handoff_notice" \notin Sendable
        BY TemplatesAre DEF Sendable, Again
      <4> QED
        BY <4>1, <4>2 DEF Plain, SendJobs, RoundJobs
    <3>4. SendJobs(Party, {"reminder"}, {NoTime}) \subseteq Plain
      <4>1. SendJobs(Party, {"reminder"}, {NoTime}) \subseteq JobType
        BY TemplatesAre, TimesAre, JobTypeHas
      <4> QED
        BY <4>1 DEF Plain, SendJobs
    <3> HIDE DEF Plain
    <3> QED
      BY <2>2, <3>1, <3>2, <3>3, <3>4, NewJobsIn
  <2> QED
    BY <1>1, <2>2, <2>3, JobsStay
<1>6. \A i \in 1..Len(messages') :
        Proper(messages'[i], handoff'.reason, mediatedUntil', clock')
  <2>1. \A m \in Message : Proper(m, handoff.reason, mediatedUntil, clock)
                           => Proper(m, handoff'.reason, mediatedUntil', clock')
    BY <1>1, OnTimeStays, ReasonStays DEF Proper, Message
  <2>2. /\ messages \in Seq(Message) /\ messages' \in Seq(Message)
        /\ \A i \in 1..Len(messages) : Proper(messages[i], handoff.reason, mediatedUntil, clock)
    BY <1>1 DEF Quiet, Typed, MediationTypeOK
  <2>3. ASSUME NEW m, messages' = Append(messages, m),
               Proper(m, handoff'.reason, mediatedUntil', clock')
        PROVE  \A i \in 1..Len(messages') :
                 Proper(messages'[i], handoff'.reason, mediatedUntil', clock')
    <3>1. /\ Len(messages') = Len(messages) + 1 /\ messages'[Len(messages) + 1] = m
          /\ Len(messages) \in Nat
          /\ \A i \in 1..Len(messages) : messages'[i] = messages[i] /\ messages[i] \in Message
      BY <2>2, <2>3
    <3> HIDE DEF Proper
    <3> QED
      BY <2>1, <2>2, <2>3, <3>1
  <2>4. ASSUME NEW t \in Tasks, SendEnds(t), messages' = Append(messages, Sent1(t))
        PROVE  Proper(Sent1(t), handoff'.reason, mediatedUntil', clock')
    <3>1. task[t].step \in Busy /\ Job(t).kind = "send" /\ task[t].sendAt \in Int
          /\ task[t].step = "sending"
      BY <2>4 DEF SendEnds, Busy, Typed, TasksFit, Fits, Job, TaskState
    <3>2. CASE Job(t).template = "handoff_notice"
      <4>1. handoff.reason # "none"
        <5> SUFFICES ASSUME handoff.reason = "none" PROVE FALSE
          OBVIOUS
        <5>1. task[t].jobs \in Seq(Plain) /\ task[t].jobs # << >>
          BY <3>1, JobsLeft DEF Quiet, Typed
        <5>2. Job(t) \in Plain
          BY <5>1, ListsOfJobs DEF Job
        <5> QED
          BY <3>1, <3>2, <5>2 DEF Plain
      <4> QED
        BY <1>1, <3>2, <4>1, ReasonStays DEF Proper, Sent1
    <3>3. CASE Job(t).template # "handoff_notice"
      <4>1. OnTime(task[t].sendAt, mediatedUntil, clock)
        BY <3>1, <3>3 DEF Quiet
      <4> QED
        BY <1>1, <3>1, <3>3, <4>1, OnTimeStays DEF Proper, Sent1
    <3> QED
      BY <3>2, <3>3
  <2>5. ASSUME NEW p, NEW at PROVE Proper(Written1(p, at), handoff'.reason, mediatedUntil', clock')
    BY DEF Proper, Written1
  <2>6. CASE messages' = messages
    <3>1. \A i \in 1..Len(messages) : messages[i] \in Message
      BY <2>2
    <3> HIDE DEF Proper
    <3> QED
      BY <2>1, <2>2, <2>6, <3>1
  <2> HIDE DEF Proper
  <2> QED
    BY <2>3, <2>4, <2>5, <2>6, MessagesMove
<1>7. \A t \in Tasks : task'[t].step = "sending" /\ Job(t)'.template # "handoff_notice"
       => OnTime(task'[t].sendAt, mediatedUntil', clock')
  <2> SUFFICES ASSUME NEW t \in Tasks, task'[t].step = "sending",
                      Job(t)'.template # "handoff_notice"
               PROVE  OnTime(task'[t].sendAt, mediatedUntil', clock')
    OBVIOUS
  <2>1. \/ task'[t] = task[t]
        \/ SendStarts(t) /\ Starts(t, "sending") /\ task'[t].sendAt = clock /\ MaySend(t)
    <3>1. \A then, jobs : ~Moves(t, jobs, then)
      BY MovedStep
    <3> QED
      BY <1>1, <3>1 DEF TaskMoves, AtRestIs, Progresses, Decided, TickBegins, TurnBegins, HandsOffNow,
                  GuidesNow, HoldsNow, AsksNow, IdleTask, Starts
  <2>2. CASE task'[t] = task[t]
    <3>1. OnTime(task[t].sendAt, mediatedUntil, clock) /\ task[t].sendAt \in Int
      BY <2>2 DEF Quiet, Job, Typed, TasksFit, TaskState
    <3> QED
      BY <1>1, <2>2, <3>1, OnTimeStays
  <2>3. CASE SendStarts(t) /\ Starts(t, "sending") /\ task'[t].sendAt = clock /\ MaySend(t)
    <3>1. Job(t)' = Job(t) /\ UNCHANGED <<clock, mediatedUntil>>
      BY <2>3 DEF Starts, Job, SendStarts, historyVars
    <3>2. mediatedUntil = NoTime /\ clock \in Nat
      BY <1>1, <2>3, <3>1 DEF MaySend, Quiet, Later
    <3> QED
      BY <2>3, <3>1, <3>2 DEF OnTime
  <2> QED
    BY <2>1, <2>2, <2>3
<1> QED
  BY <1>2, <1>3, <1>4, <1>5, <1>6, <1>7 DEF Quiet

LEMMA InitQuiet == ASSUME MediationAssumption, Init PROVE Quiet
<1>1. Typed
  BY InitTyped
<1>2. \A i \in 1..Len(messages) : messages[i] \in {Opener("buyer"), Opener("seller")}
  <2>1. Len(messages) = 2 /\ messages[1] = Opener("buyer") /\ messages[2] = Opener("seller")
    BY DEF Init
  <2> QED
    BY <2>1
<1>3. \A p \in Party : Proper(Opener(p), "none", NoTime, 0)
  BY DEF Proper, Opener, OnTime, QuestionsOf, BuyerQuestions, SellerQuestions, Party
<1>4. \A i \in 1..Len(messages) : Proper(messages[i], handoff.reason, mediatedUntil, clock)
  <2>1. handoff.reason = "none" /\ mediatedUntil = NoTime /\ clock = 0
    BY DEF Init
  <2> HIDE DEF Proper
  <2> QED
    BY <1>2, <1>3, <2>1 DEF Party
<1>5. \A t \in Tasks : task[t] = IdleTask
  BY DEF Init
<1>6. \A t \in Tasks : task[t].jobs = << >> /\ task[t].step = "idle" /\ task[t].state = "active"
  BY <1>5 DEF IdleTask
<1>7. << >> \in Seq(Plain)
  BY ListsOfJobs
<1>8. "timer" \in Tasks
  BY DEF Tasks
<1> QED
  BY <1>4, <1>6, <1>7, <1>8 DEF Quiet, Init, Mediating, NoTime

LEMMA SpecQuiet == ASSUME MediationAssumption PROVE Spec => []Quiet
<1>1. Init => Quiet
  BY InitQuiet
<1>2. Typed /\ Quiet /\ [Next]_vars => Quiet'
  BY QuietKept
<1> QED
  BY <1>1, <1>2, SpecTyped, PTL DEF Spec

\* No question, reminder, hold notice or guidance starts once mediation is over,
\* and the handoff notice never comes without a handoff, whichever task sends
\* and whatever that task read before (send_when reads the state again).
THEOREM SilenceOnceOver == Spec => []SilentOnceOver
<1>1. Typed /\ Quiet => SilentOnceOver
  <2> SUFFICES ASSUME Typed, Quiet, NEW i \in 1..Len(messages), ~IsIn(i)
               PROVE  IF messages[i].template = "handoff_notice" THEN handoff.reason # "none"
                      ELSE mediatedUntil # NoTime => messages[i].at <= mediatedUntil
    BY DEF SilentOnceOver
  <2>1. messages[i].dir = "out"
    BY StoredIs
  <2> QED
    BY <2>1 DEF Quiet, Proper, OnTime
<1> QED
  BY <1>1, MediationAssumption, SpecTyped, SpecQuiet, PTL

-----------------------------------------------------------------------------
(* What the solvers are taken to have seen.                                *)

\* The parties' messages in `stored`, and those up to n among some ids.
Inbox(stored) == {i \in 1..Len(stored) : stored[i].dir = "in"}

Reach(n, ids, stored) == \A i \in Inbox(stored) : i <= n => i \in ids

NoHandoffBrief == {job \in JobType : job.kind = "brief" => job.about # "handoff"}

\* The brief of the handoff is of this session's handoff only, what it carries
\* reaches as far as what the solvers are taken to have seen, and so does an
\* update on its way.
Covering ==
  /\ briefs["handoff"] # "none" => state \notin Mediating
  /\ briefs["handoff"] = "none" => \A t \in Tasks : task[t].jobs \in Seq(NoHandoffBrief)
  /\ briefs["handoff"] = "sent" => Reach(lastSeen, shown, messages)
  /\ \A t \in Tasks : task[t].step = "briefing" /\ Job(t).about = "handoff" =>
       Reach(lastSeen, shown \union task[t].carry, messages)
  /\ task["turn"].step = "updating" =>
       /\ task["turn"].carry \subseteq 1..task["turn"].read
       /\ Reach(task["turn"].read, (1..lastSeen) \union task["turn"].carry, messages)

LEMMA InboxMoves ==
  ASSUME MediationAssumption, Typed, [Next]_vars
  PROVE  /\ Len(messages) \in Nat /\ Len(messages') \in Nat /\ Len(messages) <= Len(messages')
         /\ \A i \in Inbox(messages') : i <= Len(messages) => i \in Inbox(messages)
         /\ \A i \in 1..Len(messages) : messages'[i] = messages[i]
<1>1. messages \in Seq(Message)
  BY DEF Typed, MediationTypeOK
<1>2. messages' = messages \/ \E m : messages' = Append(messages, m)
  BY MessagesMove
<1>3. /\ Len(messages) \in Nat /\ Len(messages') \in Nat /\ Len(messages) <= Len(messages')
      /\ \A i \in 1..Len(messages) : messages'[i] = messages[i]
  BY <1>1, <1>2
<1> QED
  BY <1>3 DEF Inbox

\* How far the solvers have seen, and what tells them.
LEMMA SeenMoves ==
  ASSUME MediationAssumption, Typed, [Next]_vars
  PROVE  \/ \E t \in Tasks : HandsOffNow(t) /\ shown' = shown /\ messages' = messages
         \/ /\ lastSeen' = lastSeen /\ shown \subseteq shown'
            /\ briefs'["handoff"] = briefs["handoff"]
         \/ \E t \in Tasks :
              /\ task[t].step = "briefing" /\ Job(t).about = "handoff"
              /\ briefs'["handoff"] = "sent" /\ shown' = shown \union task[t].carry
              /\ lastSeen' = lastSeen
         \/ /\ UpdateEnds /\ lastSeen' = Larger(lastSeen, Covered(task["turn"].carry))
            /\ shown' = shown \union task["turn"].carry /\ briefs' = briefs
<1>0. briefs \in [Subject -> {"none", "pending", "sent"}]
  BY DEF Typed, MediationTypeOK
<1>1. ASSUME NEW t \in Tasks, Acts(t)
      PROVE  \/ HandsOffNow(t) /\ shown' = shown /\ messages' = messages
             \/ /\ lastSeen' = lastSeen /\ shown \subseteq shown'
                /\ briefs'["handoff"] = briefs["handoff"]
  BY <1>0, <1>1, ActsIs DEF GuidesNow, HoldsNow, AsksNow, PassesNow, eventVars, Subject
<1>2. ASSUME NEW t \in Tasks, BriefEnds(t)
      PROVE  \/ /\ lastSeen' = lastSeen /\ shown \subseteq shown'
                /\ briefs'["handoff"] = briefs["handoff"]
             \/ /\ task[t].step = "briefing" /\ Job(t).about = "handoff"
                /\ briefs'["handoff"] = "sent" /\ shown' = shown \union task[t].carry
                /\ lastSeen' = lastSeen
  <2>1. Job(t).about \in Subject
    <3>1. task[t].step \in Busy /\ Job(t).kind = "brief"
      BY <1>2 DEF BriefEnds, Busy, Typed, TasksFit, Fits, Job
    <3> QED
      BY <3>1, JobsLeft, JobFaces DEF Typed
  <2> QED
    BY <1>0, <1>2, <2>1 DEF BriefEnds, Subject
<1>3. CASE UpdateEnds
  BY <1>3 DEF UpdateEnds
<1>4. ASSUME \/ TurnStarts \/ TurnReads \/ JudgeFails
             \/ \E reading \in Readings : JudgeAnswers(reading)
             \/ TickStarts \/ TickChecks \/ TickRetries
             \/ \E t \in Tasks : \/ SendStarts(t) \/ SendEnds(t) \/ SendFails(t) \/ CountRound(t)
                               \/ BriefStarts(t)
             \/ \E p \in Party, skew \in Skews : PartyWrites(p, skew)
             \/ \E end \in Ends : DisputeEnds(end)
             \/ Tick \/ JudgePassesChecks \/ RelayConnects \/ Restart
             \/ UNCHANGED vars
      PROVE  UNCHANGED <<lastSeen, shown, briefs>>
  BY <1>4 DEF TurnStarts, TurnReads, JudgeFails, JudgeAnswers, TickStarts, TickChecks,
       TickRetries, SendStarts, SendEnds, SendFails, CountRound, BriefStarts, PartyWrites,
       DisputeEnds, Tick, JudgePassesChecks, RelayConnects, Restart, vars, eventVars, historyVars
<1> QED
  BY <1>1, <1>2, <1>3, <1>4, StepsAre

\* A task is in a brief only as it was, or begins it.
LEMMA BriefingMoves ==
  ASSUME NEW t \in Tasks, TaskMoves(t), task'[t].step = "briefing"
  PROVE  \/ task'[t] = task[t]
         \/ /\ BriefStarts(t) /\ task'[t].carry = 1..Len(messages) /\ task'[t].jobs = task[t].jobs
<1>1. \A then, jobs : ~Moves(t, jobs, then)
  BY MovedStep
<1> QED
  BY <1>1 DEF TaskMoves, AtRestIs, Progresses, Decided, TickBegins, TurnBegins, HandsOffNow,
              GuidesNow, HoldsNow, AsksNow, IdleTask, Starts

LEMMA UpdatingMoves ==
  ASSUME TaskMoves("turn"), task'["turn"].step = "updating"
  PROVE  \/ task'["turn"] = task["turn"]
         \/ /\ TurnStarts /\ task'["turn"].carry = Unseen
            /\ task'["turn"].read = Len(messages)
<1>1. \A then, jobs : ~Moves("turn", jobs, then)
  BY MovedStep DEF Tasks
<1> QED
  BY <1>1 DEF TaskMoves, AtRestIs, Progresses, Decided, TickBegins, TurnBegins, HandsOffNow,
              GuidesNow, HoldsNow, AsksNow, IdleTask, Starts

\* What reaches far enough still does when messages are added.
LEMMA ReachStays ==
  ASSUME MediationAssumption, Typed, [Next]_vars, NEW n \in 0..Len(messages),
         NEW ids, NEW more, ids \subseteq more, Reach(n, ids, messages)
  PROVE  Reach(n, more, messages')
BY InboxMoves DEF Reach, Inbox

LEMMA CoveringKept ==
  ASSUME MediationAssumption, Typed, Covering, [Next]_vars
  PROVE  Covering'
<1>1. Later /\ Typed' /\ \A t \in Tasks : TaskMoves(t)
  BY LaterSo, NextTyped, TaskMovesSo
<1>2. /\ lastSeen \in 0..Len(messages) /\ Len(messages) \in Nat
      /\ briefs \in [Subject -> {"none", "pending", "sent"}] /\ "handoff" \in Subject
      /\ \A t \in Tasks : task[t].read \in 0..Len(messages) /\ task[t].carry \subseteq 1..Len(messages)
      /\ "turn" \in Tasks
  BY LengthIsNat DEF Typed, MediationTypeOK, TasksFit, Fits, TaskState, Subject, Tasks
<1>3. ASSUME NEW t \in Tasks, task[t].step = "briefing", Job(t).about = "handoff"
      PROVE  briefs["handoff"] # "none"
  <2> SUFFICES ASSUME briefs["handoff"] = "none" PROVE FALSE
    OBVIOUS
  <2>1. task[t].jobs \in Seq(NoHandoffBrief) /\ task[t].jobs # << >> /\ Job(t).kind = "brief"
    BY <1>3 DEF Covering, Typed, TasksFit, Fits, Busy, Job
  <2>2. Job(t) \in NoHandoffBrief
    BY <2>1, ListsOfJobs DEF Job
  <2> QED
    BY <1>3, <2>1, <2>2 DEF NoHandoffBrief
<1>4. /\ briefs["handoff"] # "none" => briefs'["handoff"] # "none" /\ \A t \in Tasks : ~HandsOffNow(t)
      /\ briefs'["handoff"] # "none" => state' \notin Mediating
      /\ briefs'["handoff"] = "none" => \A t \in Tasks : ~HandsOffNow(t)
  <2>1. ASSUME NEW t \in Tasks, HandsOffNow(t)
        PROVE  briefs["handoff"] = "none" /\ briefs'["handoff"] = "pending" /\ state' \notin Mediating
    BY <1>2, <2>1 DEF HandsOffNow, MayHandOff, Covering, Mediating
  <2>2. state \notin Mediating => state' \notin Mediating
    BY <1>1 DEF Later, Mediating, Terminal
  <2>3. CASE \E t \in Tasks : HandsOffNow(t)
    BY <2>1, <2>3
  <2>4. CASE \A t \in Tasks : ~HandsOffNow(t)
    <3>1. /\ briefs["handoff"] # "none" => briefs'["handoff"] # "none"
          /\ briefs'["handoff"] # "none" => briefs["handoff"] # "none"
      BY <1>3, <2>4, SeenMoves
    <3> QED
      BY <2>2, <2>4, <3>1 DEF Covering
  <2> QED
    BY <2>3, <2>4
<1>5. briefs'["handoff"] = "none" => \A t \in Tasks : task'[t].jobs \in Seq(NoHandoffBrief)
  <2> SUFFICES ASSUME briefs'["handoff"] = "none", NEW t \in Tasks
               PROVE  task'[t].jobs \in Seq(NoHandoffBrief)
    OBVIOUS
  <2>1. task[t].jobs \in Seq(NoHandoffBrief) /\ briefs["handoff"] # "pending" /\ ~HandsOffNow(t)
    BY <1>4 DEF Covering
  <2>2. \A jobs : NewJobs(t, jobs) => jobs \in Seq(NoHandoffBrief)
    <3> TAKE jobs
    <3> HAVE NewJobs(t, jobs)
    <3>1. Brief("guide") \in NoHandoffBrief
      BY JobsAre, JobTypeHas DEF NoHandoffBrief, Brief, Subject
    <3>2. \A T, A : T \subseteq Template /\ A \subseteq Time
                     => SendJobs(Party, T, A) \subseteq NoHandoffBrief
      BY JobTypeHas DEF NoHandoffBrief, SendJobs
    <3>3. RoundJobs \subseteq NoHandoffBrief
      BY JobTypeHas DEF NoHandoffBrief, RoundJobs
    <3>4. /\ GuideTemplate \union {"hold_notice"} \subseteq Template /\ {"handoff_notice"} \subseteq Template
          /\ Sendable \subseteq Template /\ {"reminder"} \subseteq Template
          /\ {NoTime} \subseteq Time
      BY TemplatesAre, TimesAre DEF Again
    <3> HIDE DEF NoHandoffBrief
    <3> QED
      BY <2>1, <3>1, <3>2, <3>3, <3>4, NewJobsIn
  <2> QED
    BY <1>1, <2>1, <2>2, JobsStay
\* An update that got through reaches as far as it says.
<1>6. ASSUME UpdateEnds, lastSeen' = Larger(lastSeen, Covered(task["turn"].carry)),
             shown' = shown \union task["turn"].carry, NEW ids, Reach(lastSeen, ids, messages)
      PROVE  Reach(lastSeen', ids \union task["turn"].carry, messages')
  <2>1. /\ task["turn"].carry \subseteq 1..task["turn"].read
        /\ Reach(task["turn"].read, (1..lastSeen) \union task["turn"].carry, messages)
        /\ messages' = messages /\ task["turn"].carry # {}
    BY <1>2, <1>6 DEF UpdateEnds, Covering, Typed, TasksFit, Fits
  <2>2. Covered(task["turn"].carry) \in task["turn"].carry
    BY <1>2, <2>1, StoredIs, CoveredIs DEF Message
  <2> QED
    BY <1>2, <1>6, <2>1, <2>2 DEF Reach, Larger, Inbox
<1>7. briefs'["handoff"] = "sent" => Reach(lastSeen', shown', messages')
  <2> SUFFICES ASSUME briefs'["handoff"] = "sent" PROVE Reach(lastSeen', shown', messages')
    OBVIOUS
  <2>1. \A t \in Tasks : ~HandsOffNow(t)
    BY <1>2 DEF HandsOffNow
  <2>2. CASE lastSeen' = lastSeen /\ shown \subseteq shown' /\ briefs'["handoff"] = briefs["handoff"]
    BY <1>2, <2>2, ReachStays DEF Covering
  <2>3. ASSUME NEW t \in Tasks, task[t].step = "briefing", Job(t).about = "handoff",
               shown' = shown \union task[t].carry, lastSeen' = lastSeen
        PROVE  Reach(lastSeen', shown', messages')
    BY <1>2, <2>3, ReachStays DEF Covering
  <2>4. CASE /\ UpdateEnds /\ lastSeen' = Larger(lastSeen, Covered(task["turn"].carry))
             /\ shown' = shown \union task["turn"].carry /\ briefs' = briefs
    BY <1>6, <2>4 DEF Covering
  <2> QED
    BY <2>1, <2>2, <2>3, <2>4, SeenMoves
<1>8. ASSUME NEW t \in Tasks, task'[t].step = "briefing", Job(t)'.about = "handoff"
      PROVE  Reach(lastSeen', shown' \union task'[t].carry, messages')
  <2>1. CASE BriefStarts(t) /\ task'[t].carry = 1..Len(messages)
    <3>1. messages' = messages /\ lastSeen' = lastSeen
      BY <2>1 DEF BriefStarts, eventVars
    <3> QED
      BY <1>2, <2>1, <3>1 DEF Reach, Inbox
  <2>2. CASE task'[t] = task[t]
    <3>1. /\ task[t].step = "briefing" /\ Job(t).about = "handoff"
          /\ Reach(lastSeen, shown \union task[t].carry, messages)
      BY <1>8, <2>2 DEF Job, Covering
    <3>2. \A u \in Tasks : ~HandsOffNow(u)
      BY <1>3, <1>4, <3>1
    <3>3. CASE lastSeen' = lastSeen /\ shown \subseteq shown'
      BY <1>2, <2>2, <3>1, <3>3, ReachStays
    <3>4. CASE /\ UpdateEnds /\ lastSeen' = Larger(lastSeen, Covered(task["turn"].carry))
               /\ shown' = shown \union task["turn"].carry
      <4>1. (shown \union task[t].carry) \union task["turn"].carry = shown' \union task'[t].carry
        BY <2>2, <3>4
      <4> QED
        BY <1>6, <3>1, <3>4, <4>1
    <3> QED
      BY <3>2, <3>3, <3>4, SeenMoves
  <2> QED
    BY <1>1, <1>8, <2>1, <2>2, BriefingMoves
<1>9. ASSUME task'["turn"].step = "updating"
      PROVE  /\ task'["turn"].carry \subseteq 1..task'["turn"].read
             /\ Reach(task'["turn"].read, (1..lastSeen') \union task'["turn"].carry, messages')
  <2>1. CASE TurnStarts /\ task'["turn"].carry = Unseen /\ task'["turn"].read = Len(messages)
    <3>1. messages' = messages /\ lastSeen' = lastSeen
      BY <2>1 DEF TurnStarts, eventVars
    <3> QED
      BY <1>2, <2>1, <3>1 DEF Reach, Inbox, Unseen, IsIn
  <2>2. CASE task'["turn"] = task["turn"]
    <3>1. lastSeen \in Nat /\ lastSeen' \in Nat /\ lastSeen <= lastSeen'
      <4>1. lastSeen' \in Nat
        BY <1>1, LengthIsNat DEF Typed, MediationTypeOK
      <4>2. ~UpdateEnds
        <5> SUFFICES ASSUME UpdateEnds PROVE FALSE
          OBVIOUS
        <5>1. Moves("turn", << >>, "idle")
          BY UpdateEndsTyped
        <5> QED
          BY <1>2, <1>9, <5>1, MovedStep
      <4> QED
        BY <1>2, <4>1, <4>2, SeenMoves DEF HandsOffNow, Larger
    <3>2. (1..lastSeen) \union task["turn"].carry \subseteq (1..lastSeen') \union task'["turn"].carry
      BY <2>2, <3>1
    <3> QED
      BY <1>2, <1>9, <2>2, <3>2, ReachStays DEF Covering
  <2> QED
    BY <1>1, <1>2, <1>9, <2>1, <2>2, UpdatingMoves
<1> QED
  BY <1>4, <1>5, <1>7, <1>8, <1>9 DEF Covering

LEMMA InitCovering == ASSUME MediationAssumption, Init PROVE Covering
<1>1. \A t \in Tasks : task[t] = IdleTask
  BY DEF Init
<1>2. \A t \in Tasks : task[t].jobs = << >> /\ task[t].step = "idle"
  BY <1>1 DEF IdleTask
<1>3. << >> \in Seq(NoHandoffBrief)
  BY ListsOfJobs
<1>4. briefs["handoff"] = "none" /\ "turn" \in Tasks
  BY DEF Init, Subject, Tasks
<1> QED
  BY <1>2, <1>3, <1>4 DEF Covering

LEMMA SpecCovering == ASSUME MediationAssumption PROVE Spec => []Covering
<1>1. Init => Covering
  BY InitCovering
<1>2. Typed /\ Covering /\ [Next]_vars => Covering'
  BY CoveringKept
<1> QED
  BY <1>1, <1>2, SpecTyped, PTL DEF Spec

\* Once the brief of the handoff is out, every message the solvers are taken to
\* have seen was in a transcript or an update some solver received, although
\* messages keep arriving while briefs and updates are on their way (the cutoff
\* of hand_off, last_message_id of forward_updates).
THEOREM NothingIsSkipped == Spec => []NothingSkipped
<1>1. Typed /\ Covering => NothingSkipped
  <2> SUFFICES ASSUME Typed, Covering, briefs["handoff"] = "sent",
                      NEW i \in 1..lastSeen, IsIn(i)
               PROVE  i \in shown
    BY DEF NothingSkipped
  <2>1. lastSeen \in 0..Len(messages) /\ Len(messages) \in Nat
    BY LengthIsNat DEF Typed, MediationTypeOK
  <2> QED
    BY <2>1 DEF Covering, Reach, Inbox, IsIn
<1> QED
  BY <1>1, MediationAssumption, SpecTyped, SpecCovering, PTL

-----------------------------------------------------------------------------
(* Strikes.                                                                *)

\* The messages of a party from one id to another.
From(p, a, b) == {i \in a..b : InOf(p, i)}

\* Strikes are earned by what came up to the last of them.
Earned ==
  \A p \in Party : strikes[p] * (MaxPerTurn + 1) <= Cardinality(From(p, 1, struck))

\* Neighbouring stretches of messages.
LEMMA FromIs ==
  ASSUME NEW a \in Nat, NEW b \in Nat, a <= b, NEW p
  PROVE  /\ Cardinality(From(p, 1, b)) \in Nat /\ Cardinality(From(p, 1, a)) \in Nat
         /\ Cardinality(From(p, a + 1, b)) \in Nat
         /\ Cardinality(From(p, 1, b))
              = Cardinality(From(p, 1, a)) + Cardinality(From(p, a + 1, b))
<1> DEFINE A == From(p, 1, a)
           B == From(p, a + 1, b)
<1>1. /\ IsFiniteSet(A) /\ IsFiniteSet(B)
  <2>1. A \in SUBSET (1..a) /\ B \in SUBSET ((a+1)..b)
    BY DEF From
  <2>2. IsFiniteSet(1..a) /\ IsFiniteSet((a+1)..b)
    BY FS_Interval
  <2> QED
    BY <2>1, <2>2, FS_Subset
<1>2. From(p, 1, b) = A \union B /\ A \cap B = {}
  BY DEF From
<1> HIDE DEF A, B
<1>3. /\ Cardinality(A) \in Nat /\ Cardinality(B) \in Nat
      /\ Cardinality(A \union B) = Cardinality(A) + Cardinality(B) - Cardinality(A \cap B)
  BY <1>1, FS_Union, FS_CardinalityType
<1>4. Cardinality(A \cap B) = 0
  BY <1>2, FS_EmptySet
<1>5. Cardinality(A \union B) = Cardinality(A) + Cardinality(B)
  BY <1>3, <1>4
<1>6. Cardinality(From(p, 1, b)) = Cardinality(A) + Cardinality(B)
  BY <1>2, <1>5, Zenon
<1>7. Cardinality(From(p, 1, b)) \in Nat
  BY <1>3, <1>6
<1> QED
  BY <1>3, <1>6, <1>7 DEF A, B

LEMMA StrikesMove ==
  ASSUME [Next]_vars
  PROVE  UNCHANGED <<strikes, struck>> \/ TurnReads
<1>1. ASSUME NEW t \in Tasks, Acts(t) PROVE UNCHANGED <<strikes, struck>>
  BY <1>1 DEF Acts, rowVars
<1>2. ASSUME NEW reading \in Readings, JudgeAnswers(reading) PROVE UNCHANGED <<strikes, struck>>
  BY <1>2 DEF JudgeAnswers
<1> QED
  BY <1>1, <1>2, StepsAre DEF TurnStarts, JudgeFails, UpdateEnds, TickStarts, TickChecks, TickRetries,
       SendStarts, SendEnds, SendFails, CountRound, BriefStarts, BriefEnds, PartyWrites,
       DisputeEnds, Tick, JudgePassesChecks, RelayConnects, Restart, vars, rowVars

LEMMA EarnedKept ==
  ASSUME MediationAssumption, Typed, Earned, [Next]_vars
  PROVE  Earned'
<1>1. /\ struck \in 0..Len(messages) /\ evaluated \in 0..Len(messages) /\ Len(messages) \in Nat
      /\ strikes \in [Party -> Nat] /\ MaxPerTurn \in Nat
      /\ task["turn"].read \in 0..Len(messages)
  <2>1. /\ struck \in 0..Len(messages) /\ evaluated \in 0..Len(messages) /\ Len(messages) \in Nat
        /\ strikes \in [Party -> Nat] /\ MaxPerTurn \in Nat
    BY LengthIsNat DEF Typed, MediationTypeOK, MediationAssumption
  <2>2. task["turn"].read \in Nat /\ task["turn"].read <= Len(messages)
    BY DEF Typed, TasksFit, Fits, TaskState, Tasks
  <2> QED
    BY <2>1, <2>2
<1>2. CASE UNCHANGED <<strikes, struck>>
  <2>1. \A i \in 1..struck : messages'[i] = messages[i]
    BY <1>1, InboxMoves
  <2>2. \A p : From(p, 1, struck)' = From(p, 1, struck)
    BY <1>2, <2>1 DEF From, InOf, IsIn
  <2> QED
    BY <1>2, <2>2 DEF Earned
<1>3. CASE TurnReads
  <2> DEFINE n == task["turn"].read
             flooding == Flooding(n)
  <2>1. CASE UNCHANGED <<strikes, struck>>
    BY <1>2, <2>1
  <2>2. CASE /\ strikes' = [p \in Party |-> strikes[p] + (IF p \in flooding THEN 1 ELSE 0)]
             /\ struck' = n /\ flooding # {}
    <3> DEFINE last == Larger(evaluated, struck)
    <3>0. messages' = messages
      BY <1>3 DEF TurnReads
    <3>1. last \in Nat /\ struck <= last /\ n \in Nat /\ struck \in Nat
      BY <1>1 DEF Larger
    <3>2. \A p \in flooding : p \in Party /\ Cardinality(From(p, last + 1, n)) > MaxPerTurn
      BY DEF Flooding, From
    <3> HIDE DEF last, n, flooding
    <3>3. last <= n
      <4> SUFFICES ASSUME n < last PROVE FALSE
        BY <3>1
      <4>1. PICK p \in flooding : TRUE
        BY <2>2
      <4>2. From(p, last + 1, n) = {}
        BY <3>1 DEF From
      <4>3. Cardinality(From(p, last + 1, n)) = 0 /\ Cardinality(From(p, last + 1, n)) > MaxPerTurn
        BY <3>2, <4>1, <4>2, FS_EmptySet
      <4> QED
        BY <1>1, <4>3
    <3> SUFFICES ASSUME NEW p \in Party
                 PROVE  strikes'[p] * (MaxPerTurn + 1) <= Cardinality(From(p, 1, n))
      <4>1. \A q : From(q, 1, struck)' = From(q, 1, n)
        BY <2>2, <3>0 DEF From, InOf, IsIn
      <4> QED
        BY <4>1 DEF Earned
    <3>4. /\ Cardinality(From(p, 1, struck)) \in Nat /\ Cardinality(From(p, struck + 1, last)) \in Nat
          /\ Cardinality(From(p, last + 1, n)) \in Nat
          /\ Cardinality(From(p, 1, n)) = Cardinality(From(p, 1, struck))
               + Cardinality(From(p, struck + 1, last)) + Cardinality(From(p, last + 1, n))
      <4>1. Cardinality(From(p, 1, last))
              = Cardinality(From(p, 1, struck)) + Cardinality(From(p, struck + 1, last))
            /\ Cardinality(From(p, 1, struck)) \in Nat /\ Cardinality(From(p, struck + 1, last)) \in Nat
        BY <3>1, FromIs
      <4>2. Cardinality(From(p, 1, n))
              = Cardinality(From(p, 1, last)) + Cardinality(From(p, last + 1, n))
            /\ Cardinality(From(p, last + 1, n)) \in Nat
        BY <3>1, <3>3, FromIs
      <4> QED
        BY <4>1, <4>2
    <3>5. strikes[p] * (MaxPerTurn + 1) <= Cardinality(From(p, 1, struck))
          /\ strikes[p] * (MaxPerTurn + 1) \in Nat
      BY <1>1 DEF Earned
    <3>6. CASE p \in flooding
      <4>1. strikes'[p] = strikes[p] + 1
        BY <2>2, <3>6
      <4>2. (strikes[p] + 1) * (MaxPerTurn + 1) = strikes[p] * (MaxPerTurn + 1) + (MaxPerTurn + 1)
        BY <1>1
      <4>3. MaxPerTurn + 1 <= Cardinality(From(p, last + 1, n))
        BY <1>1, <3>2, <3>4, <3>6
      <4> QED
        BY <1>1, <3>4, <3>5, <4>1, <4>2, <4>3
    <3>7. CASE p \notin flooding
      <4>1. strikes'[p] = strikes[p]
        BY <1>1, <2>2, <3>7
      <4> QED
        BY <3>4, <3>5, <4>1
    <3> QED
      BY <3>6, <3>7
  <2>3. CASE /\ strikes' = [p \in Party |-> strikes[p] + (IF p \in flooding THEN 1 ELSE 0)]
             /\ struck' = struck /\ flooding = {}
    <3>1. strikes' = strikes
      BY <1>1, <2>3
    <3> QED
      BY <1>2, <2>3, <3>1
  <2> HIDE DEF flooding
  <2> QED
    BY <1>3, <2>1, <2>2, <2>3 DEF TurnReads, flooding
<1> QED
  BY <1>2, <1>3, StrikesMove

LEMMA InitEarned == ASSUME MediationAssumption, Init PROVE Earned
<1>1. ASSUME NEW p \in Party PROVE From(p, 1, struck) = {}
  BY DEF Init, From
<1>2. \A p \in Party : strikes[p] = 0 /\ MaxPerTurn + 1 \in Nat
  BY DEF Init, MediationAssumption
<1> QED
  BY <1>1, <1>2, FS_EmptySet DEF Earned

LEMMA SpecEarned == ASSUME MediationAssumption PROVE Spec => []Earned
<1>1. Init => Earned
  BY InitEarned
<1>2. Typed /\ Earned /\ [Next]_vars => Earned'
  BY EarnedKept
<1> QED
  BY <1>1, <1>2, SpecTyped, PTL DEF Spec

\* Every flood strike of a party stands for messages over the limit that no
\* other strike stands for, although a turn that struck may be deferred or
\* skipped after and run again over the same messages (flooded).
THEOREM EveryStrikeIsEarned == Spec => []StrikesAreEarned
<1>1. MediationAssumption /\ Typed /\ Earned => StrikesAreEarned
  <2> SUFFICES ASSUME MediationAssumption, Typed, Earned, NEW p \in Party
               PROVE  strikes[p] * (MaxPerTurn + 1) <= Cardinality({i \in 1..Len(messages) : InOf(p, i)})
    BY DEF StrikesAreEarned
  <2>1. /\ struck \in 0..Len(messages) /\ Len(messages) \in Nat
        /\ strikes[p] * (MaxPerTurn + 1) \in Nat
    BY LengthIsNat DEF Typed, MediationTypeOK, MediationAssumption
  <2>2. Cardinality(From(p, 1, struck)) <= Cardinality(From(p, 1, Len(messages)))
        /\ Cardinality(From(p, 1, struck)) \in Nat /\ Cardinality(From(p, 1, Len(messages))) \in Nat
    <3>1. struck \in Nat /\ struck <= Len(messages)
      BY <2>1
    <3>2. /\ Cardinality(From(p, 1, struck)) \in Nat /\ Cardinality(From(p, struck + 1, Len(messages))) \in Nat
          /\ Cardinality(From(p, 1, Len(messages)))
               = Cardinality(From(p, 1, struck)) + Cardinality(From(p, struck + 1, Len(messages)))
      BY <2>1, <3>1, FromIs
    <3> QED
      BY <3>2
  <2>3. strikes[p] * (MaxPerTurn + 1) <= Cardinality(From(p, 1, Len(messages)))
    BY <2>1, <2>2 DEF Earned
  <2> QED
    BY <2>3 DEF From
<1> QED
  BY <1>1, MediationAssumption, SpecTyped, SpecEarned, PTL

-----------------------------------------------------------------------------
(* Templates a party gets once from a list of jobs.                        *)

Sends(job, K) == job.kind = "send" /\ job.template \in K

\* No party gets two of the templates K from these jobs.
OncePer(jobs, K) ==
  \A i, j \in 1..Len(jobs) :
    Sends(jobs[i], K) /\ Sends(jobs[j], K) /\ jobs[i].party = jobs[j].party => i = j

Without(K) == {job \in JobType : ~Sends(job, K)}

LEMMA TailIs ==
  ASSUME NEW S, NEW s \in Seq(S), s # << >>
  PROVE  /\ Tail(s) \in Seq(S) /\ Len(Tail(s)) = Len(s) - 1 /\ Len(s) \in Nat /\ Len(s) >= 1
         /\ Head(s) = s[1] /\ \A i \in 1..Len(Tail(s)) : Tail(s)[i] = s[i + 1]
BY HeadTailProperties

LEMMA OnceTail ==
  ASSUME NEW S, NEW jobs \in Seq(S), jobs # << >>, NEW K, OncePer(jobs, K)
  PROVE  /\ OncePer(Tail(jobs), K)
         /\ Sends(Head(jobs), K) => \A i \in 1..Len(Tail(jobs)) :
              Sends(Tail(jobs)[i], K) => Tail(jobs)[i].party # Head(jobs).party
<1> DEFINE rest == Tail(jobs)
<1>1. /\ rest \in Seq(S) /\ Len(rest) = Len(jobs) - 1 /\ Len(jobs) \in Nat /\ Len(jobs) >= 1
      /\ Head(jobs) = jobs[1] /\ \A i \in 1..Len(rest) : rest[i] = jobs[i + 1]
  BY TailIs
<1> HIDE DEF rest
<1>2. \A i \in 1..Len(rest) : i + 1 \in 1..Len(jobs) /\ i + 1 # 1
  BY <1>1
<1>3. 1 \in 1..Len(jobs)
  BY <1>1
<1>4. OncePer(rest, K)
  BY <1>1, <1>2 DEF OncePer
<1>5. Sends(Head(jobs), K) => \A i \in 1..Len(rest) :
        Sends(rest[i], K) => rest[i].party # Head(jobs).party
  BY <1>1, <1>2, <1>3 DEF OncePer
<1> QED
  BY <1>4, <1>5 DEF rest

LEMMA OnceNone ==
  ASSUME NEW K, NEW jobs \in Seq(Without(K))
  PROVE  OncePer(jobs, K)
<1>1. \A i \in 1..Len(jobs) : jobs[i] \in Without(K)
  OBVIOUS
<1> QED
  BY <1>1 DEF OncePer, Without

LEMMA OnceJoin ==
  ASSUME NEW S, NEW r \in Seq(S), NEW s \in Seq(S), NEW K, OncePer(r, K), OncePer(s, K),
         \A i \in 1..Len(r), j \in 1..Len(s) :
           Sends(r[i], K) /\ Sends(s[j], K) => r[i].party # s[j].party
  PROVE  OncePer(r \o s, K)
<1> DEFINE t == r \o s
<1>1. /\ t \in Seq(S) /\ Len(t) = Len(r) + Len(s) /\ Len(r) \in Nat /\ Len(s) \in Nat
      /\ \A i \in 1..(Len(r) + Len(s)) : t[i] = IF i <= Len(r) THEN r[i] ELSE s[i - Len(r)]
  BY ConcatProperties
<1> HIDE DEF t
<1> SUFFICES ASSUME NEW i \in 1..Len(t), NEW j \in 1..Len(t), Sends(t[i], K), Sends(t[j], K),
                    t[i].party = t[j].party
             PROVE  i = j
  BY DEF OncePer, t
<1>2. CASE i <= Len(r) /\ j <= Len(r)
  <2>1. i \in 1..Len(r) /\ j \in 1..Len(r) /\ t[i] = r[i] /\ t[j] = r[j]
    BY <1>1, <1>2
  <2> QED
    BY <2>1 DEF OncePer
<1>3. CASE i > Len(r) /\ j > Len(r)
  <2>1. i - Len(r) \in 1..Len(s) /\ j - Len(r) \in 1..Len(s)
        /\ t[i] = s[i - Len(r)] /\ t[j] = s[j - Len(r)]
    BY <1>1, <1>3
  <2>2. i - Len(r) = j - Len(r)
    BY <2>1 DEF OncePer
  <2> QED
    BY <1>1, <2>2
<1>4. CASE i <= Len(r) /\ j > Len(r)
  <2>1. i \in 1..Len(r) /\ j - Len(r) \in 1..Len(s) /\ t[i] = r[i] /\ t[j] = s[j - Len(r)]
    BY <1>1, <1>4
  <2> QED
    BY <2>1
<1>5. CASE i > Len(r) /\ j <= Len(r)
  <2>1. j \in 1..Len(r) /\ i - Len(r) \in 1..Len(s) /\ t[j] = r[j] /\ t[i] = s[i - Len(r)]
    BY <1>1, <1>5
  <2> QED
    BY <2>1
<1> QED
  BY <1>1, <1>2, <1>3, <1>4, <1>5

LEMMA SeqOfThose ==
  ASSUME NEW S, NEW T, NEW s \in Seq(S), \A i \in 1..Len(s) : s[i] \in T
  PROVE  s \in Seq(T)
OBVIOUS

-----------------------------------------------------------------------------
(* Reminders.                                                              *)

Reminder == {"reminder"}

IsReminder(m, p) == m.dir = "out" /\ m.party = p /\ m.template = "reminder"

\* A party has its reminder, or the timer is about to send it the only one.
Reminded ==
  /\ \A i \in 1..Len(messages) : messages[i].dir = "out" => messages[i].at \in Nat
  /\ task["turn"].jobs \in Seq(Without(Reminder))
  /\ OncePer(task["timer"].jobs, Reminder)
  /\ \A i, j \in 1..Len(messages), p \in Party :
       IsReminder(messages[i], p) /\ IsReminder(messages[j], p) => i = j
  /\ \A i \in 1..Len(messages), j \in 1..Len(task["timer"].jobs) :
       Sends(task["timer"].jobs[j], Reminder)
         => ~IsReminder(messages[i], task["timer"].jobs[j].party)

LEMMA OnlyIfOnce ==
  ASSUME NEW K, NEW needed, NEW job
  PROVE  /\ OncePer(OnlyIf(needed, job), K)
         /\ \A i \in 1..Len(OnlyIf(needed, job)) : OnlyIf(needed, job)[i] = job
BY DEF OnlyIf, OncePer

\* The timer reminds only those who had no reminder, each once.
LEMMA RemindsTheOthers ==
  ASSUME Typed, \A i \in 1..Len(messages) : messages[i].dir = "out" => messages[i].at \in Nat,
         NEW jobs, Reminding("timer", jobs)
  PROVE  /\ jobs \in Seq(JobType) /\ OncePer(jobs, Reminder)
         /\ \A i \in 1..Len(messages), j \in 1..Len(jobs) : ~IsReminder(messages[i], jobs[j].party)
<1> DEFINE P == Check(Clocks, Timeouts).parties
           of(p) == OnlyIf(p \in P, Send(p, "reminder", TRUE, NoTime))
           ids(p) == {i \in 1..Len(messages) : OutTo(p, i) /\ messages[i].template = "reminder"}
<1>1. ASSUME NEW p \in Party, p \in P PROVE ids(p) = {}
  <2>1. Check(Clocks, Timeouts).do = "remind"
    BY DEF Reminding
  <2>2. P = {q \in Party : Response(Clocks.party[q], Clocks.now, Timeouts.response) = "remind"}
    BY <2>1, CheckIs DEF HandoffFor
  <2>3. Response(PartyClock(p, Len(messages)), Clocks.now, Timeouts.response) = "remind"
    <3>1. Clocks.party[p] = PartyClock(p, Len(messages))
      BY DEF Clocks
    <3> HIDE DEF P
    <3> QED
      BY <1>1, <2>2, <3>1
  <2>4. PartyClock(p, Len(messages)).reminded_at = NoTime
    BY <2>3 DEF Response
  <2>5. PartyClock(p, Len(messages)).reminded_at
          = IF Last(ids(p)) = 0 THEN NoTime ELSE messages[Last(ids(p))].at
    BY DEF PartyClock
  <2>6. ids(p) \in SUBSET (1..Len(messages)) /\ \A i \in ids(p) : messages[i].dir = "out"
    BY StoredIs DEF OutTo
  <2> HIDE DEF ids
  <2>7. Last(ids(p)) # 0 => Last(ids(p)) \in ids(p)
    BY <2>6, LengthIsNat, LastIs
  <2>8. Last(ids(p)) = 0
    BY <2>4, <2>5, <2>6, <2>7 DEF NoTime
  <2> QED
    BY <2>6, <2>8, LengthIsNat, LastIs
<1>2. jobs = of("buyer") \o of("seller") /\ jobs = RemindJobs(P)
  BY DEF Reminding, RemindJobs
<1>3. \A j \in 1..Len(jobs) : jobs[j].party \in Party \cap P
  <2> DEFINE J == SendJobs(Party \cap P, Reminder, {NoTime})
  <2>1. jobs \in Seq(J)
    BY <1>2, RemindJobsAre DEF Reminder
  <2>2. \A job \in J : job.party \in Party \cap P
    BY DEF SendJobs
  <2> HIDE DEF J, P
  <2> QED
    BY <2>1, <2>2
<1>4. /\ of("buyer") \in Seq(JobType) /\ of("seller") \in Seq(JobType)
      /\ OncePer(of("buyer"), Reminder) /\ OncePer(of("seller"), Reminder)
      /\ \A i \in 1..Len(of("buyer")), j \in 1..Len(of("seller")) :
           of("buyer")[i].party # of("seller")[j].party
  <2>1. \A p \in Party : Send(p, "reminder", TRUE, NoTime) \in JobType
    <3>1. \A p \in Party : Send(p, "reminder", TRUE, NoTime)
                              \in SendJobs(Party, {"reminder"}, {NoTime})
      BY JobsAre
    <3>2. SendJobs(Party, {"reminder"}, {NoTime}) \subseteq JobType
      BY JobTypeHas, TemplatesAre, TimesAre
    <3> QED
      BY <3>1, <3>2
  <2>2. Send("buyer", "reminder", TRUE, NoTime).party # Send("seller", "reminder", TRUE, NoTime).party
    BY DEF Send
  <2> HIDE DEF P
  <2>3. of("buyer") \in Seq(JobType) /\ of("seller") \in Seq(JobType)
    BY <2>1, OnlyIfIs DEF Party
  <2>4. \A p : /\ OncePer(of(p), Reminder)
               /\ \A i \in 1..Len(of(p)) : of(p)[i] = Send(p, "reminder", TRUE, NoTime)
    BY OnlyIfOnce
  <2> HIDE DEF of
  <2> QED
    BY <2>2, <2>3, <2>4
<1>5. jobs \in Seq(JobType) /\ OncePer(jobs, Reminder)
  <2>1. PICK r, s : r = of("buyer") /\ s = of("seller")
    OBVIOUS
  <2> HIDE DEF of
  <2>2. /\ r \in Seq(JobType) /\ s \in Seq(JobType) /\ OncePer(r, Reminder) /\ OncePer(s, Reminder)
        /\ \A i \in 1..Len(r), j \in 1..Len(s) : r[i].party # s[j].party
    BY <1>4, <2>1
  <2>3. OncePer(r \o s, Reminder)
    BY <2>2, OnceJoin
  <2>4. r \o s \in Seq(JobType)
    BY <2>2, ListsOfJobs
  <2> QED
    BY <1>2, <2>1, <2>3, <2>4
<1>6. \A i \in 1..Len(messages), p \in Party : IsReminder(messages[i], p) => i \in ids(p)
  BY StoredIs DEF IsReminder, OutTo
<1> HIDE DEF ids, P
<1> QED
  BY <1>1, <1>3, <1>5, <1>6

\* Any other list has no reminder in it.
LEMMA RemindsNobody ==
  ASSUME MediationAssumption, Typed, NEW t \in Tasks, NEW jobs, NewJobs(t, jobs), ~Reminding(t, jobs)
  PROVE  jobs \in Seq(Without(Reminder))
<1> DEFINE S == Without(Reminder)
<1>1. Brief("guide") \in S /\ Brief("handoff") \in S
  BY JobsAre, JobTypeHas DEF Without, Sends, Brief, Subject
<1>2. ASSUME NEW T, T \subseteq Template, "reminder" \notin T
      PROVE  SendJobs(Party, T, Time) \subseteq S
  <2>1. SendJobs(Party, T, Time) \subseteq JobType
    BY <1>2, JobTypeHas
  <2> QED
    BY <1>2, <2>1 DEF SendJobs, Without, Sends, Reminder
<1>3. /\ SendJobs(Party, GuideTemplate \union {"hold_notice"}, Time) \subseteq S
      /\ SendJobs(Party, {"handoff_notice"}, Time) \subseteq S
  <2>1. /\ GuideTemplate \union {"hold_notice"} \subseteq Template /\ {"handoff_notice"} \subseteq Template
        /\ "reminder" \notin GuideTemplate \union {"hold_notice"} /\ "reminder" \notin {"handoff_notice"}
    BY TemplatesAre DEF Again, GuideTemplate
  <2> HIDE DEF S
  <2> QED
    BY <1>2, <2>1
<1>4. SendJobs(Party, Sendable, {NoTime}) \union RoundJobs \subseteq S
  <2>1. SendJobs(Party, Sendable, {NoTime}) \subseteq JobType /\ RoundJobs \subseteq JobType
    BY TemplatesAre, TimesAre, JobTypeHas
  <2>2. "reminder" \notin Sendable
    BY DEF Sendable, Question, Courtesy
  <2> QED
    BY <2>1, <2>2 DEF Without, Sends, SendJobs, RoundJobs, Reminder
<1> HIDE DEF S
<1>5. jobs \in Seq(S)
  BY <1>1, <1>3, <1>4, NewJobsIn
<1> QED
  BY <1>5 DEF S
\* What is stored is stored by a send or by a party.
LEMMA AddedIs ==
  ASSUME MediationAssumption, Typed, [Next]_vars
  PROVE  /\ Len(messages) \in Nat
         /\ \A i \in 1..Len(messages) : messages'[i] = messages[i] /\ i \in 1..Len(messages')
         /\ \/ Len(messages') = Len(messages) /\ messages' = messages
            \/ /\ Len(messages') = Len(messages) + 1
               /\ \/ \E t \in Tasks : SendEnds(t) /\ messages'[Len(messages) + 1] = Sent1(t)
                  \/ \E p \in Party, at \in Int :
                       messages'[Len(messages) + 1] = Written1(p, at) /\ UNCHANGED task
<1>1. messages \in Seq(Message) /\ clock \in Nat /\ \A skew \in Skews : clock + skew \in Int
  BY DEF Typed, MediationTypeOK, MediationAssumption
<1>2. CASE messages' = messages
  BY <1>1, <1>2
<1>3. ASSUME NEW m, messages' = Append(messages, m)
      PROVE  /\ Len(messages) \in Nat /\ Len(messages') = Len(messages) + 1
             /\ messages'[Len(messages) + 1] = m
             /\ \A i \in 1..Len(messages) : messages'[i] = messages[i] /\ i \in 1..Len(messages')
  BY <1>1, <1>3
<1>4. CASE \E t \in Tasks : SendEnds(t) /\ messages' = Append(messages, Sent1(t))
  BY <1>3, <1>4
<1>5. CASE \E p \in Party, skew \in Skews :
             PartyWrites(p, skew) /\ messages' = Append(messages, Written1(p, clock + skew))
  <2>1. PICK p \in Party, skew \in Skews :
             PartyWrites(p, skew) /\ messages' = Append(messages, Written1(p, clock + skew))
    BY <1>5
  <2>2. UNCHANGED task
    BY <2>1 DEF PartyWrites
  <2>3. clock + skew \in Int
    BY <1>1
  <2> QED
    BY <1>3, <2>1, <2>2, <2>3
<1> QED
  BY <1>2, <1>4, <1>5, MessagesMove

\* The job of a task that stores a message.
LEMMA SendEndsIs ==
  ASSUME MediationAssumption, Typed, NEW t \in Tasks, SendEnds(t)
  PROVE  /\ task[t].step = "sending" /\ task[t].jobs # << >> /\ Job(t) = task[t].jobs[1]
         /\ Job(t).kind = "send" /\ Job(t).party \in Party /\ Job(t).template \in Template
         /\ task[t].sendAt \in Nat
         /\ task'[t].jobs = Tail(task[t].jobs)
         /\ \A u \in Tasks : u # t => task'[u] = task[u]
<1>1. task[t].step = "sending" /\ task[t].step \in Busy /\ Job(t).kind = "send"
      /\ task[t].sendAt \in Nat
  BY DEF SendEnds, Busy, Typed, TasksFit, Fits, Job, TaskState
<1>2. /\ task[t].jobs \in Seq(JobType) /\ task[t].jobs # << >> /\ Job(t) \in JobType
  BY <1>1, JobsLeft DEF Typed
<1>3. Job(t) = task[t].jobs[1]
  BY <1>2, TailIs DEF Job
<1>4. Moves(t, Tail(task[t].jobs), task[t].then)
  BY ProceedsMoves
<1> QED
  BY <1>1, <1>2, <1>3, <1>4, JobFaces DEF Moves

LEMMA RemindedKept ==
  ASSUME MediationAssumption, Typed, Reminded, [Next]_vars
  PROVE  Reminded'
<1> DEFINE n == Len(messages)
           jobs == task["timer"].jobs
           jobs1 == task'["timer"].jobs
<1>1. Typed' /\ "turn" \in Tasks /\ "timer" \in Tasks /\ \A t \in Tasks : TaskMoves(t)
  BY NextTyped, TaskMovesSo DEF Tasks
<1>2. \A i \in 1..Len(messages') : messages'[i].dir = "out" => messages'[i].at \in Nat
  <2>1. \A t \in Tasks : SendEnds(t) => Sent1(t).at \in Nat
    BY SendEndsIs DEF Sent1
  <2>2. \A p, at : Written1(p, at).dir # "out"
    BY DEF Written1
  <2> QED
    BY <2>1, <2>2, AddedIs DEF Reminded
<1>3. task'["turn"].jobs \in Seq(Without(Reminder))
  <2>1. \A list : NewJobs("turn", list) => list \in Seq(Without(Reminder))
    BY <1>1, RemindsNobody DEF Reminding
  <2> QED
    BY <1>1, <2>1, JobsStay DEF Reminded
<1>4. \A i \in 1..n, p \in Party : IsReminder(messages'[i], p) <=> IsReminder(messages[i], p)
  BY AddedIs
<1>5. /\ jobs \in Seq(JobType) /\ OncePer(jobs, Reminder)
      /\ \A i, j \in 1..n, p \in Party : IsReminder(messages[i], p) /\ IsReminder(messages[j], p) => i = j
      /\ \A i \in 1..n, j \in 1..Len(jobs) : Sends(jobs[j], Reminder) => ~IsReminder(messages[i], jobs[j].party)
  BY <1>1 DEF Reminded, Typed, TasksFit, TaskState
<1>6. \A j \in 1..Len(jobs) : Sends(jobs[j], Reminder) => jobs[j].party \in Party
  <2>1. \A j \in 1..Len(jobs) : jobs[j] \in JobType
    BY <1>5
  <2> HIDE DEF jobs
  <2> QED
    BY <2>1, JobFaces DEF Sends
<1>7. CASE SendEnds("timer")
  <2>1. /\ jobs # << >> /\ jobs1 = Tail(jobs) /\ Job("timer") = jobs[1]
        /\ Job("timer") = Head(jobs) /\ Job("timer").party \in Party /\ Job("timer").kind = "send"
    BY <1>1, <1>7, SendEndsIs DEF Job
  <2>2. n \in Nat /\ Len(messages') = n + 1 /\ messages'[n + 1] = Sent1("timer")
    <3>1. messages' = Append(messages, Sent1("timer")) /\ messages \in Seq(Message)
      BY <1>7 DEF SendEnds, Sent1, Typed, MediationTypeOK
    <3> QED
      BY <3>1
  <2> DEFINE job == Job("timer")
  <2>3. \A p \in Party : IsReminder(messages'[n + 1], p) <=> Sends(job, Reminder) /\ job.party = p
    BY <2>1, <2>2 DEF IsReminder, Sent1, Sends, Reminder
  <2> HIDE DEF job
  <2>4. /\ OncePer(jobs1, Reminder)
        /\ Sends(job, Reminder) => \A j \in 1..Len(jobs1) :
             Sends(jobs1[j], Reminder) => jobs1[j].party # job.party
    BY <1>5, <2>1, OnceTail DEF job
  <2>5. Sends(job, Reminder) => \A i \in 1..n : ~IsReminder(messages[i], job.party)
    <3>1. 1 \in 1..Len(jobs)
      BY <1>5, <2>1, TailIs
    <3> QED
      BY <1>5, <2>1, <3>1 DEF job
  <2>6. \A j \in 1..Len(jobs1) : jobs1[j] = jobs[j + 1] /\ j + 1 \in 1..Len(jobs)
    BY <1>5, <2>1, TailIs
  <2> HIDE DEF jobs, jobs1, n
  <2>7. \A i \in 1..Len(messages') : i \in 1..n \/ i = n + 1
    BY <2>2
  <2>8. \A i, j \in 1..Len(messages'), p \in Party :
          IsReminder(messages'[i], p) /\ IsReminder(messages'[j], p) => i = j
    BY <1>4, <1>5, <2>3, <2>5, <2>7
  <2>9. \A i \in 1..Len(messages'), j \in 1..Len(jobs1) :
          Sends(jobs1[j], Reminder) => ~IsReminder(messages'[i], jobs1[j].party)
    BY <1>4, <1>5, <1>6, <2>3, <2>4, <2>6, <2>7
  <2> QED
    BY <1>2, <1>3, <2>4, <2>8, <2>9 DEF Reminded, jobs1
<1>8. CASE ~SendEnds("timer")
  <2>1. \A i \in 1..Len(messages'), p \in Party : IsReminder(messages'[i], p) => i \in 1..n
    <3>1. ASSUME SendEnds("turn") PROVE \A p : ~IsReminder(Sent1("turn"), p)
      <4>1. Job("turn") \in Without(Reminder)
        <5>1. task["turn"].jobs # << >> /\ task["turn"].jobs \in Seq(Without(Reminder))
          BY <1>1, <3>1, SendEndsIs DEF Reminded
        <5> QED
          BY <5>1, ListsOfJobs DEF Job
      <4>2. Job("turn").kind = "send"
        BY <1>1, <3>1, SendEndsIs
      <4> QED
        BY <4>1, <4>2 DEF IsReminder, Sent1, Without, Sends, Reminder
    <3>2. \A p, q, at : ~IsReminder(Written1(p, at), q)
      BY DEF IsReminder, Written1
    <3>3. \A t \in Tasks : t = "turn" \/ t = "timer"
      BY DEF Tasks
    <3> HIDE DEF n
    <3>4. \A i \in 1..Len(messages') : i \in 1..n \/ i = n + 1
      BY AddedIs DEF n
    <3> QED
      BY <1>8, <3>1, <3>2, <3>3, <3>4, AddedIs DEF n
  <2>2. \A i, j \in 1..Len(messages'), p \in Party :
          IsReminder(messages'[i], p) /\ IsReminder(messages'[j], p) => i = j
    BY <1>4, <1>5, <2>1
  <2>3. ASSUME OncePer(jobs1, Reminder),
               \A i \in 1..n, j \in 1..Len(jobs1) :
                 Sends(jobs1[j], Reminder) => ~IsReminder(messages[i], jobs1[j].party)
        PROVE  Reminded'
    <3>1. \A j \in 1..Len(jobs1) : Sends(jobs1[j], Reminder) => jobs1[j].party \in Party
      <4>1. jobs1 \in Seq(JobType)
        BY <1>1 DEF Typed, TasksFit, TaskState
      <4>2. \A j \in 1..Len(jobs1) : jobs1[j] \in JobType
        BY <4>1
      <4> HIDE DEF jobs1
      <4> QED
        BY <4>2, JobFaces DEF Sends
    <3> HIDE DEF n, jobs1
    <3>2. \A i \in 1..Len(messages'), j \in 1..Len(jobs1) :
            Sends(jobs1[j], Reminder) => ~IsReminder(messages'[i], jobs1[j].party)
      BY <1>4, <2>1, <2>3, <3>1
    <3> QED
      BY <1>2, <1>3, <2>2, <2>3, <3>2 DEF Reminded, jobs1
  <2>4. CASE jobs1 = jobs
    BY <1>5, <2>3, <2>4
  <2>5. CASE jobs1 \in Seq(Without(Reminder))
    <3>1. \A j \in 1..Len(jobs1) : ~Sends(jobs1[j], Reminder)
      BY <2>5 DEF Without
    <3> QED
      BY <2>3, <2>5, <3>1, OnceNone
  <2>6. CASE task["timer"].step \in Busy /\ jobs1 = Tail(jobs)
    <3>1. jobs # << >>
      BY <1>1, <2>6, JobsLeft DEF Typed
    <3>2. OncePer(jobs1, Reminder)
      BY <1>5, <2>6, <3>1, OnceTail
    <3>3. \A j \in 1..Len(jobs1) : jobs1[j] = jobs[j + 1] /\ j + 1 \in 1..Len(jobs)
      BY <1>5, <2>6, <3>1, TailIs
    <3> HIDE DEF jobs, jobs1, n
    <3>4. \A i \in 1..n, j \in 1..Len(jobs1) :
            Sends(jobs1[j], Reminder) => ~IsReminder(messages[i], jobs1[j].party)
      BY <1>5, <3>3
    <3> QED
      BY <2>3, <3>2, <3>4
  <2>7. CASE Reminding("timer", jobs1)
    BY <2>3, <2>7, RemindsTheOthers DEF Reminded
  <2>8. << >> \in Seq(Without(Reminder))
    BY ListsOfJobs
  <2>9. NewJobs("timer", jobs1) /\ ~Reminding("timer", jobs1) => jobs1 \in Seq(Without(Reminder))
    BY <1>1, RemindsNobody
  <2>10. \/ jobs1 \in {jobs, << >>}
         \/ task["timer"].step \in Busy /\ jobs1 = Tail(jobs)
         \/ NewJobs("timer", jobs1)
    BY <1>1, JobsMove
  <2> HIDE DEF jobs, jobs1
  <2> QED
    BY <2>4, <2>5, <2>6, <2>7, <2>8, <2>9, <2>10
<1> QED
  BY <1>7, <1>8

LEMMA InitReminded == ASSUME MediationAssumption, Init PROVE Reminded
<1>1. /\ Len(messages) = 2 /\ messages[1] = Opener("buyer") /\ messages[2] = Opener("seller")
      /\ \A t \in Tasks : task[t].jobs = << >>
  BY DEF Init, IdleTask
<1>2. \A p, q \in Party : Opener(p).at = 0 /\ ~IsReminder(Opener(p), q)
  BY DEF Opener, IsReminder, QuestionsOf, BuyerQuestions, SellerQuestions, Party
<1>3. \A i \in 1..Len(messages) : messages[i] \in {Opener("buyer"), Opener("seller")}
  BY <1>1
<1>4. /\ "turn" \in Tasks /\ "timer" \in Tasks /\ "buyer" \in Party /\ "seller" \in Party
      /\ << >> \in Seq(Without(Reminder))
  BY ListsOfJobs DEF Tasks, Party
<1>5. OncePer(<< >>, Reminder)
  BY DEF OncePer
<1>6. \A i \in 1..Len(messages) : messages[i].at = 0 /\ \A p \in Party : ~IsReminder(messages[i], p)
  BY <1>2, <1>3, <1>4
<1>7. task["turn"].jobs = << >> /\ task["timer"].jobs = << >>
  BY <1>1, <1>4
<1>8. \A i \in 1..Len(messages), j \in 1..Len(task["timer"].jobs) :
        Sends(task["timer"].jobs[j], Reminder) => ~IsReminder(messages[i], task["timer"].jobs[j].party)
  <2>1. Len(task["timer"].jobs) = 0
    BY <1>7
  <2> QED
    BY <2>1
<1> HIDE DEF Reminder
<1> QED
  BY <1>4, <1>5, <1>6, <1>7, <1>8 DEF Reminded

LEMMA SpecReminded == ASSUME MediationAssumption PROVE Spec => []Reminded
<1>1. Init => Reminded
  BY InitReminded
<1>2. Typed /\ Reminded /\ [Next]_vars => Reminded'
  BY RemindedKept
<1> QED
  BY <1>1, <1>2, SpecTyped, PTL DEF Spec

\* No party gets a second reminder in a session, however many of its questions
\* stay unanswered and whatever it writes in between: the timer decides by the
\* stored messages, and the reminder it has still to send is the only one
\* (clocks, response).
THEOREM RemindedAtMostOnce == Spec => []ReminderOnce
<1>1. Typed /\ Reminded => ReminderOnce
  <2> SUFFICES ASSUME Typed, Reminded, NEW p \in Party
               PROVE  Cardinality({i \in 1..Len(messages) :
                                     OutTo(p, i) /\ messages[i].template = "reminder"}) <= 1
    BY DEF ReminderOnce
  <2> DEFINE ids == {i \in 1..Len(messages) : OutTo(p, i) /\ messages[i].template = "reminder"}
  <2>1. \A i, j \in ids : i = j
    BY StoredIs DEF Reminded, OutTo, IsReminder
  <2> HIDE DEF ids
  <2>2. CASE ids = {}
    BY <2>2, FS_EmptySet DEF ids
  <2>3. CASE \E i : i \in ids
    <3>1. PICK i : ids = {i}
      BY <2>1, <2>3
    <3>2. Cardinality(ids) = 1
      BY <3>1, FS_Singleton, Zenon
    <3> QED
      BY <3>2 DEF ids
  <2> QED
    BY <2>2, <2>3
<1> QED
  BY <1>1, MediationAssumption, SpecTyped, SpecReminded, PTL

-----------------------------------------------------------------------------
(* Questions.                                                              *)

\* The judge's answer is taken: nothing arrived and the state is as it was read.
TakesAnswer(reading) ==
  LET n == task["turn"].read
      changed == {p \in Party : Spoken([reading EXCEPT !.wrote = Wrote(n)])[p] # language[p]}
  IN /\ JudgeAnswers(reading) /\ task["turn"].step = "judging"
     /\ ~NewerThan(n) /\ state = task["turn"].state /\ evaluated' = n
     /\ switched' = [p \in Party |->
                       switched[p] \union (IF p \in changed THEN {Len(messages)} ELSE {})]
     /\ Decided("turn", Decide(Answered(reading)), "idle")

\* How a step leaves the turn, by what the turn does.
TurnMove ==
  \/ task'["turn"] = task["turn"]
  \/ AtRestIs(task'["turn"])
  \/ \E jobs, then : then \in {"idle", task["turn"].then} /\ Moves("turn", jobs, then)
  \/ task["turn"].step = "reading" /\ Moves("turn", << >>, "judging")
  \/ \E step \in {"sending", "briefing"} : Starts("turn", step)
  \/ \E reason : Decided("turn", HandoffFor(reason), "idle")
  \/ \E reading \in Readings : TakesAnswer(reading)
  \/ TurnStarts /\ TurnBegins(task'["turn"])

LEMMA TurnMovesSo ==
  ASSUME MediationAssumption, Typed, [Next]_vars
  PROVE  TurnMove
<1> USE DEF TurnMove
<1>1. Tasks = {"turn", "timer"} /\ "turn" \in Tasks /\ "timer" \in Tasks
  BY DEF Tasks
<1>2. ASSUME NEW t \in Tasks,
             \/ SendStarts(t) \/ SendEnds(t) \/ SendFails(t) \/ CountRound(t)
             \/ BriefStarts(t) \/ BriefEnds(t)
      PROVE  TurnMove
  <2>1. \/ \E jobs : Moves(t, jobs, task[t].then)
        \/ \E step \in {"sending", "briefing"} : Starts(t, step)
    BY <1>2, ProceedsMoves
  <2>2. CASE t = "turn"
    BY <2>1, <2>2
  <2>3. CASE t # "turn"
    BY <1>1, <2>1, <2>3 DEF Moves, Starts
  <2> QED
    BY <2>2, <2>3
<1>3. ASSUME NEW t \in Tasks, Acts(t) PROVE TurnMove
  <2>1. \E jobs, then : then \in {"idle", task[t].then} /\ Moves(t, jobs, then)
    BY <1>3, ActsIs DEF HandsOffNow, GuidesNow, HoldsNow, AsksNow, PassesNow
  <2>2. CASE t = "turn"
    BY <2>1, <2>2
  <2>3. CASE t # "turn"
    BY <1>1, <2>1, <2>3 DEF Moves
  <2> QED
    BY <2>2, <2>3
<1>4. CASE TurnStarts
  BY <1>4, TurnStartsIs
<1>5. CASE TickStarts
  BY <1>5, TickStartsIs
<1>6. CASE TurnReads
  BY <1>6, TurnReadsTyped DEF TurnReads
<1>7. CASE JudgeFails
  BY <1>7, JudgeFailsTyped
<1>8. CASE UpdateEnds
  <2>1. Moves("turn", << >>, "idle")
    BY <1>8, UpdateEndsTyped
  <2> QED
    BY <2>1
<1>9. ASSUME NEW reading \in Readings, JudgeAnswers(reading) PROVE TurnMove
  <2>1. Moves("turn", << >>, "idle") \/ TakesAnswer(reading)
    BY <1>9, JudgeAnswersIs DEF TakesAnswer
  <2> HIDE DEF TakesAnswer
  <2> QED
    BY <2>1
<1>10. CASE TickChecks
  <2>1. TickChecksIs(Check(Clocks, Timeouts))
    BY <1>10, TickChecksTyped
  <2> QED
    BY <1>1, <2>1 DEF TickChecksIs, Moves, Decided
<1>11. CASE TickRetries
  BY <1>1, <1>11, TickRetriesTyped DEF Moves
<1>12. CASE Restart
  BY <1>1, <1>12, RestartTyped
<1>13. CASE \/ \E p \in Party, skew \in Skews : PartyWrites(p, skew)
            \/ \E end \in Ends : DisputeEnds(end)
            \/ Tick \/ JudgePassesChecks \/ RelayConnects
            \/ UNCHANGED vars
  BY <1>13 DEF PartyWrites, DisputeEnds, Tick, JudgePassesChecks, RelayConnects, vars
<1> HIDE DEF TurnMove
<1> QED
  BY <1>2, <1>3, <1>4, <1>5, <1>6, <1>7, <1>8, <1>9, <1>10, <1>11, <1>12, <1>13, StepsAre
IsTo(m, p, q) == m.dir = "out" /\ m.party = p /\ m.template = q

\* The party's language changed since each time it got the template.
Fresh(p, q) ==
  \A i \in 1..Len(messages) :
    IsTo(messages[i], p, q) => \E k \in i..Len(messages) : k \in switched[p]

Reading(k) == k.then # "idle" \/ k.step \in {"reading", "judging"}

\* No question was sent after what the turn read.
ReadAll(k) ==
  \A i \in (k.read + 1)..Len(messages), p \in Party, q \in Question : ~IsTo(messages[i], p, q)

FreshAct(act) ==
  act.do = "ask" =>
    \A p \in Party :
      /\ OneQuestion(act.templates[p])
      /\ \A i \in 1..Len(act.templates[p]), q \in Question :
           act.templates[p][i] = q => Fresh(p, q)

Asks1(job, p, q) == job.kind = "send" /\ job.party = p /\ job.template = q

\* Only the turn asks, only when it acts on an answer, and every question it
\* decided on or has still to send is new to its party.
Asked ==
  /\ \A i, j \in 1..Len(messages), p \in Party, q \in Question :
       i < j /\ IsTo(messages[i], p, q) /\ IsTo(messages[j], p, q)
         => \E k \in i..(j - 1) : k \in switched[p]
  /\ task["timer"].jobs \in Seq(Without(Question))
  /\ task["turn"].then # "idle" => task["turn"].jobs \in Seq(Without(Question))
  /\ Reading(task["turn"]) => ReadAll(task["turn"])
  /\ FreshAct(task["turn"].act)
  /\ OncePer(task["turn"].jobs, Question)
  /\ \A j \in 1..Len(task["turn"].jobs), p \in Party, q \in Question :
       Asks1(task["turn"].jobs[j], p, q) => Fresh(p, q)

\* The jobs of a turn that asks: each question once, and only those decided.
LEMMA AskJobsOnce ==
  ASSUME NEW act, \A p \in Party : OneQuestion(act.templates[p])
  PROVE  /\ AskJobs(act) \in Seq(JobType) /\ OncePer(AskJobs(act), Question)
         /\ \A j \in 1..Len(AskJobs(act)) :
              LET job == AskJobs(act)[j]
              IN Sends(job, Question) =>
                   /\ job.party \in Party
                   /\ \E i \in 1..Len(act.templates[job.party]) :
                        act.templates[job.party][i] = job.template
<1> DEFINE Those(p) == {job \in JobType : job.kind = "send" =>
                          job.party = p /\ \E i \in 1..Len(act.templates[p]) :
                                              act.templates[p][i] = job.template}
           last(p) == OnlyIf(p \in act.asks, Round(p))
           of(p) == Questions(p, act.templates[p]) \o last(p)
<1>1. ASSUME NEW p \in Party
      PROVE  of(p) \in Seq(Those(p)) /\ OncePer(of(p), Question)
  <2> DEFINE T == act.templates[p]
             first == Questions(p, T)
  <2>1. T \in Seq(Sendable) /\ Len(T) \in Nat
        /\ \A i, j \in 1..Len(T) : T[i] \in Question /\ T[j] \in Question => i = j
    BY DEF OneQuestion
  <2>2. Len(first) = Len(T) /\ \A i \in 1..Len(T) : first[i] = Send(p, T[i], TRUE, NoTime)
    <3> DEFINE job(i) == Send(p, T[i], TRUE, NoTime)
    <3>1. first = [i \in 1..Len(T) |-> job(i)]
      BY DEF Questions
    <3> HIDE DEF T, first, job
    <3>2. DOMAIN first = 1..Len(T) /\ \A i \in 1..Len(T) : first[i] = job(i)
      BY <3>1
    <3>3. first \in Seq({job(i) : i \in 1..Len(T)})
      BY <2>1, <3>1
    <3>4. Len(first) = Len(T)
      BY <2>1, <3>2, <3>3, LenProperties
    <3> QED
      BY <3>2, <3>4 DEF job
  <2>3. \A q \in Sendable : Send(p, q, TRUE, NoTime) \in JobType
    <3>1. \A q \in Sendable : Send(p, q, TRUE, NoTime) \in SendJobs(Party, Sendable, {NoTime})
      BY JobsAre
    <3>2. SendJobs(Party, Sendable, {NoTime}) \subseteq JobType
      BY JobTypeHas, TemplatesAre, TimesAre
    <3> QED
      BY <3>1, <3>2
  <2>4. \A i \in 1..Len(T) : first[i] \in Those(p)
    <3>1. \A i \in 1..Len(T) : T[i] \in Sendable
      BY <2>1
    <3> HIDE DEF first, T
    <3>2. ASSUME NEW i \in 1..Len(T) PROVE first[i] \in Those(p)
      <4>1. first[i] \in JobType /\ first[i].party = p /\ first[i].template = T[i]
        <5>1. first[i] = Send(p, T[i], TRUE, NoTime) /\ T[i] \in Sendable
          BY <2>2, <3>1
        <5>2. \A q : Send(p, q, TRUE, NoTime).party = p /\ Send(p, q, TRUE, NoTime).template = q
          BY DEF Send
        <5> QED
          BY <2>3, <5>1, <5>2
      <4> QED
        BY <4>1 DEF T
    <3> QED
      BY <3>2
  <2>5. first \in Seq(Those(p))
    <3> HIDE DEF Those, T
    <3>1. first = [i \in 1..Len(T) |-> first[i]]
      BY <2>2 DEF Questions
    <3> HIDE DEF first
    <3> QED
      BY <2>1, <2>2, <2>4, <3>1
  <2>6. OncePer(first, Question)
    <3>1. \A q : Send(p, q, TRUE, NoTime).template = q
      BY DEF Send
    <3> HIDE DEF first, T
    <3>2. \A i \in 1..Len(T) : first[i].template = T[i]
      BY <2>2, <3>1
    <3>3. \A i, j \in 1..Len(T) : Sends(first[i], Question) /\ Sends(first[j], Question) => i = j
      BY <2>1, <3>2 DEF Sends
    <3> QED
      BY <2>2, <3>3 DEF OncePer
  <2>7. /\ last(p) \in Seq(Those(p)) /\ OncePer(last(p), Question)
        /\ \A i \in 1..Len(last(p)) : ~Sends(last(p)[i], Question)
    <3>1. Round(p) \in JobType /\ Round(p).kind = "round"
      BY JobsAre, JobTypeHas DEF Round
    <3>2. Round(p) \in Those(p) /\ ~Sends(Round(p), Question)
      BY <3>1 DEF Sends
    <3> HIDE DEF Those
    <3> QED
      BY <3>2, OnlyIfIs, OnlyIfOnce
  <2> HIDE DEF Those, first, last
  <2>8. OncePer(first \o last(p), Question) /\ first \o last(p) \in Seq(Those(p))
    BY <2>5, <2>6, <2>7, OnceJoin, ListsOfJobs
  <2> QED
    BY <2>8 DEF first
<1>2. AskJobs(act) = of("buyer") \o of("seller") /\ "buyer" \in Party /\ "seller" \in Party
  BY DEF AskJobs, Party
<1>3. \A p : Those(p) \subseteq JobType /\ \A job \in Those(p) : job.kind = "send" => job.party = p
  OBVIOUS
<1>4. \A p : \A job \in Those(p) : Sends(job, Question) =>
        job.party = p /\ \E i \in 1..Len(act.templates[job.party]) :
                           act.templates[job.party][i] = job.template
  BY DEF Sends
<1> HIDE DEF Those, of
<1>5. /\ of("buyer") \in Seq(JobType) /\ of("seller") \in Seq(JobType)
      /\ of("buyer") \in Seq(Those("buyer") \union Those("seller"))
      /\ of("seller") \in Seq(Those("buyer") \union Those("seller"))
  BY <1>1, <1>2, <1>3, SeqOfMore
<1>6. \A i \in 1..Len(of("buyer")), j \in 1..Len(of("seller")) :
        Sends(of("buyer")[i], Question) /\ Sends(of("seller")[j], Question)
          => of("buyer")[i].party # of("seller")[j].party
  <2>1. \A i \in 1..Len(of("buyer")) : of("buyer")[i] \in Those("buyer")
    BY <1>1, <1>2
  <2>2. \A i \in 1..Len(of("seller")) : of("seller")[i] \in Those("seller")
    BY <1>1, <1>2
  <2> QED
    BY <1>4, <2>1, <2>2
<1>7. OncePer(AskJobs(act), Question) /\ AskJobs(act) \in Seq(JobType)
      /\ AskJobs(act) \in Seq(Those("buyer") \union Those("seller"))
  BY <1>1, <1>2, <1>5, <1>6, OnceJoin, ListsOfJobs
<1>8. \A j \in 1..Len(AskJobs(act)) :
        \/ AskJobs(act)[j] \in Those("buyer")
        \/ AskJobs(act)[j] \in Those("seller")
  BY <1>7
<1> QED
  BY <1>2, <1>4, <1>7, <1>8

\* Any other list has no question in it.
LEMMA AsksNobody ==
  ASSUME MediationAssumption, Typed, NEW t \in Tasks, NEW jobs, NewJobs(t, jobs), ~Asking(t, jobs)
  PROVE  jobs \in Seq(Without(Question))
<1> DEFINE S == Without(Question)
<1>1. Brief("guide") \in S /\ Brief("handoff") \in S
  BY JobsAre, JobTypeHas DEF Without, Sends, Brief, Subject
<1>2. ASSUME NEW T, T \subseteq Template, NEW A, A \subseteq Time, T \cap Question = {}
      PROVE  SendJobs(Party, T, A) \subseteq S
  <2>1. SendJobs(Party, T, A) \subseteq JobType
    BY <1>2, JobTypeHas
  <2> QED
    BY <1>2, <2>1 DEF SendJobs, Without, Sends
<1>3. /\ SendJobs(Party, GuideTemplate \union {"hold_notice"}, Time) \subseteq S
      /\ SendJobs(Party, {"handoff_notice"}, Time) \subseteq S
      /\ SendJobs(Party, {"reminder"}, {NoTime}) \subseteq S
  <2>1. /\ GuideTemplate \union {"hold_notice"} \subseteq Template /\ {"handoff_notice"} \subseteq Template
        /\ {"reminder"} \subseteq Template /\ {NoTime} \subseteq Time
        /\ (GuideTemplate \union {"hold_notice"}) \cap Question = {}
        /\ {"handoff_notice"} \cap Question = {} /\ {"reminder"} \cap Question = {}
    BY TemplatesAre, TimesAre DEF Again, GuideTemplate, Question
  <2> HIDE DEF S
  <2> QED
    BY <1>2, <2>1
<1> HIDE DEF S
<1>5. jobs \in Seq(S)
  BY <1>1, <1>3, NewJobsIn
<1> QED
  BY <1>5 DEF S
LEMMA SwitchedGrows ==
  ASSUME MediationAssumption, Typed, [Next]_vars, NEW p \in Party
  PROVE  switched[p] \subseteq switched'[p]
<1>1. ASSUME NEW t \in Tasks, Acts(t) PROVE UNCHANGED switched
  BY <1>1 DEF Acts
<1>2. ASSUME NEW reading \in Readings, JudgeAnswers(reading) PROVE switched[p] \subseteq switched'[p]
  BY <1>2, JudgeAnswersIs
<1>3. CASE UNCHANGED switched
  BY <1>3
<1> QED
  BY <1>1, <1>2, <1>3, StepsAre DEF TurnStarts, TurnReads, JudgeFails, UpdateEnds, TickStarts,
       TickChecks, TickRetries, SendStarts, SendEnds, SendFails, CountRound, BriefStarts,
       BriefEnds, PartyWrites, DisputeEnds, Tick, JudgePassesChecks, RelayConnects, Restart,
       vars, historyVars

LEMMA FreshStays ==
  ASSUME MediationAssumption, Typed, [Next]_vars, NEW p \in Party, NEW q, Fresh(p, q),
         \A i \in 1..Len(messages') : IsTo(messages'[i], p, q) => i \in 1..Len(messages)
  PROVE  Fresh(p, q)'
<1>1. /\ Len(messages) \in Nat /\ Len(messages') \in Nat /\ Len(messages) <= Len(messages')
      /\ \A i \in 1..Len(messages) : messages'[i] = messages[i]
  BY AddedIs
<1>2. switched[p] \subseteq switched'[p]
  BY SwitchedGrows
<1>3. ASSUME NEW i \in 1..Len(messages'), IsTo(messages'[i], p, q)
      PROVE  \E k \in i..Len(messages') : k \in switched'[p]
  <2>1. i \in 1..Len(messages) /\ IsTo(messages[i], p, q)
    BY <1>1, <1>3
  <2>2. PICK k \in i..Len(messages) : k \in switched[p]
    BY <2>1 DEF Fresh
  <2> QED
    BY <1>1, <1>2, <2>2
<1> QED
  BY <1>3 DEF Fresh, IsTo

\* A question that is stored comes from the turn's first job.
LEMMA NewQuestion ==
  ASSUME MediationAssumption, Typed, [Next]_vars, task["timer"].jobs \in Seq(Without(Question)),
         NEW i \in 1..Len(messages'), i \notin 1..Len(messages),
         NEW p \in Party, NEW q \in Question, IsTo(messages'[i], p, q)
  PROVE  /\ i = Len(messages) + 1 /\ SendEnds("turn")
         /\ Job("turn").party = p /\ Job("turn").template = q
         /\ Sends(Job("turn"), Question)
<1>1. i = Len(messages) + 1
  BY AddedIs
<1>2. PICK t \in Tasks : SendEnds(t) /\ messages'[i] = Sent1(t)
  <2>1. \A r, at : ~IsTo(Written1(r, at), p, q)
    BY DEF IsTo, Written1
  <2> QED
    BY <1>1, <2>1, AddedIs
<1>3. /\ Job(t).party = p /\ Job(t).template = q /\ Sends(Job(t), Question)
      /\ task[t].jobs # << >> /\ Job(t) = Head(task[t].jobs)
  BY <1>2, SendEndsIs DEF IsTo, Sent1, Sends, Job
<1>4. t # "timer"
  <2> SUFFICES ASSUME t = "timer" PROVE FALSE
    OBVIOUS
  <2>1. Job(t) \in Without(Question)
    BY <1>3, ListsOfJobs
  <2> QED
    BY <1>3, <2>1 DEF Without
<1> QED
  BY <1>1, <1>2, <1>3, <1>4 DEF Tasks

\* What the turn asks after an answer is new.
LEMMA DecidesFresh ==
  ASSUME MediationAssumption, Typed, Asked, [Next]_vars, NEW reading, TakesAnswer(reading),
         messages' = messages, NEW act, act = Decide(Answered(reading))
  PROVE  FreshAct(act)'
<1> DEFINE n == task["turn"].read
           facts == [reading EXCEPT !.wrote = Wrote(n)]
           changed == {p \in Party : Spoken(facts)[p] # language[p]}
           turn == Answered(reading)
           own(p) == turn.history[p]
<1>1. /\ \A i \in (n + 1)..Len(messages), p \in Party, q \in Question : ~IsTo(messages[i], p, q)
      /\ n \in 0..Len(messages) /\ Len(messages) \in Nat /\ Len(messages) >= 2
  <2>1. Reading(task["turn"])
    BY DEF TakesAnswer, Reading
  <2>2. n \in Nat /\ n <= Len(messages)
    BY DEF Typed, TasksFit, Fits, TaskState, Tasks
  <2>3. Len(messages) >= 2 /\ Len(messages) \in Nat
    BY LengthIsNat DEF Typed, Opened
  <2> QED
    BY <2>1, <2>2, <2>3 DEF Asked, ReadAll
<1>2. \A p \in Party : own(p).sent = Sent(p, n) /\ (own(p).language_changed <=> p \in changed)
  BY DEF Answered, TurnOf, History
<1>3. /\ \A p \in Party : switched[p] \subseteq switched'[p]
      /\ \A p \in changed : p \in Party /\ Len(messages) \in switched'[p]
  <2>1. switched' = [p \in Party |->
                       switched[p] \union (IF p \in changed THEN {Len(messages)} ELSE {})]
    BY DEF TakesAnswer
  <2> HIDE DEF facts
  <2> QED
    BY <2>1
<1>4. ASSUME act.do = "ask", NEW p \in Party
      PROVE  /\ OneQuestion(act.templates[p])
             /\ \A i \in 1..Len(act.templates[p]), q \in Question :
                  act.templates[p][i] = q => Fresh(p, q)'
  <2> DEFINE T == NextQuestions(turn.facts, turn.history)[p]
  <2>1. act.templates[p] = T
    <3>1. act \in Decisions(turn)
      BY DecisionIs
    <3>2. act = AskOf(turn)
      BY <1>4, <3>1, FacesOfDecisions DEF Decisions
    <3> QED
      BY <3>2, FacesOfDecisions
  <2>2. /\ OneQuestion(T)
        /\ ~Resends(p, turn.facts, own(p)) => NoneSent(T, own(p).sent)
    BY NextIsNew
  <2> HIDE DEF T, turn, facts, n, changed
  <2>3. ASSUME NEW q \in Question, NEW i \in 1..Len(T), q = T[i]
        PROVE  Fresh(p, q)'
    <3>1. SUFFICES ASSUME NEW m \in 1..Len(messages), IsTo(messages[m], p, q)
                   PROVE  \E k \in m..Len(messages) : k \in switched'[p]
      BY DEF Fresh, IsTo
    <3>2. CASE Resends(p, turn.facts, own(p))
      <4>1. p \in changed
        BY <1>2, <3>2 DEF Resends
      <4> QED
        BY <1>1, <1>3, <4>1
    <3>3. CASE ~Resends(p, turn.facts, own(p))
      <4>1. q \notin Sent(p, n)
        BY <1>2, <2>2, <2>3, <3>3 DEF NoneSent
      <4>2. m \notin (n + 1)..Len(messages)
        BY <1>1, <2>3, <3>1
      <4>3. m \in 1..n
        BY <1>1, <4>2
      <4>4. OutTo(p, m) /\ messages[m].template = q
        BY <3>1, StoredIs DEF IsTo, OutTo
      <4> QED
        BY <4>1, <4>3, <4>4 DEF Sent
    <3> QED
      BY <3>2, <3>3
  <2> QED
    BY <2>1, <2>2, <2>3
<1> QED
  BY <1>4 DEF FreshAct
\* How the turn comes to have read, and to have decided.
LEMMA ReadingMoves ==
  ASSUME MediationAssumption, Typed, [Next]_vars
  PROVE  /\ Reading(task'["turn"]) =>
              \/ Reading(task["turn"]) /\ task'["turn"].read = task["turn"].read
              \/ messages' = messages /\ task'["turn"].read = Len(messages)
         /\ task'["turn"].then # "idle" =>
              \/ task["turn"].then # "idle"
              \/ task'["turn"].jobs \in {<< >>, GuideJobs(guided.path)}
         /\ \/ task'["turn"].act.do # "ask"
            \/ task'["turn"].act = task["turn"].act
            \/ \E reading \in Readings :
                 /\ TakesAnswer(reading) /\ messages' = messages
                 /\ task'["turn"].act = Decide(Answered(reading))
<1> DEFINE k == task["turn"]
           k1 == task'["turn"]
           Goal == /\ Reading(k1) => \/ Reading(k) /\ k1.read = k.read
                                     \/ messages' = messages /\ k1.read = Len(messages)
                   /\ k1.then # "idle" => k.then # "idle" \/ k1.jobs \in {<< >>, GuideJobs(guided.path)}
                   /\ \/ k1.act.do # "ask"
                      \/ k1.act = k.act
                      \/ \E reading \in Readings :
                           /\ TakesAnswer(reading) /\ messages' = messages
                           /\ k1.act = Decide(Answered(reading))
<1>1. CASE AtRestIs(k1)
  BY <1>1 DEF AtRestIs, Reading, NoAct
<1>2. ASSUME NEW jobs, NEW then, then \in {"idle", k.then}, Moves("turn", jobs, then) PROVE Goal
  <2>1. /\ k1.step = (IF jobs = << >> THEN then ELSE "working") /\ k1.then = then /\ k1.act = NoAct
        /\ AtRestIs(k1) \/ k1.read = k.read
    BY <1>2 DEF Moves
  <2> QED
    BY <1>1, <1>2, <2>1 DEF Reading, NoAct
<1>3. CASE k.step = "reading" /\ Moves("turn", << >>, "judging")
  <2>1. /\ k1.then = "judging" /\ k1.act = NoAct /\ k1.jobs = << >>
        /\ AtRestIs(k1) \/ k1.read = k.read
    BY <1>3 DEF Moves
  <2> QED
    BY <1>1, <1>3, <2>1 DEF Reading, NoAct
<1>4. CASE \E step \in {"sending", "briefing"} : Starts("turn", step)
  BY <1>4 DEF Starts, Reading
<1>5. ASSUME NEW act, Decided("turn", act, "idle")
      PROVE  AtRestIs(k1) \/ (k1.step = "acting" /\ k1.act = act /\ k1.then = "idle")
  BY <1>5 DEF Decided
<1>6. ASSUME NEW reason, Decided("turn", HandoffFor(reason), "idle") PROVE Goal
  <2>1. HandoffFor(reason).do = "handoff"
    BY DEF HandoffFor
  <2> QED
    BY <1>1, <1>5, <1>6, <2>1 DEF Reading
<1>7. ASSUME NEW reading \in Readings, TakesAnswer(reading) PROVE Goal
  <2>1. messages' = messages /\ Decided("turn", Decide(Answered(reading)), "idle")
    BY <1>7 DEF TakesAnswer, JudgeAnswers
  <2>2. AtRestIs(k1) \/ (k1.step = "acting" /\ k1.act = Decide(Answered(reading)) /\ k1.then = "idle")
    <3> DEFINE act == Decide(Answered(reading))
    <3>1. Decided("turn", act, "idle")
      BY <2>1
    <3> HIDE DEF act
    <3>2. AtRestIs(k1) \/ (k1.step = "acting" /\ k1.act = act /\ k1.then = "idle")
      BY <1>5, <3>1
    <3> QED
      BY <3>2 DEF act
  <2> QED
    BY <1>1, <1>7, <2>1, <2>2 DEF Reading
<1>8. CASE TurnStarts /\ TurnBegins(k1)
  <2>1. AtRestIs(IdleTask)
    <3>1. 0 \in Nat /\ "active" \in Live
      BY DEF Live, Mediating
    <3> QED
      BY <3>1, IdleIs
  <2>2. k1 = IdleTask \/ (k1.read = Len(messages) /\ k1.act = NoAct
                           /\ k1.jobs \in {<< >>, GuideJobs(guided.path)})
    BY <1>8 DEF TurnBegins
  <2>3. messages' = messages
    BY <1>8 DEF TurnStarts
  <2> QED
    BY <1>1, <2>1, <2>2, <2>3 DEF NoAct
<1>9. CASE k1 = k
  BY <1>9
<1> QED
  BY <1>1, <1>2, <1>3, <1>4, <1>6, <1>7, <1>8, <1>9, TurnMovesSo DEF TurnMove

LEMMA AskedKept ==
  ASSUME MediationAssumption, Typed, Asked, [Next]_vars
  PROVE  Asked'
<1> DEFINE n == Len(messages)
           k == task["turn"]
           k1 == task'["turn"]
           jobs == k.jobs
           jobs1 == k1.jobs
<1>1. /\ Typed' /\ "turn" \in Tasks /\ "timer" \in Tasks /\ \A t \in Tasks : TaskMoves(t)
      /\ task["timer"].jobs \in Seq(Without(Question))
  BY NextTyped, TaskMovesSo DEF Tasks, Asked
<1>2. /\ n \in Nat /\ n <= Len(messages') /\ Len(messages') \in Nat
      /\ \A i \in 1..n : messages'[i] = messages[i]
  BY AddedIs
<1>3. /\ jobs \in Seq(JobType) /\ jobs1 \in Seq(JobType)
      /\ OncePer(jobs, Question)
      /\ \A j \in 1..Len(jobs), p \in Party, q \in Question : Asks1(jobs[j], p, q) => Fresh(p, q)
  BY <1>1 DEF Asked, Typed, TasksFit, TaskState
<1>4. \A j \in 1..Len(jobs1) : Sends(jobs1[j], Question)
        => jobs1[j].party \in Party /\ jobs1[j].template \in Question
  <2>1. \A j \in 1..Len(jobs1) : jobs1[j] \in JobType
    BY <1>3
  <2> HIDE DEF jobs1
  <2> QED
    BY <2>1, JobFaces DEF Sends
<1>5. SendEnds("turn") =>
        /\ k.step = "sending" /\ jobs # << >> /\ Job("turn") = jobs[1] /\ Job("turn") = Head(jobs)
        /\ jobs1 = Tail(jobs)
  BY <1>1, SendEndsIs DEF Job
<1>6. \A i, j \in 1..Len(messages'), p \in Party, q \in Question :
        i < j /\ IsTo(messages'[i], p, q) /\ IsTo(messages'[j], p, q)
          => \E m \in i..(j - 1) : m \in switched'[p]
  <2> SUFFICES ASSUME NEW i \in 1..Len(messages'), NEW j \in 1..Len(messages'),
                      NEW p \in Party, NEW q \in Question, i < j,
                      IsTo(messages'[i], p, q), IsTo(messages'[j], p, q)
               PROVE  \E m \in i..(j - 1) : m \in switched'[p]
    OBVIOUS
  <2>1. switched[p] \subseteq switched'[p]
    BY SwitchedGrows
  <2>2. CASE j \in 1..n
    <3>1. i \in 1..n /\ IsTo(messages[i], p, q) /\ IsTo(messages[j], p, q)
      BY <1>2, <2>2
    <3> QED
      BY <2>1, <2>2, <3>1 DEF Asked
  <2>3. CASE j \notin 1..n
    <3>1. /\ j = n + 1 /\ SendEnds("turn") /\ Job("turn").party = p /\ Job("turn").template = q
          /\ Sends(Job("turn"), Question) /\ Asks1(Job("turn"), p, q)
      BY <1>1, <2>3, NewQuestion DEF Asks1, Sends
    <3>2. 1 \in 1..Len(jobs)
      BY <1>3, <1>5, <3>1, TailIs
    <3>3. Fresh(p, q)
      BY <1>3, <1>5, <3>1, <3>2
    <3>4. i \in 1..n /\ IsTo(messages[i], p, q)
      BY <1>2, <3>1
    <3> QED
      BY <1>2, <2>1, <3>1, <3>3, <3>4 DEF Fresh
  <2> QED
    BY <2>2, <2>3
<1>7. task'["timer"].jobs \in Seq(Without(Question))
  <2>1. \A list : NewJobs("timer", list) => list \in Seq(Without(Question))
    BY <1>1, AsksNobody DEF Asking
  <2> QED
    BY <1>1, <2>1, JobsStay
<1>8. \/ jobs1 \in {jobs, << >>}
      \/ jobs # << >> /\ jobs1 = Tail(jobs)
      \/ Asking("turn", jobs1)
      \/ jobs1 \in Seq(Without(Question))
  <2>1. k.step \in Busy => jobs # << >>
    BY <1>1, JobsLeft DEF Typed
  <2>2. \/ jobs1 \in {jobs, << >>}
        \/ k.step \in Busy /\ jobs1 = Tail(jobs)
        \/ NewJobs("turn", jobs1)
    BY <1>1, JobsMove
  <2>3. NewJobs("turn", jobs1) /\ ~Asking("turn", jobs1) => jobs1 \in Seq(Without(Question))
    BY <1>1, AsksNobody
  <2> HIDE DEF jobs, jobs1
  <2> QED
    BY <2>1, <2>2, <2>3
<1>9. Asking("turn", jobs1) =>
        /\ k1.then = "idle" /\ messages' = messages
        /\ k.act.do = "ask" /\ jobs1 = AskJobs(k.act)
  BY DEF Asking, AsksNow, Moves, Acts
<1>10. k1.then # "idle" => jobs1 \in Seq(Without(Question))
  <2> SUFFICES ASSUME k1.then # "idle" PROVE jobs1 \in Seq(Without(Question))
    OBVIOUS
  <2>1. k.then # "idle" \/ jobs1 \in {<< >>, GuideJobs(guided.path)}
    BY ReadingMoves
  <2>2. << >> \in Seq(Without(Question))
    BY ListsOfJobs
  <2>3. GuideJobs(guided.path) \in Seq(Without(Question))
    <3> DEFINE J == SendJobs(Party, GuideTemplate, {0})
    <3>1. GuideJobs(guided.path) \in Seq(J)
      BY GuideJobsAre
    <3>2. J \subseteq JobType
      BY JobTypeHas, TemplatesAre, TimesAre
    <3>3. J \subseteq Without(Question)
      BY <3>2, TemplatesAre DEF Without, Sends, SendJobs
    <3> HIDE DEF J
    <3> QED
      BY <3>1, <3>3, SeqOfMore
  <2>4. CASE k.then # "idle"
    <3>1. jobs \in Seq(Without(Question))
      BY <2>4 DEF Asked
    <3>2. jobs # << >> => Tail(jobs) \in Seq(Without(Question))
      BY <3>1, ListsOfJobs
    <3> HIDE DEF jobs, jobs1
    <3> QED
      BY <1>8, <1>9, <2>2, <3>1, <3>2
  <2> QED
    BY <2>1, <2>2, <2>3, <2>4
<1>11. (Reading(task["turn"]) => ReadAll(task["turn"]))'
  <2> SUFFICES ASSUME Reading(k1), NEW i \in (k1.read + 1)..Len(messages'), NEW p \in Party,
                      NEW q \in Question, IsTo(messages'[i], p, q)
               PROVE  FALSE
    BY DEF ReadAll, Reading, IsTo
  <2>1. k.read \in Nat /\ k1.read \in Nat
    BY <1>1 DEF Typed, TasksFit, TaskState
  <2>2. CASE messages' = messages /\ k1.read = n
    BY <1>2, <2>2
  <2>3. CASE Reading(k) /\ k1.read = k.read
    <3>1. CASE i \in 1..n
      BY <1>2, <2>1, <2>3, <3>1 DEF Asked, ReadAll
    <3>2. CASE i \notin 1..n
      <4>1. i \in 1..Len(messages')
        BY <1>2, <2>1
      <4>2. SendEnds("turn") /\ Sends(Job("turn"), Question)
        BY <1>1, <3>2, <4>1, NewQuestion
      <4>3. k.then # "idle"
        BY <1>5, <2>3, <4>2 DEF Reading
      <4>4. jobs \in Seq(Without(Question))
        BY <4>3 DEF Asked
      <4>5. Job("turn") \in Without(Question)
        BY <1>5, <4>2, <4>4, ListsOfJobs
      <4> QED
        BY <4>2, <4>5 DEF Without
    <3> QED
      BY <3>1, <3>2
  <2> QED
    BY <2>2, <2>3, ReadingMoves
\* No question is stored unless the turn's first job is it.
<1>12. ASSUME NEW p \in Party, NEW q \in Question, Fresh(p, q),
              ~(SendEnds("turn") /\ Sends(Job("turn"), Question) /\ Job("turn").party = p)
       PROVE  Fresh(p, q)'
  <2>1. \A i \in 1..Len(messages') : IsTo(messages'[i], p, q) => i \in 1..n
    BY <1>1, <1>12, NewQuestion
  <2> QED
    BY <1>12, <2>1, FreshStays
<1>13. FreshAct(task["turn"].act)'
  <2>1. ASSUME NEW act, act = k1.act PROVE FreshAct(act)'
    <3>1. CASE act.do # "ask"
      BY <3>1 DEF FreshAct
    <3>2. CASE act.do = "ask" /\ act = k.act
      <4>1. ~SendEnds("turn")
        <5>1. SendEnds("turn") => Moves("turn", Tail(jobs), k.then)
          BY <1>1, ProceedsMoves
        <5> QED
          BY <2>1, <3>2, <5>1 DEF Moves, NoAct
      <4>2. FreshAct(act)
        BY <3>2 DEF Asked
      <4>3. ASSUME NEW p \in Party
            PROVE  /\ OneQuestion(act.templates[p])
                   /\ \A i \in 1..Len(act.templates[p]), q \in Question :
                        act.templates[p][i] = q => Fresh(p, q)
        BY <3>2, <4>2 DEF FreshAct
      <4>4. \A p \in Party, q \in Question : Fresh(p, q) => Fresh(p, q)'
        BY <1>12, <4>1
      <4> QED
        BY <4>3, <4>4 DEF FreshAct
    <3>3. CASE \E reading \in Readings :
                 TakesAnswer(reading) /\ messages' = messages /\ act = Decide(Answered(reading))
      BY <3>3, DecidesFresh
    <3> QED
      BY <2>1, <3>1, <3>2, <3>3, ReadingMoves
  <2> QED
    BY <2>1 DEF FreshAct
<1>14. CASE Asking("turn", jobs1)
  <2> DEFINE act == k.act
  <2>1. /\ act.do = "ask" /\ jobs1 = AskJobs(act) /\ FreshAct(act) /\ messages' = messages
    BY <1>9, <1>14 DEF Asked
  <2>2. /\ \A p \in Party : OneQuestion(act.templates[p])
        /\ \A p \in Party : \A i \in 1..Len(act.templates[p]), q \in Question :
             act.templates[p][i] = q => Fresh(p, q)
    BY <2>1 DEF FreshAct
  <2>3. /\ OncePer(jobs1, Question)
        /\ \A j \in 1..Len(jobs1) : Sends(jobs1[j], Question) =>
             /\ jobs1[j].party \in Party
             /\ \E i \in 1..Len(act.templates[jobs1[j].party]) :
                  act.templates[jobs1[j].party][i] = jobs1[j].template
    <3> HIDE DEF act, jobs1
    <3> QED
      BY <2>1, <2>2, AskJobsOnce
  <2>4. \A p \in Party, q \in Question : Fresh(p, q) => Fresh(p, q)'
    <3>1. ~SendEnds("turn")
      BY <1>5, <1>14 DEF Asking, Acts
    <3> QED
      BY <1>12, <3>1
  <2>5. \A j \in 1..Len(jobs1), p \in Party, q \in Question :
          Asks1(jobs1[j], p, q) => Fresh(p, q)'
    BY <2>2, <2>3, <2>4 DEF Asks1, Sends
  <2> QED
    BY <1>6, <1>7, <1>10, <1>11, <1>13, <2>3, <2>5 DEF Asked
<1>15. CASE jobs1 \in Seq(Without(Question))
  <2>1. \A j \in 1..Len(jobs1), p \in Party, q \in Question : ~Asks1(jobs1[j], p, q)
    BY <1>15 DEF Without, Asks1, Sends
  <2>2. OncePer(jobs1, Question)
    BY <1>15, OnceNone
  <2> QED
    BY <1>6, <1>7, <1>10, <1>11, <1>13, <2>1, <2>2 DEF Asked
<1>16. CASE jobs1 = jobs \/ (jobs # << >> /\ jobs1 = Tail(jobs))
  <2>1. jobs # << >> =>
          /\ OncePer(Tail(jobs), Question)
          /\ Sends(Head(jobs), Question) => \A j \in 1..Len(Tail(jobs)) :
               Sends(Tail(jobs)[j], Question) => Tail(jobs)[j].party # Head(jobs).party
    BY <1>3, OnceTail
  <2>2. jobs # << >> => \A j \in 1..Len(Tail(jobs)) : Tail(jobs)[j] = jobs[j + 1] /\ j + 1 \in 1..Len(jobs)
    BY <1>3, TailIs
  <2> HIDE DEF jobs, jobs1
  <2>3. OncePer(jobs1, Question)
    BY <1>3, <1>16, <2>1
  <2>4. \A j \in 1..Len(jobs1), p \in Party, q \in Question : Asks1(jobs1[j], p, q) => Fresh(p, q)
    BY <1>3, <1>16, <2>2
  <2>5. \A j \in 1..Len(jobs1) : Sends(jobs1[j], Question)
          => ~(SendEnds("turn") /\ Sends(Job("turn"), Question) /\ Job("turn").party = jobs1[j].party)
    BY <1>5, <1>16, <2>1
  <2>6. \A j \in 1..Len(jobs1), p \in Party, q \in Question :
          Asks1(jobs1[j], p, q) => Fresh(p, q)'
    BY <1>12, <2>4, <2>5 DEF Asks1, Sends
  <2> QED
    BY <1>6, <1>7, <1>10, <1>11, <1>13, <2>3, <2>6 DEF Asked, jobs1
<1>17. << >> \in Seq(Without(Question))
  BY ListsOfJobs
<1> HIDE DEF jobs, jobs1
<1> QED
  BY <1>8, <1>14, <1>15, <1>16, <1>17

LEMMA InitAsked == ASSUME MediationAssumption, Init PROVE Asked
<1>1. /\ Len(messages) = 2 /\ messages[1] = Opener("buyer") /\ messages[2] = Opener("seller")
      /\ \A t \in Tasks : /\ task[t].jobs = << >> /\ task[t].then = "idle"
                          /\ task[t].step = "idle" /\ task[t].act = NoAct
  BY DEF Init, IdleTask
<1>2. Opener("buyer").party = "buyer" /\ Opener("seller").party = "seller"
  BY DEF Opener
<1>3. "turn" \in Tasks /\ "timer" \in Tasks /\ << >> \in Seq(Without(Question))
  BY ListsOfJobs DEF Tasks
<1>4. OncePer(<< >>, Question) /\ Len(<< >>) = 0
  BY DEF OncePer
<1>5. \A i, j \in 1..Len(messages), p \in Party, q \in Question :
        ~(i < j /\ IsTo(messages[i], p, q) /\ IsTo(messages[j], p, q))
  BY <1>1, <1>2 DEF IsTo
<1>6. ~Reading(task["turn"]) /\ FreshAct(task["turn"].act)
  BY <1>1, <1>3 DEF Reading, FreshAct, NoAct
<1>7. /\ task["turn"].jobs = << >> /\ task["timer"].jobs = << >> /\ task["turn"].then = "idle"
  BY <1>1, <1>3
<1> QED
  BY <1>3, <1>4, <1>5, <1>6, <1>7 DEF Asked

LEMMA SpecAsked == ASSUME MediationAssumption PROVE Spec => []Asked
<1>1. Init => Asked
  BY InitAsked
<1>2. Typed /\ Asked /\ [Next]_vars => Asked'
  BY AskedKept
<1> QED
  BY <1>1, <1>2, SpecTyped, PTL DEF Spec

\* No party gets a question twice unless its language changed after the first
\* time, through every interleaving of the turn, the timer, late messages,
\* failed sends and restarts: the turn decides on all the questions sent before
\* it read, and none is sent while it reads (policy::decide, response).
THEOREM NeverAskedAgain == Spec => []AskedOnce
<1>1. Typed /\ Asked => AskedOnce
  <2> SUFFICES ASSUME Typed, Asked, NEW i \in 1..Len(messages), NEW j \in 1..Len(messages),
                      i < j, ~IsIn(i), ~IsIn(j),
                      messages[i].party = messages[j].party,
                      messages[i].template = messages[j].template,
                      IsQuestion(messages[i].template)
               PROVE  \E n \in i..(j - 1) : n \in switched[messages[i].party]
    BY DEF AskedOnce
  <2> DEFINE p == messages[i].party
             q == messages[i].template
  <2>1. p \in Party /\ q \in Question
    BY StoredIs, QuestionsAre DEF Message
  <2>2. IsTo(messages[i], p, q) /\ IsTo(messages[j], p, q)
    BY StoredIs DEF IsTo
  <2> QED
    BY <2>1, <2>2 DEF Asked
<1> QED
  BY <1>1, MediationAssumption, SpecTyped, SpecAsked, PTL

-----------------------------------------------------------------------------
(* Silence.                                                                *)

\* Only an answer the turn takes moves the newest judged turn.
LEMMA EvaluatedMoves ==
  ASSUME MediationAssumption, Typed, [Next]_vars, evaluated' # evaluated
  PROVE  \E reading \in Readings : TakesAnswer(reading) /\ messages' = messages
<1>1. ASSUME NEW t \in Tasks, Acts(t) PROVE FALSE
  BY <1>1 DEF Acts, rowVars
<1>2. ASSUME NEW reading \in Readings, JudgeAnswers(reading)
      PROVE  TakesAnswer(reading) /\ messages' = messages
  BY <1>2, JudgeAnswersIs DEF TakesAnswer
<1> QED
  BY <1>1, <1>2, StepsAre DEF TurnStarts, TurnReads, JudgeFails, UpdateEnds, TickStarts,
       TickChecks, TickRetries, SendStarts, SendEnds, SendFails, CountRound, BriefStarts,
       BriefEnds, PartyWrites, DisputeEnds, Tick, JudgePassesChecks, RelayConnects, Restart,
       vars, rowVars

\* What the turn leaves silent, the policy left silent.
LEMMA SettledIsSilent ==
  ASSUME NEW act, act.do # "nothing", Decided("turn", act, "idle"),
         AsksNothing(task'["turn"].act)
  PROVE  Silent(act) /\ (act.do = "ask" => task'["turn"].act = act)
<1>1. CASE act.do = "wait"
  BY <1>1 DEF Silent
<1>2. CASE act.do # "wait"
  <2>1. task'["turn"].act = act
    BY <1>2 DEF Decided
  <2> QED
    BY <2>1, <1>2 DEF AsksNothing, Silent
<1> QED
  BY <1>1, <1>2
\* What nothing after the read message changes.
LEMMA ReadHolds ==
  ASSUME Typed, NEW n \in 0..Len(messages), ~NewerThan(n),
         \A i \in (n + 1)..Len(messages), p \in Party, q \in Question : ~IsTo(messages[i], p, q)
  PROVE  /\ \A i \in (n + 1)..Len(messages) : ~IsIn(i) /\ ~IsQuestion(messages[i].template)
         /\ Holds(n) => Holds(Len(messages))
         /\ \A p \in Party :
              /\ QuestionsTo(p, n) = QuestionsTo(p, Len(messages))
              /\ Outstanding(p, n) => Outstanding(p, Len(messages))
<1> DEFINE m == Len(messages)
<1>1. n \in Nat /\ m \in Nat /\ n <= m
  BY LengthIsNat
<1>2. ASSUME NEW i \in (n + 1)..m PROVE ~IsIn(i) /\ ~IsQuestion(messages[i].template)
  <2>1. ~IsIn(i)
    BY DEF NewerThan
  <2>2. i \in 1..m
    BY <1>1
  <2>3. messages[i] \in Message /\ messages[i].dir = "out"
    BY <2>1, <2>2, StoredIs
  <2>4. messages[i].party \in Party
    BY <2>3 DEF Message
  <2> QED
    BY <2>1, <2>3, <2>4, QuestionsAre DEF IsTo
<1>3. Holds(n) => Holds(m)
  <2> SUFFICES ASSUME Holds(n), NEW i \in (held.cutoff + 1)..m, ~IsIn(i)
               PROVE  ~IsQuestion(messages[i].template)
    BY DEF Holds
  <2>1. held.cutoff \in Nat
    BY DEF Typed, MediationTypeOK
  <2>2. CASE i <= n
    BY <1>1, <2>1, <2>2 DEF Holds
  <2>3. CASE ~(i <= n)
    BY <1>1, <1>2, <2>1, <2>3
  <2> QED
    BY <2>2, <2>3
<1>4. ASSUME NEW p \in Party
      PROVE  /\ QuestionsTo(p, n) = QuestionsTo(p, m)
             /\ Outstanding(p, n) => Outstanding(p, m)
  <2>1. QuestionsTo(p, n) = QuestionsTo(p, m)
    BY <1>1, <1>2 DEF QuestionsTo
  <2>2. LastQuestion(p, n) = LastQuestion(p, m) /\ LastQuestion(p, n) \in 0..n
    BY <1>1, <2>1, LastIs DEF LastQuestion, QuestionsTo
  <2>3. Outstanding(p, n) => Outstanding(p, m)
    <3> SUFFICES ASSUME Outstanding(p, n), NEW i \in LastQuestion(p, n)..m PROVE ~InOf(p, i)
      BY <2>2 DEF Outstanding
    <3>1. CASE i <= n
      BY <1>1, <2>2, <3>1 DEF Outstanding
    <3>2. CASE ~(i <= n)
      BY <1>1, <1>2, <2>2, <3>2 DEF InOf
    <3> QED
      BY <3>1, <3>2
  <2> QED
    BY <2>1, <2>3
<1> QED
  BY <1>2, <1>3, <1>4

\* A party that never wrote owes an answer to its first question.
LEMMA UnheardOwes ==
  ASSUME Typed, NEW p \in Party, \A i \in 1..Len(messages) : ~InOf(p, i)
  PROVE  Outstanding(p, Len(messages))
<1> DEFINE m == Len(messages)
<1>1. m \in Nat /\ m >= 2 /\ messages[1] = Opener("buyer") /\ messages[2] = Opener("seller")
  BY LengthIsNat DEF Typed, Opened
<1>2. \E i \in 1..2 : messages[i] = Opener(p)
  BY <1>1 DEF Party
<1>3. PICK i \in 1..m : messages[i] = Opener(p)
  BY <1>1, <1>2
<1>4. OutTo(p, i) /\ IsQuestion(messages[i].template)
  BY <1>3, QuestionsAre DEF OutTo, IsIn, Opener
<1>5. i \in QuestionsTo(p, m)
  BY <1>4 DEF QuestionsTo
<1>6. QuestionsTo(p, m) \in SUBSET (1..m)
  BY DEF QuestionsTo
<1>7. LastQuestion(p, m) # 0 /\ LastQuestion(p, m) \in 0..m
  BY <1>1, <1>5, <1>6, LastIs DEF LastQuestion
<1> QED
  BY <1>1, <1>7 DEF Outstanding

\* A question is no courtesy, so what a change of language says again is the
\* last template the party got.
LEMMA CourtesyWasSent ==
  ASSUME Typed, NEW n \in 0..Len(messages), NEW p \in Party, NEW own,
         own.last = TemplateAt(Last({i \in 1..n : OutTo(p, i)})),
         own.question = TemplateAt(LastQuestion(p, n)),
         LanguageResend(own) \in Courtesy
  PROVE  LanguageResend(own) \in Sent(p, n)
<1> DEFINE outs == {i \in 1..n : OutTo(p, i)}
<1>1. n \in Nat /\ n <= Len(messages) /\ NoTemplate \notin Courtesy
  BY LengthIsNat, CourtesyAsksNothing
<1>2. LanguageResend(own) \in {own.last, own.question, NoTemplate}
  BY DEF LanguageResend
<1>3. \A i \in 1..n : OutTo(p, i) => messages[i].template \in Sent(p, n)
  BY DEF Sent
<1>4. ASSUME NEW ids \in SUBSET outs, TemplateAt(Last(ids)) \in Courtesy
      PROVE  TemplateAt(Last(ids)) \in Sent(p, n)
  <2>1. Last(ids) # 0
    BY <1>1, <1>4 DEF TemplateAt
  <2>2. Last(ids) \in ids
    BY <1>1, <2>1, LastIs
  <2> QED
    BY <1>3, <2>1, <2>2 DEF TemplateAt
<1>5. outs \in SUBSET outs /\ QuestionsTo(p, n) \in SUBSET outs
  BY DEF QuestionsTo
<1> HIDE DEF outs
<1> QED
  BY <1>1, <1>2, <1>4, <1>5 DEF LastQuestion, outs

\* A turn that leaves the session gathering and asks no question leaves a party
\* that owes an answer or a hold that runs, unless it says a courtesy again in
\* a party's new language (decide, rows 6 to 13; for_party; clocks).
THEOREM SilenceIsTimed == Spec => WaitLeavesATimer
<1>1. MediationAssumption /\ Typed /\ Asked /\ [Next]_vars
        => (SettlesSilently /\ ~RepeatsACourtesy(task'["turn"].act) => Armed)
  <2> SUFFICES ASSUME MediationAssumption, Typed, Asked, [Next]_vars, SettlesSilently,
                      ~RepeatsACourtesy(task'["turn"].act)
               PROVE  Armed
    OBVIOUS
  <2> DEFINE n == task["turn"].read
  <2>1. PICK reading \in Readings : TakesAnswer(reading) /\ messages' = messages
    BY EvaluatedMoves DEF SettlesSilently
  <2> DEFINE turn == Answered(reading)
  <2>2. /\ ~NewerThan(n) /\ Decided("turn", Decide(turn), "idle")
        /\ task["turn"].step = "judging" /\ state = task["turn"].state
    BY <2>1 DEF TakesAnswer
  <2>3. /\ turn.phase = state /\ turn.held = Holds(n)
        /\ turn.heard = {p \in Party : \E i \in 1..n : InOf(p, i)}
        /\ \A p \in Party :
             /\ turn.history[p].outstanding = Outstanding(p, n)
             /\ turn.history[p].last = TemplateAt(Last({i \in 1..n : OutTo(p, i)}))
             /\ turn.history[p].question = TemplateAt(LastQuestion(p, n))
    BY <2>2 DEF Answered, TurnOf, History
  <2>4. n \in 0..Len(messages)
    BY DEF Typed, TasksFit, Fits, TaskState, Tasks
  <2>5. \A i \in (n + 1)..Len(messages), p \in Party, q \in Question : ~IsTo(messages[i], p, q)
    BY <2>2 DEF Asked, Reading, ReadAll
  <2>6. Silent(Decide(turn)) /\ (Decide(turn).do = "ask" => task'["turn"].act = Decide(turn))
    <3>1. Decide(turn).do # "nothing"
      BY DecisionIs, FacesOfDecisions DEF Decisions
    <3> HIDE DEF turn
    <3> QED
      BY <2>2, <3>1, SettledIsSilent DEF SettlesSilently
  <2> HIDE DEF turn, n
  <2>7. turn.phase # "guiding"
    BY <2>3 DEF SettlesSilently
  <2>8. /\ Holds(n) => Holds(Len(messages))
        /\ \A p \in Party : Outstanding(p, n) => Outstanding(p, Len(messages))
        /\ \A i \in (n + 1)..Len(messages) : ~IsIn(i)
    BY <2>2, <2>4, <2>5, ReadHolds
  <2>9. CASE turn.held \/ \E p \in Party : turn.history[p].outstanding
    BY <2>3, <2>8, <2>9 DEF Armed
  <2>10. CASE ~Heard(turn)
    <3>1. PICK p \in Party : \A i \in 1..n : ~InOf(p, i)
      BY <2>3, <2>10 DEF Heard
    <3>2. \A i \in 1..Len(messages) : ~InOf(p, i)
      BY <2>4, <2>8, <3>1, LengthIsNat DEF InOf
    <3> QED
      BY <3>2, UnheardOwes DEF Armed
  <2>11. CASE /\ Decide(turn) = AskOf(turn)
              /\ \E p \in Party :
                   /\ Resends(p, turn.facts, turn.history[p])
                   /\ LanguageResend(turn.history[p]) \in Courtesy
                   /\ Decide(turn).templates[p] = <<LanguageResend(turn.history[p])>>
    <3>1. Decide(turn).do = "ask" /\ task'["turn"].act = Decide(turn)
      BY <2>6, <2>11, FacesOfDecisions
    <3>2. PICK p \in Party : /\ LanguageResend(turn.history[p]) \in Courtesy
                             /\ Decide(turn).templates[p] = <<LanguageResend(turn.history[p])>>
      BY <2>11
    <3>3. LanguageResend(turn.history[p]) \in Sent(p, n)
      BY <2>3, <2>4, <3>2, CourtesyWasSent
    <3>4. RepeatsACourtesy(Decide(turn))
      <4>1. 1 \in 1..Len(Decide(turn).templates[p])
            /\ Decide(turn).templates[p][1] = LanguageResend(turn.history[p])
        BY <3>2
      <4> QED
        BY <3>1, <3>2, <3>3, <4>1 DEF RepeatsACourtesy, n
    <3> QED
      BY <3>1, <3>4
  <2> QED
    BY <2>6, <2>7, <2>9, <2>10, <2>11, SilenceIsJustified
<1> QED
  BY <1>1, MediationAssumption, SpecTyped, SpecAsked, PTL DEF Spec, WaitLeavesATimer

=============================================================================
