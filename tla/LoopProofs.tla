----------------------------- MODULE LoopProofs -----------------------------
(***************************************************************************)
(* The background loops, for any number of sessions, relays, revisions,    *)
(* messages, notices and restarts: a session never has two turns, and what *)
(* fell due during one waits for its end; what the sync loop records only  *)
(* goes on to later seconds, so no replaced revision is recorded again; an *)
(* observer is told again only for a copy no record tells of, and retried  *)
(* at growing distances.                                                   *)
(***************************************************************************)
EXTENDS Settle, Backlog, Observers, Integers, FiniteSetTheorems, WellFoundedInduction, TLAPS

-----------------------------------------------------------------------------
(* The turn loop (run_turns).                                              *)

\* What the steps of the loop rely on: a task's turn is one of some session,
\* or none.
LoopTypes ==
  /\ log \in [Sessions -> Seq({"in", "out"})]
  /\ turns \in [TurnTasks -> [session: Sessions \union {"none"}, read: Nat]]
  /\ dueAgain \subseteq Sessions

LoopInv == LoopTypes /\ TurnsNeverOverlap /\ NoWakeIsLost

\* At the start no task has a turn.
LEMMA LoopStarts == SettleInit => LoopInv
  BY SettleAssumption
  DEF SettleInit, LoopInv, LoopTypes, TurnsNeverOverlap, NoWakeIsLost, NoTurn

\* A step that leaves each task its session keeps the invariant.
LEMMA SameTurns ==
  ASSUME LoopInv,
         log' \in [Sessions -> Seq({"in", "out"})],
         turns' \in [TurnTasks -> [session: Sessions \union {"none"}, read: Nat]],
         \A t \in TurnTasks : turns'[t].session = turns[t].session,
         dueAgain' = dueAgain
  PROVE  LoopInv'
  BY DEF LoopInv, LoopTypes, TurnsNeverOverlap, NoWakeIsLost, Busy

\* Arrive and Speak append a row; nothing else writes the messages.
LEMMA RowsAppend ==
  ASSUME LoopTypes, NEW s \in Sessions, NEW direction \in {"in", "out"},
         log' = [log EXCEPT ![s] = Append(@, direction)]
  PROVE  log' \in [Sessions -> Seq({"in", "out"})]
<1>1. Append(log[s], direction) \in Seq({"in", "out"})
  BY DEF LoopTypes
<1> QED
  BY <1>1 DEF LoopTypes

\* TakeDue starts a turn only where its session has none, and otherwise
\* remembers that the session is due.
LEMMA TakingKeeps ==
  ASSUME LoopInv, NEW s \in Sessions, TakeDue(s)
  PROVE  LoopInv'
<1>1. log' = log
  BY DEF TakeDue, tableVars
<1>2. CASE Busy(s) /\ dueAgain' = dueAgain \union {s} /\ UNCHANGED turns
  BY <1>1, <1>2 DEF LoopInv, LoopTypes, TurnsNeverOverlap, NoWakeIsLost, Busy
<1>3. CASE ~Busy(s) /\ UNCHANGED dueAgain /\
           \E t \in TurnTasks :
             turns[t] = NoTurn /\ turns' = [turns EXCEPT ![t] = [session |-> s, read |-> 0]]
  <2>1. PICK t \in TurnTasks :
          turns[t] = NoTurn /\ turns' = [turns EXCEPT ![t] = [session |-> s, read |-> 0]]
    BY <1>3
  <2>2. LoopTypes'
    BY <1>1, <1>3, <2>1 DEF LoopInv, LoopTypes
  <2>3. turns'[t].session = s /\ \A u \in TurnTasks \ {t} : turns'[u] = turns[u]
    BY <2>1 DEF LoopInv, LoopTypes
  <2>4. TurnsNeverOverlap'
    BY <1>3, <2>3 DEF LoopInv, TurnsNeverOverlap, Busy
  <2>5. NoWakeIsLost'
    <3>1. turns[t].session = "none"
      BY <2>1 DEF NoTurn
    <3>2. ASSUME NEW r \in dueAgain
          PROVE  \E u \in TurnTasks : turns'[u].session = r
      BY <2>3, <3>1, <3>2, SettleAssumption DEF LoopInv, LoopTypes, NoWakeIsLost, Busy
    <3> QED
      BY <1>3, <3>2 DEF NoWakeIsLost, Busy
  <2> QED
    BY <2>2, <2>4, <2>5 DEF LoopInv
<1> QED
  BY <1>2, <1>3 DEF TakeDue

\* Load reads the messages of a turn that runs.
LEMMA LoadingKeeps ==
  ASSUME LoopInv, NEW t \in TurnTasks, Load(t)
  PROVE  LoopInv'
<1>1. turns[t].session \in Sessions
  <2>1. turns[t].session \in Sessions \union {"none"}
    BY DEF LoopInv, LoopTypes
  <2>2. turns[t].session = "none" => turns[t] = NoTurn
    BY DEF LoopInv, LoopTypes, Load, NoTurn
  <2> QED
    BY <2>1, <2>2 DEF Load
<1>2. Len(log[turns[t].session]) \in Nat
  BY <1>1 DEF LoopInv, LoopTypes
<1>3. turns' \in [TurnTasks -> [session: Sessions \union {"none"}, read: Nat]]
  BY <1>2 DEF LoopInv, LoopTypes, Load
<1>4. \A u \in TurnTasks : turns'[u].session = turns[u].session
  BY DEF LoopInv, LoopTypes, Load
<1> QED
  BY <1>3, <1>4, SameTurns DEF Load, tableVars, LoopInv, LoopTypes

\* However a turn ends, its task is free and its session no longer marked.
LEMMA JoiningKeeps ==
  ASSUME LoopInv, NEW t \in TurnTasks, NEW again \in BOOLEAN, Joined(t, again),
         log' = log
  PROVE  LoopInv'
<1>1. /\ turns' = [turns EXCEPT ![t] = NoTurn]
      /\ dueAgain' = dueAgain \ {turns[t].session}
  BY DEF Joined
<1>2. LoopTypes'
  BY <1>1 DEF LoopInv, LoopTypes, NoTurn
<1>3. turns'[t].session = "none" /\ \A u \in TurnTasks \ {t} : turns'[u] = turns[u]
  BY <1>1 DEF LoopInv, LoopTypes, NoTurn
<1>4. TurnsNeverOverlap'
  BY <1>3, SettleAssumption DEF LoopInv, TurnsNeverOverlap
<1>5. NoWakeIsLost'
  BY <1>1, <1>3 DEF LoopInv, NoWakeIsLost, Busy
<1> QED
  BY <1>2, <1>4, <1>5 DEF LoopInv

\* A restart leaves no turn.
LEMMA HaltingKeeps ==
  ASSUME LoopInv, Halt
  PROVE  LoopInv'
  BY SettleAssumption
  DEF Halt, tableVars, LoopInv, LoopTypes, TurnsNeverOverlap, NoWakeIsLost, NoTurn

LEMMA LoopKeeps == LoopInv /\ [SettleNext]_settleVars => LoopInv'
<1> SUFFICES ASSUME LoopInv, [SettleNext]_settleVars
             PROVE  LoopInv'
  OBVIOUS
<1> USE SameTurns DEF LoopInv, LoopTypes
<1>1. ASSUME NEW s \in Sessions, Arrive(s) PROVE LoopInv'
  BY <1>1, RowsAppend DEF Arrive
<1>2. ASSUME NEW s \in Sessions, Speak(s) PROVE LoopInv'
  BY <1>2, RowsAppend DEF Speak, loopVars
<1>3. ASSUME NEW s \in Sessions, GiveUp(s) PROVE LoopInv'
  BY <1>3 DEF GiveUp, loopVars
<1>4. ASSUME NEW s \in Sessions, Touch(s) PROVE LoopInv'
  BY <1>4 DEF Touch, tableVars
<1>5. ASSUME NEW s \in Sessions, TakeDue(s) PROVE LoopInv'
  BY <1>5, TakingKeeps
<1>6. ASSUME NEW t \in TurnTasks, Load(t) PROVE LoopInv'
  BY <1>6, LoadingKeeps
<1>7. ASSUME NEW t \in TurnTasks, EndJudged(t) PROVE LoopInv'
  BY <1>7, JoiningKeeps DEF EndJudged
<1>8. ASSUME NEW t \in TurnTasks, EndDeferred(t) PROVE LoopInv'
  BY <1>8, JoiningKeeps DEF EndDeferred, tableVars
<1>9. ASSUME NEW t \in TurnTasks, EndFailed(t) PROVE LoopInv'
  BY <1>9, JoiningKeeps DEF EndFailed, tableVars
<1>10. CASE Halt
  BY <1>10, HaltingKeeps
<1>11. CASE Resume
  BY <1>11 DEF Resume, tableVars
<1>12. CASE UNCHANGED settleVars
  BY <1>12 DEF settleVars
<1> QED
  BY <1>1, <1>2, <1>3, <1>4, <1>5, <1>6, <1>7, <1>8, <1>9, <1>10, <1>11, <1>12
  DEF SettleNext

\* In every behaviour of the loop, LoopInv holds.
LEMMA LoopIsSound == SettleSpec => []LoopInv
<1> QED
  BY LoopStarts, LoopKeeps, PTL DEF SettleSpec

\* However many messages come while a session's turn runs, and whatever became
\* of earlier turns, the session has at most one turn (mediation/turn.rs
\* run_turns).
THEOREM OneTurnOfASession == SettleSpec => []TurnsNeverOverlap
<1>1. LoopInv => TurnsNeverOverlap
  BY DEF LoopInv
<1> QED
  BY <1>1, LoopIsSound, PTL

\* A session marked as due again has a turn running, whose end touches it: no
\* message waits for an end that never comes (mediation/turn.rs run_turns).
THEOREM DueAgainHasATurn == SettleSpec => []NoWakeIsLost
<1>1. LoopInv => NoWakeIsLost
  BY DEF LoopInv
<1> QED
  BY <1>1, LoopIsSound, PTL

-----------------------------------------------------------------------------
(* The types of the turn loop.                                             *)

\* The rows of one direction, as Count counts them.
RowsIn(rows, direction) ==
  {row \in Sessions \X (1..(MaxIn + MaxOut)) :
     row[2] \in DOMAIN rows[row[1]] /\ rows[row[1]][row[2]] = direction}

\* The rows of a session a turn may still be owed.
RowsFrom(rows, s) == {row \in RowsIn(rows, "in") : row[1] = s}

\* There are never more rows than may be written, in whichever sessions.
RowsFit ==
  /\ \A direction \in {"in", "out"} : IsFiniteSet(RowsIn(log, direction))
  /\ Count("in") <= MaxIn /\ Count("out") <= MaxOut
  /\ \A s \in Sessions : Len(log[s]) <= MaxIn + MaxOut
  /\ onTheWay \in [Sessions -> Nat]
  /\ \A s \in Sessions : onTheWay[s] <= Cardinality(RowsFrom(log, s))

LEMMA CountIs == \A direction : Count(direction) = Cardinality(RowsIn(log, direction))
  BY DEF Count, RowsIn

\* The rows of a session are among those counted.
LEMMA RoomForOne ==
  ASSUME LoopTypes, RowsFit, NEW s \in Sessions
  PROVE  Len(log[s]) <= Count("in") + Count("out")
         /\ Count("in") \in Nat /\ Count("out") \in Nat /\ Len(log[s]) \in Nat
<1> DEFINE n == Len(log[s])
           In == RowsIn(log, "in")
           Out == RowsIn(log, "out")
           f == [i \in 1..n |-> <<s, i>>]
<1>1. log[s] \in Seq({"in", "out"}) /\ n \in Nat /\ n <= MaxIn + MaxOut /\ DOMAIN log[s] = 1..n
      /\ MaxIn \in Nat /\ MaxOut \in Nat
  BY SettleAssumption DEF LoopTypes, RowsFit
<1>2. \A i \in 1..n : log[s][i] \in {"in", "out"}
  BY <1>1
<1>3. \A i \in 1..n : <<s, i>> \in In \union Out
  <2> TAKE i \in 1..n
  <2>1. i \in 1..(MaxIn + MaxOut) /\ i \in DOMAIN log[s]
    BY <1>1
  <2> HIDE DEF n
  <2> QED
    BY <1>2, <2>1 DEF RowsIn
<1>4. IsFiniteSet(In) /\ IsFiniteSet(Out) /\ Count("in") = Cardinality(In)
      /\ Count("out") = Cardinality(Out)
  BY CountIs DEF RowsFit
<1>5. IsFiniteSet(In \union Out) /\ Cardinality(In \union Out) <= Cardinality(In) + Cardinality(Out)
      /\ Cardinality(In) \in Nat /\ Cardinality(Out) \in Nat
  <2> HIDE DEF In, Out
  <2>1. IsFiniteSet(In \union Out) /\ IsFiniteSet(In \intersect Out)
        /\ Cardinality(In \union Out)
             = Cardinality(In) + Cardinality(Out) - Cardinality(In \intersect Out)
    BY <1>4, FS_Union, FS_Intersection
  <2>2. Cardinality(In) \in Nat /\ Cardinality(Out) \in Nat
        /\ Cardinality(In \intersect Out) \in Nat
    BY <1>4, <2>1, FS_CardinalityType
  <2> QED
    BY <2>1, <2>2
<1>6. f \in Injection(1..n, In \union Out)
  <2> HIDE DEF In, Out, n
  <2> QED
    BY <1>3 DEF Injection, IsInjective
<1>7. Cardinality(1..n) <= Cardinality(In \union Out)
  <2> HIDE DEF In, Out, n, f
  <2> QED
    BY <1>5, <1>6, FS_Injection
<1>8. Cardinality(1..n) = n
  <2> DEFINE one == 1
  <2>1. one \in Int /\ n \in Int
    BY <1>1
  <2> HIDE DEF one, n
  <2>2. Cardinality(one..n) = IF one > n THEN 0 ELSE n - one + 1
    BY <2>1, FS_Interval
  <2> QED
    BY <1>1, <2>2 DEF one
<1>9. Cardinality(In \union Out) \in Nat
  <2> HIDE DEF In, Out
  <2> QED
    BY <1>5, FS_CardinalityType
<1> HIDE DEF n, In, Out, f
<1>10. n <= Cardinality(In) + Cardinality(Out)
  BY <1>1, <1>5, <1>7, <1>8, <1>9
<1> QED
  BY <1>1, <1>4, <1>5, <1>10 DEF n

\* One row more, if there is room for it.
LEMMA RowAdded ==
  ASSUME LoopTypes, NEW s \in Sessions, NEW direction \in {"in", "out"},
         log' = [log EXCEPT ![s] = Append(@, direction)],
         Len(log[s]) + 1 <= MaxIn + MaxOut
  PROVE  LET row == <<s, Len(log[s]) + 1>>
         IN /\ row \notin RowsIn(log, direction)
            /\ RowsIn(log', direction) = RowsIn(log, direction) \union {row}
            /\ \A other \in {"in", "out"} \ {direction} : RowsIn(log', other) = RowsIn(log, other)
<1> DEFINE n == Len(log[s])
           row == <<s, n + 1>>
<1>1. log \in [Sessions -> Seq({"in", "out"})] /\ n \in Nat /\ DOMAIN log[s] = 1..n
      /\ \A r \in Sessions : DOMAIN log[r] = 1..Len(log[r])
  BY DEF LoopTypes
<1>2. log'[s] = Append(log[s], direction) /\ \A r \in Sessions \ {s} : log'[r] = log[r]
  BY <1>1
<1>3. DOMAIN log'[s] = 1..(n + 1) /\ log'[s][n + 1] = direction
      /\ \A i \in 1..n : log'[s][i] = log[s][i]
  <2> DEFINE new == Append(log[s], direction)
  <2>1. Len(new) = n + 1 /\ new \in Seq({"in", "out"}) /\ new[n + 1] = direction
        /\ \A i \in 1..n : new[i] = log[s][i]
    <3>1. log[s] \in Seq({"in", "out"})
      BY <1>1
    <3> QED
      BY <3>1
  <2> HIDE DEF new, n
  <2>2. DOMAIN new = 1..Len(new)
    BY <2>1
  <2>3. new = log'[s]
    BY <1>2 DEF new
  <2> QED
    BY <2>1, <2>2, <2>3
<1>4. row \in Sessions \X (1..(MaxIn + MaxOut)) /\ row[1] = s /\ row[2] = n + 1
  BY <1>1, SettleAssumption
<1> HIDE DEF n
<1>5. row \notin RowsIn(log, direction)
  <2>1. n + 1 \notin 1..n
    BY <1>1
  <2> QED
    BY <1>1, <1>4, <2>1 DEF RowsIn
<1>6. \A p \in Sessions \X (1..(MaxIn + MaxOut)) : \A any :
        (p[2] \in DOMAIN log'[p[1]] /\ log'[p[1]][p[2]] = any)
          <=> (p[2] \in DOMAIN log[p[1]] /\ log[p[1]][p[2]] = any) \/ (p = row /\ any = direction)
  <2> TAKE p \in Sessions \X (1..(MaxIn + MaxOut))
  <2> TAKE any
  <2>1. p = <<p[1], p[2]>> /\ p[1] \in Sessions /\ p[2] \in Nat
    BY SettleAssumption
  <2>2. CASE p[1] # s
    <3>1. p # row /\ log'[p[1]] = log[p[1]]
      BY <1>2, <1>4, <2>1, <2>2
    <3> QED
      BY <3>1
  <2>3. CASE p[1] = s /\ p[2] = n + 1
    <3>1. p = row /\ n + 1 \notin 1..n /\ n + 1 \in 1..(n + 1)
      BY <1>1, <2>1, <2>3
    <3> QED
      BY <1>1, <1>3, <2>3, <3>1
  <2>4. CASE p[1] = s /\ p[2] # n + 1
    <3>1. p # row /\ (p[2] \in 1..(n + 1) <=> p[2] \in 1..n)
      BY <1>1, <1>4, <2>1, <2>4
    <3> QED
      BY <1>1, <1>3, <2>4, <3>1
  <2> QED
    BY <2>2, <2>3, <2>4
<1> HIDE DEF row
<1>7. RowsIn(log', direction) = RowsIn(log, direction) \union {row}
  <2>1. \A p \in Sessions \X (1..(MaxIn + MaxOut)) :
          (p[2] \in DOMAIN log'[p[1]] /\ log'[p[1]][p[2]] = direction)
            <=> (p[2] \in DOMAIN log[p[1]] /\ log[p[1]][p[2]] = direction) \/ p = row
    <3> DEFINE Has(rows, p, any) == p[2] \in DOMAIN rows[p[1]] /\ rows[p[1]][p[2]] = any
    <3>1. \A p \in Sessions \X (1..(MaxIn + MaxOut)) : \A any :
            Has(log', p, any) <=> Has(log, p, any) \/ (p = row /\ any = direction)
      BY <1>6
    <3> HIDE DEF Has
    <3>2. \A p \in Sessions \X (1..(MaxIn + MaxOut)) :
            Has(log', p, direction) <=> Has(log, p, direction) \/ p = row
      BY <3>1
    <3> QED
      BY <3>2 DEF Has
  <2> QED
    BY <1>4, <2>1, Zenon DEF RowsIn
<1>8. \A other \in {"in", "out"} \ {direction} : RowsIn(log', other) = RowsIn(log, other)
  BY <1>6 DEF RowsIn
<1> QED
  BY <1>5, <1>7, <1>8 DEF row, n

SettleTyped ==
  /\ SettleTypeOK /\ LoopTypes /\ RowsFit
  /\ loopRuns \in BOOLEAN

LEMMA SettleTypesStart == SettleInit => SettleTyped
<1> SUFFICES ASSUME SettleInit PROVE SettleTyped
  OBVIOUS
<1>1. MaxIn \in Nat /\ MaxOut \in Nat
  BY SettleAssumption
<1>2. LoopTypes
  BY LoopStarts DEF LoopInv
<1>3. \A d : RowsIn(log, d) = {}
  BY DEF RowsIn, SettleInit
<1>4. \A s \in Sessions : RowsFrom(log, s) = {}
  BY <1>3 DEF RowsFrom
<1>5. RowsFit
  <2>1. IsFiniteSet({}) /\ Cardinality({}) = 0
    BY FS_EmptySet
  <2>2. Count("in") = 0 /\ Count("out") = 0
    BY <1>3, <2>1, CountIs
  <2>3. \A s \in Sessions : Len(log[s]) = 0
    BY DEF SettleInit
  <2>4. \A d : IsFiniteSet(RowsIn(log, d))
    BY <1>3, <2>1
  <2>5. \A s \in Sessions : Cardinality(RowsFrom(log, s)) = 0 /\ onTheWay[s] = 0
    BY <1>4, <2>1 DEF SettleInit
  <2>6. onTheWay \in [Sessions -> Nat]
    BY DEF SettleInit
  <2> QED
    BY <1>1, <2>2, <2>3, <2>4, <2>5, <2>6 DEF RowsFit
<1>6. SettleTypeOK
  BY <1>1, <1>2, LoopStarts DEF SettleInit, SettleTypeOK, LoopInv, LoopTypes
<1> QED
  BY <1>2, <1>5, <1>6 DEF SettleTyped, SettleInit

\* Steps that write no row and have no more on the way.
LEMMA RowsFitStill ==
  ASSUME RowsFit, log' = log, onTheWay' \in [Sessions -> Nat],
         \A s \in Sessions : onTheWay'[s] <= onTheWay[s]
  PROVE  RowsFit'
<1>1. \A d : RowsIn(log, d)' = RowsIn(log, d)
  BY DEF RowsIn
<1>2. \A d : Count(d)' = Count(d)
  BY DEF Count
<1>3. \A s : RowsFrom(log, s)' = RowsFrom(log, s)
  BY DEF RowsFrom, RowsIn
<1>4. \A s \in Sessions : IsFiniteSet(RowsFrom(log, s))
  <2> TAKE s \in Sessions
  <2>1. RowsFrom(log, s) \in SUBSET RowsIn(log, "in") /\ IsFiniteSet(RowsIn(log, "in"))
    BY DEF RowsFrom, RowsFit
  <2> QED
    BY <2>1, FS_Subset
<1>5. \A s \in Sessions : Cardinality(RowsFrom(log, s)) \in Nat
  BY <1>4, FS_CardinalityType
<1>6. \A s \in Sessions : onTheWay'[s] <= Cardinality(RowsFrom(log, s))
  <2> TAKE s \in Sessions
  <2>1. onTheWay[s] \in Nat /\ onTheWay'[s] \in Nat /\ onTheWay'[s] <= onTheWay[s]
        /\ onTheWay[s] <= Cardinality(RowsFrom(log, s))
    BY DEF RowsFit
  <2> QED
    BY <1>5, <2>1
<1> QED
  BY <1>1, <1>2, <1>3, <1>6 DEF RowsFit

\* A row written is one of those allowed, and at most one is on its way for it.
LEMMA RowsFitMore ==
  ASSUME LoopTypes, RowsFit, NEW s \in Sessions, NEW direction \in {"in", "out"},
         direction = "in" => Count("in") < MaxIn,
         direction = "out" => Count("out") < MaxOut,
         log' = [log EXCEPT ![s] = Append(@, direction)],
         onTheWay' = IF direction = "in" THEN [onTheWay EXCEPT ![s] = @ + 1] ELSE onTheWay
  PROVE  RowsFit'
<1> DEFINE row == <<s, Len(log[s]) + 1>>
<1>0. MaxIn \in Nat /\ MaxOut \in Nat /\ log \in [Sessions -> Seq({"in", "out"})]
  BY SettleAssumption DEF LoopTypes
<1>1. Len(log[s]) + 1 <= MaxIn + MaxOut /\ Len(log[s]) \in Nat
      /\ Count("in") \in Nat /\ Count("out") \in Nat
  <2>1. /\ Len(log[s]) <= Count("in") + Count("out")
        /\ Count("in") \in Nat /\ Count("out") \in Nat /\ Len(log[s]) \in Nat
    BY RoomForOne
  <2>2. Count("in") <= MaxIn /\ Count("out") <= MaxOut
    BY DEF RowsFit
  <2>3. Count("in") + Count("out") < MaxIn + MaxOut
    BY <1>0, <2>1, <2>2
  <2> QED
    BY <1>0, <2>1, <2>3
<1>2. /\ row \notin RowsIn(log, direction)
      /\ RowsIn(log', direction) = RowsIn(log, direction) \union {row}
      /\ \A other \in {"in", "out"} \ {direction} : RowsIn(log', other) = RowsIn(log, other)
  BY <1>1, RowAdded
<1>3. \A d : RowsIn(log, d)' = RowsIn(log', d)
  BY DEF RowsIn
<1>4. /\ IsFiniteSet(RowsIn(log', direction))
      /\ Cardinality(RowsIn(log', direction)) = Cardinality(RowsIn(log, direction)) + 1
  <2>1. IsFiniteSet(RowsIn(log, direction))
    BY DEF RowsFit
  <2> DEFINE old == RowsIn(log, direction)
  <2>2. IsFiniteSet(old) /\ row \notin old /\ RowsIn(log', direction) = old \union {row}
    BY <1>2, <2>1, Zenon
  <2> HIDE DEF row, old
  <2>3. IsFiniteSet(old \union {row}) /\ Cardinality(old \union {row}) = Cardinality(old) + 1
    BY <2>2, FS_AddElement
  <2> QED
    BY <2>2, <2>3 DEF old
<1>5. /\ Count(direction)' = Count(direction) + 1
      /\ \A other \in {"in", "out"} \ {direction} : Count(other)' = Count(other)
  <2>1. \A d : Count(d)' = Cardinality(RowsIn(log', d))
    BY DEF Count, RowsIn
  <2> QED
    BY <1>2, <1>4, <2>1, CountIs
<1>6. Count("in")' <= MaxIn /\ Count("out")' <= MaxOut
  <2>1. Count("in") <= MaxIn /\ Count("out") <= MaxOut
    BY DEF RowsFit
  <2> QED
    BY <1>0, <1>1, <1>5, <2>1
<1>7. \A d \in {"in", "out"} : IsFiniteSet(RowsIn(log', d))
  BY <1>2, <1>4 DEF RowsFit
<1>8. \A r \in Sessions : Len(log'[r]) <= MaxIn + MaxOut
  <2> TAKE r \in Sessions
  <2>1. CASE r = s
    <3>1. log'[r] = Append(log[s], direction) /\ log[s] \in Seq({"in", "out"})
      BY <1>0, <2>1
    <3>2. Len(log'[r]) = Len(log[s]) + 1
      BY <3>1
    <3> QED
      BY <1>1, <3>2
  <2>2. CASE r # s
    BY <1>0, <2>2 DEF RowsFit
  <2> QED
    BY <2>1, <2>2
<1>9. onTheWay' \in [Sessions -> Nat]
  BY DEF RowsFit
<1>10. \A r \in Sessions :
         /\ IsFiniteSet(RowsFrom(log, r)) /\ Cardinality(RowsFrom(log, r)) \in Nat
         /\ RowsFrom(log', r) = IF direction = "in" /\ r = s
                                THEN RowsFrom(log, r) \union {row} ELSE RowsFrom(log, r)
         /\ row \notin RowsFrom(log, r) \/ direction # "in"
  <2> TAKE r \in Sessions
  <2>1. RowsFrom(log, r) \in SUBSET RowsIn(log, "in") /\ IsFiniteSet(RowsIn(log, "in"))
    BY DEF RowsFrom, RowsFit
  <2>2. IsFiniteSet(RowsFrom(log, r)) /\ Cardinality(RowsFrom(log, r)) \in Nat
    BY <2>1, FS_Subset, FS_CardinalityType
  <2>3. row[1] = s
    OBVIOUS
  <2> HIDE DEF row
  <2>4. CASE direction = "in"
    BY <1>2, <2>2, <2>3, <2>4 DEF RowsFrom
  <2>5. CASE direction = "out"
    <3>1. RowsIn(log', "in") = RowsIn(log, "in")
      BY <1>2, <2>5
    <3> QED
      BY <2>2, <2>5, <3>1 DEF RowsFrom
  <2> QED
    BY <2>4, <2>5
<1>11. \A r \in Sessions : onTheWay'[r] <= Cardinality(RowsFrom(log', r))
  <2> TAKE r \in Sessions
  <2>1. onTheWay[r] \in Nat /\ onTheWay[r] <= Cardinality(RowsFrom(log, r))
    BY DEF RowsFit
  <2>2. CASE direction = "in" /\ r = s
    <3>1. onTheWay'[r] = onTheWay[r] + 1
      BY <2>2 DEF RowsFit
    <3>2. RowsFrom(log', r) = RowsFrom(log, r) \union {row} /\ row \notin RowsFrom(log, r)
          /\ IsFiniteSet(RowsFrom(log, r)) /\ Cardinality(RowsFrom(log, r)) \in Nat
      BY <1>10, <2>2
    <3> HIDE DEF row
    <3>3. Cardinality(RowsFrom(log', r)) = Cardinality(RowsFrom(log, r)) + 1
      BY <3>2, FS_AddElement
    <3> QED
      BY <2>1, <3>1, <3>2, <3>3
  <2>3. CASE ~(direction = "in" /\ r = s)
    <3>1. onTheWay'[r] = onTheWay[r]
      BY <2>3 DEF RowsFit
    <3>2. RowsFrom(log', r) = RowsFrom(log, r)
      BY <1>10, <2>3
    <3> QED
      BY <2>1, <3>1, <3>2
  <2> QED
    BY <2>2, <2>3
<1>12. \A r : RowsFrom(log, r)' = RowsFrom(log', r)
  BY DEF RowsFrom, RowsIn
<1> QED
  BY <1>3, <1>6, <1>7, <1>8, <1>9, <1>11, <1>12 DEF RowsFit

\* A turn that runs reads its session's rows.
LEMMA TurnIs ==
  ASSUME SettleTyped, NEW t \in TurnTasks, turns[t] # NoTurn
  PROVE  /\ turns[t].session \in Sessions /\ turns[t].read \in 0..(MaxIn + MaxOut)
         /\ loopRuns
  BY DEF SettleTyped, SettleTypeOK, Turn

LEMMA JoinedTyped ==
  ASSUME SettleTyped, NEW t \in TurnTasks, turns[t].read > 0, NEW again, Joined(t, again)
  PROVE  /\ turns[t] # NoTurn /\ turns[t].session \in Sessions
         /\ turns[t].read \in 0..(MaxIn + MaxOut) /\ loopRuns
         /\ turns' \in [TurnTasks -> Turn \union {NoTurn}]
         /\ deadline' \subseteq Sessions /\ dueAgain' \subseteq Sessions
<1>1. turns[t] # NoTurn
  BY DEF NoTurn
<1>2. turns[t].session \in Sessions /\ turns[t].read \in 0..(MaxIn + MaxOut) /\ loopRuns
  BY <1>1, TurnIs
<1>3. turns' \in [TurnTasks -> Turn \union {NoTurn}]
  BY DEF Joined, SettleTyped, SettleTypeOK
<1>4. deadline' \subseteq Sessions /\ dueAgain' \subseteq Sessions
  BY <1>2 DEF Joined, SettleTyped, SettleTypeOK
<1> QED
  BY <1>1, <1>2, <1>3, <1>4

LEMMA HighestIs == \A n \in Nat : \A a, b \in 0..n : Highest(a, b) \in 0..n
  BY DEF Highest

LEMMA SettleTypesKeep ==
  ASSUME SettleTyped, LoopInv, [SettleNext]_settleVars PROVE SettleTyped'
<1>0. MaxIn \in Nat /\ MaxOut \in Nat
  BY SettleAssumption
<1>1. LoopInv'
  BY LoopKeeps
<1>2. LoopTypes' /\ NoWakeIsLost' /\ LoopTypes /\ RowsFit
  BY <1>1 DEF LoopInv, SettleTyped
<1>3. log' \in [Sessions -> Seq({"in", "out"})]
  BY <1>2 DEF LoopTypes
<1>4. ASSUME RowsFit', handedOff' \subseteq Sessions,
             solversSaw' \in [Sessions -> 0..(MaxIn + MaxOut)],
             deadline' \subseteq Sessions, dueAgain' \subseteq Sessions,
             turns' \in [TurnTasks -> Turn \union {NoTurn}],
             loopRuns' \in BOOLEAN /\
               (~loopRuns' => deadline' = {} /\ \A t \in TurnTasks : turns'[t] = NoTurn)
      PROVE  SettleTyped'
  <2>1. onTheWay' \in [Sessions -> Nat]
    BY <1>4 DEF RowsFit
  <2>2. \A s \in Sessions : onTheWay'[s] \in 0..MaxIn
    <3> TAKE s \in Sessions
    <3> DEFINE rows == RowsFrom(log, s)'
               all == RowsIn(log, "in")'
    <3>1. rows \in SUBSET all
      BY DEF RowsFrom, RowsIn
    <3>2. IsFiniteSet(all) /\ Cardinality(all) <= MaxIn /\ onTheWay'[s] <= Cardinality(rows)
          /\ onTheWay'[s] \in Nat
      BY <1>4 DEF RowsFit, Count, RowsIn
    <3> HIDE DEF rows, all
    <3>3. Cardinality(rows) <= Cardinality(all) /\ Cardinality(rows) \in Nat
          /\ Cardinality(all) \in Nat
      BY <3>1, <3>2, FS_Subset, FS_CardinalityType
    <3> QED
      BY <1>0, <3>2, <3>3
  <2>3. onTheWay' \in [Sessions -> 0..MaxIn]
    BY <2>1, <2>2
  <2>4. SettleTypeOK'
    BY <1>2, <1>3, <1>4, <2>3 DEF SettleTypeOK, Turn, NoTurn
  <2> QED
    BY <1>2, <1>4, <2>4 DEF SettleTyped
<1>5. /\ handedOff \subseteq Sessions /\ solversSaw \in [Sessions -> 0..(MaxIn + MaxOut)]
      /\ deadline \subseteq Sessions /\ dueAgain \subseteq Sessions
      /\ turns \in [TurnTasks -> Turn \union {NoTurn}]
      /\ onTheWay \in [Sessions -> Nat] /\ \A s \in Sessions : onTheWay[s] <= onTheWay[s]
  BY DEF SettleTyped, SettleTypeOK, RowsFit
<1>6. loopRuns \in BOOLEAN /\ (~loopRuns => deadline = {} /\ \A t \in TurnTasks : turns[t] = NoTurn)
  BY DEF SettleTyped, SettleTypeOK
<1>7. ASSUME NEW s \in Sessions, Arrive(s) PROVE SettleTyped'
  <2>1. RowsFit'
    <3>1. Count("in") < MaxIn /\ log' = [log EXCEPT ![s] = Append(@, "in")]
          /\ onTheWay' = [onTheWay EXCEPT ![s] = @ + 1]
      BY <1>7 DEF Arrive
    <3> DEFINE d == "in"
    <3>2. d \in {"in", "out"} /\ (d = "in" => Count("in") < MaxIn)
          /\ (d = "out" => Count("out") < MaxOut) /\ log' = [log EXCEPT ![s] = Append(@, d)]
          /\ onTheWay' = IF d = "in" THEN [onTheWay EXCEPT ![s] = @ + 1] ELSE onTheWay
      BY <3>1
    <3> HIDE DEF d
    <3> QED
      BY <1>2, <3>2, RowsFitMore
  <2> QED
    BY <1>4, <1>5, <1>6, <1>7, <2>1 DEF Arrive
<1>8. ASSUME NEW s \in Sessions, Speak(s) PROVE SettleTyped'
  <2>1. RowsFit'
    <3>1. Count("out") < MaxOut /\ log' = [log EXCEPT ![s] = Append(@, "out")]
          /\ onTheWay' = onTheWay
      BY <1>8 DEF Speak, loopVars
    <3> DEFINE d == "out"
    <3>2. d \in {"in", "out"} /\ (d = "in" => Count("in") < MaxIn)
          /\ (d = "out" => Count("out") < MaxOut) /\ log' = [log EXCEPT ![s] = Append(@, d)]
          /\ onTheWay' = IF d = "in" THEN [onTheWay EXCEPT ![s] = @ + 1] ELSE onTheWay
      BY <3>1
    <3> HIDE DEF d
    <3> QED
      BY <1>2, <3>2, RowsFitMore
  <2> QED
    BY <1>4, <1>5, <1>6, <1>8, <2>1 DEF Speak, loopVars
<1>9. ASSUME log' = log, onTheWay' = onTheWay PROVE RowsFit'
  BY <1>2, <1>5, <1>9, RowsFitStill
<1>10. ASSUME NEW s \in Sessions, GiveUp(s) PROVE SettleTyped'
  <2>1. Len(log[s]) \in 0..(MaxIn + MaxOut)
    BY <1>0, <1>2 DEF RowsFit, LoopTypes
  <2>2. solversSaw' \in [Sessions -> 0..(MaxIn + MaxOut)]
    BY <1>5, <1>10, <2>1 DEF GiveUp
  <2>3. RowsFit'
    BY <1>9, <1>10 DEF GiveUp, loopVars
  <2> QED
    BY <1>4, <1>5, <1>6, <1>10, <2>2, <2>3 DEF GiveUp, loopVars
<1>11. ASSUME NEW s \in Sessions, Touch(s) PROVE SettleTyped'
  <2>1. onTheWay' \in [Sessions -> Nat] /\ \A r \in Sessions : onTheWay'[r] <= onTheWay[r]
    BY <1>5, <1>11 DEF Touch
  <2>2. RowsFit'
    BY <1>2, <1>11, <2>1, RowsFitStill DEF Touch, tableVars
  <2> QED
    BY <1>4, <1>5, <1>6, <1>11, <2>2 DEF Touch, tableVars
<1>12. ASSUME NEW s \in Sessions, TakeDue(s) PROVE SettleTyped'
  <2>1. loopRuns /\ loopRuns' = loopRuns /\ deadline' = deadline \ {s}
        /\ UNCHANGED <<log, handedOff, solversSaw, onTheWay>>
    BY <1>12 DEF TakeDue, MayTake, tableVars
  <2>2. dueAgain' \subseteq Sessions
    BY <1>5, <1>12 DEF TakeDue
  <2>3. turns' \in [TurnTasks -> Turn \union {NoTurn}]
    <3>1. [session |-> s, read |-> 0] \in Turn
      BY <1>0 DEF Turn
    <3> QED
      BY <1>5, <1>12, <3>1 DEF TakeDue
  <2>4. RowsFit'
    BY <1>9, <2>1
  <2> QED
    BY <1>4, <1>5, <1>6, <2>1, <2>2, <2>3, <2>4
<1>13. ASSUME NEW t \in TurnTasks, Load(t) PROVE SettleTyped'
  <2>1. turns[t] # NoTurn /\ turns' = [turns EXCEPT ![t].read = Len(log[turns[t].session])]
        /\ UNCHANGED <<log, handedOff, solversSaw, onTheWay, deadline, dueAgain, loopRuns>>
    BY <1>13 DEF Load, tableVars
  <2>2. turns[t].session \in Sessions /\ loopRuns /\ turns[t] \in Turn
    BY <1>5, <2>1, TurnIs
  <2>3. Len(log[turns[t].session]) \in 0..(MaxIn + MaxOut)
    BY <1>0, <1>2, <2>2 DEF RowsFit, LoopTypes
  <2>4. turns' \in [TurnTasks -> Turn \union {NoTurn}]
    <3>1. [turns[t] EXCEPT !.read = Len(log[turns[t].session])] \in Turn
      BY <2>2, <2>3 DEF Turn
    <3> QED
      BY <1>5, <2>1, <3>1
  <2>5. RowsFit'
    BY <1>9, <2>1
  <2> QED
    BY <1>4, <1>5, <1>6, <2>1, <2>2, <2>4, <2>5
<1>14. ASSUME NEW t \in TurnTasks, EndJudged(t) \/ EndDeferred(t) \/ EndFailed(t)
       PROVE  SettleTyped'
  <2>1. /\ turns[t].read > 0 /\ UNCHANGED <<log, handedOff, onTheWay, loopRuns>>
        /\ \E again \in BOOLEAN : Joined(t, again)
    BY <1>14 DEF EndJudged, EndDeferred, EndFailed, tableVars
  <2>2. /\ turns[t].session \in Sessions /\ turns[t].read \in 0..(MaxIn + MaxOut) /\ loopRuns
        /\ turns' \in [TurnTasks -> Turn \union {NoTurn}]
        /\ deadline' \subseteq Sessions /\ dueAgain' \subseteq Sessions
    BY <2>1, JoinedTyped
  <2>3. solversSaw' \in [Sessions -> 0..(MaxIn + MaxOut)]
    <3>1. solversSaw' = solversSaw
          \/ solversSaw' = [solversSaw EXCEPT ![turns[t].session] = Highest(@, turns[t].read)]
      BY <1>14 DEF EndJudged, EndDeferred, EndFailed, tableVars
    <3>2. Highest(solversSaw[turns[t].session], turns[t].read) \in 0..(MaxIn + MaxOut)
      <4> DEFINE most == MaxIn + MaxOut
      <4>1. /\ most \in Nat /\ solversSaw[turns[t].session] \in 0..most
            /\ turns[t].read \in 0..most
        BY <1>0, <1>5, <2>2
      <4> HIDE DEF most
      <4>2. Highest(solversSaw[turns[t].session], turns[t].read) \in 0..most
        BY <4>1, HighestIs
      <4> QED
        BY <4>2 DEF most
    <3> QED
      BY <1>5, <3>1, <3>2
  <2>4. RowsFit'
    BY <1>9, <2>1
  <2> QED
    BY <1>4, <1>5, <1>6, <2>1, <2>2, <2>3, <2>4
<1>15. CASE Halt
  <2>1. onTheWay' \in [Sessions -> Nat] /\ \A r \in Sessions : onTheWay'[r] <= onTheWay[r]
    BY <1>5, <1>15 DEF Halt
  <2>2. RowsFit'
    BY <1>2, <1>15, <2>1, RowsFitStill DEF Halt, tableVars
  <2>3. turns' \in [TurnTasks -> Turn \union {NoTurn}] /\ \A t \in TurnTasks : turns'[t] = NoTurn
    BY <1>15 DEF Halt
  <2> QED
    BY <1>4, <1>5, <1>15, <2>2, <2>3 DEF Halt, tableVars
<1>16. CASE Resume
  <2>1. deadline' \subseteq Sessions
    BY <1>16 DEF Resume
  <2>2. RowsFit'
    BY <1>9, <1>16 DEF Resume, tableVars
  <2> QED
    BY <1>4, <1>5, <1>16, <2>1, <2>2 DEF Resume, tableVars
<1>17. CASE UNCHANGED settleVars
  <2>1. UNCHANGED <<log, handedOff, solversSaw, onTheWay, deadline, turns, dueAgain, loopRuns>>
    BY <1>17 DEF settleVars
  <2>2. RowsFit'
    BY <1>9, <2>1
  <2> QED
    BY <1>4, <1>5, <1>6, <2>1, <2>2
<1> QED
  BY <1>7, <1>8, <1>10, <1>11, <1>12, <1>13, <1>14, <1>15, <1>16, <1>17 DEF SettleNext

\* The types of the turn loop: a turn that runs is of a session, has read no more
\* than was written and ends with the process (mediation/turn.rs run_turns).
THEOREM SettleTypesStay == SettleSpec => []SettleTypeOK
<1>1. LoopInv /\ LoopInv' /\ SettleTyped /\ [SettleNext]_settleVars => SettleTyped'
  BY SettleTypesKeep
<1>2. SettleTyped => SettleTypeOK
  BY DEF SettleTyped
<1> QED
  BY LoopIsSound, SettleTypesStart, <1>1, <1>2, PTL DEF SettleSpec

-----------------------------------------------------------------------------
(* The sync loop (sync_loop).                                              *)

\* Every revision a relay, the feed or a sync has was published.
RevisionTypes ==
  /\ tick \in Nat
  /\ revisions \in Seq([at: Nat, id: Nat])
  /\ holds \in [Relays -> 0..Len(revisions)]
  /\ feed \subseteq Relays \X (1..Len(revisions))
  /\ recorded \in 0..Len(revisions)
  /\ sync.got \subseteq 1..Len(revisions)

\* A replaced revision is of an earlier second than the recorded one.
ReplacedAreOlder ==
  \A i \in replaced :
    /\ i \in 1..Len(revisions) /\ recorded # 0
    /\ revisions[i].at < revisions[recorded].at

BacklogInv == RevisionTypes /\ ReplacedAreOlder

LEMMA BacklogStarts == BacklogInit => BacklogInv
  BY DEF BacklogInit, BacklogInv, RevisionTypes, ReplacedAreOlder, NoSync

LEMMA SecondsAreNumbers ==
  ASSUME RevisionTypes, NEW i \in 1..Len(revisions)
  PROVE  revisions[i].at \in Nat
<1> DEFINE Revision == [at: Nat, id: Nat]
<1>1. revisions \in Seq(Revision)
  BY DEF RevisionTypes
<1> HIDE DEF Revision
<1>2. revisions[i] \in Revision
  BY <1>1
<1> QED
  BY <1>2 DEF Revision

\* Apply records a later second, and what it replaces is older than that.
LEMMA ApplyKeeps ==
  ASSUME BacklogInv, NEW i \in 1..Len(revisions), Apply(i), UNCHANGED revisions
  PROVE  recorded' \in 0..Len(revisions') /\ ReplacedAreOlder'
<1>1. CASE ~Supersedes(i)
  BY <1>1 DEF Apply, BacklogInv, RevisionTypes, ReplacedAreOlder
<1>2. CASE recorded = 0
  BY <1>2 DEF Apply, Supersedes, BacklogInv, RevisionTypes, ReplacedAreOlder
<1>3. CASE Supersedes(i) /\ recorded # 0
  <2>1. /\ recorded' = i
        /\ replaced' = replaced \union {recorded}
        /\ revisions[recorded].at < revisions[i].at
    BY <1>3 DEF Apply, Supersedes
  <2>2. recorded \in 1..Len(revisions) /\ i # 0
    BY <1>3 DEF BacklogInv, RevisionTypes
  <2>3. revisions[recorded].at \in Nat /\ revisions[i].at \in Nat
    BY <2>2, SecondsAreNumbers DEF BacklogInv
  <2>4. ASSUME NEW j \in replaced
        PROVE  j \in 1..Len(revisions) /\ revisions[j].at < revisions[i].at
    <3>1. j \in 1..Len(revisions) /\ revisions[j].at < revisions[recorded].at
      BY DEF BacklogInv, ReplacedAreOlder
    <3>2. revisions[j].at \in Nat
      BY <3>1, SecondsAreNumbers DEF BacklogInv
    <3> QED
      BY <2>1, <2>3, <3>1, <3>2
  <2>5. ReplacedAreOlder'
    BY <2>1, <2>2, <2>4 DEF ReplacedAreOlder
  <2> QED
    BY <2>1, <2>5
<1> QED
  BY <1>1, <1>2, <1>3

\* A new revision leaves the others where they are.
LEMMA IssueKeeps ==
  ASSUME BacklogInv, NEW id \in 1..MaxRevisions, NEW reached \in SUBSET Relays,
         Issue(id, reached)
  PROVE  BacklogInv'
<1> DEFINE n == Len(revisions) + 1
<1>1. /\ revisions' = Append(revisions, [at |-> tick, id |-> id])
      /\ UNCHANGED <<tick, recorded, sync, replaced>>
  BY DEF Issue
<1>2. /\ revisions' \in Seq([at: Nat, id: Nat])
      /\ Len(revisions') = n
      /\ \A i \in 1..Len(revisions) : revisions'[i] = revisions[i]
  BY <1>1, BacklogAssumption DEF BacklogInv, RevisionTypes
<1>3. holds' \in [Relays -> 0..n]
  BY DEF Issue, BacklogInv, RevisionTypes
<1>4. feed' \subseteq Relays \X (1..n)
  <2>1. feed' \subseteq feed \union (Relays \X {n})
    BY DEF Issue
  <2>2. 1..Len(revisions) \subseteq 1..n /\ n \in 1..n
    BY DEF BacklogInv, RevisionTypes
  <2> QED
    BY <2>1, <2>2 DEF BacklogInv, RevisionTypes
<1>5. RevisionTypes'
  BY <1>1, <1>2, <1>3, <1>4 DEF BacklogInv, RevisionTypes
<1>6. ReplacedAreOlder'
  BY <1>1, <1>2 DEF BacklogInv, RevisionTypes, ReplacedAreOlder
<1> QED
  BY <1>5, <1>6 DEF BacklogInv

\* A step that records nothing, and whose feed and sync come from the relays.
LEMMA NothingRecorded ==
  ASSUME BacklogInv,
         UNCHANGED <<revisions, holds, recorded, replaced>>,
         tick' \in Nat,
         feed' \subseteq Relays \X (1..Len(revisions)),
         sync'.got \subseteq 1..Len(revisions)
  PROVE  BacklogInv'
  BY DEF BacklogInv, RevisionTypes, ReplacedAreOlder

LEMMA ConnectKeeps ==
  ASSUME BacklogInv, NEW r \in Relays, Connect(r)
  PROVE  BacklogInv'
<1>1. holds[r] # 0 => <<r, holds[r]>> \in Relays \X (1..Len(revisions))
  BY DEF BacklogInv, RevisionTypes
<1>2. feed' \subseteq Relays \X (1..Len(revisions))
  BY <1>1 DEF Connect, BacklogInv, RevisionTypes
<1> QED
  BY <1>2, NothingRecorded DEF Connect, relayVars, BacklogInv, RevisionTypes

LEMMA AnswerKeeps ==
  ASSUME BacklogInv, NEW r \in Relays, AnswerSync(r)
  PROVE  BacklogInv'
<1>1. sync'.got \subseteq sync.got \union {holds[r]} /\ (holds[r] = 0 => sync'.got = sync.got)
  BY DEF AnswerSync
<1>2. holds[r] \in 0..Len(revisions)
  BY DEF BacklogInv, RevisionTypes
<1>3. sync'.got \subseteq 1..Len(revisions)
  BY <1>1, <1>2 DEF BacklogInv, RevisionTypes
<1>4. UNCHANGED <<tick, revisions, holds, feed, recorded, replaced>>
  BY DEF AnswerSync, relayVars
<1> QED
  BY <1>3, <1>4, NothingRecorded DEF BacklogInv, RevisionTypes

LEMMA BacklogKeeps == BacklogInv /\ [BacklogNext]_backlogVars => BacklogInv'
<1> SUFFICES ASSUME BacklogInv, [BacklogNext]_backlogVars
             PROVE  BacklogInv'
  OBVIOUS
<1> USE DEF BacklogInv, RevisionTypes, relayVars
<1>1. ASSUME NEW id \in 1..MaxRevisions, NEW reached \in SUBSET Relays, Issue(id, reached)
      PROVE  BacklogInv'
  BY <1>1, IssueKeeps
<1>2. ASSUME NEW r \in Relays, Drop(r) PROVE BacklogInv'
  BY <1>2, NothingRecorded DEF Drop
<1>3. ASSUME NEW r \in Relays, Connect(r) PROVE BacklogInv'
  BY <1>3, ConnectKeeps
<1>4. ASSUME NEW r \in Relays, AnswerSync(r) PROVE BacklogInv'
  BY <1>4, AnswerKeeps
<1>5. ASSUME NEW e \in feed, HandleLive(e) PROVE BacklogInv'
  <2>1. e[2] \in 1..Len(revisions)
    BY <1>5
  <2>2. recorded' \in 0..Len(revisions') /\ ReplacedAreOlder'
    BY <1>5, <2>1, ApplyKeeps DEF HandleLive
  <2> QED
    BY <1>5, <2>2 DEF HandleLive
<1>6. ASSUME NEW i \in sync.got, ApplyNewest(i) PROVE BacklogInv'
  <2>1. recorded' \in 0..Len(revisions') /\ ReplacedAreOlder'
    BY <1>6, ApplyKeeps DEF ApplyNewest
  <2> QED
    BY <1>6, <2>1 DEF ApplyNewest, NoSync
<1>7. CASE NextTick
  BY <1>7, NothingRecorded DEF NextTick
<1>8. CASE BeginSync
  BY <1>8, NothingRecorded DEF BeginSync
<1>9. CASE EndFetch
  <2>1. sync'.got \subseteq 1..Len(revisions)
    <3>1. CASE sync.got = {}
      BY <1>9, <3>1 DEF EndFetch, NoSync
    <3>2. CASE sync.got # {}
      BY <1>9, <3>2 DEF EndFetch
    <3> QED
      BY <3>1, <3>2
  <2> QED
    BY <1>9, <2>1, NothingRecorded DEF EndFetch
<1>10. CASE TurnOff
  BY <1>10, NothingRecorded DEF TurnOff, NoSync
<1>11. CASE TurnOn
  BY <1>11, NothingRecorded DEF TurnOn
<1>12. CASE UNCHANGED backlogVars
  BY <1>12, NothingRecorded DEF backlogVars
<1> QED
  BY <1>1, <1>2, <1>3, <1>4, <1>5, <1>6, <1>7, <1>8, <1>9, <1>10, <1>11, <1>12
  DEF BacklogNext

\* Relays may replay any revision at any time, over any number of connections,
\* syncs and restarts: one that was replaced is never recorded again
\* (store/disputes.rs apply_status, daemon/sync.rs).
THEOREM ReplacedNeverReturns == BacklogSpec => []ReplacedStaysReplaced
<1>1. BacklogInv => ReplacedStaysReplaced
  <2> SUFFICES ASSUME BacklogInv, recorded \in replaced
               PROVE  FALSE
    BY DEF ReplacedStaysReplaced
  <2>1. /\ recorded \in 1..Len(revisions)
        /\ revisions[recorded].at < revisions[recorded].at
    BY DEF BacklogInv, ReplacedAreOlder
  <2>2. revisions[recorded].at \in Nat
    BY <2>1, SecondsAreNumbers DEF BacklogInv
  <2> QED
    BY <2>1, <2>2
<1> QED
  BY <1>1, BacklogStarts, BacklogKeeps, PTL DEF BacklogSpec

-----------------------------------------------------------------------------
(* The types of the sync loop.                                             *)

SyncType == [step: {"idle", "fetching", "applying"}, got: SUBSET Nat, asked: SUBSET Relays]

\* The process, its connections and what a sync has.
ProcessTypes ==
  /\ tick \in 0..LastTick
  /\ up \subseteq Relays
  /\ on \in BOOLEAN
  /\ sync \in SyncType
  /\ ~on => sync = NoSync /\ feed = {} /\ up = {}

LEMMA ProcessStarts == BacklogInit => ProcessTypes
  BY BacklogAssumption DEF BacklogInit, ProcessTypes, SyncType, NoSync

LEMMA ProcessKeeps ==
  ASSUME BacklogInv, ProcessTypes, [BacklogNext]_backlogVars PROVE ProcessTypes'
<1>0. NoSync \in SyncType /\ LastTick \in Nat
  BY BacklogAssumption DEF SyncType, NoSync
<1>1. /\ tick \in 0..LastTick /\ up \subseteq Relays /\ on \in BOOLEAN /\ sync \in SyncType
      /\ ~on => sync = NoSync /\ feed = {} /\ up = {}
  BY DEF ProcessTypes
<1>2. \A r \in Relays : holds[r] \in Nat
  BY DEF BacklogInv, RevisionTypes
<1>3. ASSUME NEW id \in 1..MaxRevisions, NEW reached \in SUBSET Relays, Issue(id, reached)
      PROVE  ProcessTypes'
  <2>1. UNCHANGED <<tick, up, sync, on>> /\ (~on => feed' = feed)
    BY <1>3 DEF Issue
  <2> QED
    BY <1>1, <2>1 DEF ProcessTypes
<1>4. ASSUME NEW r \in Relays, Drop(r) PROVE ProcessTypes'
  <2>1. UNCHANGED <<tick, sync, on>> /\ up' \subseteq up /\ feed' \subseteq feed
    BY <1>4 DEF Drop
  <2> QED
    BY <1>1, <2>1 DEF ProcessTypes
<1>5. ASSUME NEW r \in Relays, Connect(r) PROVE ProcessTypes'
  <2>1. UNCHANGED <<tick, sync, on>> /\ up' = up \union {r} /\ on
    BY <1>5 DEF Connect
  <2> QED
    BY <1>1, <2>1 DEF ProcessTypes
<1>6. ASSUME NEW r \in Relays, AnswerSync(r) PROVE ProcessTypes'
  <2>1. UNCHANGED <<tick, up, feed, on>> /\ sync.step = "fetching"
    BY <1>6 DEF AnswerSync
  <2>2. on
    BY <1>1, <2>1 DEF NoSync
  <2>3. sync' \in SyncType
    <3>1. (IF r \in up /\ holds[r] # 0 THEN sync.got \union {holds[r]} ELSE sync.got) \in SUBSET Nat
      BY <1>1, <1>2 DEF SyncType
    <3>2. sync.asked \ {r} \in SUBSET Relays
      BY <1>1 DEF SyncType
    <3> QED
      BY <1>1, <1>6, <3>1, <3>2 DEF AnswerSync, SyncType
  <2> QED
    BY <1>1, <2>1, <2>2, <2>3 DEF ProcessTypes
<1>7. ASSUME NEW e \in feed, HandleLive(e) PROVE ProcessTypes'
  <2>1. UNCHANGED <<tick, up, sync, on>> /\ on
    BY <1>7 DEF HandleLive
  <2> QED
    BY <1>1, <2>1 DEF ProcessTypes
<1>8. ASSUME NEW i \in sync.got, ApplyNewest(i) PROVE ProcessTypes'
  <2>1. UNCHANGED <<tick, up, feed, on>> /\ sync' = NoSync
    BY <1>8 DEF ApplyNewest
  <2> QED
    BY <1>0, <1>1, <2>1 DEF ProcessTypes
<1>9. CASE NextTick
  <2>1. UNCHANGED <<up, feed, sync, on>> /\ tick < LastTick /\ tick' = tick + 1
    BY <1>9 DEF NextTick
  <2>2. tick' \in 0..LastTick
    BY <1>0, <1>1, <2>1
  <2> QED
    BY <1>1, <2>1, <2>2 DEF ProcessTypes
<1>10. CASE BeginSync
  <2>1. UNCHANGED <<tick, up, feed, on>> /\ on
        /\ sync' = [step |-> "fetching", got |-> {}, asked |-> up]
    BY <1>10 DEF BeginSync
  <2>2. sync' \in SyncType
    BY <1>1, <2>1 DEF SyncType
  <2> QED
    BY <1>1, <2>1, <2>2 DEF ProcessTypes
<1>11. CASE EndFetch
  <2>1. UNCHANGED <<tick, up, feed, on>> /\ sync.step = "fetching"
        /\ sync' = IF sync.got = {} THEN NoSync ELSE [sync EXCEPT !.step = "applying"]
    BY <1>11 DEF EndFetch
  <2>2. on
    BY <1>1, <2>1 DEF NoSync
  <2>3. sync' \in SyncType
    BY <1>0, <1>1, <2>1 DEF SyncType
  <2> QED
    BY <1>1, <2>1, <2>2, <2>3 DEF ProcessTypes
<1>12. CASE TurnOff
  BY <1>0, <1>1, <1>12 DEF TurnOff, ProcessTypes
<1>13. CASE TurnOn
  BY <1>1, <1>13 DEF TurnOn, ProcessTypes
<1>14. CASE UNCHANGED backlogVars
  BY <1>1, <1>14 DEF backlogVars, ProcessTypes
<1> QED
  BY <1>3, <1>4, <1>5, <1>6, <1>7, <1>8, <1>9, <1>10, <1>11, <1>12, <1>13, <1>14
  DEF BacklogNext

\* The types of the sync loop: what a relay, the feed, a sync or the row has was
\* published, and a process that is off has none of it (daemon/sync.rs sync_loop).
THEOREM BacklogTypesStay == BacklogSpec => []BacklogTypeOK
<1>1. BacklogInv /\ ProcessTypes => BacklogTypeOK
  <2> SUFFICES ASSUME BacklogInv, ProcessTypes PROVE BacklogTypeOK
    OBVIOUS
  <2>1. DOMAIN revisions = 1..Len(revisions)
    BY DEF BacklogInv, RevisionTypes
  <2> QED
    BY <2>1 DEF BacklogInv, RevisionTypes, ProcessTypes, SyncType, BacklogTypeOK
<1>2. BacklogInv /\ ProcessTypes /\ [BacklogNext]_backlogVars => ProcessTypes'
  BY ProcessKeeps
<1> QED
  BY <1>1, <1>2, ProcessStarts, BacklogStarts, BacklogKeeps, PTL DEF BacklogSpec

-----------------------------------------------------------------------------
(* The delivery of observer notices (run_observer_notices).                *)

\* A finite set in some order, each member once.
LEMMA InSomeOrder ==
  ASSUME NEW S, IsFiniteSet(S)
  PROVE  /\ SetToSeq(S) \in Seq(S)
         /\ \A i, j \in DOMAIN SetToSeq(S) : SetToSeq(S)[i] = SetToSeq(S)[j] => i = j
<1> DEFINE n == Cardinality(S)
<1>1. n \in Nat /\ ExistsBijection(1..n, S)
  BY FS_CardinalityType
<1>2. \E f \in [1..n -> S] : IsInjective(f)
  BY <1>1 DEF ExistsBijection, Bijection, Injection
<1>3. SetToSeq(S) \in [1..n -> S] /\ IsInjective(SetToSeq(S))
  BY <1>2 DEF SetToSeq
<1> QED
  BY <1>1, <1>3 DEF IsInjective

\* A set of ids has a least one: the ids below one get fewer as one goes down.
LEMMA OldestIs ==
  ASSUME NEW n \in Nat, NEW S \in SUBSET (1..n), S # {}
  PROVE  Min(S) \in S /\ \A j \in S : Min(S) <= j
<1> DEFINE Down(i) == {j \in S : j < i}
           U == {Down(i) : i \in S}
           O == StrictSubsetOrdering(1..n)
           F == FiniteSubsetsOf(1..n)
<1>0. IsFiniteSet(1..n) /\ \A j \in S : j \in Nat
  BY FS_Interval
<1>1. IsWellFoundedOn(O, F)
  BY FS_StrictSubsetOrderingWellFounded, FS_Interval
<1>2. U \subseteq F /\ U # {}
  <2>1. \A i \in S : Down(i) \in SUBSET (1..n) /\ IsFiniteSet(Down(i))
    <3>1. \A i \in S : Down(i) \in SUBSET (1..n)
      OBVIOUS
    <3> HIDE DEF Down
    <3> QED
      BY <1>0, <3>1, FS_Subset
  <2> HIDE DEF Down
  <2>2. \A i \in S : Down(i) \in F
    BY <2>1 DEF FiniteSubsetsOf
  <2> HIDE DEF F
  <2>3. \E i : i \in S
    OBVIOUS
  <2> QED
    BY <2>2, <2>3
<1>3. PICK m \in U : \A k \in U : ~(<<k, m>> \in O)
  <2> HIDE DEF O, F, U
  <2> QED
    BY <1>1, <1>2, WFMin
<1>4. PICK low \in S : m = Down(low)
  OBVIOUS
<1>5. ASSUME NEW j \in S, j < low PROVE FALSE
  <2>1. Down(j) \subseteq Down(low) /\ j \notin Down(j) /\ j \in Down(low)
    <3>1. \A i \in S : i < j => i < low
      BY <1>0, <1>5
    <3>2. j \notin Down(j)
      BY <1>0
    <3> QED
      BY <1>5, <3>1, <3>2
  <2>2. Down(j) \in SUBSET (1..n) /\ Down(low) \in SUBSET (1..n)
    OBVIOUS
  <2>3. <<Down(j), m>> \in O
    <3> HIDE DEF Down
    <3> QED
      BY <2>1, <2>2, <1>4 DEF StrictSubsetOrdering
  <2> QED
    BY <2>3, <1>3
<1>6. \E i \in S : \A j \in S : i <= j
  BY <1>0, <1>5
<1> QED
  BY <1>6 DEF Min

\* The delay after some failures, and that it never shrinks.
LEMMA WaitIs ==
  ASSUME NEW few \in Nat, NEW many \in Nat, few <= many
  PROVE  /\ Wait(few) \in Nat /\ Wait(few) <= RetryMax
         /\ Wait(few) <= Wait(many)
<1> DEFINE Doublings(f) == IF f > 0 THEN Lesser(f - 1, MaxDoublings) ELSE 0
           Delay(k) == RetryBase * 2^k
<1>1. /\ Doublings(few) \in 0..MaxDoublings /\ Doublings(many) \in 0..MaxDoublings
      /\ Doublings(few) <= Doublings(many)
  BY ObserversAssumption DEF Lesser
<1>2. \A i, j \in 0..MaxDoublings : Delay(i) \in Nat /\ (i <= j => Delay(i) <= Delay(j))
  BY DoublingsAssumption
<1>3. \A f : Wait(f) = Lesser(Delay(Doublings(f)), RetryMax)
  BY DEF Wait
<1> HIDE DEF Doublings, Delay
<1>4. /\ Delay(Doublings(few)) \in Nat /\ Delay(Doublings(many)) \in Nat
      /\ Delay(Doublings(few)) <= Delay(Doublings(many))
  BY <1>1, <1>2
<1> QED
  BY <1>3, <1>4, ObserversAssumption DEF Lesser

\* A time before the window is further away than the window is long.
LEMMA SinceIs ==
  ASSUME NEW now \in Nat
  PROVE  Since(now) \in Nat /\ \A at \in Nat : at < Since(now) => now - at > RetryWindow
  BY ObserversAssumption DEF Since

NoticeRow == [notice: Notice, at: 1..LastTime]

\* A notice is queued once.
QueuedOnce == \A i, j \in DOMAIN queue : queue[i].notice = queue[j].notice => i = j

HasRow(n) == \E i \in DOMAIN queue : queue[i].notice = n

ObserversTypes ==
  /\ time \in 1..LastTime
  /\ configured \subseteq Observers
  /\ queue \in Seq(NoticeRow)
  /\ failed \in [Notice -> SUBSET (1..LastTime)]
  /\ notified \in [Notice -> SUBSET (1..LastTime)]
  /\ deliverer = [step |-> deliverer.step, now |-> deliverer.now, batch |-> deliverer.batch]
  /\ deliverer.step \in {"asleep", "awake", "sending", "told"}
  /\ deliverer.now \in 0..LastTime
  /\ ~booted => deliverer = Asleep
  /\ booted \in BOOLEAN
  /\ misses \in 0..MaxMisses
  /\ told \in [Notice -> Nat] /\ unheard \in [Notice -> Nat]
  /\ QueuedOnce
  /\ \A n \in Notice : ~HasRow(n) => told[n] = 0 /\ failed[n] = {}

\* The task's time is taken from the clock, and no failure is later.
DelivererTypes ==
  deliverer.step # "asleep" =>
    /\ deliverer.now \in 1..time
    /\ \A n \in Notice : \A at \in failed[n] : at <= deliverer.now

FailuresArePast == \A n \in Notice : \A at \in failed[n] : at <= time

AtABatch == deliverer.step \in {"sending", "told"}

\* What a pass read of a notice is still so when it comes to it: the task alone
\* records, and each notice is there once.
StillAsRead(i) ==
  LET n == queue[i].notice
      horizon == Since(deliverer.now)
  IN /\ i \in DOMAIN queue
     /\ queue[i].at >= horizon
     /\ StampsSince(notified[n], horizon) = {}
     /\ deliverer.batch[i] = StampsSince(failed[n], horizon)

BatchHolds ==
  /\ AtABatch => \A i \in DOMAIN deliverer.batch : StillAsRead(i)
  /\ deliverer.step = "told" => DOMAIN deliverer.batch # {}

\* What was told, and heard of, is recorded or about to be.
ToldIsRecorded ==
  \A n \in Notice :
    told[n] > unheard[n] => \/ notified[n] # {}
                            \/ deliverer.step = "told" /\ Current = n

ObserversInv ==
  /\ ObserversTypes /\ DelivererTypes /\ FailuresArePast
  /\ BatchHolds
  /\ ToldIsRecorded
  /\ NoticesAreSound

\* The notice a pass has come to is one it read, of a row of the queue.
LEMMA CurrentIs ==
  ASSUME ObserversTypes, BatchHolds, AtABatch, DOMAIN deliverer.batch # {}
  PROVE  /\ CurrentId \in DOMAIN deliverer.batch /\ StillAsRead(CurrentId)
         /\ CurrentId \in DOMAIN queue /\ Current \in Notice /\ HasRow(Current)
<1>1. DOMAIN queue = 1..Len(queue) /\ Len(queue) \in Nat
  BY DEF ObserversTypes
<1>2. \A i \in DOMAIN deliverer.batch : StillAsRead(i) /\ i \in DOMAIN queue
  BY DEF BatchHolds, StillAsRead
<1>3. CurrentId \in DOMAIN deliverer.batch
  BY <1>1, <1>2, OldestIs DEF CurrentId
<1>4. CurrentId \in DOMAIN queue /\ queue[CurrentId] \in NoticeRow
  BY <1>2, <1>3 DEF ObserversTypes
<1> QED
  BY <1>2, <1>3, <1>4 DEF Current, HasRow, NoticeRow

\* The task's record, in types.
DelivererIs ==
  /\ deliverer = [step |-> deliverer.step, now |-> deliverer.now, batch |-> deliverer.batch]
  /\ deliverer.step \in {"asleep", "awake", "sending", "told"}
  /\ deliverer.now \in 0..LastTime
  /\ ~booted => deliverer = Asleep

LEMMA AsleepIs ==
  Asleep = [step |-> "asleep", now |-> 0, batch |-> << >>] /\ DOMAIN Asleep.batch = {}
  BY DEF Asleep

\* Steps that touch no row.
LEMMA RowsStay ==
  ASSUME ObserversInv, UNCHANGED <<queue, failed, notified, misses, told>>,
         time' \in time..LastTime,
         configured' \subseteq Observers, booted' \in BOOLEAN,
         DelivererIs', DelivererTypes', BatchHolds',
         \/ /\ unheard' = unheard
            /\ deliverer.step = "told" => deliverer'.step = "told" /\ Current' = Current
         \/ /\ deliverer.step = "told" /\ Current \in Notice
            /\ unheard' = [unheard EXCEPT ![Current] = @ + 1]
  PROVE  ObserversInv'
<1>0. time \in 1..LastTime /\ LastTime \in Nat /\ time' \in 1..LastTime /\ time <= time'
  <2>1. time \in 1..LastTime /\ LastTime \in Nat
    BY ObserversAssumption DEF ObserversInv, ObserversTypes
  <2> QED
    BY <2>1
<1>u. /\ told \in [Notice -> Nat] /\ unheard \in [Notice -> Nat]
      /\ unheard' \in [Notice -> Nat]
      /\ \A n \in Notice : unheard'[n] >= unheard[n]
  <2>1. told \in [Notice -> Nat] /\ unheard \in [Notice -> Nat]
    BY DEF ObserversInv, ObserversTypes
  <2> DEFINE c == Current
  <2>2. unheard' = unheard \/ (c \in Notice /\ unheard' = [unheard EXCEPT ![c] = @ + 1])
    OBVIOUS
  <2> HIDE DEF c
  <2>3. CASE unheard' = unheard
    BY <2>1, <2>3
  <2>4. CASE c \in Notice /\ unheard' = [unheard EXCEPT ![c] = @ + 1]
    BY <2>1, <2>4
  <2> QED
    BY <2>1, <2>2, <2>3, <2>4
<1>1. ObserversTypes'
  BY <1>0, <1>u DEF ObserversInv, ObserversTypes, DelivererIs, QueuedOnce, HasRow
<1>2. FailuresArePast'
  BY <1>0 DEF ObserversInv, FailuresArePast, ObserversTypes
<1>b. \A n \in Notice : Backdated(n) => Backdated(n)' /\ notified[n] # {}
  BY DEF Backdated, Rows
<1>3. ToldIsRecorded'
  <2> SUFFICES ASSUME NEW n \in Notice, told[n] > unheard'[n], notified[n] = {}
               PROVE  deliverer'.step = "told" /\ Current' = n
    BY DEF ToldIsRecorded
  <2>1. told[n] > unheard[n]
    BY <1>u
  <2>2. deliverer.step = "told" /\ Current = n
    BY <2>1 DEF ObserversInv, ToldIsRecorded
  <2>3. ~(told[n] > 1 + unheard[n])
    BY <1>b DEF ObserversInv, NoticesAreSound, ToldOnce
  <2>4. unheard' # [unheard EXCEPT ![Current] = @ + 1]
    BY <1>u, <2>2, <2>3
  <2> QED
    BY <2>2, <2>4
<1>4. ToldOnce' /\ RetriesBackOff'
  <2>1. RetriesBackOff'
    BY DEF ObserversInv, NoticesAreSound, RetriesBackOff
  <2>2. \A n \in Notice : told[n] > 1 + unheard'[n] => told[n] > 1 + unheard[n]
    BY <1>u
  <2>3. ToldOnce'
    BY <1>b, <2>2 DEF ObserversInv, NoticesAreSound, ToldOnce
  <2> QED
    BY <2>1, <2>3
<1> QED
  BY <1>1, <1>2, <1>3, <1>4 DEF ObserversInv, NoticesAreSound

\* A pass takes its time, and reads what is pending.
LEMMA WakeKeeps ==
  ASSUME ObserversInv, Wake PROVE ObserversInv'
<1>1. deliverer' = [step |-> "awake", now |-> time, batch |-> << >>]
  BY AsleepIs DEF Wake
<1>2. /\ UNCHANGED <<time, configured, queue, failed, notified, booted, misses, told, unheard>>
      /\ booted /\ deliverer.step = "asleep"
  BY DEF Wake, eventsOfObservers
<1>3. time \in 1..LastTime /\ LastTime \in Nat
  BY ObserversAssumption DEF ObserversInv, ObserversTypes
<1>4. DelivererIs' /\ BatchHolds'
  BY <1>1, <1>2, <1>3 DEF DelivererIs, BatchHolds, AtABatch
<1>5. DelivererTypes'
  BY <1>1, <1>2, <1>3 DEF ObserversInv, DelivererTypes, FailuresArePast
<1> QED
  BY <1>2, <1>3, <1>4, <1>5, RowsStay DEF ObserversInv, ObserversTypes

LEMMA ListKeeps ==
  ASSUME ObserversInv, ListPending PROVE ObserversInv'
<1> DEFINE horizon == Since(deliverer.now)
           pending == {i \in DOMAIN queue : Undelivered(queue[i], horizon)}
           batch == [i \in pending |-> StampsSince(failed[queue[i].notice], horizon)]
<1>0. deliverer = [step |-> deliverer.step, now |-> deliverer.now, batch |-> deliverer.batch]
      /\ deliverer.step = "awake" /\ deliverer.now \in 0..LastTime /\ booted
  BY DEF ObserversInv, ObserversTypes, ListPending, Asleep
<1>1. deliverer' = [step |-> "sending", now |-> deliverer.now, batch |-> batch]
  <2>1. deliverer' = [deliverer EXCEPT !.step = "sending", !.batch = batch]
    BY DEF ListPending
  <2> HIDE DEF batch
  <2> QED
    BY <2>1, <1>0
<1>2. /\ UNCHANGED <<time, configured, queue, failed, notified, booted, misses, told, unheard>>
  BY DEF ListPending, eventsOfObservers
<1>3. time \in 1..LastTime /\ LastTime \in Nat
  BY ObserversAssumption DEF ObserversInv, ObserversTypes
<1>4. DOMAIN batch = pending
      /\ \A i \in pending : batch[i] = StampsSince(failed[queue[i].notice], horizon)
  OBVIOUS
<1>5. \A i \in pending : /\ i \in DOMAIN queue /\ queue[i].at >= horizon
                         /\ StampsSince(notified[queue[i].notice], horizon) = {}
  BY DEF Undelivered
<1> HIDE DEF pending, batch
<1>6. BatchHolds'
  BY <1>1, <1>2, <1>4, <1>5 DEF BatchHolds, AtABatch, StillAsRead
<1>7. DelivererIs'
  BY <1>0, <1>1, <1>2 DEF DelivererIs
<1>8. DelivererTypes'
  BY <1>0, <1>1, <1>2 DEF ObserversInv, DelivererTypes
<1> QED
  BY <1>0, <1>2, <1>3, <1>6, <1>7, <1>8, RowsStay DEF ObserversInv, ObserversTypes

\* The pass goes on to the next notice.
LEMMA NextNotice ==
  ASSUME ObserversTypes, AtABatch, GoesOn
  PROVE  /\ deliverer' = [step |-> "sending", now |-> deliverer.now, batch |-> deliverer'.batch]
         /\ DOMAIN deliverer'.batch = DOMAIN deliverer.batch \ {CurrentId}
         /\ \A i \in DOMAIN deliverer'.batch : deliverer'.batch[i] = deliverer.batch[i]
         /\ booted
<1> DEFINE rest == [i \in DOMAIN deliverer.batch \ {CurrentId} |-> deliverer.batch[i]]
<1>0. deliverer = [step |-> deliverer.step, now |-> deliverer.now, batch |-> deliverer.batch]
      /\ booted
  BY DEF ObserversTypes, AtABatch, Asleep
<1>1. deliverer' = [deliverer EXCEPT !.step = "sending", !.batch = rest]
  BY <1>0 DEF GoesOn
<1>2. DOMAIN rest = DOMAIN deliverer.batch \ {CurrentId}
      /\ \A i \in DOMAIN rest : rest[i] = deliverer.batch[i]
  OBVIOUS
<1> HIDE DEF rest
<1>3. deliverer' = [step |-> "sending", now |-> deliverer.now, batch |-> rest]
  BY <1>0, <1>1
<1> QED
  BY <1>0, <1>2, <1>3

\* What is not due, or dropped from the configuration, is left for a later pass.
LEMMA PassOverKeeps ==
  ASSUME ObserversInv, PassOver PROVE ObserversInv'
<1>1. /\ UNCHANGED <<time, configured, queue, failed, notified, booted, misses, told, unheard>>
      /\ GoesOn /\ deliverer.step = "sending"
  BY DEF PassOver, HasCurrent, eventsOfObservers
<1>2. /\ deliverer' = [step |-> "sending", now |-> deliverer.now, batch |-> deliverer'.batch]
      /\ DOMAIN deliverer'.batch = DOMAIN deliverer.batch \ {CurrentId}
      /\ \A i \in DOMAIN deliverer'.batch : deliverer'.batch[i] = deliverer.batch[i]
      /\ booted
  BY <1>1, NextNotice DEF ObserversInv, AtABatch
<1>3. time \in 1..LastTime /\ LastTime \in Nat /\ deliverer.now \in 0..LastTime
  BY ObserversAssumption DEF ObserversInv, ObserversTypes
<1>4. deliverer'.step = "sending" /\ deliverer'.now = deliverer.now
  BY <1>2
<1>5. BatchHolds'
  <2>1. \A i \in DOMAIN deliverer.batch : StillAsRead(i)
    BY <1>1 DEF ObserversInv, BatchHolds, AtABatch
  <2> QED
    BY <1>1, <1>2, <1>4, <2>1 DEF BatchHolds, StillAsRead
<1>6. DelivererIs' /\ DelivererTypes'
  BY <1>1, <1>2, <1>3, <1>4 DEF ObserversInv, DelivererIs, DelivererTypes
<1> QED
  BY <1>1, <1>3, <1>5, <1>6, RowsStay DEF ObserversInv, ObserversTypes

\* Time passes, a pass ends, or the process starts.
LEMMA ClockKeeps ==
  ASSUME ObserversInv, PassTime \/ Sleep \/ UNCHANGED observersVars
         \/ \E observers \in SUBSET Observers : Boot(observers)
  PROVE  ObserversInv'
<1>0. time \in 1..LastTime /\ LastTime \in Nat /\ DelivererIs /\ booted \in BOOLEAN
      /\ configured \subseteq Observers
  BY ObserversAssumption DEF ObserversInv, ObserversTypes, DelivererIs
<1>1. UNCHANGED <<queue, failed, notified, misses, told, unheard>>
  BY DEF PassTime, Sleep, Boot, eventsOfObservers, observersVars
<1>2. time' \in time..LastTime
  BY <1>0 DEF PassTime, Sleep, Boot, observersVars
<1>3. CASE Sleep
  <2>1. /\ deliverer' = Asleep /\ deliverer.step = "sending"
        /\ UNCHANGED <<configured, booted, time>>
    BY <1>3 DEF Sleep
  <2>2. DelivererIs' /\ DelivererTypes' /\ BatchHolds'
    BY <1>0, <2>1, AsleepIs DEF DelivererIs, DelivererTypes, BatchHolds, AtABatch
  <2> QED
    BY <1>0, <1>1, <1>2, <2>1, <2>2, RowsStay
<1>4. CASE PassTime \/ UNCHANGED observersVars
           \/ \E observers \in SUBSET Observers : Boot(observers)
  <2>1. /\ deliverer' = deliverer
        /\ configured' \subseteq Observers /\ booted' \in BOOLEAN
        /\ booted' # booted => booted'
    BY <1>0, <1>4 DEF PassTime, Boot, observersVars
  <2>2. DelivererIs' /\ BatchHolds'
    BY <1>0, <1>1, <2>1 DEF ObserversInv, DelivererIs, BatchHolds, AtABatch, StillAsRead
  <2>3. DelivererTypes'
    BY <1>0, <1>1, <1>2, <2>1 DEF ObserversInv, DelivererTypes
  <2>4. Current' = Current
    BY <1>1, <2>1 DEF Current, CurrentId
  <2> QED
    BY <1>1, <1>2, <2>1, <2>2, <2>3, <2>4, RowsStay
<1> QED
  BY <1>3, <1>4

\* A restart between the telling and its record: nobody hears of it.
LEMMA ShutDownKeeps ==
  ASSUME ObserversInv, ShutDown PROVE ObserversInv'
<1>1. /\ UNCHANGED <<time, configured, queue, failed, notified, misses, told>>
      /\ deliverer' = Asleep /\ booted' = FALSE
      /\ unheard' = IF deliverer.step = "told" THEN [unheard EXCEPT ![Current] = @ + 1]
                                               ELSE unheard
  BY DEF ShutDown, eventsOfObservers
<1>2. time \in 1..LastTime /\ LastTime \in Nat /\ configured \subseteq Observers
  BY ObserversAssumption DEF ObserversInv, ObserversTypes
<1>3. DelivererIs' /\ DelivererTypes' /\ BatchHolds'
  BY <1>1, <1>2, AsleepIs DEF DelivererIs, DelivererTypes, BatchHolds, AtABatch
<1>4. deliverer.step = "told" => Current \in Notice
  BY CurrentIs DEF ObserversInv, BatchHolds, AtABatch
<1>5. time' = time /\ configured' = configured /\ booted' \in BOOLEAN
  BY <1>1
<1>6. time' \in time..LastTime /\ configured' \subseteq Observers
  BY <1>2, <1>5
<1>7. UNCHANGED <<queue, failed, notified, misses, told>>
  BY <1>1
<1> QED
  BY <1>1, <1>3, <1>4, <1>5, <1>6, <1>7, RowsStay

LEMMA ObserversStart == ObserversInit => ObserversInv
<1> SUFFICES ASSUME ObserversInit PROVE ObserversInv
  OBVIOUS
<1>0. LastTime \in Nat /\ 1 \in 1..LastTime /\ 0 \in 0..MaxMisses
  BY ObserversAssumption
<1>1. /\ queue \in Seq(NoticeRow) /\ DOMAIN queue = {}
  BY DEF ObserversInit
<1>2. DelivererIs
  BY <1>0, AsleepIs DEF ObserversInit, DelivererIs
<1>3. ObserversTypes
  BY <1>0, <1>1, <1>2 DEF ObserversInit, ObserversTypes, DelivererIs, QueuedOnce, HasRow
<1>4. DelivererTypes /\ FailuresArePast /\ BatchHolds /\ ToldIsRecorded
  BY AsleepIs DEF ObserversInit, DelivererTypes, FailuresArePast, BatchHolds, ToldIsRecorded,
     AtABatch
<1>5. ToldOnce /\ RetriesBackOff
  BY DEF ObserversInit, ToldOnce, RetriesBackOff
<1> QED
  BY <1>3, <1>4, <1>5 DEF ObserversInv, NoticesAreSound

\* What a subject adds to the queue.
LEMMA NewRows ==
  ASSUME ObserversTypes, NEW subject \in Subjects, NEW T,
         T = {[notice |-> n, at |-> time] :
                n \in {m \in Notice : /\ m.subject = subject
                                      /\ m.observer \in configured
                                      /\ ~Queued(m)}}
  PROVE  /\ SetToSeq(T) \in Seq(NoticeRow)
         /\ \A j \in DOMAIN SetToSeq(T) : SetToSeq(T)[j] \in T
         /\ \A i, j \in DOMAIN SetToSeq(T) :
              SetToSeq(T)[i] = SetToSeq(T)[j] => i = j
         /\ \A row \in T : row.at = time /\ ~Queued(row.notice)
<1> DEFINE due == {m \in Notice : /\ m.subject = subject
                                  /\ m.observer \in configured
                                  /\ ~Queued(m)}
           told_to == {o \in configured : ~Queued([subject |-> subject, observer |-> o])}
           f == [o \in told_to |-> [notice |-> [subject |-> subject, observer |-> o], at |-> time]]
<1>1. IsFiniteSet(told_to)
  BY FS_Subset, ObserversAssumption DEF ObserversTypes
<1>2. \A row \in T : /\ row.at = time /\ ~Queued(row.notice) /\ row \in NoticeRow
                     /\ row.notice.observer \in told_to /\ f[row.notice.observer] = row
  <2> TAKE row \in T
  <2>1. PICK n \in due : row = [notice |-> n, at |-> time]
    OBVIOUS
  <2>2. n = [subject |-> subject, observer |-> n.observer] /\ n.observer \in told_to
    BY DEF Notice
  <2>3. f[n.observer] = row /\ row.notice = n /\ row.at = time
    <3> HIDE DEF told_to, due
    <3> QED
      BY <2>1, <2>2
  <2>4. row \in NoticeRow
    BY <2>1 DEF NoticeRow, ObserversTypes
  <2> QED
    BY <2>2, <2>3, <2>4
<1>3. \A o \in told_to : f[o] \in T
  <2> SUFFICES ASSUME NEW o \in configured, ~Queued([subject |-> subject, observer |-> o])
               PROVE  [notice |-> [subject |-> subject, observer |-> o], at |-> time] \in T
    OBVIOUS
  <2> DEFINE n == [subject |-> subject, observer |-> o]
  <2>1. n \in due
    BY DEF Notice, ObserversTypes
  <2> HIDE DEF n, due
  <2>2. [notice |-> n, at |-> time] \in {[notice |-> m, at |-> time] : m \in due}
    BY <2>1
  <2>3. [notice |-> n, at |-> time] \in T
    BY <2>2 DEF due
  <2> QED
    BY <2>3 DEF n
<1>4. f \in Surjection(told_to, T)
  <2>1. f \in [told_to -> T]
    BY <1>3
  <2> HIDE DEF f, told_to
  <2> QED
    BY <1>2, <2>1 DEF Surjection
<1>5. IsFiniteSet(T)
  BY <1>1, <1>4, FS_Surjection
<1>6. /\ SetToSeq(T) \in Seq(T)
      /\ \A i, j \in DOMAIN SetToSeq(T) : SetToSeq(T)[i] = SetToSeq(T)[j] => i = j
  BY <1>5, InSomeOrder
<1>7. T \subseteq NoticeRow
  BY <1>2
<1> HIDE DEF told_to, f
<1>8. \A q \in Seq(T) : q \in Seq(NoticeRow) /\ \A j \in DOMAIN q : q[j] \in T
  BY <1>7
<1> QED
  BY <1>2, <1>6, <1>8

\* A new row is of a notice that had none, so the ids of a pass keep theirs.
LEMMA QueueKeeps ==
  ASSUME ObserversInv, NEW subject \in Subjects, QueueSubject(subject)
  PROVE  ObserversInv'
<1> DEFINE T == {[notice |-> n, at |-> time] :
                   n \in {m \in Notice : /\ m.subject = subject
                                         /\ m.observer \in configured
                                         /\ ~Queued(m)}}
           new == SetToSeq(T)
<1>1. /\ queue' = queue \o new
      /\ UNCHANGED <<time, configured, failed, notified, deliverer, booted, misses, told, unheard>>
  BY DEF QueueSubject
<1>2. /\ new \in Seq(NoticeRow)
      /\ \A j \in DOMAIN new : new[j] \in T
      /\ \A i, j \in DOMAIN new : new[i] = new[j] => i = j
      /\ \A row \in T : row.at = time /\ ~Queued(row.notice)
  BY NewRows DEF ObserversInv
<1>3. queue \in Seq(NoticeRow)
  BY DEF ObserversInv, ObserversTypes
<1> HIDE DEF T, new
<1>4. /\ queue' \in Seq(NoticeRow)
      /\ \A i \in DOMAIN queue : i \in DOMAIN queue' /\ queue'[i] = queue[i]
      /\ \A i \in DOMAIN queue' : \/ i \in DOMAIN queue
                                  \/ /\ i - Len(queue) \in DOMAIN new
                                     /\ queue'[i] = new[i - Len(queue)]
      /\ \A i \in DOMAIN queue' : i \in Nat
      /\ Len(queue) \in Nat
  BY <1>1, <1>2, <1>3
<1>5. QueuedOnce'
  <2> SUFFICES ASSUME NEW i \in DOMAIN queue', NEW j \in DOMAIN queue',
                      queue'[i].notice = queue'[j].notice
               PROVE  i = j
    BY DEF QueuedOnce
  <2>1. CASE i \in DOMAIN queue /\ j \in DOMAIN queue
    BY <1>4, <2>1 DEF ObserversInv, ObserversTypes, QueuedOnce
  <2>2. CASE i \notin DOMAIN queue /\ j \notin DOMAIN queue
    <3> DEFINE a == i - Len(queue)
               b == j - Len(queue)
    <3>1. a \in DOMAIN new /\ b \in DOMAIN new /\ queue'[i] = new[a] /\ queue'[j] = new[b]
      BY <1>4, <2>2
    <3>2. /\ new[a] = [notice |-> new[a].notice, at |-> time]
          /\ new[b] = [notice |-> new[b].notice, at |-> time]
      BY <1>2, <3>1 DEF T
    <3>3. a = b
      <4> HIDE DEF a, b
      <4> QED
        BY <1>2, <3>1, <3>2
    <3> QED
      BY <1>4, <3>3
  <2>3. CASE i \in DOMAIN queue /\ j \notin DOMAIN queue
    <3>1. queue'[j] \in T
      BY <1>2, <1>4, <2>3
    <3> QED
      BY <1>2, <1>4, <2>3, <3>1 DEF Queued
  <2>4. CASE i \notin DOMAIN queue /\ j \in DOMAIN queue
    <3>1. queue'[i] \in T
      BY <1>2, <1>4, <2>4
    <3> QED
      BY <1>2, <1>4, <2>4, <3>1 DEF Queued
  <2> QED
    BY <2>1, <2>2, <2>3, <2>4
<1>6. ObserversTypes'
  BY <1>1, <1>4, <1>5 DEF ObserversInv, ObserversTypes, HasRow
<1>7. DelivererTypes' /\ FailuresArePast'
  BY <1>1 DEF ObserversInv, DelivererTypes, FailuresArePast
<1>8. BatchHolds' /\ (deliverer.step = "told" => Current' = Current)
  <2>1. AtABatch => \A i \in DOMAIN deliverer.batch : StillAsRead(i) /\ i \in DOMAIN queue
    BY DEF ObserversInv, BatchHolds, StillAsRead
  <2>2. BatchHolds'
    BY <1>1, <1>4, <2>1 DEF ObserversInv, BatchHolds, StillAsRead, AtABatch
  <2>3. deliverer.step = "told" => CurrentId \in DOMAIN queue
    BY CurrentIs DEF ObserversInv, BatchHolds, AtABatch
  <2>4. CurrentId' = CurrentId
    BY <1>1 DEF CurrentId
  <2> QED
    BY <1>4, <2>2, <2>3, <2>4 DEF Current
<1>9. ToldIsRecorded'
  BY <1>1, <1>8 DEF ObserversInv, ToldIsRecorded
<1>10. RetriesBackOff'
  BY <1>1 DEF ObserversInv, NoticesAreSound, RetriesBackOff
<1>11. ToldOnce'
  <2>1. \A n \in Notice : Backdated(n) => Backdated(n)'
    BY <1>1, <1>4 DEF Backdated, Rows
  <2> QED
    BY <1>1, <2>1 DEF ObserversInv, NoticesAreSound, ToldOnce
<1> QED
  BY <1>6, <1>7, <1>8, <1>9, <1>10, <1>11 DEF ObserversInv, NoticesAreSound

\* A notice told before has a record: it is older than the window, and so than
\* the row.
LEMMA TellKeeps ==
  ASSUME ObserversInv, Tell PROVE ObserversInv'
<1> DEFINE n == Current
<1>1. /\ told' = [told EXCEPT ![n] = @ + 1]
      /\ deliverer' = [deliverer EXCEPT !.step = "told"]
      /\ UNCHANGED <<time, configured, queue, failed, notified, booted, misses, unheard>>
      /\ deliverer.step = "sending" /\ DOMAIN deliverer.batch # {}
  BY DEF Tell, HasCurrent, eventsOfObservers
<1>2. /\ CurrentId \in DOMAIN deliverer.batch /\ StillAsRead(CurrentId)
      /\ CurrentId \in DOMAIN queue /\ n \in Notice /\ HasRow(n)
  BY <1>1, CurrentIs DEF ObserversInv, AtABatch
<1>3. /\ deliverer' = [step |-> "told", now |-> deliverer.now, batch |-> deliverer.batch]
      /\ booted /\ deliverer.now \in 0..LastTime
  <2>1. /\ deliverer = [step |-> deliverer.step, now |-> deliverer.now,
                        batch |-> deliverer.batch]
        /\ booted /\ deliverer.now \in 0..LastTime
    BY <1>1, AsleepIs DEF ObserversInv, ObserversTypes
  <2> QED
    BY <1>1, <2>1
<1>4. Current' = n /\ CurrentId' = CurrentId
  BY <1>1, <1>3 DEF Current, CurrentId
<1>5. /\ queue[CurrentId].notice = n /\ queue[CurrentId].at >= Since(deliverer.now)
      /\ StampsSince(notified[n], Since(deliverer.now)) = {}
  BY <1>2 DEF StillAsRead, Current
<1> HIDE DEF n
<1>6. /\ told' \in [Notice -> Nat]
      /\ told'[n] = told[n] + 1
      /\ \A m \in Notice : m # n => told'[m] = told[m]
  BY <1>1, <1>2 DEF ObserversInv, ObserversTypes
<1>7. ObserversTypes'
  BY <1>1, <1>2, <1>3, <1>6 DEF ObserversInv, ObserversTypes, QueuedOnce, HasRow
<1>8. DelivererTypes' /\ FailuresArePast'
  BY <1>1, <1>3 DEF ObserversInv, DelivererTypes, FailuresArePast
<1>9. BatchHolds'
  BY <1>1, <1>3 DEF ObserversInv, BatchHolds, StillAsRead, AtABatch
<1>10. ToldIsRecorded'
  BY <1>1, <1>3, <1>4, <1>6 DEF ObserversInv, ToldIsRecorded
<1>11. RetriesBackOff'
  BY <1>1 DEF ObserversInv, NoticesAreSound, RetriesBackOff
<1>12. ToldOnce'
  <2> SUFFICES ASSUME NEW m \in Notice, told'[m] > 1 + unheard[m]
               PROVE  Backdated(m)
    BY <1>1 DEF ToldOnce, Backdated, Rows
  <2>1. CASE m # n
    BY <1>6, <2>1 DEF ObserversInv, NoticesAreSound, ToldOnce
  <2>2. CASE m = n
    <3>1. told[n] > unheard[n]
      BY <1>2, <1>6, <2>2 DEF ObserversInv, ObserversTypes
    <3>2. PICK at \in notified[n] : TRUE
      BY <1>1, <1>2, <2>2, <3>1 DEF ObserversInv, ToldIsRecorded
    <3>3. at \in Nat /\ queue[CurrentId].at \in Nat /\ Since(deliverer.now) \in Nat
      <4>1. queue[CurrentId] \in NoticeRow /\ LastTime \in Nat
        BY <1>2, ObserversAssumption DEF ObserversInv, ObserversTypes
      <4>2. notified[n] \in SUBSET (1..LastTime)
        BY <1>2 DEF ObserversInv, ObserversTypes
      <4>3. queue[CurrentId].at \in Nat /\ at \in Nat /\ deliverer.now \in Nat
        BY <1>3, <3>2, <4>1, <4>2 DEF NoticeRow
      <4> QED
        BY <4>3, SinceIs
    <3>4. ~(at >= Since(deliverer.now))
      BY <1>5, <3>2 DEF StampsSince
    <3>5. at < queue[CurrentId].at
      BY <1>5, <3>3, <3>4
    <3> QED
      BY <1>2, <1>5, <2>2, <3>2, <3>5 DEF Backdated, Rows
  <2> QED
    BY <2>1, <2>2
<1> QED
  BY <1>7, <1>8, <1>9, <1>10, <1>11, <1>12 DEF ObserversInv, NoticesAreSound

\* A record stamps the current notice alone, so the rest of the batch is as read.
LEMMA RestIsAsRead ==
  ASSUME ObserversInv, AtABatch, GoesOn, DOMAIN deliverer.batch # {},
         UNCHANGED queue,
         \A n \in Notice : n # Current => failed'[n] = failed[n] /\ notified'[n] = notified[n]
  PROVE  BatchHolds'
<1>1. /\ deliverer' = [step |-> "sending", now |-> deliverer.now, batch |-> deliverer'.batch]
      /\ DOMAIN deliverer'.batch = DOMAIN deliverer.batch \ {CurrentId}
      /\ \A i \in DOMAIN deliverer'.batch : deliverer'.batch[i] = deliverer.batch[i]
  BY NextNotice DEF ObserversInv
<1>2. deliverer'.step = "sending" /\ deliverer'.now = deliverer.now
  BY <1>1
<1>3. CurrentId \in DOMAIN queue
  BY CurrentIs DEF ObserversInv
<1>4. ASSUME NEW i \in DOMAIN deliverer'.batch PROVE StillAsRead(i)'
  <2>1. i \in DOMAIN deliverer.batch /\ i # CurrentId
    BY <1>1
  <2>2. StillAsRead(i)
    BY <2>1 DEF ObserversInv, BatchHolds
  <2>3. i \in DOMAIN queue /\ queue[i] \in NoticeRow
    BY <2>2 DEF StillAsRead, ObserversInv, ObserversTypes
  <2>4. queue[i].notice \in Notice /\ queue[i].notice # Current
    BY <1>3, <2>1, <2>3 DEF NoticeRow, ObserversInv, ObserversTypes, QueuedOnce, Current
  <2> QED
    BY <1>1, <1>2, <2>2, <2>4 DEF StillAsRead
<1> QED
  BY <1>2, <1>4 DEF BatchHolds

\* The record of a telling.
LEMMA RecordToldKeeps ==
  ASSUME ObserversInv, RecordTold PROVE ObserversInv'
<1> DEFINE n == Current
<1>1. /\ notified' = [notified EXCEPT ![n] = @ \union {deliverer.now}]
      /\ deliverer.step = "told" /\ GoesOn /\ AtABatch
      /\ UNCHANGED <<time, configured, queue, failed, booted, misses, told, unheard>>
      /\ DOMAIN deliverer.batch # {}
  BY DEF RecordTold, AtABatch, ObserversInv, BatchHolds
<1>2. n \in Notice /\ HasRow(n)
  BY <1>1, CurrentIs DEF ObserversInv
<1>3. /\ deliverer' = [step |-> "sending", now |-> deliverer.now, batch |-> deliverer'.batch]
      /\ booted /\ deliverer.now \in 1..LastTime
  <2>1. deliverer.now \in 1..time /\ time \in 1..LastTime /\ LastTime \in Nat
    BY <1>1, ObserversAssumption DEF ObserversInv, DelivererTypes, ObserversTypes
  <2>2. deliverer.now \in 1..LastTime
    BY <2>1
  <2> QED
    BY <1>1, <2>2, NextNotice DEF ObserversInv
<1> HIDE DEF n
<1>4. deliverer'.step = "sending" /\ deliverer'.now = deliverer.now
  BY <1>3
<1>5. /\ notified' \in [Notice -> SUBSET (1..LastTime)]
      /\ notified'[n] = notified[n] \union {deliverer.now}
      /\ \A m \in Notice : m # n => notified'[m] = notified[m]
  BY <1>1, <1>2, <1>3 DEF ObserversInv, ObserversTypes
<1>6. ObserversTypes'
  <2>1. deliverer'.now \in 0..LastTime
    BY <1>1, <1>4 DEF ObserversInv, ObserversTypes
  <2> QED
    BY <1>1, <1>3, <1>4, <1>5, <2>1 DEF ObserversInv, ObserversTypes, QueuedOnce, HasRow
<1>7. DelivererTypes' /\ FailuresArePast'
  BY <1>1, <1>4 DEF ObserversInv, DelivererTypes, FailuresArePast
<1>8. BatchHolds'
  BY <1>1, <1>5, RestIsAsRead DEF n
<1>9. ToldIsRecorded'
  BY <1>1, <1>5 DEF ObserversInv, ToldIsRecorded, n
<1>10. RetriesBackOff'
  BY <1>1 DEF ObserversInv, NoticesAreSound, RetriesBackOff
<1>11. ToldOnce'
  <2>1. \A m \in Notice : Backdated(m) => Backdated(m)'
    BY <1>1, <1>5 DEF Backdated, Rows
  <2> QED
    BY <1>1, <2>1 DEF ObserversInv, NoticesAreSound, ToldOnce
<1> QED
  BY <1>6, <1>7, <1>8, <1>9, <1>10, <1>11 DEF ObserversInv, NoticesAreSound

\* The failure recorded keeps its distance from those before it.
LEMMA FailureWaits ==
  ASSUME ObserversInv, NEW taken \in BOOLEAN, FailToTell(taken),
         NEW at \in failed[Current], at < deliverer.now
  PROVE  deliverer.now - at >=
           Wait(Cardinality({t \in failed[Current] : t <= at /\ t >= Since(deliverer.now)}))
<1> DEFINE now == deliverer.now
           n == Current
           horizon == Since(now)
           recent == StampsSince(failed[n], horizon)
           before == {t \in failed[n] : t <= at /\ t >= horizon}
<1>1. /\ AtABatch /\ DOMAIN deliverer.batch # {}
      /\ Due(deliverer.batch[CurrentId], now)
  BY DEF FailToTell, HasCurrent, Tried, AtABatch
<1>2. /\ n \in Notice /\ deliverer.batch[CurrentId] = recent
  BY <1>1, CurrentIs DEF ObserversInv, StillAsRead, Current
<1>3. /\ now \in Nat /\ at \in Nat /\ failed[n] \in SUBSET (1..LastTime) /\ LastTime \in Nat
  BY <1>2, ObserversAssumption DEF ObserversInv, ObserversTypes
<1>4. horizon \in Nat /\ (at < horizon => now - at > RetryWindow)
  BY <1>3, SinceIs
<1>5. before \subseteq recent /\ recent \in SUBSET (1..LastTime)
  BY <1>3 DEF StampsSince
<1> HIDE DEF before, recent, n, now
<1>6. /\ IsFiniteSet(recent) /\ IsFiniteSet(before)
      /\ Cardinality(before) \in Nat /\ Cardinality(recent) \in Nat
      /\ Cardinality(before) <= Cardinality(recent)
  <2>1. IsFiniteSet(recent)
    <3>1. IsFiniteSet(1..LastTime)
      BY <1>3, FS_Interval
    <3> QED
      BY <1>5, <3>1, FS_Subset
  <2> QED
    BY <1>5, <2>1, FS_Subset, FS_CardinalityType
<1>7. /\ Wait(Cardinality(before)) \in Nat /\ Wait(Cardinality(recent)) \in Nat
      /\ Wait(Cardinality(before)) <= RetryMax
      /\ Wait(Cardinality(before)) <= Wait(Cardinality(recent))
  BY <1>6, WaitIs
<1>8. now - at >= Wait(Cardinality(before))
  <2>1. CASE at < horizon
    BY <1>3, <1>4, <1>7, <2>1, ObserversAssumption
  <2>2. CASE ~(at < horizon)
    <3>1. at \in recent
      BY <1>3, <1>4, <2>2 DEF recent, StampsSince, n
    <3>2. now >= at + Wait(Cardinality(recent))
      BY <1>1, <1>2, <3>1 DEF Due
    <3> QED
      BY <1>3, <1>7, <3>2
  <2> QED
    BY <2>1, <2>2
<1> QED
  BY <1>8 DEF before, n, now

\* The record of a failure.
LEMMA FailKeeps ==
  ASSUME ObserversInv, NEW taken \in BOOLEAN, FailToTell(taken) PROVE ObserversInv'
<1> DEFINE n == Current
           now == deliverer.now
<1>1. /\ failed' = [failed EXCEPT ![n] = @ \union {now}]
      /\ deliverer.step = "sending" /\ GoesOn /\ AtABatch
      /\ UNCHANGED <<time, configured, queue, notified, booted>>
      /\ misses < MaxMisses /\ misses' = misses + 1
      /\ told' = [told EXCEPT ![n] = @ + IF taken THEN 1 ELSE 0]
      /\ unheard' = [unheard EXCEPT ![n] = @ + IF taken THEN 1 ELSE 0]
      /\ DOMAIN deliverer.batch # {}
  BY DEF FailToTell, HasCurrent, AtABatch
<1>2. n \in Notice /\ HasRow(n)
  BY <1>1, CurrentIs DEF ObserversInv
<1>3. /\ deliverer' = [step |-> "sending", now |-> now, batch |-> deliverer'.batch]
      /\ booted /\ now \in 1..LastTime /\ now <= time /\ LastTime \in Nat
      /\ \A m \in Notice : \A at \in failed[m] : at <= now
  <2>1. now \in 1..time /\ time \in 1..LastTime /\ LastTime \in Nat
    BY <1>1, ObserversAssumption DEF ObserversInv, DelivererTypes, ObserversTypes
  <2>2. now \in 1..LastTime /\ now <= time
    BY <2>1
  <2>3. \A m \in Notice : \A at \in failed[m] : at <= now
    BY <1>1 DEF ObserversInv, DelivererTypes
  <2> QED
    BY <1>1, <2>1, <2>2, <2>3, NextNotice DEF ObserversInv
<1>4. /\ \A at \in failed[n] : at < now =>
           now - at >= Wait(Cardinality({t \in failed[n] : t <= at /\ t >= Since(now)}))
  BY FailureWaits
<1>5. deliverer'.now = now
  BY <1>3
<1> HIDE DEF n, now
<1>6. deliverer'.step = "sending"
  BY <1>3
<1>7. /\ failed' \in [Notice -> SUBSET (1..LastTime)]
      /\ failed'[n] = failed[n] \union {now}
      /\ \A m \in Notice : m # n => failed'[m] = failed[m]
      /\ \A m \in Notice : failed[m] \in SUBSET (1..LastTime)
  BY <1>1, <1>2, <1>3 DEF ObserversInv, ObserversTypes
<1>t. told \in [Notice -> Nat] /\ unheard \in [Notice -> Nat]
  BY DEF ObserversInv, ObserversTypes
<1>c. /\ told' \in [Notice -> Nat] /\ unheard' \in [Notice -> Nat]
      /\ misses' \in 0..MaxMisses
      /\ \A m \in Notice : m # n => told'[m] = told[m]
      /\ \A m \in Notice : told'[m] - unheard'[m] = told[m] - unheard[m]
  <2> DEFINE copies == IF taken THEN 1 ELSE 0
  <2>1. /\ told' = [told EXCEPT ![n] = @ + copies]
        /\ unheard' = [unheard EXCEPT ![n] = @ + copies]
        /\ copies \in Nat
    BY <1>1
  <2> HIDE DEF copies
  <2>2. /\ told' \in [Notice -> Nat] /\ unheard' \in [Notice -> Nat]
        /\ told'[n] = told[n] + copies /\ unheard'[n] = unheard[n] + copies
        /\ \A m \in Notice : m # n => told'[m] = told[m] /\ unheard'[m] = unheard[m]
    BY <1>2, <1>t, <2>1
  <2>3. misses' \in 0..MaxMisses
    BY <1>1, ObserversAssumption DEF ObserversInv, ObserversTypes
  <2>4. told'[n] - unheard'[n] = told[n] - unheard[n]
    BY <1>2, <1>t, <2>1, <2>2
  <2> QED
    BY <2>2, <2>3, <2>4
<1>8. ObserversTypes'
  <2>1. \A m \in Notice : ~HasRow(m)' => told'[m] = 0 /\ failed'[m] = {}
    <3>1. \A m \in Notice : HasRow(m)' <=> HasRow(m)
      BY <1>1 DEF HasRow
    <3> QED
      BY <1>2, <1>7, <1>c, <3>1 DEF ObserversInv, ObserversTypes
  <2>2. QueuedOnce' /\ time' \in 1..LastTime /\ queue' \in Seq(NoticeRow)
        /\ configured' \subseteq Observers /\ notified' \in [Notice -> SUBSET (1..LastTime)]
    BY <1>1 DEF ObserversInv, ObserversTypes, QueuedOnce
  <2>3. deliverer'.now \in 0..LastTime /\ booted'
    BY <1>1, <1>3, <1>5
  <2> QED
    BY <1>3, <1>5, <1>6, <1>7, <1>c, <2>1, <2>2, <2>3 DEF ObserversTypes
<1>9. DelivererTypes' /\ FailuresArePast'
  <2>1. \A m \in Notice : \A at \in failed'[m] : at <= now /\ at <= time
    BY <1>3, <1>7 DEF ObserversInv, FailuresArePast
  <2>2. deliverer.now = now
    BY DEF now
  <2> QED
    BY <1>1, <1>5, <2>1, <2>2 DEF ObserversInv, DelivererTypes, FailuresArePast, AtABatch
<1>10. BatchHolds'
  BY <1>1, <1>7, RestIsAsRead DEF n
<1>11. ToldIsRecorded' /\ ToldOnce'
  <2>1. \A m \in Notice : /\ told'[m] > unheard'[m] => told[m] > unheard[m]
                          /\ told'[m] > 1 + unheard'[m] => told[m] > 1 + unheard[m]
    BY <1>c, <1>t
  <2>2. \A m \in Notice : Backdated(m) => Backdated(m)'
    BY <1>1 DEF Backdated, Rows
  <2>3. ToldIsRecorded'
    BY <1>1, <2>1 DEF ObserversInv, ToldIsRecorded
  <2> QED
    BY <2>1, <2>2, <2>3 DEF ObserversInv, NoticesAreSound, ToldOnce
<1>12. RetriesBackOff'
  <2> SUFFICES ASSUME NEW m \in Notice, NEW at \in failed'[m], NEW next \in failed'[m], at < next
               PROVE  next - at >=
                        Wait(Cardinality({t \in failed'[m] : t <= at /\ t >= Since(next)}))
    BY DEF RetriesBackOff
  <2>1. at \in failed[m]
    BY <1>3, <1>7
  <2>2. {t \in failed'[m] : t <= at /\ t >= Since(next)}
          = {t \in failed[m] : t <= at /\ t >= Since(next)}
    <3>1. \A t \in failed'[m] : t <= at => t \in failed[m]
      BY <1>3, <1>7, <2>1
    <3>2. failed[m] \subseteq failed'[m]
      BY <1>7
    <3> QED
      BY <3>1, <3>2
  <2>3. CASE next \in failed[m]
    BY <2>1, <2>2, <2>3 DEF ObserversInv, NoticesAreSound, RetriesBackOff
  <2>4. CASE next \notin failed[m]
    <3>1. m = n /\ next = now
      BY <1>7, <2>4
    <3> QED
      BY <1>4, <2>1, <2>2, <3>1
  <2> QED
    BY <2>3, <2>4
<1> QED
  BY <1>8, <1>9, <1>10, <1>11, <1>12 DEF ObserversInv, NoticesAreSound

\* Every step keeps the invariant.
LEMMA ObserversKeep == ObserversInv /\ [ObserversNext]_observersVars => ObserversInv'
<1> SUFFICES ASSUME ObserversInv, [ObserversNext]_observersVars PROVE ObserversInv'
  OBVIOUS
<1>1. CASE \/ Wake \/ ListPending \/ PassOver \/ Tell \/ RecordTold \/ ShutDown
           \/ \E taken \in BOOLEAN : FailToTell(taken)
  BY <1>1, WakeKeeps, ListKeeps, PassOverKeeps, TellKeeps, RecordToldKeeps, FailKeeps,
     ShutDownKeeps
<1>2. CASE \E subject \in Subjects : QueueSubject(subject)
  BY <1>2, QueueKeeps
<1>3. CASE PassTime \/ Sleep \/ UNCHANGED observersVars
           \/ \E observers \in SUBSET Observers : Boot(observers)
  BY <1>3, ClockKeeps
<1> QED
  BY <1>1, <1>2, <1>3 DEF ObserversNext

\* An observer is told a subject once, and once more only for a copy a relay took
\* and no record tells of (a late answer, a restart), or if the record is older
\* than the notice; and each retry waits at least as long as the one before, for
\* any subjects, observers, delays, failed sends and restarts
\* (notifier/observers.rs deliver_due, due).
THEOREM NoticesStaySound == ObserversSpec => []NoticesAreSound
<1>1. ObserversInv => NoticesAreSound
  BY DEF ObserversInv
<1> QED
  BY ObserversStart, ObserversKeep, <1>1, PTL DEF ObserversSpec

\* The types of the queue, its events and the task (notifier/observers.rs).
THEOREM ObserversTypesStay == ObserversSpec => []ObserversTypeOK
<1>1. ObserversInv => ObserversTypeOK
  <2> SUFFICES ASSUME ObserversInv PROVE ObserversTypeOK
    OBVIOUS
  <2>1. queue \in Seq([notice: Notice, at: 1..LastTime])
    BY DEF ObserversInv, ObserversTypes, NoticeRow
  <2>2. ASSUME NEW n \in Notice
        PROVE  /\ Cardinality(Rows(n)) <= 1
               /\ Rows(n) = {} => told[n] = 0 /\ failed[n] = {}
    <3>1. Rows(n) = {} => told[n] = 0 /\ failed[n] = {}
      BY DEF ObserversInv, ObserversTypes, HasRow, Rows
    <3>2. CASE Rows(n) = {}
      BY <3>1, <3>2, FS_EmptySet
    <3>3. CASE Rows(n) # {}
      <4>1. PICK i \in Rows(n) : TRUE
        BY <3>3
      <4>2. Rows(n) = {i}
        BY <4>1 DEF ObserversInv, ObserversTypes, QueuedOnce, Rows
      <4>3. Cardinality({i}) = 1
        BY FS_Singleton
      <4> QED
        BY <3>1, <4>2, <4>3
    <3> QED
      BY <3>2, <3>3
  <2> QED
    BY <2>1, <2>2 DEF ObserversInv, ObserversTypes, ObserversTypeOK
<1> QED
  BY ObserversStart, ObserversKeep, <1>1, PTL DEF ObserversSpec

=============================================================================
