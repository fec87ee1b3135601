------------------------------- MODULE Settle -------------------------------
(***************************************************************************)
(* The turn loop: party messages settle into turns (src/src/mediation/     *)
(* settle.rs) and Mediator::run_turns runs each session's turn in a task   *)
(* of its own (turn.rs).  What a turn does is Mediation's; here it reads   *)
(* the messages and ends, judged, deferred or failed.                      *)
(*                                                                         *)
(* Time is abstract: a deadline of Settle passes some time after it was    *)
(* set.  The turns of the sessions in Stuck may wait for ever, on a relay  *)
(* or on the judge.                                                        *)
(***************************************************************************)
EXTENDS Naturals, Sequences, SequencesExt, FiniteSets

CONSTANTS
  Sessions,
  Stuck,          \* sessions whose turns may never end
  TurnTasks,      \* ids of the tasks that run turns
  MaxIn,          \* bound: messages of the parties
  MaxOut,         \* bound: messages of Serbero
  MaxDeferrals,   \* bound: turns deferred, failed or panicked
  MaxStops        \* bound: restarts in a behaviour

ASSUME SettleAssumption ==
  /\ Stuck \subseteq Sessions
  /\ "none" \notin Sessions
  /\ MaxIn \in Nat /\ MaxOut \in Nat /\ MaxDeferrals \in Nat /\ MaxStops \in Nat

VARIABLES
  log,        \* messages: the direction of each row of a session, by arrival
  handedOff,  \* the sessions that are handed off
  solversSaw, \* last_seen: the rows of a session the solvers were shown
  onTheWay,   \* stored messages whose session id run_turns has not received
  deadline,   \* Settle: the sessions whose turn is to come
  turns,      \* the running turns and their sessions (sessions_of)
  dueAgain,   \* sessions that fell due while their turn ran
  loopRuns,   \* the process runs
  deferrals, stops,
  judgedTo,   \* history: the last row of a session some turn judged
  dropped     \* history: the last row a failed turn or a restart left unjudged

settleVars == <<log, handedOff, solversSaw, onTheWay, deadline, turns, dueAgain,
                loopRuns, deferrals, stops, judgedTo, dropped>>

tableVars == <<log, handedOff, solversSaw>>
loopVars == <<onTheWay, deadline, turns, dueAgain>>

NoTurn == [session |-> "none", read |-> 0]

\* A spawned task has read nothing yet.
Turn == [session: Sessions, read: 0..(MaxIn + MaxOut)]

Count(direction) ==
  Cardinality({row \in Sessions \X (1..(MaxIn + MaxOut)) :
                 /\ row[2] \in DOMAIN log[row[1]]
                 /\ log[row[1]][row[2]] = direction})

BusyNever(s) == FALSE

Busy(s) == \E t \in TurnTasks : turns[t].session = s

Highest(a, b) == IF a > b THEN a ELSE b

-----------------------------------------------------------------------------
(* What the rest of the process does to the messages.                      *)

\* Inbox::handle stores a message; it has still to be forwarded.
Arrive(s) ==
  /\ loopRuns
  /\ Count("in") < MaxIn
  /\ log' = [log EXCEPT ![s] = Append(@, "in")]
  /\ onTheWay' = [onTheWay EXCEPT ![s] = @ + 1]
  /\ UNCHANGED <<handedOff, solversSaw, deadline, turns, dueAgain, loopRuns, deferrals,
                 stops, judgedTo, dropped>>

\* A turn or a timer writes to a party.
Speak(s) ==
  /\ loopRuns
  /\ s \notin handedOff
  /\ Count("out") < MaxOut
  /\ log' = [log EXCEPT ![s] = Append(@, "out")]
  /\ UNCHANGED <<handedOff, solversSaw, loopVars, loopRuns, deferrals, stops, judgedTo,
                 dropped>>

\* The brief shows the solvers the messages of that moment.
GiveUp(s) ==
  /\ loopRuns
  /\ s \notin handedOff
  /\ handedOff' = handedOff \union {s}
  /\ solversSaw' = [solversSaw EXCEPT ![s] = Len(log[s])]
  /\ UNCHANGED <<log, loopVars, loopRuns, deferrals, stops, judgedTo, dropped>>

-----------------------------------------------------------------------------
(* run_turns.                                                              *)

\* received.recv: Settle::touch.
Touch(s) ==
  /\ loopRuns
  /\ onTheWay[s] > 0
  /\ onTheWay' = [onTheWay EXCEPT ![s] = @ - 1]
  /\ deadline' = deadline \union {s}
  /\ UNCHANGED <<tableVars, turns, dueAgain, loopRuns, deferrals, stops, judgedTo, dropped>>

\* Whether the loop may start a session's turn: it awaits none.
MayTake == loopRuns

\* Settle::take_due: one session; several that are due are taken one after
\* the other.
TakeDue(s) ==
  /\ MayTake
  /\ s \in deadline
  /\ deadline' = deadline \ {s}
  /\ \/ /\ Busy(s)
        /\ dueAgain' = dueAgain \union {s}
        /\ UNCHANGED turns
     \/ /\ ~Busy(s)
        /\ \E t \in TurnTasks :
             /\ turns[t] = NoTurn
             /\ turns' = [turns EXCEPT ![t] = [session |-> s, read |-> 0]]
        /\ UNCHANGED dueAgain
  /\ UNCHANGED <<tableVars, onTheWay, loopRuns, deferrals, stops, judgedTo, dropped>>

\* run_turn loads the session's messages.
Load(t) ==
  /\ turns[t] # NoTurn /\ turns[t].read = 0
  /\ turns' = [turns EXCEPT ![t].read = Len(log[turns[t].session])]
  /\ UNCHANGED <<tableVars, onTheWay, deadline, dueAgain, loopRuns, deferrals, stops,
                 judgedTo, dropped>>

\* Whether the ended turn is touched again: it was deferred or panicked, or its
\* session fell due meanwhile.
RunsAgain(s, again) == again \/ s \in dueAgain

JoinedStillDue(t, again) ==
  LET s == turns[t].session
  IN /\ turns' = [turns EXCEPT ![t] = NoTurn]
     /\ deadline' = IF RunsAgain(s, again) THEN deadline \union {s} ELSE deadline
     /\ UNCHANGED dueAgain

\* join_next: the turn is forgotten, and perhaps due again.
Joined(t, again) ==
  LET s == turns[t].session
  IN /\ turns' = [turns EXCEPT ![t] = NoTurn]
     /\ deadline' = IF RunsAgain(s, again) THEN deadline \union {s} ELSE deadline
     /\ dueAgain' = dueAgain \ {s}

\* The turn judged what it read, or forwarded it to the solvers.
EndJudged(t) ==
  LET s == turns[t].session
  IN /\ turns[t].read > 0
     /\ judgedTo' = [judgedTo EXCEPT ![s] = Highest(@, turns[t].read)]
     /\ solversSaw' = IF s \in handedOff
                      THEN [solversSaw EXCEPT ![s] = Highest(@, turns[t].read)]
                      ELSE solversSaw
     /\ Joined(t, FALSE)
     /\ UNCHANGED <<log, handedOff, onTheWay, loopRuns, deferrals, stops, dropped>>

\* The judge is not ready, newer messages came in, or the task panicked.
EndDeferred(t) ==
  /\ turns[t].read > 0
  /\ deferrals < MaxDeferrals
  /\ deferrals' = deferrals + 1
  /\ Joined(t, TRUE)
  /\ UNCHANGED <<tableVars, onTheWay, loopRuns, stops, judgedTo, dropped>>

\* An error of the store or of a send: logged, and no turn follows.
EndFailed(t) ==
  LET s == turns[t].session
  IN /\ turns[t].read > 0
     /\ deferrals < MaxDeferrals
     /\ deferrals' = deferrals + 1
     /\ dropped' = [dropped EXCEPT ![s] = Highest(@, turns[t].read)]
     /\ Joined(t, FALSE)
     /\ UNCHANGED <<tableVars, onTheWay, loopRuns, stops, judgedTo>>

-----------------------------------------------------------------------------
(* A restart.                                                              *)

Halt ==
  /\ loopRuns
  /\ stops < MaxStops
  /\ stops' = stops + 1
  /\ loopRuns' = FALSE
  /\ onTheWay' = [s \in Sessions |-> 0]
  /\ deadline' = {} /\ dueAgain' = {}
  /\ turns' = [t \in TurnTasks |-> NoTurn]
  /\ UNCHANGED <<tableVars, deferrals, judgedTo, dropped>>

\* pending_sessions: the newest row is a party's; once handed off, some row
\* of a party was not shown to the solvers.
IsPending(s) ==
  IF s \in handedOff
  THEN \E i \in DOMAIN log[s] : i > solversSaw[s] /\ log[s][i] = "in"
  ELSE log[s] # << >> /\ Last(log[s]) = "in"

Resume ==
  /\ ~loopRuns
  /\ loopRuns' = TRUE
  /\ deadline' = {s \in Sessions : IsPending(s)}
  /\ dropped' = [s \in Sessions |->
                   IF s \notin handedOff /\ log[s] # << >> /\ Last(log[s]) = "out"
                   THEN Len(log[s]) ELSE dropped[s]]
  /\ UNCHANGED <<tableVars, onTheWay, turns, dueAgain, deferrals, stops, judgedTo>>

-----------------------------------------------------------------------------
SettleInit ==
  /\ log = [s \in Sessions |-> << >>]
  /\ handedOff = {}
  /\ solversSaw = [s \in Sessions |-> 0]
  /\ onTheWay = [s \in Sessions |-> 0]
  /\ deadline = {} /\ dueAgain = {}
  /\ turns = [t \in TurnTasks |-> NoTurn]
  /\ loopRuns = TRUE
  /\ deferrals = 0 /\ stops = 0
  /\ judgedTo = [s \in Sessions |-> 0]
  /\ dropped = [s \in Sessions |-> 0]

SettleNext ==
  \/ \E s \in Sessions : Arrive(s) \/ Speak(s) \/ GiveUp(s) \/ Touch(s) \/ TakeDue(s)
  \/ \E t \in TurnTasks : Load(t) \/ EndJudged(t) \/ EndDeferred(t) \/ EndFailed(t)
  \/ Halt \/ Resume

\* The runtime polls the loop and every task; the judge answers, except to the
\* sessions in Stuck.  No fairness is asked of a deferral or a failure.
SettleFairness ==
  /\ \A s \in Sessions : WF_settleVars(Touch(s)) /\ WF_settleVars(TakeDue(s))
  /\ \A t \in TurnTasks :
       /\ WF_settleVars(Load(t))
       /\ WF_settleVars(turns[t].session \notin Stuck /\ EndJudged(t))
  /\ WF_settleVars(Resume)

SettleSpec == SettleInit /\ [][SettleNext]_settleVars

SettleFairSpec == SettleSpec /\ SettleFairness

-----------------------------------------------------------------------------
\* A session that fell due during its turn still has one, whose end touches it
\* again (mediation/turn.rs:94-102).
NoWakeIsLost == \A s \in dueAgain : Busy(s)

\* Types.  A task holds at most one turn, and only while the process runs.
SettleTypeOK ==
  /\ log \in [Sessions -> Seq({"in", "out"})]
  /\ handedOff \subseteq Sessions
  /\ solversSaw \in [Sessions -> 0..(MaxIn + MaxOut)]
  /\ onTheWay \in [Sessions -> 0..MaxIn]
  /\ deadline \subseteq Sessions /\ dueAgain \subseteq Sessions
  /\ turns \in [TurnTasks -> Turn \union {NoTurn}]
  /\ loopRuns \in BOOLEAN
  /\ NoWakeIsLost
  /\ ~loopRuns => deadline = {} /\ \A t \in TurnTasks : turns[t] = NoTurn

\* A session has at most one turn running, whatever arrives meanwhile
\* (mediation/turn.rs:60-64).
TurnsNeverOverlap ==
  \A t, u \in TurnTasks :
    turns[t].session \in Sessions /\ turns[t].session = turns[u].session => t = u

\* A message of a party is read by a turn that ends, even if it came while a
\* turn of its session ran, before a restart, or while another session's turn
\* is stuck.  Two things drop it, as the code does: a turn that fails, and a
\* restart after Serbero wrote something newer (mediation/turn.rs run_turns,
\* pending_sessions).
EveryMessageGetsATurn ==
  \A s \in Sessions \ Stuck : \A i \in 1..(MaxIn + MaxOut) :
    i \in DOMAIN log[s] /\ log[s][i] = "in"
      ~> \/ judgedTo[s] >= i
         \/ solversSaw[s] >= i
         \/ dropped[s] >= i

=============================================================================
