----------------------------- MODULE Mediation -----------------------------
(***************************************************************************)
(* One open session: the turns over its messages (src/src/mediation/       *)
(* turn.rs), the timer ticks (timers.rs), what both do to end or move it   *)
(* (handoff.rs, guide.rs, hold.rs), and the sends to the parties           *)
(* (src/src/chat/mod.rs), beside inbound messages and the revisions that   *)
(* end its dispute.                                                        *)
(*                                                                         *)
(* Two tasks act on the session.  Each reads the store, awaits the judge,  *)
(* the relays or the solvers, and goes on with what it read; between any   *)
(* two of its steps the other task, a party or the notifier may act.  What *)
(* a task has still to do is its list of jobs: sends to a party, rounds to *)
(* count, a brief to deliver.                                              *)
(*                                                                         *)
(* The session is active and both parties got their first question, as     *)
(* Opening leaves it.  Sessions do not act on each other.                  *)
(***************************************************************************)
EXTENDS Policy

CONSTANTS
  Readings,         \* what the judge may answer
  Languages,        \* enabled languages
  DefaultLanguage,  \* [mediation].default_language
  ValidatedLanguages, \* the judge's validated_languages
  MaxRounds,        \* [mediation].max_rounds
  MaxPerTurn,       \* [mediation].max_messages_per_turn
  ResponseTimeout, SelfResolution, HandoffGrace,  \* [mediation] durations
  RetryGrace,       \* RETRY_GRACE_SECS
  Skews,            \* how far a party's clock may be from Serbero's
  Ends,             \* bound: how the dispute may end
  MaxWrites,        \* bound: messages the parties write
  MaxClock,         \* bound: the last second of a behaviour
  MaxFailures,      \* bound: messages to a party no relay accepts
  MaxCrashes        \* bound: restarts in a behaviour

ASSUME MediationAssumption ==
  /\ Readings \subseteq Facts
  /\ DefaultLanguage \in Languages
  /\ ValidatedLanguages \subseteq Languages
  /\ MaxRounds \in Nat /\ MaxPerTurn \in Nat
  /\ ResponseTimeout \in Nat /\ SelfResolution \in Nat
  /\ HandoffGrace \in Nat /\ RetryGrace \in Nat
  /\ Skews \subseteq Int
  /\ Ends \subseteq {"closed", "superseded"}
  /\ MaxWrites \in Nat /\ MaxClock \in Nat
  /\ MaxFailures \in Nat /\ MaxCrashes \in Nat

VARIABLES
  clock,        \* Unix seconds
  state,        \* sessions.state
  language,     \* sessions: the language of each party
  rounds,       \* sessions: the question rounds of each party
  messages,     \* the messages table, in arrival order
  held,         \* the latest `held` event
  guided,       \* the `guided` event
  handoff,      \* the `handoff` event
  lastSeen,     \* last_seen: the newest message covered by handoff and updates
  briefs,       \* brief_pending and brief_sent events, by what they are about
  evaluated,    \* the newest judged turn's last_message_id
  strikes,      \* flood_strike events of each party
  struck,       \* the newest flood strike's last_message_id
  due,          \* the session's turn is due (Settle, due_again)
  judge,        \* the judge passed its checks (ready_judge)
  chat,         \* the session's channels: registered in the inbox, subscribed too
  task,         \* what the turn and the timer task are doing
  failures,     \* sends that failed so far
  crashes,      \* restarts so far
  mediatedUntil, \* history: the second in which mediation ended
  shown,        \* history: messages some solver received
  switched      \* history: the number of messages when a party's language changed

rowVars == <<language, rounds, evaluated, strikes, struck>>
eventVars == <<held, guided, handoff, lastSeen, briefs>>
boundVars == <<failures, crashes>>
historyVars == <<mediatedUntil, shown, switched>>
vars == <<clock, state, language, rounds, messages, held, guided, handoff, lastSeen,
          briefs, evaluated, strikes, struck, due, judge, chat, task, failures, crashes,
          mediatedUntil, shown, switched>>

Tasks == {"turn", "timer"}

Mediating == {"active", "guiding"}

Terminal == {"closed", "superseded"}

Live == Mediating \union {"handed_off"}

Subject == {"guide", "handoff"}

Chat == {"none", "registered", "subscribed"}

NoAct == [do |-> "nothing"]

IdleTask == [step |-> "idle", then |-> "idle", now |-> 0, state |-> "active",
             read |-> 0, jobs |-> << >>, act |-> NoAct, carry |-> {}, sendAt |-> 0,
             speaks |-> [p \in Party |-> DefaultLanguage]]

Larger(a, b) == IF a > b THEN a ELSE b

-----------------------------------------------------------------------------
(* Reading the messages.  Ids are places in `messages`: a task that read   *)
(* the first n of them goes on with those, whatever arrives later.         *)

IsIn(i) == messages[i].dir = "in"
InOf(p, i) == IsIn(i) /\ messages[i].party = p
OutTo(p, i) == ~IsIn(i) /\ messages[i].party = p

Sent(p, n) == {messages[i].template : i \in {j \in 1..n : OutTo(p, j)}}

\* The last of a set of ids, 0 if there is none.
Last(ids) == IF ids = {} THEN 0 ELSE CHOOSE i \in ids : \A j \in ids : j <= i

QuestionsTo(p, n) == {i \in 1..n : OutTo(p, i) /\ IsQuestion(messages[i].template)}

LastQuestion(p, n) == Last(QuestionsTo(p, n))

\* A reply is a message that arrived after the question.
Outstanding(p, n) ==
  /\ LastQuestion(p, n) # 0
  /\ \A i \in LastQuestion(p, n)..n : ~InOf(p, i)

TemplateAt(i) == IF i = 0 THEN NoTemplate ELSE messages[i].template

\* history::from_messages.
History(n, changed) ==
  [p \in Party |->
     [sent |-> Sent(p, n),
      last |-> TemplateAt(Last({i \in 1..n : OutTo(p, i)})),
      question |-> TemplateAt(LastQuestion(p, n)),
      outstanding |-> Outstanding(p, n),
      language_changed |-> p \in changed]]

\* The transcript is ordered by the time a message carries, then by arrival.
Before(i, j) ==
  messages[i].at < messages[j].at \/ (messages[i].at = messages[j].at /\ i < j)

\* state::build: the parties with messages after Serbero's last to them.
Wrote(n) ==
  {p \in Party :
     \E i \in 1..n : InOf(p, i) /\ \A j \in 1..n : OutTo(p, j) => Before(j, i)}

\* hold::current: a question sent after its cutoff ends a hold.
Holds(n) ==
  /\ held.at # NoTime
  /\ \A i \in (held.cutoff + 1)..n : IsIn(i) \/ ~IsQuestion(messages[i].template)

Received(p, template, after) ==
  \E i \in (after + 1)..Len(messages) : OutTo(p, i) /\ messages[i].template = template

-----------------------------------------------------------------------------
(* Jobs and how a task goes through them.                                  *)

\* A send is skipped when the party received the template after message
\* `after` (NoTime: it is sent anyhow); when it must not fail, its failure
\* ends the whole list.
Send(p, template, must, after) ==
  [kind |-> "send", party |-> p, template |-> template, must |-> must, after |-> after]
Round(p) == [kind |-> "round", party |-> p]
Brief(subject) == [kind |-> "brief", about |-> subject]

\* A job there may be no need for.
OnlyIf(needed, job) == IF needed THEN <<job>> ELSE << >>

Both(template, after) ==
  <<Send("buyer", template, FALSE, after), Send("seller", template, FALSE, after)>>

\* guides: the party who acts first is told first.
GuideJobs(path) ==
  IF path = "payment_arrived"
  THEN <<Send("seller", "guide_arrived_seller", FALSE, 0),
         Send("buyer", "guide_arrived_buyer", FALSE, 0)>>
  ELSE <<Send("buyer", "guide_not_sent_buyer", FALSE, 0),
         Send("seller", "guide_not_sent_seller", FALSE, 0)>>

Questions(p, templates) ==
  [i \in 1..Len(templates) |-> Send(p, templates[i], TRUE, NoTime)]

AskJobs(act) ==
  LET of(p) == Questions(p, act.templates[p])
                 \o OnlyIf(p \in act.asks, Round(p))
  IN of("buyer") \o of("seller")

\* A task at rest keeps nothing but the time of its last tick.
AtRest(t) == IF t = "turn" THEN IdleTask ELSE [IdleTask EXCEPT !.now = task[t].now]

AtWork(k, jobs, then) ==
  [k EXCEPT !.jobs = jobs, !.then = then, !.act = NoAct, !.carry = {}, !.sendAt = 0,
            !.step = IF jobs = << >> THEN then ELSE "working"]

\* The task goes on with these jobs, or past them.
Works(t, jobs, then) ==
  task' = [task EXCEPT ![t] = IF jobs = << >> /\ then = "idle" THEN AtRest(t)
                              ELSE AtWork(task[t], jobs, then)]

Goes(t, step) == Works(t, << >>, step)

JobDone(t) == Works(t, Tail(task[t].jobs), task[t].then)

Job(t) == Head(task[t].jobs)

Doing(t, kind) == task[t].step = "working" /\ Job(t).kind = kind

-----------------------------------------------------------------------------
(* Sends to the parties (send_when).                                       *)

\* send_to_party for the notice, send_while_mediating for anything else.
\* The mistake would be to trust the state the task read.
MaySendAsRead(t) == task[t].state \in Mediating
MaySend(t) ==
  IF Job(t).template = "handoff_notice" THEN state \notin Terminal ELSE state \in Mediating

Skips(t) ==
  Job(t).after # NoTime /\ Received(Job(t).party, Job(t).template, Job(t).after)

\* A failed send ends the list or is left to a retry.
SendGivenUp(t) == IF Job(t).must THEN Goes(t, task[t].then) ELSE JobDone(t)

\* The message is wrapped, then the state is read again under the gate; the
\* gate is released before the relays get the message.
SendStarts(t) ==
  /\ Doing(t, "send")
  /\ IF Skips(t) THEN JobDone(t)
     ELSE IF MaySend(t)
     THEN task' = [task EXCEPT ![t].step = "sending", ![t].sendAt = clock]
     ELSE SendGivenUp(t)
  /\ UNCHANGED <<clock, state, rowVars, messages, eventVars, due, judge, chat,
                 boundVars, historyVars>>

\* The language of each party, in the session the task loaded.  Only turns
\* change it, and a turn loads it again after.
Speaks(t) == IF t = "turn" THEN language ELSE task[t].speaks

\* A relay accepted it: it is stored, whatever became of the session.
SendEnds(t) ==
  /\ task[t].step = "sending"
  /\ messages' = Append(messages,
       [dir |-> "out", party |-> Job(t).party, template |-> Job(t).template,
        language |-> Speaks(t)[Job(t).party], at |-> task[t].sendAt])
  /\ JobDone(t)
  /\ UNCHANGED <<clock, state, rowVars, eventVars, due, judge, chat, boundVars,
                 historyVars>>

SendFails(t) ==
  /\ task[t].step = "sending"
  /\ failures < MaxFailures
  /\ failures' = failures + 1
  /\ SendGivenUp(t)
  /\ UNCHANGED <<clock, state, rowVars, messages, eventVars, due, judge, chat, crashes,
                 historyVars>>

CountRound(t) ==
  /\ Doing(t, "round")
  /\ rounds' = [rounds EXCEPT ![Job(t).party] = @ + 1]
  /\ JobDone(t)
  /\ UNCHANGED <<clock, state, language, evaluated, strikes, struck, messages,
                 eventVars, due, judge, chat, boundVars, historyVars>>

-----------------------------------------------------------------------------
(* Briefs and updates to the solvers (handoff.rs).                         *)

\* The transcript of a brief.  The mistake would be to brief with the
\* messages the turn read.
TranscriptAsRead(t) == 1..task[t].read
Transcript(t) == 1..Len(messages)

\* brief_solvers reads the transcript, asks the judge and sends.
BriefStarts(t) ==
  /\ Doing(t, "brief")
  /\ task' = [task EXCEPT ![t].step = "briefing", ![t].carry = Transcript(t)]
  /\ UNCHANGED <<clock, state, rowVars, messages, eventVars, due, judge, chat,
                 boundVars, historyVars>>

\* It counts as delivered when a solver got every part.
BriefEnds(t) ==
  /\ task[t].step = "briefing"
  /\ \/ /\ briefs' = [briefs EXCEPT ![Job(t).about] = "sent"]
        /\ shown' = shown \union task[t].carry
     \/ UNCHANGED <<briefs, shown>>
  /\ JobDone(t)
  /\ UNCHANGED <<clock, state, rowVars, messages, held, guided, handoff, lastSeen, due,
                 judge, chat, boundVars, mediatedUntil, switched>>

\* The last of the forwarded messages, in transcript order.
Covered(ids) == CHOOSE i \in ids : \A j \in ids : j = i \/ Before(j, i)

\* forward_updates, from its deliver on: when nobody got it, the messages
\* stay unseen.
UpdateEnds ==
  /\ task["turn"].step = "updating"
  /\ LET fresh == task["turn"].carry
     IN \/ /\ lastSeen' = Larger(lastSeen, Covered(fresh))
           /\ shown' = shown \union fresh
        \/ UNCHANGED <<lastSeen, shown>>
  /\ Goes("turn", "idle")
  /\ UNCHANGED <<clock, state, rowVars, messages, held, guided, handoff, briefs, due,
                 judge, chat, boundVars, mediatedUntil, switched>>

-----------------------------------------------------------------------------
(* What ends or moves mediation.                                           *)

\* sessions::hand_off claims the session.  The mistake would be to claim
\* one that is over.
MayHandOffAny == state # "handed_off"
MayHandOff == state \in Mediating

\* hand_off: the state, the cutoff of the updates and the pending brief in
\* one transaction; then the brief and the notices.
HandsOff(t, reason, then) ==
  IF MayHandOff
  THEN /\ state' = "handed_off"
       /\ handoff' = [at |-> task[t].now, reason |-> reason]
       /\ lastSeen' = Larger(lastSeen, Len(messages))
       /\ briefs' = [briefs EXCEPT !["handoff"] = "pending"]
       /\ mediatedUntil' = clock
       /\ Works(t, <<Brief("handoff")>> \o Both("handoff_notice", 0), then)
  ELSE /\ Goes(t, then)
       /\ UNCHANGED <<state, handoff, lastSeen, briefs, mediatedUntil>>

\* guide: only from active, with its path and pending brief.
Guides(t, path) ==
  IF state = "active"
  THEN /\ state' = "guiding"
       /\ guided' = [at |-> task[t].now, path |-> path]
       /\ briefs' = [briefs EXCEPT !["guide"] = "pending"]
       /\ Works(t, <<Brief("guide")>> \o GuideJobs(path), "idle")
  ELSE /\ Goes(t, "idle")
       /\ UNCHANGED <<state, guided, briefs>>

\* hold: recorded first, at the time of the hold.
StartsHold(t) ==
  /\ held' = [at |-> clock, cutoff |-> Len(messages)]
  /\ Works(t, Both("hold_notice", Len(messages)), "idle")

\* A task carries out what was decided.
Acts(t) ==
  LET act == task[t].act
  IN /\ task[t].step = "acting"
     /\ \/ /\ act.do = "ask"
           /\ Works(t, AskJobs(act), "idle")
           /\ UNCHANGED <<state, eventVars, mediatedUntil>>
        \/ /\ act.do = "handoff"
           /\ HandsOff(t, act.reason, task[t].then)
           /\ UNCHANGED <<held, guided>>
        \/ /\ act.do = "guide"
           /\ Guides(t, act.path)
           /\ UNCHANGED <<held, handoff, lastSeen, mediatedUntil>>
        \/ /\ act.do = "hold"
           /\ StartsHold(t)
           /\ UNCHANGED <<state, guided, handoff, lastSeen, briefs, mediatedUntil>>
     /\ UNCHANGED <<clock, rowVars, messages, due, judge, chat, boundVars, shown,
                    switched>>

Acting(k, act, then) ==
  [k EXCEPT !.act = act, !.then = then, !.jobs = << >>, !.step = "acting"]

Decides(t, act, then) ==
  task' = [task EXCEPT ![t] = IF act.do = "wait" THEN AtRest(t)
                              ELSE Acting(task[t], act, then)]

-----------------------------------------------------------------------------
(* run_turn.                                                               *)

Unseen == {i \in (lastSeen + 1)..Len(messages) : IsIn(i)}

\* The session and its messages are read once.
TurnStarts ==
  /\ task["turn"].step = "idle"
  /\ due
  /\ due' = FALSE
  /\ LET begun == [IdleTask EXCEPT !.now = clock, !.state = state,
                                   !.read = Len(messages)]
         missing == IF state = "guiding" THEN GuideJobs(guided.path) ELSE << >>
     IN task' = [task EXCEPT !["turn"] =
          IF state = "handed_off" /\ Unseen # {}
          THEN [begun EXCEPT !.step = "updating", !.carry = Unseen]
          ELSE IF state = "active" THEN [begun EXCEPT !.step = "reading"]
          ELSE IF state = "guiding"
          THEN [begun EXCEPT !.step = "working", !.jobs = missing, !.then = "reading"]
          ELSE IdleTask]
  /\ UNCHANGED <<clock, state, rowVars, messages, eventVars, judge, chat, boundVars,
                 historyVars>>

\* flooded: the messages since the last judged turn or strike.  The mistake
\* would be to forget the strikes of turns that were not judged after all.
FloodingUnjudged(n) ==
  {p \in Party : Cardinality({i \in (evaluated + 1)..n : InOf(p, i)}) > MaxPerTurn}
Flooding(n) ==
  {p \in Party :
     Cardinality({i \in (Larger(evaluated, struck) + 1)..n : InOf(p, i)}) > MaxPerTurn}

\* A turn without the judge is deferred; one without new messages is
\* skipped; a flood is not judged.
TurnReads ==
  LET n == task["turn"].read
      flooding == Flooding(n)
  IN /\ task["turn"].step = "reading"
     /\ IF ~judge
        THEN Goes("turn", "idle") /\ due' = TRUE /\ UNCHANGED <<strikes, struck>>
        ELSE IF Wrote(n) = {}
        THEN Goes("turn", "idle") /\ UNCHANGED <<due, strikes, struck>>
        ELSE /\ strikes' = [p \in Party |-> strikes[p] + (IF p \in flooding THEN 1 ELSE 0)]
             /\ struck' = IF flooding = {} THEN struck ELSE n
             /\ IF \E p \in flooding : strikes'[p] >= 2
                THEN Decides("turn", HandoffFor("flood"), "idle")
                ELSE Goes("turn", "judging")
             /\ UNCHANGED due
     /\ UNCHANGED <<clock, state, language, rounds, evaluated, messages, eventVars, judge,
                    chat, boundVars, historyVars>>

\* The judge failed after its retries.
JudgeFails ==
  /\ task["turn"].step = "judging"
  /\ Decides("turn", HandoffFor("judge_unavailable"), "idle")
  /\ UNCHANGED <<clock, state, rowVars, messages, eventVars, due, judge, chat, boundVars,
                 historyVars>>

\* newer_than: a party wrote while the judge worked.
NewerThan(n) == \E i \in (n + 1)..Len(messages) : IsIn(i)

\* The turn as the policy reads it.
TurnOf(facts, n, spoken, changed) ==
  [phase |-> task["turn"].state, facts |-> facts, language |-> spoken,
   validated |-> ValidatedLanguages, rounds |-> rounds, max_rounds |-> MaxRounds,
   history |-> History(n, changed),
   heard |-> {p \in Party : \E i \in 1..n : InOf(p, i)},
   held |-> Holds(n), handoff_grace |-> HandoffGrace]

\* from_answers and update_languages: a party that wrote speaks the detected
\* language if it is enabled.  The mistake would be to take any detected one.
SpokenDetected(facts) ==
  [p \in Party |-> IF p \in facts.wrote THEN facts.language[p] ELSE language[p]]
Spoken(facts) ==
  [p \in Party |-> IF p \in facts.wrote /\ facts.language[p] \in Languages
                   THEN facts.language[p] ELSE language[p]]

JudgeAnswers(reading) ==
  LET n == task["turn"].read
      facts == [reading EXCEPT !.wrote = Wrote(n)]
      spoken == Spoken(facts)
      changed == {p \in Party : spoken[p] # language[p]}
  IN /\ task["turn"].step = "judging"
     /\ \/ /\ NewerThan(n)
           /\ due' = TRUE
           /\ Goes("turn", "idle")
           /\ UNCHANGED <<language, evaluated, switched>>
        \/ /\ ~NewerThan(n)
           /\ state # task["turn"].state
           /\ Goes("turn", "idle")
           /\ UNCHANGED <<due, language, evaluated, switched>>
        \/ /\ ~NewerThan(n)
           /\ state = task["turn"].state
           /\ language' = spoken
           /\ evaluated' = n
           /\ switched' = [p \in Party |->
                switched[p] \union (IF p \in changed THEN {Len(messages)} ELSE {})]
           /\ Decides("turn", Decide(TurnOf(facts, n, spoken, changed)), "idle")
           /\ UNCHANGED due
     /\ UNCHANGED <<clock, state, rounds, strikes, struck, messages, eventVars, judge,
                    chat, boundVars, mediatedUntil, shown>>

-----------------------------------------------------------------------------
(* tick.                                                                   *)

\* list_live, read once for every session of the tick.  Ticks are apart; the
\* last second of a behaviour stands for all that follow.
TickStarts ==
  /\ task["timer"].step = "idle"
  /\ clock > task["timer"].now \/ clock = MaxClock
  /\ state \in Live
  /\ task' = [task EXCEPT !["timer"] =
                [IdleTask EXCEPT !.now = clock, !.state = state, !.speaks = language,
                   !.step = IF state \in Mediating THEN "checking" ELSE "retrying"]]
  /\ UNCHANGED <<clock, state, rowVars, messages, eventVars, due, judge, chat, boundVars,
                 historyVars>>

\* timers::clocks.
PartyClock(p, n) ==
  LET question == LastQuestion(p, n)
      reminder == Last({i \in 1..n : OutTo(p, i) /\ messages[i].template = "reminder"})
      time(i) == IF i = 0 THEN NoTime ELSE messages[i].at
  IN [question_at |-> time(question), replied |-> ~Outstanding(p, n),
      reminded_at |-> time(reminder)]

Clocks ==
  LET n == Len(messages)
  IN [phase |-> task["timer"].state, now |-> task["timer"].now,
      party |-> [p \in Party |-> PartyClock(p, n)],
      guided_at |-> guided.at,
      held_at |-> IF Holds(n) THEN held.at ELSE NoTime]

Timeouts == [response |-> ResponseTimeout, self_resolution |-> SelfResolution,
             handoff_grace |-> HandoffGrace]

RemindJobs(parties) ==
  LET of(p) == OnlyIf(p \in parties, Send(p, "reminder", TRUE, NoTime))
  IN of("buyer") \o of("seller")

\* chat_open: registered channels count as open; others are opened now, which
\* registers them first and may then fail to subscribe.  A session whose
\* chat cannot be opened is handed off; the others are checked, with the
\* state the tick read.
TickChecks ==
  LET timer == Check(Clocks, Timeouts)
  IN /\ task["timer"].step = "checking"
     /\ \/ /\ chat' = IF chat = "none" THEN "subscribed" ELSE chat
           /\ IF timer.do = "handoff" THEN Decides("timer", timer, "retrying")
              ELSE IF timer.do = "remind"
              THEN Works("timer", RemindJobs(timer.parties), "retrying")
              ELSE Goes("timer", "retrying")
        \/ /\ chat = "none"
           /\ chat' \in {"none", "registered"}
           /\ Decides("timer", HandoffFor("opening_failed"), "retrying")
     /\ UNCHANGED <<clock, state, rowVars, messages, eventVars, due, judge, boundVars,
                    historyVars>>

\* pending_briefs.  The mistake would be to retry only the brief of the
\* handoff.
PendingBrief(subject) == OnlyIf(briefs[subject] = "pending", Brief(subject))
PendingHandoffBrief == PendingBrief("handoff")
PendingBriefs == PendingBrief("guide") \o PendingBrief("handoff")

\* hold::retry_after.
HoldRetryAfter == IF RetryGrace <= HandoffGrace \div 2 THEN RetryGrace ELSE HandoffGrace \div 2

\* What the parties did not get, by the state the tick read.  The mistake
\* would be to leave the handoff notice to the call that handed off.
MissingGuidance ==
  IF task["timer"].state = "guiding" THEN GuideJobs(guided.path) ELSE << >>
MissingNotices ==
  IF task["timer"].state = "handed_off" /\ handoff.reason # "opening_failed"
  THEN LET of(p) == OnlyIf(~Received(p, "handoff_notice", 0),
                           Send(p, "handoff_notice", FALSE, NoTime))
       IN of("buyer") \o of("seller")
  ELSE IF task["timer"].state = "guiding" THEN GuideJobs(guided.path)
  ELSE IF /\ task["timer"].state = "active"
          /\ Holds(Len(messages))
          /\ task["timer"].now - held.at >= HoldRetryAfter
  THEN Both("hold_notice", held.cutoff)
  ELSE << >>

\* retry_undelivered: a handoff or guidance that began just now is left to
\* the call that began it.
TickRetries ==
  LET started == Larger(handoff.at, guided.at)
  IN /\ task["timer"].step = "retrying"
     /\ IF started # NoTime /\ task["timer"].now - started < RetryGrace
        THEN Goes("timer", "idle")
        ELSE Works("timer", PendingBriefs \o MissingNotices, "idle")
     /\ UNCHANGED <<clock, state, rowVars, messages, eventVars, due, judge, chat,
                    boundVars, historyVars>>

-----------------------------------------------------------------------------
(* The parties, the dispute, time and restarts.                            *)

Writes == Cardinality({i \in 1..Len(messages) : IsIn(i)})

\* Inbound::handle stores a message of a live session, with the time of the
\* party's clock, and touches the settle deadline.
PartyWrites(p, skew) ==
  /\ chat = "subscribed"
  /\ state \in Live
  /\ Writes < MaxWrites
  /\ messages' = Append(messages, [dir |-> "in", party |-> p, template |-> NoTemplate,
                                   language |-> "any", at |-> clock + skew])
  /\ due' = TRUE
  /\ UNCHANGED <<clock, state, rowVars, eventVars, judge, chat, task, boundVars,
                 historyVars>>

\* The notifier applies a revision that ends the session.
DisputeEnds(end) ==
  /\ state \in Live
  /\ state' = end
  /\ mediatedUntil' = IF state \in Mediating THEN clock ELSE mediatedUntil
  /\ UNCHANGED <<clock, rowVars, messages, eventVars, due, judge, chat, task, boundVars,
                 shown, switched>>

Tick ==
  /\ clock < MaxClock
  /\ clock' = clock + 1
  /\ UNCHANGED <<state, rowVars, messages, eventVars, due, judge, chat, task, boundVars,
                 historyVars>>

JudgePassesChecks ==
  /\ ~judge
  /\ judge' = TRUE
  /\ UNCHANGED <<clock, state, rowVars, messages, eventVars, due, chat, task, boundVars,
                 historyVars>>

\* The relay watcher sends a registered subscription to a relay that connects.
RelayConnects ==
  /\ chat = "registered"
  /\ chat' = "subscribed"
  /\ UNCHANGED <<clock, state, rowVars, messages, eventVars, due, judge, task, boundVars,
                 historyVars>>

\* pending_sessions: what the store shows to be unanswered.
Pending ==
  IF state = "handed_off" THEN Unseen # {}
  ELSE state \in Mediating /\ IsIn(Len(messages))

\* Tasks, deadlines and channels are gone; resume opens the channels, or
\* fails before or after it registered them.
Restart ==
  /\ crashes < MaxCrashes
  /\ crashes' = crashes + 1
  /\ task' = [t \in Tasks |-> IF t = "turn" THEN IdleTask
                              ELSE [IdleTask EXCEPT !.now = clock]]
  /\ due' = Pending
  /\ judge' = FALSE
  /\ chat' \in Chat
  /\ UNCHANGED <<clock, state, rowVars, messages, eventVars, failures, historyVars>>

-----------------------------------------------------------------------------

Opener(p) == [dir |-> "out", party |-> p, template |-> QuestionsOf(p)[1],
              language |-> DefaultLanguage, at |-> 0]

Init ==
  /\ clock = 0
  /\ state = "active"
  /\ language = [p \in Party |-> DefaultLanguage]
  /\ rounds = [p \in Party |-> 0]
  /\ messages = <<Opener("buyer"), Opener("seller")>>
  /\ held = [at |-> NoTime, cutoff |-> 0]
  /\ guided = [at |-> NoTime, path |-> "none"]
  /\ handoff = [at |-> NoTime, reason |-> "none"]
  /\ lastSeen = 0
  /\ briefs = [s \in Subject |-> "none"]
  /\ evaluated = 0
  /\ strikes = [p \in Party |-> 0]
  /\ struck = 0
  /\ due = FALSE
  /\ judge = TRUE
  /\ chat = "subscribed"
  /\ task = [t \in Tasks |-> IdleTask]
  /\ failures = 0
  /\ crashes = 0
  /\ mediatedUntil = NoTime
  /\ shown = {}
  /\ switched = [p \in Party |-> {}]

\* What a task does whichever it is.
Proceeds(t) ==
  \/ SendStarts(t) \/ SendEnds(t) \/ SendFails(t) \/ CountRound(t)
  \/ BriefStarts(t) \/ BriefEnds(t) \/ Acts(t)

TurnNext ==
  \/ TurnStarts \/ TurnReads \/ JudgeFails \/ UpdateEnds
  \/ \E reading \in Readings : JudgeAnswers(reading)
  \/ Proceeds("turn")

TimerNext == TickStarts \/ TickChecks \/ TickRetries \/ Proceeds("timer")

Environment ==
  \/ \E p \in Party, skew \in Skews : PartyWrites(p, skew)
  \/ \E end \in Ends : DisputeEnds(end)
  \/ Tick
  \/ JudgePassesChecks
  \/ RelayConnects
  \/ Restart

Next == TurnNext \/ TimerNext \/ Environment

Spec == Init /\ [][Next]_vars

(* Both tasks are loops the runtime keeps scheduling, and every await ends: *)
(* the judge, the relays and the solvers answer or time out.  A brief sent *)
(* again and again reaches a solver one day.                               *)
BriefDelivered(t) == BriefEnds(t) /\ briefs # briefs'

Fairness ==
  /\ WF_vars(TurnNext)
  /\ WF_vars(TimerNext)
  /\ SF_vars(BriefDelivered("timer"))

FairSpec == Spec /\ Fairness

-----------------------------------------------------------------------------
(* Properties.                                                             *)

Time == Nat \union {NoTime}

Notice == {"reminder", "hold_notice", "handoff_notice", "guide_arrived_seller",
           "guide_arrived_buyer", "guide_not_sent_buyer", "guide_not_sent_seller"}

Template == {QuestionsOf(p)[i] : p \in Party, i \in 1..3}
              \union Courtesy \union Notice \union {NoTemplate}

Message == [dir : {"in", "out"}, party : Party, template : Template,
            language : Languages \union {"any"}, at : Int]

MediationTypeOK ==
  /\ clock \in Nat
  /\ state \in Live \union Terminal
  /\ language \in [Party -> Languages]
  /\ rounds \in [Party -> Nat]
  /\ messages \in Seq(Message)
  /\ held \in [at : Time, cutoff : Nat]
  /\ guided \in [at : Time, path : Path \union {"none"}]
  /\ handoff \in [at : Time, reason : HandoffReason \union {"none"}]
  /\ lastSeen \in 0..Len(messages)
  /\ briefs \in [Subject -> {"none", "pending", "sent"}]
  /\ evaluated \in 0..Len(messages)
  /\ strikes \in [Party -> Nat]
  /\ struck \in 0..Len(messages)
  /\ due \in BOOLEAN /\ judge \in BOOLEAN /\ chat \in Chat
  /\ task["turn"].step \in {"idle", "reading", "judging", "acting", "working", "sending",
                            "briefing", "updating"}
  /\ task["timer"].step \in {"idle", "checking", "retrying", "acting", "working",
                             "sending", "briefing"}
  /\ failures \in 0..MaxFailures /\ crashes \in 0..MaxCrashes
  /\ mediatedUntil \in Time
  /\ shown \subseteq 1..Len(messages)
  /\ switched \in [Party -> SUBSET (1..Len(messages))]

\* Once the session was handed off or its dispute ended, no question,
\* reminder, hold notice or guidance starts, whichever task still had it to
\* send and whatever state that task read; the handoff notice never comes
\* without a handoff (send_when reads the state again under the gate).
SilentOnceOver ==
  \A i \in 1..Len(messages) : ~IsIn(i) =>
    IF messages[i].template = "handoff_notice" THEN handoff.reason # "none"
    ELSE mediatedUntil # NoTime => messages[i].at <= mediatedUntil

\* Somebody owes an answer, or the hold runs.
Armed == Holds(Len(messages)) \/ \E p \in Party : Outstanding(p, Len(messages))

AsksNothing(act) ==
  \/ act.do = "nothing"
  \/ act.do = "ask" /\ \A p \in Party : ~AnyQuestion(act.templates[p])

\* The turn judged its messages, left the session gathering and asks nothing.
SettlesSilently ==
  /\ state = "active" /\ task["turn"].step = "judging"
  /\ evaluated' = task["turn"].read /\ evaluated' # evaluated
  /\ AsksNothing(task'["turn"].act)

\* It repeats a courtesy in a party's new language.
RepeatsACourtesy(act) ==
  /\ act.do = "ask"
  /\ \E p \in Party : \E i \in 1..Len(act.templates[p]) :
       /\ act.templates[p][i] \in Courtesy
       /\ act.templates[p][i] \in Sent(p, task["turn"].read)

\* A turn that leaves the session gathering and asks no question, by waiting
\* or by a new courtesy, leaves a party that owes an answer or a hold that
\* runs, also when the judge takes a claim back: otherwise no timer would
\* move the session again.  The decision table, the questions it picks and
\* the reply rule of the timers have to agree for this (decide, rows 10 to
\* 13; for_party; clocks).
WaitLeavesATimer ==
  [][(SettlesSilently /\ ~RepeatsACourtesy(task'["turn"].act)) => Armed]_vars

\* A party is asked the same question again only when its language changed
\* since, over all turns, reminders and resends (never repeat, 4.1).  The
\* language may have changed back: the party may have the question in it.
AskedOnce ==
  \A i, j \in 1..Len(messages) :
    /\ i < j /\ ~IsIn(i) /\ ~IsIn(j)
    /\ messages[i].party = messages[j].party
    /\ messages[i].template = messages[j].template
    /\ IsQuestion(messages[i].template)
    => \E n \in i..(j - 1) : n \in switched[messages[i].party]

\* A party is reminded at most once in a session, however many of its
\* questions stay unanswered and whatever it writes in between (clocks,
\* response).
ReminderOnce ==
  \A p \in Party :
    Cardinality({i \in 1..Len(messages) :
                   OutTo(p, i) /\ messages[i].template = "reminder"}) <= 1

\* Once the brief of the handoff is out, every message the solvers are
\* taken to have seen was really in the brief's transcript or in an update
\* some solver received, although messages keep arriving while briefs and
\* updates are on their way (the cutoff in hand_off, last_message_id in
\* forward_updates).
NothingSkipped ==
  briefs["handoff"] = "sent" =>
    \A i \in 1..lastSeen : IsIn(i) => i \in shown

\* Every flood strike of a party stands for messages over the limit that no
\* other strike stands for, although a turn that struck may be deferred or
\* skipped after and run again over the same messages (flooded).
StrikesAreEarned ==
  \A p \in Party :
    strikes[p] * (MaxPerTurn + 1) <= Cardinality({i \in 1..Len(messages) : InOf(p, i)})

\* The session row as the rest of Serbero knows it.
Life == INSTANCE SessionLife
          WITH Sessions <- {"session"}, Disputes <- {"dispute"}, None <- "none",
               state <- [s \in {"session"} |-> state],
               dispute <- [s \in {"session"} |-> "dispute"]

\* Turns, timers and revisions move the row only as its life allows: handed
\* off once, never after it ended, and guiding from active only, although
\* each acts on what it read before (guarded updates of sessions.rs).
MediationKeepsTheLife == [][Life!LifeNext]_(Life!lifeVars)

\* A pending brief reaches a solver unless the dispute ends first, also when
\* the call that made it could not deliver it or a restart cut it off
\* (retry_undelivered).
BriefArrives ==
  \A s \in Subject : (briefs[s] = "pending") ~> (briefs[s] = "sent" \/ state \in Terminal)

\* Both parties are told of a handoff, unless it was for a failed opening or
\* the dispute ends first, also when the first notice reached no relay, a
\* restart came before it, or the brief stayed pending (retry_undelivered).
Told == \A p \in Party : Received(p, "handoff_notice", 0)

PartiesAreTold ==
  (state = "handed_off" /\ handoff.reason # "opening_failed")
    ~> (Told \/ state \in Terminal)

-----------------------------------------------------------------------------
(* What the documents and comments say and the code does not do.           *)

\* docs/judgments.md 4.2: "A reply is a party message stored after the
\* question, in arrival order; the timestamp the party's client set is not
\* used."  The timers take such a message for the reply, but state::build
\* orders by that timestamp, and a turn without `latest` messages is skipped.
RepliesAreJudged ==
  [][(/\ task["turn"].step = "reading" /\ judge
      /\ task'["turn"].step = "idle")
     => \A p \in Party :
          LET n == task["turn"].read
              question == LastQuestion(p, n)
          IN \A i \in (question + 1)..n : InOf(p, i) => i <= evaluated]_vars

=============================================================================
