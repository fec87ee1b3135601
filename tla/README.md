# Serbero: a verification project

Serbero is a daemon that watches the disputes of a Mostro node (a peer-to-peer
Bitcoin exchange over Nostr), tells the human solvers about them, takes the
suitable ones as a read-only solver, talks to the buyer and the seller, and
either guides them to end the dispute themselves or hands it to the solvers
with a brief. It never moves money. This directory holds TLA+ modules of its
core, TLC configurations that check them on small instances, and TLAPS proofs.
Paths are relative to the root of the repository; the Rust code is in
`src/src`, the documents in `src/docs`.

Run `tlc -config X.cfg M` for a run of `PROJECT.json`, `tlapm M.tla` for a proof
module.

## 1. Inventory

Serbero is one process: a tokio runtime, one SQLite connection behind a mutex
(`store/mod.rs`, `SharedStore`), one Nostr client. Every lock of the store is
held for one block and never across an `.await`; what a task does between two
blocks may interleave with any other task. One statement or one explicit
`store.transaction()` is atomic on disk; everything in memory is lost at a
restart.

| Part | State it keeps | Operations | What makes it correct |
|---|---|---|---|
| **Notifier** `notifier/mod.rs`, `send.rs`, `store/disputes.rs` | `disputes` (lifecycle, newest status and its time, last notification), `notifications` | `handle_event`, `remind`, `mark_notified` | the newest revision wins in any delivery order; the lifecycle never goes back; a dispute marked notified was heard of; a silent failure is retried |
| **Opening** `mediation/mod.rs`, `eligibility.rs`, `mostro/take.rs` | `own_takes` (memory), `sessions` rows, `opening_notice_*` events | `consider`, `reconsider`, `claim`, `take`, `create_session`, `greet`, `abandon` | one take and one live session per dispute; no take before a notification; what was abandoned is noticed |
| **Sessions table** `store/sessions.rs` | state, opening time, guided/held times, languages, rounds, chat cursors | `insert`, `set_state`, `start_guiding`, `hand_off`, counters | the life of a session: over once, handed off once, one live session per dispute |
| **Inbound chat** `chat/inbound.rs`, `channels.rs`, `store/messages.rs` | `messages`, chat cursor per party, outer-event LRU and token bucket (memory), subscriptions | `handle`, `resume`, `open`, `close` | a message counts once; none is skipped by the cursor; an ended session keeps no channel |
| **Outbound chat** `chat/mod.rs` | outbound gate, `messages` | `send_to_party`, `send_while_mediating`, `send_after_close` | no message starts after its session ended, however long the relay takes |
| **Turns** `mediation/turn.rs`, `settle.rs` | settle deadlines and running turns (memory), `evaluations` | `run_turns`, `touch`, `take_due`, `run_turn` | one turn per session at a time; no message unanswered for ever; a turn never acts on a state that moved on |
| **Policy** `policy/mod.rs`, `next.rs`, `timers.rs` | none: pure functions of answers, asked questions and time | `decide`, `next_questions`, `timers::check` | the order of the rules of spec 7.3; never guide when the parties disagree; never ask without end |
| **Timers** `mediation/timers.rs` | none: reads the store every 30 s | `tick`, `tick_session`, `retry_undelivered` | a silent party is reminded once, then handed off; grace and guidance end |
| **Handoff and delivery** `mediation/handoff.rs`, `solver/mod.rs` | `handoff`, `brief_pending`, `brief_sent`, `update_sent` events | `hand_off`, `brief_solvers`, `forward_updates` | one handoff; its brief reaches a solver; later messages are forwarded |
| **Hold** `mediation/hold.rs` | `held` events, hold notices | `hold`, `send_hold_notices` | the grace runs from one moment; a new question ends the hold |
| **Guidance and closing** `mediation/guide.rs` | `guided`, `thanks_pending`, `final_report`, `finished` events | `guide`, `resend_guides`, `finish`, `finish_pending` | a guide is received by both; a resolution is recorded as reported and as finished once |
| **Observers** `notifier/observers.rs`, `mediation/observers.rs`, `store/events.rs` | `observer_pending`, `observer_notified`, `observer_failed` events | `queue`, `deliver_due` | a notice is queued once, retried with a growing delay until it arrives, dropped after a day |
| **Feedback** `mediation/feedback.rs` | `feedback` events | `parse`, `handle`, `record` | a verdict counts once and for the brief its author had received |
| **Judge** `judge/*` | none; the provider's retries | `evaluate`, `brief`, `with_retries` | a bounded number of calls; an answer outside the catalogue is an error |
| **Daemon** `daemon/mod.rs`, `sync.rs`, `relays.rs` | relays in use, tasks | `start`, `start_mediation`, `sync_backlog`, `event_loop`, `reminder_loop` | the backlog gives each dispute's newest revision; degraded mode recovers |
| **Store** `store/mod.rs`, `migrations.rs` | schema version | `open`, `apply` | a migration is applied once and whole; a newer database is refused |
| **Catalogue, texts, configuration, parsing, transport, logging, evaluation tool** | none | loading, validation, rendering, parsing | pure checks of input, or I/O |

### How they interact

```
relays --> daemon.event_loop --> Notifier.handle_event --> disputes, sessions
       \-> daemon.sync_backlog -/        |  Change::Taken / Resolved hooks
                                         v
            reminder_loop --> remind --> notify_solvers --> hook: Mediator.consider
                                                               |
   claim -> take -> create_session -> greet -> activate        v
             (node)   (chats, sessions)        \--------> abandon -> solvers
chat messages --> Inbound --> Settle --> run_turn --> judge --> policy
                                            |  ask | hold | guide | hand_off
   timers.tick -----------------------------/
   revision "final" --> finish --> thanks, final report, observers
```

The parts share the store and nothing else of weight: a task decides on what it
read in one block and acts in a later one. What protects them is (a) guarded
`UPDATE`s and a partial unique index, (b) `own_takes`, (c) the outbound gate (a
read-write lock: sends to parties are checked under the read side, the state
changes that end a session under the write side), and (d) per-dispute and
per-session mutexes in the closing and the turns.

### What is hard

- **Delivery**: relays deliver revisions and chat messages in any order, late,
  several times or only after a reconnection; two tasks apply revisions.
- **Awaits**: between the take and the insert of its session, a person may take
  the dispute over, or it may end. Between the reading of a session and a send,
  its state may change.
- **Crash**: each sequence "record, send, record that it was sent" may stop
  anywhere; pending events in the log are what survives.
- **Time**: the node stamps revisions in whole seconds and Serbero compares them
  with its own clock; deadlines race with late answers.
- **Limits**: rounds, floods, rate limits, retries, caches.

`PROJECT.json`, "hazards", lists each of them at its line.

## 2. Plan

Ordered by what would hurt most if it were wrong.

1. `SessionLife`: the abstract life of the session rows. **Done.**
2. `Notifier`, then `Opening`, which extends it; both keep `SessionLife`.
   **Done**, with `NotifierProofs` and `OpeningProofs`.
3. `Policy`: `decide`, `next_questions` and `timers::check` as operators. **Done**, with
   `PolicyProofs`: what a decision may rest on, for every case and not only the readings a
   run enumerates.
4. `Mediation`, which extends `Policy`: one session from its first questions to
   its end. **Done** as far as section 7 says, with `MediationProofs`.
5. `Inbound`: the subscription, the watcher, deduplication, rate limit, cursors and
   restarts. **Done**, with `InboundProofs`.
6. `Closing`, `Observers`, `Feedback`: what is said once a dispute is over, to
   observers, and by solvers. **Done**, with `SolverProofs` (closing and feedback) and
   `LoopProofs` (the delivery of notices).
7. `Settle`, `Judge`, `Texts`, `Backlog`: the turn loop, a call of the judge and what is
   read in its answer, the splitting of DMs, the ways a revision reaches Serbero.
   **Done**, with `LoopProofs` (the turn loop and the sync loop); `Parts` runs 6 and 7
   beside one another, with `PartsProofs` (the judge, the texts and the composition).
8. Still to come: action properties of `Mediation` beside `WaitLeavesATimer` (a handoff is
   final, a round counts once), and that `Policy`'s `Facts` are those `Judge` can read
   (`CaseFactsKnown`), so that the two meet in a theorem.

Runs keep one dispute and one or two sessions: the rule that relates two sessions is that of
`Settle` (one session's turn must not hold up another's), which has two. `Feedback` is
written and proved for any disputes; its run spends its states on the turns of one. Two
attempts on one dispute are what the guards of opening are about.

## 3. Modules

### SessionLife

The abstract specification: a row is opened for one dispute, goes through
`opening`, `active`, `guiding`, `handed_off` and ends once as `closed` or
`superseded`; a dispute has at most one row that is not over. It knows nothing
of who writes the rows.

### Notifier (`notifier/mod.rs`, `notifier/send.rs`, `store/disputes.rs`)

| Here | In the code |
|---|---|
| `row[d]` | the row of `disputes` (`absent`: none) |
| `session[a]` | the row of `sessions` inserted by the attempt `a` |
| `task[t]` | where a call of `handle_event` or `remind` is suspended |
| `due` | the list `remind` read and has still to visit |
| `ownTakes` | `OwnTakes` |
| `hooked`, `requests` | the new-dispute hook and the `consider` calls it spawned |
| `published` | every revision the node published; a relay may deliver any of them again |
| `FirstSight`, `Applies`, `Stale` | the three outcomes of `record` and `transition`, under the outbound gate and in one transaction |
| `Announce`, `Mark` | `notify_solvers`, then `mark_notified` and the hook |
| `CheckOwnTakes`, `CheckLiveSession` | the two locks of `taken_by_serbero` |
| `RemindTick`, `RemindNext` | `list_awaiting_solver` once per tick, then the second read before each DM |
| `Restart` | the process ends anywhere; the two tables stay |

`NodeOpens`, `HumanTakes`, `NodeResolves` are the environment. `seen`, `told`,
`takenChanges`, `announced` are history variables.

### Opening (`mediation/mod.rs`, `mediation/eligibility.rs`, `mostro/take.rs`)

Extends `Notifier`, whose actions it keeps as they are. An attempt is one call of
`Mediator::consider`; its `step` names the await at which it is suspended:
`claiming` between the two locks of `claim`, `node_info` and `asking` in `take`,
`creating` and `subscribing` in `create_session`, `greet_buyer`, `greet_seller`,
`activate`, `tell`, and the two ways into `abandon` (with the session, and without
one). `request[a]` is the request on its way to the node and its answer; the node
may grant it after Serbero stopped waiting. `notice[d]` is the pair of events
`opening_notice_pending`, `opening_notice_sent`. `Life` maps the sessions to
`SessionLife`.

### Policy (`policy/mod.rs`, `policy/next.rs`, `policy/timers.rs`)

No state. `Decide(turn)` is `decide`: `Rows` lists the decision table in the order
of the code and the first row whose condition holds is taken. `NextQuestions`,
`Asks` and `ForParty` are `next_questions`; `Check` is `timers::check`. A record
`facts`, a member of `Facts`, stands for `judge/facts.rs`: which claims the judge's answers
support at the thresholds. Which answers support which claim is left to the judge, so a
`Reading` is any such record.

### Mediation (`mediation/turn.rs`, `timers.rs`, `handoff.rs`, `guide.rs`, `hold.rs`, `chat/mod.rs`)

One session whose parties got their first questions. It extends `Policy`.

| Here | In the code |
|---|---|
| `state`, `language`, `rounds` | the session row |
| `messages` | its `messages` rows; the id is the place in the sequence, `at` the time the row carries |
| `held`, `guided`, `handoff`, `briefs`, `lastSeen`, `strikes`, `struck` | what the events `held`, `guided`, `handoff`, `brief_pending`/`brief_sent`, `update_sent`, `flood_strike` say |
| `evaluated` | `last_message_id` of the newest turn in `evaluations` |
| `due` | the session is in `Settle`, or `due_again` |
| `judge` | `ready_judge` is there |
| `chat` | what `Chats` knows: registered with `Inbound`, subscribed |
| `task["turn"]`, `task["timer"]` | the two tasks, each with what it read (`state`, `read`, `speaks`, `now`) and what it has still to do (`jobs`) |
| `TurnStarts`, `TurnReads`, `JudgeAnswers`, `JudgeFails` | `run_turn` before, at and after the judge |
| `TickStarts`, `TickChecks`, `TickRetries` | `list_live`, then `chat_open` and `tick_session`, then `retry_undelivered` |
| `Acts` | the arms of `match &action`, and a timer's handoff: `HandsOff`, `Guides`, `StartsHold`, `AskJobs` |
| `SendStarts`, `SendEnds`, `SendFails` | `send_when`: the check under the gate, the relays, the record |
| `BriefStarts`, `BriefEnds`, `UpdateEnds` | `brief_solvers` and `forward_updates` around their sends |

`switched[p]` is a history variable: the ids after which the language of `p` changed, which is
what allows a question to be asked again (`AskedOnce`).

A task that suspends keeps the session it loaded, as in the code: a tick decides
with the state it listed, a turn with the messages it read, and only the
statements that read the store again see what happened since.

### Settle (`mediation/settle.rs`, `mediation/turn.rs` `run_turns`, `mediation/history.rs`)

The loop around `run_turn`, for several sessions. `deadline` is `Settle` with time made
abstract: a deadline set by `Touch` passes some time later (`TakeDue`). `turns[t]` is a
spawned task and the session `sessions_of` keeps for it; `dueAgain` is `due_again`.
`Load` is where a turn reads the messages; `EndJudged`, `EndDeferred` and `EndFailed` are
how it ends, `Joined` what `join_next` does then. `Halt` and `Resume` are a restart, with
`pending_sessions` as `IsPending`. `log` has the direction of each message only;
`judgedTo` and `dropped` are history.

### Inbound (`chat/inbound.rs`, `chat/channels.rs`, `daemon/relays.rs`, `store/messages.rs`)

The chat of one session. A message is an inner event, wrapped in an outer one with a
stamp of its own, perhaps more than once.

| Here | In the code |
|---|---|
| `held`, `up`, `filter`, `pending` | external: what a relay stores, whether it is connected, the `since` of the REQ it has, what it has still to send |
| `registry`, `opening` | the registered filter of the chat, and the one `Chats::open` computed from the row it read |
| `known` | the relays `relays::watch` saw connected |
| `inbox`, `seen`, `tokens` | the channels of `Inbox`, `seen_outer`, the token buckets |
| `handling` | the event `Inbox::handle` is at: unwrapped and not stored, stored with its cursor not advanced |
| `Accept`, `Store`, `AdvanceCursor` | the steps of `handle`, in its order |
| `ReadSession`, `OpenChat`, `CloseChat` | `resume` and `chat_open`, then `Chats::open`; `close` |
| `Disconnect`, `Reconnect`, `Watch` | a lost connection; its return, when the SDK sends the REQ again or lost it; the watcher's look |

### Closing (`mediation/guide.rs` `finish`, `finish_pending`)

Three tasks close a dispute: the hook of the notifier's final revision, the sweep after
the first backlog sync, and the timers. `closer[t]` is a call of `finish`: waiting for the
mutex `finishing` (`called`), at its next send (`sending`), or between a relay's acceptance
and the record (`sent`). `jobs` is what it decided to send when it entered; `ok` and
`told` are what it makes of it at the end. `thanks`, `reports`, `finished` count rows, so
that a second one would show.

### Observers (`notifier/observers.rs`, `mediation/observers.rs`, `store/events.rs`)

`queue`, `failed` and `notified` are the three kinds of event; `QueueSubject` is `queue`,
inside the transaction of what it reports. The delivery task takes the time (`Wake`),
lists the queue (`ListPending`), then tells each observer in turn. `Undelivered`, `Wait`
and `Due` are the query and the growing delay; `batch` is what the query returned, for each
row of the queue the failures read with it, visited from the oldest (`CurrentId`, `GoesOn`).
A send to any observer succeeds (`Tell`, then `RecordTold`) or fails (`FailToTell`): an error, or
`SEND_TIMEOUT`, which may pass although a relay took the notice. A restart may come between
the two steps of a success and may change who is configured. `told` counts the copies relays
took and `unheard` those of them no record tells of; both are history.

### Feedback (`mediation/feedback.rs`)

Two disputes with their turns, briefs (`courier`, one of the turn's and one of the
timers') and the replies of solvers, matched by stamps alone: the turn's start, the
moment before the brief was sent, and the solver's own clock (`Matches`). `Sent` is the event
a delivered brief leaves, `BriefOf` the brief a reply is matched with. What existed when a
brief was stamped (`exist`), and the brief each row of feedback came from, are kept as
history: they are what the properties compare with, and no code reads them.

### Judge (`judge/mod.rs`, `facts.rs`, `questions.rs`, `brief.rs`, `providers/typesafe.rs`)

The question sets (`ForTurn`, `ForState`), the startup checks (`Startup`), one call with its
retries (`FailStatus`, `AnswerWith`), the check of an answer (`CheckAnswers`) and what is
read in it: `CaseFactsKnown`, `NewLanguage`, `KindOf`, `QuoteOf`. A probability is a number of
`Unit`s. `CaseFactsKnown` is the `facts` that `Policy` starts from. `InOrder` lists message
ids in the order of the transcript, of which `MessageIds` keeps the newest.

### Texts (`solver/mod.rs` `transcript`, `update`, `chunk`)

The loop that splits what solvers read into DMs, one iteration a step. A line is its
length; a body is the pieces of lines it has.

### Backlog (`daemon/mod.rs`, `daemon/sync.rs`, `daemon/relays.rs`)

How a revision arrives at all: the live subscription with its `since`, the watcher that
sends it again, `sync_loop` with its timeout and `newest_revisions`. What recording one does
to mediation is `Notifier`'s.

### Parts, MCParts

`Settle`, `Closing`, `Observers`, `Feedback`, `Judge`, `Texts` and `Backlog` have no variable in
common: what one does to the tables of another is in the other as an action of its
environment (a turn's messages in `Settle`, a final revision in `Closing`). Their product
would multiply states that cannot influence one another, so `Parts` lets a behaviour
choose one of them and run it, the others standing still: a disjoint sum of seven
state spaces, checked in one run, each with one invariant that is a conjunction of its
named parts. `PartsProgress` states the liveness of five of them, each under its own fairness.
`PartsProofs` shows that nothing is lost: a behaviour of `Parts` is one of each of the parts.

## 4. Runs

| Run | Instance | Shows |
|---|---|---|
| `MCNotifier` | 1 dispute, event loop and backlog sync, reminder always due, seconds 0..2, 1 restart, fair | `NotifierTypeOK`, `NewestWins`, `TakenOnce`, `NotifiedWasHeard`, `LifecycleForward`, `SolversEventuallyHear` |
| `MCOpening` | 2 attempts (symmetric), no restart, seconds 0..1 | `OpeningTypeOK`, `TakesNeverOverlap`, `OneLiveSession`, `OnlyPeopleSupersede`, `OwnTakeAnnouncedAsOwn`, `SessionsHaveALife` |
| `MCOpeningRestart` | 1 attempt, 1 restart, seconds 0..1, fair | `AbandonedIsNoticed`, `NotificationComesFirst`, `AttemptsReturn`, `NoticeArrives` |
| `MCDialogue` | 3 messages, 2 languages, 6 readings, no time | `MediationTypeOK`, `AskedOnce`, `WaitLeavesATimer` |
| `MCTimers` | 1 message, 2 languages, 2 readings, 1 failed send, seconds 0..3 | `ReminderOnce`, `AskedOnce` |
| `MCMediation` | 2 messages dated at arrival or a second before, 2 readings, seconds 0..1, the dispute may end at any point, every message floods | `SilentOnceOver`, `NothingSkipped`, `StrikesAreEarned`, `MediationKeepsTheLife` |
| `MCMediationRestart` | 1 message, a judge that guides, 1 restart, fair | `NothingSkipped`, `BriefArrives`, `PartiesAreTold` |
| `MCInbound` | 3 messages of 2 parties, 2 outer events, 1 relay, seconds 1..2, a party's clock 0 or 1 ahead, `seen_outer` of 1, a burst of 1, 1 lost connection, 1 restart, fair | `InboundTypeOK`, `InboundIsSound` (`StoredOnce`, `CursorIsEarned`, `NothingMoreOnceEnded`), `MessagesArrive` |
| `MCParts` | `Settle`: 2 sessions, one of them stuck, 2 messages, 1 of Serbero, 1 deferral, 1 restart. `Closing`: 2 solvers, 2 lost sends, 1 restart, days 0..2. `Observers`: 2, 1 subject, 3 failed sends of which any may have reached its observer, seconds 1..5, a window of 3, 1 restart with any configuration. `Feedback`: 1 dispute, 1 solver, 3 evaluations, 2 briefs, 1 reply, seconds 1..2, a clock 1 second off. `Judge`: 2 languages, thirds, 2 retries. `Texts`: 2 limits, both kinds, up to 3 lines of 1..6 and one of 103 characters. `Backlog`: 2 relays, 2 revisions, 2 faults | `PartsTypeOK`, `TurnsNeverOverlap`, `ClosingIsSound`, `NoticesAreSound`, `FeedbackIsSound`, `ReadingIsSound`, `DmsAreSound`, `ReplacedStaysReplaced`, `PartsProgress` |

What the properties of these say, part by part:

- `InboundIsSound`: a message is stored once, however often it is wrapped, sent by two
  relays, forgotten by the bounded set or replayed; a cursor stands for a stored message
  and is never ahead of the clock; at most the message in hand is stored after the end.
- `MessagesArrive`: what a relay has is stored in the end, unless the session ended, the
  rate limit dropped it, or both cursors passed it.
- `TurnsNeverOverlap`, and in `PartsProgress` that every message is read by a turn that
  ends, also beside a session that hangs for ever.
- `ClosingIsSound`: no thanks and no report is recorded twice (a restart between a relay's
  acceptance and the record repeats the send); `finished` means done; thanks are earned. In
  `PartsProgress`: the closing is finished within the look-back.
- `NoticesAreSound`: an observer is told once, and once more for each copy a relay took and
  no record tells of: its answer came after `SEND_TIMEOUT`, or a restart cut off the record.
  The exception is a record older than the notice. Failures wait longer each time. In
  `PartsProgress` (`NoticesArrive`): a queued notice arrives, whichever sends failed before,
  unless its day passes, the configuration drops the observer, or the run ends before its
  next retry.
- `FeedbackIsSound`: `OneTurnUnseen`, a reply blames an evaluation that existed when the brief
  it is matched with was stamped, or the one turn then at the judge, or a turn begun in that
  second; `NothingShownIsPassedOver`, no judgment of the question that existed then is
  passed over for an older one; `NoOlderBriefIsTaken`, the brief is none before the one the
  solver answered, if its clock is off by no more than `CLOCK_SKEW_SECS`. The run has the three
  evaluations it takes to tell one turn the solver did not see from two; that a reply finds
  its brief among several disputes is left to `FeedbackStaysSound`.
- `ReadingIsSound`: of the claims of one choice at most one is known; language and kind
  need a majority; a quote is of its party; a call's waits are capped and only an
  overload is tried again.
- `DmsAreSound`: the pieces written are the lines, whole and in order, no DM too long (but
  see below). In `PartsProgress`: the loop ends.
- `ReplacedStaysReplaced`, and in `PartsProgress` that the newest revision is recorded
  although relays miss it, drop, or answer a sync too late.

Three more runs each check one sentence of a document or of a comment which the
code does not keep; TLC gives the steps (`PROJECT.json`, "findings"):

| Run | Sentence | What happens |
|---|---|---|
| `MCTimedOutStaysNotified` | spec 10: a failed or timed-out take leaves a normal notified dispute | the node grants the take after the timeout; its revision makes the dispute `taken`, held by Serbero, with no session and no notice |
| `MCFinalClosesSession` | spec 6: a terminal status closes any open session | the final revision is recorded while the order facts are fetched |
| `MCRepliesAreJudged` | judgments 4.2: a reply is a message stored after the question, whatever its timestamp | a turn orders by the client's timestamp: a reply dated before its question is no news to the turn but an answer to the timers, and nobody moves the session |

While modelling, the modules showed smaller disagreements between
the code and its words. They have no run of their own:

- spec 6 ends a session as superseded by a revision newer than Serbero's take;
  `transition` compares with `opened_at`, stamped at the insert, so a takeover
  between the take and the insert leaves the session live.
- `claim` says it decides and marks in the same step; it reads the store under a
  lock it releases before it takes that of `own_takes`, so a call can claim a
  dispute that another one took, opened and released in between. The unique
  index (`OneLiveSession`) is what holds then.
- judgments 4.2: while guiding, only `self_resolution_timeout` applies. A tick uses
  the state `list_live` read; a session that began guiding since, while the tick
  awaited other sessions, is handed off as `unresponsive` or `facts_gathered`.
- spec 7.4: guidance is sent once per path. The call that guides fails to reach a
  party; then the next turn and a tick both find the guide missing
  (`send_guides`) and both send it.
- spec 10: pending turns are found again from `messages` after a restart.
  `pending_sessions` looks at the newest message only: a reply no turn judged,
  with a reminder stored after it, is not found.
- `forward_updates` forwards what the solvers have not seen. It records the last
  message in transcript order, which is not the newest when a party's clock is
  ahead: a later message is forwarded again. `NothingSkipped` is unharmed.
- judgments 4.2: a session whose chat cannot be opened is never timed. When the
  subscription fails after `Chats::open` registered the channels, `is_open` is true
  for the next tick.
- `abandon` says it hands the session off. When `Chats::open` fails after the row was
  inserted, `open` has no session to give it, and the row stays in `opening`.
- The result of the activation is ignored (`mediation/mod.rs:287`): a session the notifier
  ended while it greeted is announced to the solvers as mediated.
- judgments 4: row 13 sends courtesies while the session waits for the other party. The
  last template, a courtesy, may be repeated in a party's new language in place of the
  question a retracted claim needs: then nobody owes an answer and no timer runs.
- The cursor of a party advances with each message, and a subscription asks for what is
  newer than the older of the two cursors. Relays replay the newest events first: a
  restart, or a lost connection, amid the replay may leave an older event behind both
  cursors, which is the last case `MessagesArrive` excepts.
- A transcript in a hundred parts or more may exceed `MAX_DM_CHARS` by one: `LongestPart`
  leaves out the newline after the header, which `HeaderOf` has (`DmsFit` excepts it).
- `record` (`mediation/feedback.rs:76-78`) says that the evaluation blamed existed when the brief
  was sent. An evaluation carries the second its turn began in, and one of the brief's own
  second counts: a turn that begins in that second, or is at the judge when the timers
  stamp a brief, is recorded later and blamed. `OneTurnUnseen` says how far this goes: one
  turn, or those of one second.

**Bounds.** `MaxClock`, `MaxCrashes`, `MaxWrites` and `MaxFailures` only guard the
actions of the environment; `Ends` says which ends the notifier may bring (no step
of a task tells the two ends apart). Two seconds give a revision in the second of
another one, or of an insert, and one after it: the code compares times in no
other way; `MCNotifier` has three, so that a revision also falls between two. With `RenotifyAfter` above
`MaxClock` the reminder is off, which the runs of `Opening` use where reminders
only add calls of `consider` (a second attempt then comes from the
reconsideration); with 0 it is always due, so the bound on the clock does not
keep a dispute from being announced. Two attempts are enough for two takes to
overlap and for a stale claim; two handlers for every race on a row, as a
handler's step is one transaction.

In `Mediation` three messages let both parties answer and one of them answer
twice, which is what the longest row of the decision table needs (the question,
its simple variant, then giving up); two let a message arrive at every place of
another one's turn, brief, handoff or update. The readings of each run are the
ones its properties tell apart (`MCMediation.tla`); those of `MCDialogue` hold a
known, an unknown, a backed and a retracted claim, a party that does not
understand, one that asks what is next and one that changes its language.
`WaitLeavesATimer` leaves out turns that repeat a courtesy, the disagreement above. Durations are one second; three
seconds hold a question, its reminder and the timeout after it. `RetryGrace` is 0
where the run has no seconds to spare: a tick then finds the grace over, which is
the case in which it does something. Ticks happen once in a second, but again
and again in the last one, which stands for all later seconds; otherwise the
bound would end the retries. `MaxPerTurn` 0 makes each message a strike, so that
two of them reach the handoff for a flood.

In `Inbound` a `seen_outer` of one forgets an event as soon as the next one comes, and a
burst of one makes the second message of a second too many; a clock one second ahead
gives a stamp the cursor must not follow. One relay is enough for what an order of
events, a reconnection and a replay can do; the same event from two relays is what its
replay after a restart shows.

In `Parts`: two sessions of which one is stuck; two lost sends reach every combination of
a failed thanks and a failed report; `Lookback` 1 of 3 days lets a closing be too late; the
retry window of 3 of 5 seconds lets a notice grow too old after its failures, and three
failed sends let one notice fail twice, so that its delay doubles, and fail or arrive after
that, or both observers' notices fail; three evaluations are one a brief shows and two it
does not, two briefs let a reply be matched with the wrong one, and two seconds put a turn
before, in and after the second of a brief; thirds
with a threshold of two thirds put an answer below, at and above it, and with
`Tolerance` one third let a sum be more than one; the lines of `Texts` are shorter than,
equal to and longer than a body, and one gives more than a hundred parts; of
two relays one may miss a revision, and two faults (a lost connection, a sync that times
out, a restart) may fall on the live feed and on the sync that should make up for it.

**Deadlock** is checked in the runs of `Notifier` and `Opening`: the tasks always have
a revision to handle again. The runs of `Mediation`, `MCInbound` and `MCParts` turn it off:
a session whose dispute ended, or whose parties wrote all they may within the bound, has
nothing left to do, nor has a text that is written, a dispute that is closed, a
reply that is recorded or a process that stopped for good once the clock's bound is reached.

**Symmetry**: attempts are calls of the same function and no property names one;
`MCOpening` uses it. No liveness run does.

**Fairness.** `NotifierFairness`: every task is a loop the runtime keeps
scheduling, so a suspended call goes on (weak fairness of `Proceed` and
`Remind`); and a DM tried again and again is received one day (strong fairness
of `ReachesSolver`): spec 10 has the relays come back and `reminder_loop` has no
end. `OpeningFairness`: each await of an attempt is bounded by a timeout
(`MOSTRO_TIMEOUT`, the transport's), so an attempt always goes on (weak fairness
of `Considers`, which includes giving up); the timer ticks for ever and some
retry of a notice succeeds (weak fairness of `RetryNotice`). Nothing is assumed
of the node: it may never answer. `Fairness` of `Mediation`: `run_turns` and
`run_timers` are loops and each of their awaits ends (weak fairness of `TurnNext`
and `TimerNext`, failures included), and a brief the timer tries again and again
is delivered one day (strong fairness of `BriefDelivered`), as for the notifier's
DMs. Nothing is assumed of the parties, of the judge's answer, or of its checks,
which `start_mediation` makes once: after a restart the judge may never be ready.
`Fairness` of `Inbound`: a relay sends what a REQ matches and comes back (weak fairness per
relay), and the tasks of the process are polled. `SettleFairness`: the loop and the turns are polled,
except those of the sessions in `Stuck`, whose turns may hang for ever; no deferral or
failure is assumed. `ClosingFairness`: each task that closes goes on, and each send ends,
accepted or lost. `ObserversFairness`: the delivery task is polled (`Wake`, `Deliver`),
`SEND_TIMEOUT` ends each send one way or the other, the clock runs (`PassTime`) and a process
that stopped is started again. No send owes success: that one succeeds at last is the budget
`MaxMisses` running out. `TextsFairness`: the loop runs on. `BacklogFairness`: `sync_loop` begins again and
ends its fetch, relays come back and answer; the live feed is not counted on, so what
is shown is what the sync alone gives. The invariants, those of `Feedback` among them,
assume nothing.

## 5. Proofs

Each module proves about the modules it extends, for every value of the
constants, from those modules' named assumptions alone: any sets of disputes, solvers,
tasks, sessions, messages, relays and attempts, any clock, any number of lost sends,
outages and restarts. What the assumptions ask beyond types is what the code has:
the longest delay, an hour, lies within the retry window of a day (`RetryMax` and
`RetryWindow`), observers are a finite list, clocks go beyond the first second, and
`DoublingsAssumption` and `BackoffsAssumption` state the two facts of arithmetic the provers
have no axiom for, that `2^j` is no smaller than `2^i` and that a backoff is a number; the
thresholds of the judge are more than a half of the `Unit` (`config/mod.rs` checks it of those
it reads, `LANGUAGE_MIN_PROBABILITY` is 0.7). TLC evaluates each of them in the runs.

`NotifierProofs` and `OpeningProofs`:

- `NotifierTypeCorrect`, `OpeningTypeCorrect`: the type invariants, each action in
  a lemma of its own. Every other proof uses them.
- `NewestAlwaysWins`: `NewestWins` alone is not inductive, as a step's effect
  depends on the revisions' types and on the row's first revision being handled;
  the lemma carries the type invariant, and shows the property for a step that
  records a revision and for one that leaves row and `seen` alone.
- `LifecycleNeverReturns`, from the types and from what each write of `row` does to
  `Rank`; `TakenIsNewsOnce`, which needs that a dispute already reported taken is
  no longer waiting; `NotifiedIsHeard`, which needs that a task about to mark a
  dispute has told a solver.
- `TakesDoNotOverlap`: the property is not inductive. `ClaimInv` adds that every
  attempt between claim and release has its dispute in `ownTakes`; then a second
  claim finds it there.
- `AtMostOneLiveSession` and `OpeningImplementsLife`: `SessionInv` says where an
  attempt stands relative to its row (no row before the insert, `opening` or over
  while it greets, and so on); with it every step of `Opening` is a step of
  `SessionLife` on the mapped variables or leaves them alone.
- `AbandonedKeepsItsNotice`: a handoff must write the notice of the right dispute, so
  `RowsNameDisputes` says that the row an attempt works on is of its dispute.
- `NotificationIsFirst`: `FirstInv` joins that with `HeardInv` of the notifier and with what a
  call read when it claimed: the read may be old, but what was told stays told.

- `OwnTakeNeverSupersedes` (`OnlyPeopleSupersede`): `TakesInv` follows the take from the
  request to the revision of the node. A revision by Serbero is of an attempt that left
  `asking` granted, only one attempt per dispute can be in between, and its row is opened
  at that second or later; so a row is never older than the own take that would end it.
- `OwnTakeIsKnown` (`OwnTakeAnnouncedAsOwn`): the two checks are made under two locks.
  `CheckInv` says that a dispute is announced as taken by one task only and that, once
  that task found no take in flight, none that was granted before is.

`PolicyProofs`, lemmas and two theorems about pure operators, for every case in `Facts` and
every turn: `FirstRowDecides` replaces the `CHOOSE` of the decision table by what each row
implies; `GuidanceIsEarned` says what must have been found for a guide, and
`SilenceIsJustified` that a decision that asks nothing while gathering has a reason; `NextIsNew`
that a question chosen was not asked of its party before. `Mediation`'s proofs rest on them.

`MediationProofs`. Tasks act on what they read earlier, so no property of it is inductive;
each has an invariant of its own over the two tasks' jobs, on top of the types:

- `MediationTypeCorrect`: `Typed` adds `TasksFit`, which ties a task's step to what it carries
  (a task that works has jobs, what it read or carries is stored), and that the
  session began with its first questions. `SessionKeepsItsLife` is the refinement of
  `SessionLife`: each write of `state` is guarded by the state in the table, not by
  the one read.
- `SilenceOnceOver`: `Quiet`. Mediation is over from the second `mediatedUntil`; only the
  notice of the handoff may be sent after it, only once the handoff is recorded, and whatever
  else is being sent was checked under the gate before.
- `NothingIsSkipped`: `Covering`. What a brief or an update carries, joined with what the
  solvers have, covers everything up to the id recorded when it arrives.
- `EveryStrikeIsEarned`: `Earned` states the property with a count that sums: the strikes of a
  party times the limit are at most its messages up to the last struck.
- `RemindedAtMostOnce`: `Reminded`. The turn never reminds; the timer's list has a
  reminder only for a party without one, and once.
- `NeverAskedAgain`: `Asked`. A question decided on, or still in the turn's list, was not asked of
  its party since its language last changed; a turn that retries what it failed
  to send, and the timer, ask nothing.
- `SilenceIsTimed` (`WaitLeavesATimer`): an action property, from `SilenceIsJustified` and the
  types of what the turn read.

`LoopProofs`, the turn loop: `OneTurnOfASession` and `DueAgainHasATurn`. `LoopInv` joins the two with the
types of the loop: `TakeDue` starts a turn only for a session no task has, which needs
nothing else; that a session due again has a turn needs that `Joined` takes it out of
`dueAgain` with the only turn it had, which is `TurnsNeverOverlap`.

`InboundProofs`: `InboxIsSound`. `InboxInv` adds what `handle` knows between its statements:
an event whose cursor is still to follow is a stored row (`InHand`), and while a message is
in hand after the end, none was stored after the end before it (`EndIsSeen`): the next
one is taken only by an inbox that finds the session over.

`LoopProofs`, the sync loop: `ReplacedNeverReturns`. `ReplacedAreOlder` says what was replaced is not
newer than what is recorded, in the seconds the revisions carry; the property alone says
nothing of order.

`LoopProofs`, the notices: `NoticesStaySound` and `ObserversTypesStay`. `ObserversInv` adds
that failures lie in the past, that the batch of the delivery task is still what the query
would return for the notices it has not reached, so that a failure it adds is at least one
delay after the failures read (`BatchHolds`), and that every copy an observer got is
recorded, is the one the task is about to record, or is counted in `unheard`
(`ToldIsRecorded`): a notice with a record in the window is not listed again, so a second
copy needs one of the two exceptions.

`SolverProofs`, closing: `ClosingStaysSound`. `OneAtWork` is the mutex, and what whoever was called
knows of the dispute. `WorkFits` ties the jobs a closing still has to the records: they are
of nobody who got theirs, each solver is in them once, a party is in them only if it
earned its thanks or will be refused them, and, as long as nothing failed, every party
not yet thanked is in them. So the record that follows a send is the first
(`ClosedOnce`), and an empty list with nothing failed means all is done
(`FinishedMeansDone`).

`SolverProofs`, feedback: `FeedbackStaysSound`. `FeedbackInv` says that turns began in the past
(`TurnsArePast`); that what existed when a brief was stamped is no later than the stamp, and
of what came after at most the first began before it, because one turn of a session is at
the judge at a time (`Stamped`, `Later`), of each brief sent and each under way; that a reply
names a brief its author received and was written no earlier than its clock allows
(`AnswersABrief`), so that within the skew the brief it is matched with is that one or a newer
one; and that a row of feedback names rows that exist (`RecordedOf`). The property then
follows for a new row from what `Handle` chose, and stays true of the old ones because
evaluations and briefs are only appended (`ClaimsStay`).

`InboundProofs` also has `InboundTypeCorrect`, which needs that a process that is not
running has read no row (`InboxTypes`).

The types of these parts are theorems of their own, each needing more than the types:

- `SettleTypesStay`: the run bounds a session's messages by counting rows of the whole log,
  so `RowsFit` keeps the sets of rows counted per direction within `MaxIn` and `MaxOut`.
- `BacklogTypesStay`: `ProcessTypes`, that a sync is of the process that began it.
- `ClosingTypesStay`: `FinishesOnce`. Who holds the mutex found nothing finished, and with
  `OneAtWork` nobody else finishes before it leaves; so `finished` is at most one.
- `FeedbackTypesStay`: `FeedbackFits`. A turn at the judge has room for its evaluation
  (`JudgedFits` counts both), so what a brief could show is bounded; a DM whose id is
  recorded is not recorded again (`RecordsOnce`).

`PartsProofs`, the judge: `ReadingStaysSound` and `JudgeTypesStay`. `JudgeInv` says an answer that
is kept passed `CheckAnswers` and that a call waited at most once per retry. That two claims of
a choice are not both known is about a sum over a set, which the model computes with a
fold. Instead of an induction over it, `UnitsOf` counts: the units of all options are a
set of pairs, its cardinality is the sum, and options without a common member have
disjoint units. With the tolerance of the check and `ShareIsMajority`, two shares above the
threshold would be more than the whole. `InOrderIs` is what `InOrder` returns, from which
a quote is of its party's messages (`QuotesHold`).

`PartsProofs`, the texts: `DmsStaySound`. `TextsInv` describes what the loop has written when it is
at a place of the script: the pieces of all bodies follow one another up to that place
(`Written`), a line that fits a body is one piece, and each body is within its budget
(`BodiesInv`). Flattening and summing are folds again; `FlattenMore` and `SumOfMore` give what
one more body or piece does to them, which is all a step needs, and `WholeIsSound` and
`ChunksAreSound` what follows at the end.

`PartsProofs`, the composition: `PartsImplementEach` shows that a behaviour of `Parts` is a behaviour
of each of the seven parts, by steps and stutters; `PartsKeepTheirPromises` and
`PartsTypeCorrect` carry their invariants and types over to the composition: what `MCParts`
checks of it.

So every invariant and every action property of a passing run is a theorem. What remains with TLC:

- the liveness properties, `PartsProgress` among them: the prover has neither fairness nor
  ENABLED;
- every counterexample.

## 6. Abstractions

- One clock for the node and for Serbero: no skew. The comparisons of the code
  assume as much.
- A failing write of the store appears only where the code goes on after it
  (`recorded` in `Announce`); elsewhere the call ends, which a restart also shows.
  `mark_notified` failing after the DM is the restart between them.
- The wait of the reminder for the first sync is part of when `RemindTick`
  happens.
- Revisions that do not parse, or are of another node, are ignored by the code
  and absent here.
- In `Notifier` a final revision closes the session row, as `end_live_session` does; the hook
  it calls is `Closing`'s.
- What the DM about a take says is reduced to `announced`.
- The calls of `reconsider` are made one after the other in the code and in any
  order here.
- `abandon` closing the chat subscriptions has no effect on the tables.
- A party message enters `Mediation` as a row of `messages`; what it says is what
  the judge reads in it. `Skews` is how far the time its client put on it may be
  from Serbero's.
- Serbero wraps a message and checks the state under the gate in one step: the
  time the message carries is that of the check. `AskedOnce` and `ReminderOnce` are
  about recorded messages; a restart between a relay and the record may repeat
  one that no table shows.
- Delivering a brief or an update and recording it are one step; a restart
  between them repeats the delivery, as a delivery that failed would.
- `flood_strike` events are appended and judged in one step, as in `flooded`.
- In `Mediation` the quotes in a brief, the solver it goes to and the text of any message
  are left out (`Judge`, `Feedback` and `Texts` have them), and so are the events queued for
  observers (`Observers`).
- In `Mediation` a session has the single task `turn`; that `settle.rs` and `run_turns` keep
  it so is `Settle`'s `TurnsNeverOverlap`.
- `Settle` has no clock: a deadline passes at any time after it was set, so the length of
  the settling and the latency of a wake are not told apart.
- `Inbound`: an event that does not unwrap, is too long or too far in the future is one that
  never came. `FastOutages` is FALSE in the run: with a connection lost and back between
  two looks of the watcher nobody but the SDK sends the REQ again, and whether it does is
  external. A party's clock may be ahead of Serbero's and never behind (`Skews` are naturals),
  and a token returns to the bucket each second, in the code every two. Only the end of the dispute closes the chat; the chat of an abandoned session
  is left out.
- `Observers`: a send that failed and its record are one step; a restart between them is
  `Tell` and `ShutDown` where a relay took the notice, and a restart before the send where none
  did. `Backdated` is the window's edge: a delivery recorded with a time before the notice was
  queued. The bound on the clock is what `NeverDue` excepts.
- `Closing`: the look-back is counted in days, and the report is one send to each solver.
- `Feedback`: `RETRY_GRACE_SECS` is taken to outlast the turn's own deliveries, so the two
  couriers of one brief never send to one solver at the same time.
- `Texts`: `Digits` counts up to three, so texts of a thousand parts and more, whose header has
  more digits, are outside the model.
- `Judge`: floats are taken as exact, the score of the evidence, which nothing reads, and
  the HTTP body are left out; waits are counted in half seconds.
- `Backlog`: one dispute; the pages of a fetch and its timeout are one choice of when it ends.

## 7. Not modelled

`PROJECT.json`, "components", has every part with its status.

- Left out for good, having no state and no order of steps: the parsing of Mostro's
  events (`mostro/`), which enters as revisions, order facts and messages; the transport
  (`nostr/`), whose sends succeed or fail in every module; catalogues, wording,
  configuration, logging, signals and the evaluation tool.
- The migrations (`store/migrations.rs`): each is one transaction, run before any task.
- The order of startup and shutdown in `daemon/mod.rs`: the modules start with their tables
  as a previous process left them, and a restart may cut any step.
- Several sessions in one `Inbound`: each has a subscription of its own (`subscription_id`), and
  what they share, the bounded set of outer ids, is smaller in the run than one session's
  events already.
- The liveness of a whole session, from its opening to its end: it needs `Mediation`,
  `Settle` and `Inbound` in one state space, which is out of TLC's reach at bounds where it
  would say more than their own properties do.
