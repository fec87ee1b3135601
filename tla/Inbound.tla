------------------------------ MODULE Inbound ------------------------------
(***************************************************************************)
(* The chat of one session: the parties' messages on the relays, the       *)
(* subscription that brings them (src/src/chat/channels.rs, daemon/        *)
(* relays.rs), the inbox that judges each event (chat/inbound.rs) and the  *)
(* rows it writes: messages and the cursors of sessions.                   *)
(*                                                                         *)
(* A message is an inner event; the outer event that wraps it carries a    *)
(* stamp of its own, and a party may wrap a message again.  A relay that   *)
(* has the subscription sends each matching event once, in any order; two  *)
(* relays send the same event twice, and a new subscription sends the      *)
(* stored events again.                                                    *)
(*                                                                         *)
(* The session was opened in second OpenedAt.  The notifier may end it at  *)
(* any moment; the process may stop between any two statements.            *)
(***************************************************************************)
EXTENDS Integers, Sequences, SequencesExt, FiniteSets

CONSTANTS
  BuyerMessages, SellerMessages,  \* what the parties may write
  Relays,         \* the configured relays
  Skews,          \* how far a party's clock is ahead of Serbero's, below the
                  \* skew unwrap_chat_message accepts
  SeenCapacity,   \* SEEN_OUTER_CAPACITY
  Burst,          \* RATE_BURST; one token comes back each second
  FastOutages,    \* a relay may come back before the watcher noticed it was away
  MaxWraps,       \* bound: outer events the parties publish
  MaxClock,       \* bound: the last second of a behaviour
  MaxOutages,     \* bound: connections lost
  MaxCrashes      \* bound: restarts in a behaviour

ASSUME InboundAssumption ==
  /\ BuyerMessages \intersect SellerMessages = {}
  /\ Skews \subseteq Nat /\ IsFiniteSet(Skews) /\ Skews # {}
  /\ SeenCapacity \in Nat \ {0} /\ Burst \in Nat \ {0}
  /\ FastOutages \in BOOLEAN
  /\ MaxWraps \in Nat /\ MaxClock \in Nat \ {0} /\ MaxOutages \in Nat /\ MaxCrashes \in Nat

VARIABLES
  clock,      \* Unix seconds
  session,    \* sessions.state: live or ended
  cursor,     \* sessions.buyer_chat_cursor and seller_chat_cursor, 0 for NULL
  stored,     \* the parties' rows of messages, in arrival order
  held,       \* the outer events each relay has
  up,         \* relays Serbero is connected to
  filter,     \* the since of the REQ each relay has, 0 for none
  pending,    \* events each relay has still to send on that REQ
  running,    \* the process runs
  known,      \* relays::watch: the relays it saw connected at its last look
  registry,   \* the since of the registered filter, 0 for none
  opening,    \* the since Chats::open computed and did not register yet
  inbox,      \* the session's channels are registered
  seen,       \* seen_outer, oldest first
  tokens,     \* the token bucket of each channel
  handling,   \* the event Inbox::handle is at
  outages, crashes,
  limited,    \* history: events the rate limit dropped
  late        \* history: messages stored after the session ended

relayVars == <<held, up, filter, pending>>
inboxVars == <<inbox, seen, tokens, handling>>
rowVars == <<session, cursor, stored>>
historyVars == <<limited, late>>
boundVars == <<outages, crashes>>
vars == <<clock, rowVars, relayVars, running, known, registry, opening, inboxVars,
          boundVars, historyVars>>

Party == {"buyer", "seller"}

Messages == BuyerMessages \union SellerMessages

Author(m) == IF m \in BuyerMessages THEN "buyer" ELSE "seller"

OpenedAt == 1

Stamps == OpenedAt..(MaxClock + Max(Skews))

Event == [inner: Messages, at: Stamps]

NoEvent == [phase |-> "idle", event |-> [inner |-> "none", at |-> 0]]

Published == UNION {held[r] : r \in Relays}

LeastOf(a, b) == IF a < b THEN a ELSE b

GreatestOf(a, b) == IF a > b THEN a ELSE b

-----------------------------------------------------------------------------
(* The parties, the relays, the clock and the dispute.                     *)

\* A party's client wraps a message, for the first time or again, and some
\* relays take it.  Serbero receives it where its REQ matches.
Publish(m, at, where) ==
  LET event == [inner |-> m, at |-> at]
  IN /\ event \notin Published
     /\ Cardinality(Published) < MaxWraps
     /\ held' = [r \in Relays |-> IF r \in where THEN held[r] \union {event} ELSE held[r]]
     /\ pending' = [r \in Relays |->
                      IF r \in where /\ r \in up /\ filter[r] # 0 /\ at >= filter[r]
                      THEN pending[r] \union {event} ELSE pending[r]]
     /\ UNCHANGED <<clock, rowVars, up, filter, running, known, registry, opening,
                    inboxVars, boundVars, historyVars>>

RefillUncapped(bucket) == [p \in Party |-> bucket[p] + 1]

\* RATE_PER_MINUTE: the bucket is refilled for the time gone by, to its burst.
Refill(bucket) == [p \in Party |-> LeastOf(bucket[p] + 1, Burst)]

Tick ==
  /\ clock < MaxClock
  /\ clock' = clock + 1
  /\ tokens' = Refill(tokens)
  /\ UNCHANGED <<rowVars, relayVars, running, known, registry, opening, inbox, seen,
                 handling, boundVars, historyVars>>

\* The notifier ends the session, whatever the chat is doing; only the store
\* lock, held from the insert to the cursor, keeps it waiting.
EndSession ==
  /\ session = "live"
  /\ handling.phase # "stored"
  /\ session' = "ended"
  /\ UNCHANGED <<clock, cursor, stored, relayVars, running, known, registry, opening,
                 inboxVars, boundVars, historyVars>>

\* A connection is lost, and with it the REQ and what it had still to send.
Disconnect(r) ==
  /\ r \in up
  /\ outages < MaxOutages
  /\ outages' = outages + 1
  /\ up' = up \ {r}
  /\ filter' = [filter EXCEPT ![r] = 0]
  /\ pending' = [pending EXCEPT ![r] = {}]
  /\ UNCHANGED <<clock, rowVars, held, running, known, registry, opening, inboxVars,
                 crashes, historyVars>>

\* What a relay sends first on a new REQ: what it has that matches.
Matching(r, since) == {e \in held[r] : e.at >= since}

SubscribedAsConnected(rs, since) ==
  LET new == {r \in rs : r \in known /\ r \in up /\ filter[r] = 0}
  IN /\ filter' = [r \in Relays |-> IF r \in new THEN since ELSE filter[r]]
     /\ pending' = [r \in Relays |-> IF r \in new THEN Matching(r, since) ELSE pending[r]]

\* A relay takes a REQ, unless it has one of that id.
Subscribed(rs, since) ==
  LET new == {r \in rs : r \in up /\ filter[r] = 0}
  IN /\ filter' = [r \in Relays |-> IF r \in new THEN since ELSE filter[r]]
     /\ pending' = [r \in Relays |-> IF r \in new THEN Matching(r, since) ELSE pending[r]]

\* The relay is back; the SDK sends the REQ again, or lost it.
Reconnect(r) ==
  /\ running
  /\ r \notin up
  /\ FastOutages \/ r \notin known
  /\ up' = up \union {r}
  /\ \E resent \in {0, registry} :
       /\ filter' = [filter EXCEPT ![r] = resent]
       /\ pending' = [pending EXCEPT ![r] = IF resent = 0 THEN {} ELSE Matching(r, resent)]
  /\ UNCHANGED <<clock, rowVars, held, running, known, registry, opening, inboxVars,
                 boundVars, historyVars>>

-----------------------------------------------------------------------------
(* The subscription: Chats::open and close, relays::watch.                 *)

\* Chats::resume and chat_open read the row of a live session without open
\* channels; add_session takes the older cursor, the opening for a party that
\* has none.
Since ==
  LET from(p) == IF cursor[p] = 0 THEN OpenedAt ELSE cursor[p]
  IN LeastOf(from("buyer"), from("seller"))

ReadSession ==
  /\ running
  /\ session = "live"
  /\ ~inbox /\ opening = 0
  /\ opening' = Since
  /\ UNCHANGED <<clock, rowVars, relayVars, running, known, registry, inboxVars,
                 boundVars, historyVars>>

\* The channels get new buckets, the registry the filter, the relays the REQ.
OpenChat ==
  /\ opening # 0
  /\ handling.phase = "idle"
  /\ inbox' = TRUE
  /\ tokens' = [p \in Party |-> Burst]
  /\ registry' = opening
  /\ Subscribed(Relays, opening)
  /\ opening' = 0
  /\ UNCHANGED <<clock, rowVars, held, up, running, known, seen, handling, boundVars,
                 historyVars>>

\* Mediator::finish closes the chat of a dispute that is over.
CloseChat ==
  /\ running
  /\ session = "ended"
  /\ registry # 0
  /\ handling.phase = "idle"
  /\ inbox' = FALSE
  /\ registry' = 0
  /\ filter' = [r \in Relays |-> 0]
  /\ pending' = [r \in Relays |-> {}]
  /\ UNCHANGED <<clock, rowVars, held, up, running, known, opening, seen, tokens,
                 handling, boundVars, historyVars>>

\* The watcher looks at a relay; one that became connected gets every
\* registered filter.
Watch(r) ==
  /\ running
  /\ (r \in known) # (r \in up)
  /\ known' = IF r \in up THEN known \union {r} ELSE known \ {r}
  /\ IF r \in up /\ registry # 0
     THEN Subscribed({r}, registry)
     ELSE UNCHANGED <<filter, pending>>
  /\ UNCHANGED <<clock, rowVars, held, up, running, registry, opening, inboxVars,
                 boundVars, historyVars>>

-----------------------------------------------------------------------------
(* Inbox::handle, under the lock of the inbox.                             *)

\* A channel is known and its session, read under the store lock, not over.
Unknown == ~inbox

Ended == session = "ended"

\* SeenSet::insert.
Remember(e) ==
  LET grown == Append(seen, e)
  IN IF Len(grown) > SeenCapacity THEN Tail(grown) ELSE grown

\* Steps 1, 5 and 6: the author, the session, the outer id, the rate.
Accept(e) ==
  LET p == Author(e.inner)
  IN \/ /\ Unknown
        /\ UNCHANGED <<inboxVars, limited>>
     \/ /\ ~Unknown /\ Ended
        /\ inbox' = FALSE
        /\ UNCHANGED <<seen, tokens, handling, limited>>
     \/ /\ ~Unknown /\ ~Ended /\ Contains(seen, e)
        /\ UNCHANGED <<inboxVars, limited>>
     \/ /\ ~Unknown /\ ~Ended /\ ~Contains(seen, e)
        /\ seen' = Remember(e)
        /\ IF tokens[p] = 0
           THEN /\ limited' = limited \union {e}
                /\ UNCHANGED <<tokens, handling>>
           ELSE /\ tokens' = [tokens EXCEPT ![p] = @ - 1]
                /\ handling' = [phase |-> "unwrapped", event |-> e]
                /\ UNCHANGED limited
        /\ UNCHANGED inbox

\* A relay sends an event.
Receive(r, e) ==
  /\ running
  /\ handling.phase = "idle"
  /\ e \in pending[r]
  /\ pending' = [pending EXCEPT ![r] = @ \ {e}]
  /\ Accept(e)
  /\ UNCHANGED <<clock, rowVars, held, up, filter, running, known, registry, opening,
                 boundVars, late>>

IsNewOuter(e) == ~Contains(stored, e)

\* Step 12: insert_if_new.
IsNew(e) == \A i \in DOMAIN stored : stored[i].inner # e.inner

Store ==
  /\ handling.phase = "unwrapped"
  /\ IF IsNew(handling.event)
     THEN /\ stored' = Append(stored, handling.event)
          /\ late' = IF session = "ended" THEN late + 1 ELSE late
          /\ handling' = [handling EXCEPT !.phase = "stored"]
     ELSE /\ handling' = NoEvent
          /\ UNCHANGED <<stored, late>>
  /\ UNCHANGED <<clock, session, cursor, relayVars, running, known, registry, opening,
                 inbox, seen, tokens, boundVars, limited>>

\* The outer stamp, never past Serbero's clock.
Clamp(at) == LeastOf(at, clock)

\* advance_chat_cursor.
Advanced(old, at) == GreatestOf(old, at)

AdvanceCursor ==
  LET e == handling.event
  IN /\ handling.phase = "stored"
     /\ cursor' = [cursor EXCEPT ![Author(e.inner)] = Advanced(@, Clamp(e.at))]
     /\ handling' = NoEvent
     /\ UNCHANGED <<clock, session, stored, relayVars, running, known, registry, opening,
                    inbox, seen, tokens, boundVars, historyVars>>

-----------------------------------------------------------------------------
(* The process stops, and starts again.                                    *)

Crash ==
  /\ running
  /\ crashes < MaxCrashes
  /\ crashes' = crashes + 1
  /\ running' = FALSE
  /\ registry' = 0 /\ opening' = 0
  /\ inbox' = FALSE /\ seen' = << >> /\ handling' = NoEvent
  /\ tokens' = [p \in Party |-> Burst]
  /\ filter' = [r \in Relays |-> 0]
  /\ pending' = [r \in Relays |-> {}]
  /\ known' = {}
  /\ UNCHANGED <<clock, rowVars, held, up, outages, historyVars>>

\* The watcher starts from the connections it finds.
Start ==
  /\ ~running
  /\ running' = TRUE
  /\ known' = up
  /\ UNCHANGED <<clock, rowVars, relayVars, registry, opening, inboxVars, boundVars,
                 historyVars>>

-----------------------------------------------------------------------------
Init ==
  /\ clock = OpenedAt
  /\ session = "live"
  /\ cursor = [p \in Party |-> 0]
  /\ stored = << >>
  /\ held = [r \in Relays |-> {}]
  /\ up = Relays
  /\ filter = [r \in Relays |-> 0]
  /\ pending = [r \in Relays |-> {}]
  /\ running = TRUE
  /\ known = Relays
  /\ registry = 0 /\ opening = 0
  /\ inbox = FALSE /\ seen = << >> /\ handling = NoEvent
  /\ tokens = [p \in Party |-> Burst]
  /\ outages = 0 /\ crashes = 0
  /\ limited = {} /\ late = 0

\* What the parties, the relays and the notifier do.
Environment ==
  \/ \E m \in Messages, skew \in Skews, where \in SUBSET Relays \ {{}} :
       Publish(m, clock + skew, where)
  \/ Tick
  \/ EndSession
  \/ \E r \in Relays : Disconnect(r) \/ Reconnect(r)

Next ==
  \/ Environment
  \/ ReadSession \/ OpenChat \/ CloseChat
  \/ \E r \in Relays : Watch(r)
  \/ \E r \in Relays, e \in Event : Receive(r, e)
  \/ Store \/ AdvanceCursor
  \/ Crash \/ Start

\* A relay sends what a REQ matches and is back some day; the runtime keeps
\* the process, its handler, its watcher and its timers going.
Fairness ==
  /\ \A r \in Relays, e \in Event : WF_vars(Receive(r, e))
  /\ \A r \in Relays : WF_vars(Watch(r)) /\ WF_vars(Reconnect(r))
  /\ WF_vars(ReadSession) /\ WF_vars(OpenChat)
  /\ WF_vars(Store) /\ WF_vars(AdvanceCursor)
  /\ WF_vars(Start)

Spec == Init /\ [][Next]_vars

FairSpec == Spec /\ Fairness

-----------------------------------------------------------------------------
\* Types.  A handler runs only in a running process, and a REQ is held only by
\* a connected relay.
InboundTypeOK ==
  /\ clock \in OpenedAt..MaxClock
  /\ session \in {"live", "ended"}
  /\ cursor \in [Party -> 0..MaxClock]
  /\ stored \in Seq(Event)
  /\ held \in [Relays -> SUBSET Event]
  /\ up \in SUBSET Relays /\ known \in SUBSET Relays
  /\ filter \in [Relays -> 0..MaxClock]
  /\ pending \in [Relays -> SUBSET Event]
  /\ running \in BOOLEAN /\ inbox \in BOOLEAN
  /\ registry \in 0..MaxClock /\ opening \in 0..MaxClock
  /\ seen \in Seq(Event) /\ Len(seen) <= SeenCapacity
  /\ tokens \in [Party -> 0..Burst]
  /\ handling = NoEvent \/ handling \in [phase: {"unwrapped", "stored"}, event: Event]
  /\ limited \subseteq Event
  /\ late \in Nat
  /\ ~running => handling = NoEvent /\ ~inbox /\ registry = 0
  /\ \A r \in Relays : filter[r] # 0 => r \in up /\ running

\* However often a message is wrapped, sent by two relays, forgotten by the
\* bounded set of outer ids or replayed after a restart, it is stored once
\* (chat/inbound.rs step 12, store/messages.rs insert_if_new).
StoredOnce ==
  \A i, j \in DOMAIN stored : stored[i].inner = stored[j].inner => i = j

\* A cursor stands for a stored message of its party: a restart between the
\* two statements of handle never lets the subscription skip the message in
\* hand, and a stamp of the future never blinds it (chat/inbound.rs:219-228).
CursorIsEarned ==
  \A p \in Party :
    /\ cursor[p] <= clock
    /\ cursor[p] # 0 => \E i \in DOMAIN stored :
                          /\ Author(stored[i].inner) = p
                          /\ stored[i].at >= cursor[p]

\* Once a session ended, at most the message in hand is still stored: the next
\* event finds it over and closes its channels (chat/inbound.rs:159-173).
NothingMoreOnceEnded == late <= 1

\* What the inbox writes: no message twice, no cursor ahead of what was stored,
\* and nothing beyond the message in hand once the session is over
\* (chat/inbound.rs handle).
InboundIsSound == StoredOnce /\ CursorIsEarned /\ NothingMoreOnceEnded

\* A message on some relay, however the connections come and go, is in the end
\* stored, unless its session ended, the rate limit dropped an event of it or
\* both cursors passed its stamp: nothing else loses one (chat/channels.rs
\* open, daemon/relays.rs watch).
MessagesArrive ==
  \A e \in Event :
    e \in Published ~>
      \/ ~IsNew(e)
      \/ session = "ended"
      \/ e \in limited
      \/ e.at < Since

=============================================================================
