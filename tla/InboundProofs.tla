--------------------------- MODULE InboundProofs ---------------------------
(***************************************************************************)
(* What the inbox writes, for any messages, relays, bounds of its memories *)
(* and number of lost connections and restarts: a message is stored once,  *)
(* a cursor stands for a stored message, and a session that is over gets   *)
(* at most the message in hand.  Before that, its types: the memories keep *)
(* their bounds, and nothing is in hand of a process that does not run.    *)
(***************************************************************************)
EXTENDS Inbound, FiniteSetTheorems, WellFoundedInduction, TLAPS

\* A finite set of numbers has a greatest one: the numbers above one get fewer
\* as one goes up.
LEMMA GreatestIs ==
  ASSUME NEW S \in SUBSET Nat, IsFiniteSet(S), S # {}
  PROVE  Max(S) \in S /\ \A j \in S : j <= Max(S)
<1> DEFINE Up(i) == {j \in S : i < j}
           U == {Up(i) : i \in S}
           O == StrictSubsetOrdering(S)
           F == FiniteSubsetsOf(S)
<1>1. IsWellFoundedOn(O, F)
  BY FS_StrictSubsetOrderingWellFounded
<1>2. U \subseteq F /\ U # {}
  <2>1. \A i \in S : Up(i) \in SUBSET S /\ IsFiniteSet(Up(i))
    <3>1. \A i \in S : Up(i) \in SUBSET S
      OBVIOUS
    <3> HIDE DEF Up
    <3> QED
      BY <3>1, FS_Subset
  <2> HIDE DEF Up
  <2>2. \A i \in S : Up(i) \in F
    BY <2>1 DEF FiniteSubsetsOf
  <2> HIDE DEF F
  <2>3. \E i : i \in S
    OBVIOUS
  <2> QED
    BY <2>2, <2>3
<1>3. PICK m \in U : \A k \in U : ~(<<k, m>> \in O)
  <2> HIDE DEF O, F, U
  <2> QED
    BY <1>1, <1>2, WFMin
<1>4. PICK top \in S : m = Up(top)
  OBVIOUS
<1>5. ASSUME NEW j \in S, top < j PROVE FALSE
  <2>1. Up(j) \subseteq Up(top) /\ j \notin Up(j) /\ j \in Up(top)
    <3>1. \A i \in S : j < i => top < i
      BY <1>5
    <3>2. j \notin Up(j)
      OBVIOUS
    <3> QED
      BY <1>5, <3>1, <3>2
  <2>2. Up(j) \in SUBSET S /\ Up(top) \in SUBSET S
    OBVIOUS
  <2>3. <<Up(j), m>> \in O
    <3> HIDE DEF Up
    <3> QED
      BY <2>1, <2>2, <1>4 DEF StrictSubsetOrdering
  <2> QED
    BY <2>3, <1>3
<1>6. \E i \in S : \A j \in S : i >= j
  BY <1>5
<1>7. Max(S) \in S /\ \A j \in S : Max(S) >= j
  BY <1>6 DEF Max
<1> QED
  BY <1>7

-----------------------------------------------------------------------------
(* Types.                                                                  *)

Handling == [phase: {"unwrapped", "stored"}, event: Event]

\* A process that does not run has read no row, either.
InboxTypes == InboundTypeOK /\ (~running => opening = 0)

\* What a party publishes now bears a stamp of Stamps.
LEMMA StampsOfNow ==
  ASSUME InboundTypeOK, NEW skew \in Skews, NEW m \in Messages
  PROVE  [inner |-> m, at |-> clock + skew] \in Event
<1>1. Max(Skews) \in Nat /\ skew <= Max(Skews) /\ skew \in Nat
  BY GreatestIs, InboundAssumption
<1>2. clock \in 1..MaxClock /\ MaxClock \in Nat
  BY InboundAssumption DEF InboundTypeOK, OpenedAt
<1>3. clock + skew \in Stamps
  BY <1>1, <1>2 DEF Stamps, OpenedAt
<1> QED
  BY <1>3 DEF Event

\* At the start.
LEMMA TypesStart == Init => InboxTypes
<1> SUFFICES ASSUME Init PROVE InboxTypes
  OBVIOUS
<1>1. MaxClock \in Nat \ {0} /\ Burst \in Nat \ {0} /\ SeenCapacity \in Nat \ {0}
  BY InboundAssumption
<1>2. << >> \in Seq(Event) /\ Len(<< >>) = 0
  OBVIOUS
<1>3. /\ stored \in Seq(Event) /\ seen \in Seq(Event) /\ Len(seen) <= SeenCapacity
      /\ clock \in OpenedAt..MaxClock
      /\ cursor \in [Party -> 0..MaxClock] /\ tokens \in [Party -> 0..Burst]
      /\ filter \in [Relays -> 0..MaxClock] /\ \A r \in Relays : filter[r] = 0
  BY <1>1, <1>2 DEF Init, OpenedAt
<1>4. /\ held \in [Relays -> SUBSET Event] /\ pending \in [Relays -> SUBSET Event]
      /\ limited \subseteq Event
  BY DEF Init
<1>5. running \in BOOLEAN /\ running /\ inbox \in BOOLEAN /\ session = "live"
  BY DEF Init
<1>6. /\ up = Relays /\ known = Relays /\ registry = 0 /\ opening = 0 /\ handling = NoEvent
      /\ late = 0
  BY DEF Init
<1> QED
  BY <1>1, <1>3, <1>4, <1>5, <1>6 DEF InboxTypes, InboundTypeOK

\* The REQs after a subscription.
LEMMA ReqsTyped ==
  ASSUME InboundTypeOK, NEW rs \in SUBSET Relays, NEW from \in 0..MaxClock, Subscribed(rs, from)
  PROVE  /\ filter' \in [Relays -> 0..MaxClock] /\ pending' \in [Relays -> SUBSET Event]
         /\ \A r \in Relays : filter'[r] # 0 => r \in up
  BY DEF InboundTypeOK, Subscribed, Matching

\* A party publishes.
LEMMA PublishTyped ==
  ASSUME InboxTypes, NEW m \in Messages, NEW skew \in Skews, NEW where \in SUBSET Relays,
         Publish(m, clock + skew, where)
  PROVE  InboxTypes'
<1> DEFINE e == [inner |-> m, at |-> clock + skew]
<1>1. e \in Event
  BY StampsOfNow DEF InboxTypes
<1>2. /\ held' = [r \in Relays |-> IF r \in where THEN held[r] \union {e} ELSE held[r]]
      /\ pending' = [r \in Relays |->
                       IF r \in where /\ r \in up /\ filter[r] # 0 /\ clock + skew >= filter[r]
                       THEN pending[r] \union {e} ELSE pending[r]]
      /\ UNCHANGED <<clock, rowVars, up, filter, running, known, registry, opening,
                     inboxVars, boundVars, historyVars>>
  BY DEF Publish
<1> HIDE DEF e
<1>3. held' \in [Relays -> SUBSET Event] /\ pending' \in [Relays -> SUBSET Event]
  BY <1>1, <1>2 DEF InboxTypes, InboundTypeOK
<1> QED
  BY <1>2, <1>3 DEF InboxTypes, InboundTypeOK, rowVars, inboxVars, historyVars, NoEvent

\* Time passes, and the buckets are refilled to their burst.
LEMMA ClockTyped ==
  ASSUME InboxTypes, Tick PROVE InboxTypes'
<1>1. clock' \in OpenedAt..MaxClock
  BY InboundAssumption DEF InboxTypes, InboundTypeOK, Tick, OpenedAt
<1>2. tokens' \in [Party -> 0..Burst]
  BY InboundAssumption DEF InboxTypes, InboundTypeOK, Tick, Refill, LeastOf
<1> QED
  BY <1>1, <1>2 DEF InboxTypes, InboundTypeOK, Tick, rowVars, relayVars, historyVars, NoEvent

\* Connections and the watcher.
LEMMA RelaysTyped ==
  ASSUME InboxTypes, NEW r \in Relays, Disconnect(r) \/ Reconnect(r) \/ Watch(r)
  PROVE  InboxTypes'
<1> USE DEF rowVars, inboxVars, historyVars, NoEvent
<1>0. MaxClock \in Nat
  BY InboundAssumption
<1>1. CASE Disconnect(r)
  BY <1>0, <1>1 DEF InboxTypes, InboundTypeOK, Disconnect
<1>2. CASE Reconnect(r)
  <2>1. PICK resent \in {0, registry} :
          /\ filter' = [filter EXCEPT ![r] = resent]
          /\ pending' = [pending EXCEPT ![r] = IF resent = 0 THEN {} ELSE Matching(r, resent)]
    BY <1>2 DEF Reconnect
  <2>2. resent \in 0..MaxClock /\ Matching(r, resent) \in SUBSET Event
    BY <1>0 DEF InboxTypes, InboundTypeOK, Matching
  <2> HIDE DEF Matching
  <2>3. /\ filter' \in [Relays -> 0..MaxClock] /\ pending' \in [Relays -> SUBSET Event]
        /\ \A q \in Relays : filter'[q] # 0 => q = r \/ filter[q] # 0
    BY <2>1, <2>2 DEF InboxTypes, InboundTypeOK
  <2> QED
    BY <1>2, <2>3 DEF InboxTypes, InboundTypeOK, Reconnect
<1>3. CASE Watch(r)
  <2>1. /\ filter' \in [Relays -> 0..MaxClock] /\ pending' \in [Relays -> SUBSET Event]
        /\ \A q \in Relays : filter'[q] # 0 => q \in up
    <3>1. CASE r \in up /\ registry # 0
      <4>1. Subscribed({r}, registry) /\ {r} \in SUBSET Relays /\ registry \in 0..MaxClock
        BY <1>3, <3>1 DEF Watch, InboxTypes, InboundTypeOK
      <4> QED
        BY <4>1, ReqsTyped DEF InboxTypes
    <3>2. CASE ~(r \in up /\ registry # 0)
      BY <1>3, <3>2 DEF Watch, InboxTypes, InboundTypeOK
    <3> QED
      BY <3>1, <3>2
  <2>2. known' \in SUBSET Relays
    BY <1>3 DEF Watch, InboxTypes, InboundTypeOK
  <2> QED
    BY <1>3, <2>1, <2>2 DEF InboxTypes, InboundTypeOK, Watch
<1> QED
  BY <1>1, <1>2, <1>3

\* The channels are opened and closed, the session ends.
LEMMA ChatTyped ==
  ASSUME InboxTypes, ReadSession \/ OpenChat \/ CloseChat \/ EndSession
  PROVE  InboxTypes'
<1> USE DEF rowVars, relayVars, inboxVars, historyVars, NoEvent
<1>0. MaxClock \in Nat \ {0} /\ Burst \in Nat
  BY InboundAssumption
<1>1. CASE ReadSession
  <2>1. Since \in 0..MaxClock
    BY <1>0 DEF InboxTypes, InboundTypeOK, Since, LeastOf, OpenedAt, Party
  <2> QED
    BY <1>1, <2>1 DEF InboxTypes, InboundTypeOK, ReadSession
<1>2. CASE OpenChat
  <2>1. Subscribed(Relays, opening) /\ opening \in 0..MaxClock /\ running /\ opening # 0
    BY <1>2 DEF InboxTypes, InboundTypeOK, OpenChat
  <2>2. /\ filter' \in [Relays -> 0..MaxClock] /\ pending' \in [Relays -> SUBSET Event]
        /\ \A q \in Relays : filter'[q] # 0 => q \in up
    BY <2>1, ReqsTyped DEF InboxTypes
  <2> QED
    BY <1>0, <1>2, <2>1, <2>2 DEF InboxTypes, InboundTypeOK, OpenChat
<1>3. CASE CloseChat
  <2>1. /\ filter' \in [Relays -> 0..MaxClock] /\ pending' \in [Relays -> SUBSET Event]
        /\ \A q \in Relays : filter'[q] = 0
    BY <1>0, <1>3 DEF CloseChat
  <2>2. /\ inbox' \in BOOLEAN /\ registry' = 0
        /\ UNCHANGED <<clock, rowVars, held, up, running, known, opening, seen, tokens,
                       handling, historyVars>>
    BY <1>3 DEF CloseChat
  <2>3. running
    BY <1>3 DEF CloseChat
  <2> QED
    BY <1>0, <2>1, <2>2, <2>3 DEF InboxTypes, InboundTypeOK
<1>4. CASE EndSession
  BY <1>4 DEF InboxTypes, InboundTypeOK, EndSession
<1> QED
  BY <1>1, <1>2, <1>3, <1>4

\* The bounded memory of outer ids.
LEMMA MemoryTyped ==
  ASSUME InboundTypeOK, NEW e \in Event
  PROVE  Remember(e) \in Seq(Event) /\ Len(Remember(e)) <= SeenCapacity
<1> DEFINE grown == Append(seen, e)
<1>1. SeenCapacity \in Nat /\ seen \in Seq(Event) /\ Len(seen) <= SeenCapacity
  BY InboundAssumption DEF InboundTypeOK
<1>2. grown \in Seq(Event) /\ Len(grown) = Len(seen) + 1
  BY <1>1
<1>3. Tail(grown) \in Seq(Event) /\ Len(Tail(grown)) = Len(seen)
  BY <1>1, <1>2
<1> HIDE DEF grown
<1>4. Remember(e) = IF Len(grown) > SeenCapacity THEN Tail(grown) ELSE grown
  BY DEF Remember, grown
<1> QED
  BY <1>1, <1>2, <1>3, <1>4

\* A relay sends an event, and the steps of handle before the lock of the store.
LEMMA ReceiveTyped ==
  ASSUME InboxTypes, NEW r \in Relays, NEW e \in Event, Receive(r, e)
  PROVE  InboxTypes'
<1>1. /\ running /\ pending' = [pending EXCEPT ![r] = @ \ {e}]
      /\ UNCHANGED <<clock, session, cursor, stored, held, up, filter, running, known,
                     registry, opening, late>>
      /\ Accept(e)
  BY DEF Receive, rowVars
<1>2. pending' \in [Relays -> SUBSET Event]
  BY <1>1 DEF InboxTypes, InboundTypeOK
<1>3. /\ inbox' \in BOOLEAN
      /\ seen' \in Seq(Event) /\ Len(seen') <= SeenCapacity
      /\ tokens' \in [Party -> 0..Burst]
      /\ handling' = NoEvent \/ handling' \in Handling
      /\ limited' \subseteq Event
  <2>1. CASE UNCHANGED <<inboxVars, limited>>
    BY <2>1 DEF InboxTypes, InboundTypeOK, inboxVars, Handling
  <2>2. CASE inbox' = FALSE /\ UNCHANGED <<seen, tokens, handling, limited>>
    BY <2>2 DEF InboxTypes, InboundTypeOK, Handling
  <2>3. CASE /\ seen' = Remember(e) /\ inbox' = inbox
             /\ IF tokens[Author(e.inner)] = 0
                THEN /\ limited' = limited \union {e}
                     /\ UNCHANGED <<tokens, handling>>
                ELSE /\ tokens' = [tokens EXCEPT ![Author(e.inner)] = @ - 1]
                     /\ handling' = [phase |-> "unwrapped", event |-> e]
                     /\ UNCHANGED limited
    <3>1. seen' \in Seq(Event) /\ Len(seen') <= SeenCapacity /\ inbox' \in BOOLEAN
      BY <2>3, MemoryTyped DEF InboxTypes, InboundTypeOK
    <3>2. CASE tokens[Author(e.inner)] = 0
      BY <2>3, <3>1, <3>2 DEF InboxTypes, InboundTypeOK, Handling
    <3>3. CASE tokens[Author(e.inner)] # 0
      <4>1. Author(e.inner) \in Party /\ Burst \in Nat
        BY InboundAssumption DEF Author, Party
      <4>2. /\ tokens' = [tokens EXCEPT ![Author(e.inner)] = @ - 1]
            /\ tokens \in [Party -> 0..Burst]
        BY <2>3, <3>3 DEF InboxTypes, InboundTypeOK
      <4>3. tokens' \in [Party -> 0..Burst]
        BY <3>3, <4>1, <4>2
      <4>4. handling' \in Handling
        BY <2>3, <3>3 DEF Handling
      <4>5. limited' \subseteq Event
        BY <2>3, <3>3 DEF InboxTypes, InboundTypeOK
      <4> QED
        BY <3>1, <4>3, <4>4, <4>5
    <3> QED
      BY <3>2, <3>3
  <2> QED
    BY <1>1, <2>1, <2>2, <2>3 DEF Accept
<1> QED
  BY <1>1, <1>2, <1>3 DEF InboxTypes, InboundTypeOK, Handling

\* The two statements of handle.
LEMMA HandleTyped ==
  ASSUME InboxTypes, Store \/ AdvanceCursor
  PROVE  InboxTypes'
<1> USE DEF relayVars, boundVars, historyVars
<1>0. /\ handling \in Handling /\ handling.event \in Event /\ running
      /\ Handling = [phase: {"unwrapped", "stored"}, event: Event]
  BY DEF InboxTypes, InboundTypeOK, Store, AdvanceCursor, NoEvent, Handling
<1>1. CASE Store
  <2>1. CASE IsNew(handling.event)
    <3>1. /\ stored' = Append(stored, handling.event)
          /\ late' = IF session = "ended" THEN late + 1 ELSE late
          /\ handling' = [handling EXCEPT !.phase = "stored"]
      BY <1>1, <2>1 DEF Store
    <3>2. stored' \in Seq(Event) /\ late' \in Nat
      BY <1>0, <3>1 DEF InboxTypes, InboundTypeOK
    <3>3. handling' \in Handling
      BY <1>0, <3>1
    <3> QED
      BY <1>0, <1>1, <3>2, <3>3 DEF InboxTypes, InboundTypeOK, Store
  <2>2. CASE ~IsNew(handling.event)
    BY <1>0, <1>1, <2>2 DEF InboxTypes, InboundTypeOK, Store
  <2> QED
    BY <2>1, <2>2
<1>2. CASE AdvanceCursor
  <2> DEFINE e == handling.event
             p == Author(e.inner)
             to == Advanced(cursor[p], Clamp(e.at))
  <2>1. /\ cursor' = [cursor EXCEPT ![p] = to] /\ handling' = NoEvent
        /\ UNCHANGED <<clock, session, stored, relayVars, running, known, registry, opening,
                       inbox, seen, tokens, boundVars, historyVars>>
    BY <1>2 DEF AdvanceCursor
  <2>2. p \in Party
    BY DEF Author, Party
  <2>3. clock \in 1..MaxClock /\ MaxClock \in Nat /\ cursor[p] \in 0..MaxClock
    BY <2>2, InboundAssumption DEF InboxTypes, InboundTypeOK, OpenedAt
  <2>4. e.at \in Nat
    <3>1. Max(Skews) \in Nat
      BY GreatestIs, InboundAssumption
    <3> QED
      BY <1>0, <2>3, <3>1 DEF Event, Stamps, OpenedAt
  <2> HIDE DEF e, p
  <2>5. to \in 0..MaxClock
    BY <2>3, <2>4 DEF Advanced, Clamp, GreatestOf, LeastOf
  <2> HIDE DEF to
  <2>6. cursor' \in [Party -> 0..MaxClock]
    BY <2>1, <2>2, <2>5 DEF InboxTypes, InboundTypeOK
  <2> QED
    BY <1>0, <2>1, <2>6 DEF InboxTypes, InboundTypeOK
<1> QED
  BY <1>1, <1>2

\* A restart forgets all that is in memory.
LEMMA RestartTyped ==
  ASSUME InboxTypes, Crash \/ Start \/ UNCHANGED vars
  PROVE  InboxTypes'
<1> USE DEF rowVars, relayVars, inboxVars, boundVars, historyVars
<1>0. MaxClock \in Nat /\ Burst \in Nat /\ SeenCapacity \in Nat
      /\ << >> \in Seq(Event) /\ Len(<< >>) = 0
  BY InboundAssumption
<1>1. CASE Crash
  <2>1. /\ filter' \in [Relays -> 0..MaxClock] /\ pending' \in [Relays -> SUBSET Event]
        /\ \A q \in Relays : filter'[q] = 0
        /\ tokens' \in [Party -> 0..Burst]
        /\ seen' \in Seq(Event) /\ Len(seen') <= SeenCapacity
    BY <1>0, <1>1 DEF Crash
  <2>2. /\ inbox' \in BOOLEAN /\ ~inbox' /\ running' \in BOOLEAN /\ ~running'
        /\ registry' = 0 /\ opening' = 0 /\ handling' = NoEvent /\ known' = {}
        /\ UNCHANGED <<clock, rowVars, held, up, historyVars>>
    BY <1>1 DEF Crash
  <2> QED
    BY <1>0, <2>1, <2>2 DEF InboxTypes, InboundTypeOK
<1>2. CASE Start
  BY <1>2 DEF InboxTypes, InboundTypeOK, Start
<1>3. CASE UNCHANGED vars
  BY <1>3 DEF InboxTypes, InboundTypeOK, vars
<1> QED
  BY <1>1, <1>2, <1>3

\* Every step keeps the types.
LEMMA TypesKeep == InboxTypes /\ [Next]_vars => InboxTypes'
<1> SUFFICES ASSUME InboxTypes, [Next]_vars PROVE InboxTypes'
  OBVIOUS
<1>1. CASE Environment
  BY <1>1, PublishTyped, ClockTyped, ChatTyped, RelaysTyped DEF Environment
<1>2. CASE \/ ReadSession \/ OpenChat \/ CloseChat
           \/ \E r \in Relays : Watch(r)
  BY <1>2, ChatTyped, RelaysTyped
<1>3. CASE \/ \E r \in Relays, e \in Event : Receive(r, e)
           \/ Store \/ AdvanceCursor
  BY <1>3, ReceiveTyped, HandleTyped
<1> QED
  BY <1>1, <1>2, <1>3, RestartTyped DEF Next

\* The types of the inbox: its memories keep their bounds, a handler runs and a
\* filter is registered only in a running process, and a REQ is held only by a
\* connected relay (chat/inbound.rs, chat/channels.rs, relays.rs watch).
THEOREM InboundTypeCorrect == Spec => []InboundTypeOK
<1>1. InboxTypes => InboundTypeOK
  BY DEF InboxTypes
<1> QED
  BY <1>1, TypesStart, TypesKeep, PTL DEF Spec

-----------------------------------------------------------------------------
(* What is written.                                                        *)

\* The rows and the event in hand.
RowTypes ==
  /\ clock \in Nat /\ clock >= OpenedAt
  /\ session \in {"live", "ended"}
  /\ cursor \in [Party -> Nat]
  /\ stored \in Seq(Event)
  /\ handling.phase # "idle" => handling.event \in Event
  /\ late \in Nat

\* Between the two statements of handle the message in hand is a row.
InHand ==
  handling.phase = "stored" => \E i \in DOMAIN stored : stored[i] = handling.event

\* The one message that may follow the end was in hand when it came.
EndIsSeen ==
  /\ session = "live" => late = 0
  /\ session = "ended" /\ handling.phase = "unwrapped" => late = 0

InboxInv ==
  RowTypes /\ InHand /\ EndIsSeen /\ StoredOnce /\ CursorIsEarned /\ NothingMoreOnceEnded

-----------------------------------------------------------------------------
\* A stamp is a time not before the session was opened.
LEMMA StampsAreTimes ==
  ASSUME NEW e \in Event
  PROVE  /\ e.at \in Nat /\ e.at >= OpenedAt
         /\ Author(e.inner) \in Party
  BY DEF Event, Stamps, Author, Party, OpenedAt

LEMMA InboxStarts == Init => InboxInv
  BY DEF Init, InboxInv, RowTypes, InHand, EndIsSeen, StoredOnce, CursorIsEarned,
         NothingMoreOnceEnded, NoEvent, OpenedAt, Party

\* Where rows and the clock stay and no other event is in hand, all stays true.
LEMMA RowsKept ==
  ASSUME InboxInv,
         UNCHANGED <<clock, cursor, stored, late>>,
         session' = session \/ (session' = "ended" /\ handling.phase # "stored"),
         handling' = handling \/ handling' = NoEvent
  PROVE  InboxInv'
<1>1. handling'.phase # "idle" => handling' = handling
  BY DEF NoEvent
<1>2. RowTypes'
  BY <1>1 DEF InboxInv, RowTypes
<1>3. InHand'
  BY <1>1 DEF InboxInv, InHand
<1>4. EndIsSeen'
  BY <1>1 DEF InboxInv, EndIsSeen, RowTypes
<1>5. StoredOnce' /\ CursorIsEarned' /\ NothingMoreOnceEnded'
  BY DEF InboxInv, StoredOnce, CursorIsEarned, NothingMoreOnceEnded
<1> QED
  BY <1>2, <1>3, <1>4, <1>5 DEF InboxInv

\* The clock only goes on.
LEMMA TickKeeps ==
  ASSUME InboxInv, Tick
  PROVE  InboxInv'
<1>1. /\ clock' = clock + 1
      /\ UNCHANGED <<session, cursor, stored, handling, late>>
  BY DEF Tick, rowVars, historyVars
<1>2. RowTypes' /\ InHand' /\ EndIsSeen' /\ StoredOnce' /\ NothingMoreOnceEnded'
  BY <1>1 DEF InboxInv, RowTypes, InHand, EndIsSeen, StoredOnce, NothingMoreOnceEnded, OpenedAt
<1>3. CursorIsEarned'
  BY <1>1 DEF InboxInv, RowTypes, CursorIsEarned
<1> QED
  BY <1>2, <1>3 DEF InboxInv

\* An event is taken in hand only while the session is not over.
LEMMA ReceiveKeeps ==
  ASSUME InboxInv, NEW r \in Relays, NEW e \in Event, Receive(r, e)
  PROVE  InboxInv'
<1>1. /\ UNCHANGED <<clock, session, cursor, stored, late>>
      /\ Accept(e)
  BY DEF Receive, rowVars
<1>2. CASE handling' = handling
  BY <1>1, <1>2, RowsKept
<1>3. CASE handling' = [phase |-> "unwrapped", event |-> e] /\ session # "ended"
  <2>1. RowTypes' /\ InHand' /\ EndIsSeen'
    BY <1>1, <1>3 DEF InboxInv, RowTypes, InHand, EndIsSeen
  <2>2. StoredOnce' /\ CursorIsEarned' /\ NothingMoreOnceEnded'
    BY <1>1 DEF InboxInv, StoredOnce, CursorIsEarned, NothingMoreOnceEnded
  <2> QED
    BY <2>1, <2>2 DEF InboxInv
<1> QED
  BY <1>1, <1>2, <1>3 DEF Accept, Ended, inboxVars

\* The first statement of handle: a message with a new inner id is a new row.
LEMMA StoreKeeps ==
  ASSUME InboxInv, Store
  PROVE  InboxInv'
<1>1. /\ handling.phase = "unwrapped"
      /\ handling.event \in Event
      /\ UNCHANGED <<clock, session, cursor>>
  BY DEF Store, InboxInv, RowTypes
<1>2. CASE ~IsNew(handling.event)
  BY <1>1, <1>2, RowsKept DEF Store
<1>3. CASE IsNew(handling.event)
  <2> DEFINE e == handling.event
             n == Len(stored) + 1
  <2>1. /\ stored' = Append(stored, e)
        /\ late' = IF session = "ended" THEN late + 1 ELSE late
        /\ handling' = [handling EXCEPT !.phase = "stored"]
    BY <1>3 DEF Store
  <2>2. /\ stored' \in Seq(Event)
        /\ DOMAIN stored = 1..(n - 1) /\ DOMAIN stored' = 1..n
        /\ n \in DOMAIN stored' /\ stored'[n] = e
        /\ \A i \in DOMAIN stored : i \in DOMAIN stored' /\ stored'[i] = stored[i]
    BY <1>1, <2>1 DEF InboxInv, RowTypes
  <2>3. late = 0 /\ late' \in {0, 1} /\ (session = "live" => late' = 0)
    BY <1>1, <2>1 DEF InboxInv, RowTypes, EndIsSeen
  <2>4. handling'.event = e \/ handling' = handling
    BY <2>1
  <2>5. \E i \in DOMAIN stored' : stored'[i] = handling'.event
    BY <2>2, <2>4
  <2>6. handling'.phase # "unwrapped"
    <3>1. CASE "phase" \in DOMAIN handling
      BY <2>1, <3>1
    <3>2. CASE "phase" \notin DOMAIN handling
      BY <1>1, <2>1, <3>2
    <3> QED
      BY <3>1, <3>2
  <2>7. RowTypes' /\ InHand' /\ EndIsSeen' /\ NothingMoreOnceEnded'
    BY <1>1, <2>2, <2>3, <2>4, <2>5, <2>6
    DEF InboxInv, RowTypes, InHand, EndIsSeen, NothingMoreOnceEnded
  <2>8. StoredOnce'
    BY <1>3, <2>2 DEF InboxInv, StoredOnce, IsNew
  <2>9. CursorIsEarned'
    BY <1>1, <2>2 DEF InboxInv, CursorIsEarned
  <2> QED
    BY <2>7, <2>8, <2>9 DEF InboxInv
<1> QED
  BY <1>2, <1>3

\* The second statement of handle: the cursor goes to the row just written.
LEMMA AdvanceKeeps ==
  ASSUME InboxInv, AdvanceCursor
  PROVE  InboxInv'
<1> DEFINE e == handling.event
           p == Author(e.inner)
           to == Advanced(cursor[p], Clamp(e.at))
<1>1. /\ handling.phase = "stored"
      /\ cursor' = [cursor EXCEPT ![p] = to]
      /\ handling' = NoEvent
      /\ UNCHANGED <<clock, session, stored, late>>
  BY DEF AdvanceCursor, historyVars
<1>2. e \in Event
  BY <1>1 DEF InboxInv, RowTypes
<1>3. p \in Party /\ e.at \in Nat
  BY <1>2, StampsAreTimes
<1>4. to \in Nat /\ (to = cursor[p] \/ (to <= e.at /\ to <= clock))
  BY <1>3 DEF InboxInv, RowTypes, Advanced, Clamp, GreatestOf, LeastOf
<1>5. RowTypes'
  BY <1>1, <1>3, <1>4 DEF InboxInv, RowTypes, NoEvent
<1>6. InHand' /\ EndIsSeen' /\ StoredOnce' /\ NothingMoreOnceEnded'
  BY <1>1 DEF InboxInv, EndIsSeen, InHand, StoredOnce, NothingMoreOnceEnded, NoEvent
<1>7. PICK i \in DOMAIN stored : stored[i] = e
  BY <1>1 DEF InboxInv, InHand
<1>8. ASSUME NEW q \in Party
      PROVE  /\ cursor'[q] <= clock
             /\ cursor'[q] # 0 => \E j \in DOMAIN stored :
                                    /\ Author(stored[j].inner) = q
                                    /\ stored[j].at >= cursor'[q]
  <2>1. CASE cursor'[q] = cursor[q]
    BY <2>1 DEF InboxInv, CursorIsEarned
  <2>2. CASE q = p /\ cursor'[q] = to /\ to <= e.at /\ to <= clock
    BY <1>3, <1>4, <1>7, <2>2
  <2> QED
    BY <1>1, <1>4, <2>1, <2>2 DEF InboxInv, RowTypes
<1>9. CursorIsEarned'
  BY <1>1, <1>8 DEF CursorIsEarned
<1> QED
  BY <1>5, <1>6, <1>9 DEF InboxInv

-----------------------------------------------------------------------------
LEMMA InboxKeeps == InboxInv /\ [Next]_vars => InboxInv'
<1> SUFFICES ASSUME InboxInv, [Next]_vars
             PROVE  InboxInv'
  OBVIOUS
<1> USE DEF rowVars, inboxVars, historyVars
<1>1. ASSUME NEW m \in Messages, NEW at, NEW where, Publish(m, at, where)
      PROVE  InboxInv'
  BY <1>1, RowsKept DEF Publish
<1>2. CASE Tick
  BY <1>2, TickKeeps
<1>3. CASE EndSession
  BY <1>3, RowsKept DEF EndSession
<1>4. ASSUME NEW r \in Relays, Disconnect(r) \/ Reconnect(r) \/ Watch(r)
      PROVE  InboxInv'
  BY <1>4, RowsKept DEF Disconnect, Reconnect, Watch
<1>5. CASE ReadSession \/ OpenChat \/ CloseChat
  BY <1>5, RowsKept DEF ReadSession, OpenChat, CloseChat
<1>6. ASSUME NEW r \in Relays, NEW e \in Event, Receive(r, e)
      PROVE  InboxInv'
  BY <1>6, ReceiveKeeps
<1>7. CASE Store
  BY <1>7, StoreKeeps
<1>8. CASE AdvanceCursor
  BY <1>8, AdvanceKeeps
<1>9. CASE Crash
  BY <1>9, RowsKept DEF Crash
<1>10. CASE Start
  BY <1>10, RowsKept DEF Start
<1>11. CASE UNCHANGED vars
  BY <1>11, RowsKept DEF vars
<1> QED
  BY <1>1, <1>2, <1>3, <1>4, <1>5, <1>6, <1>7, <1>8, <1>9, <1>10, <1>11
  DEF Next, Environment

\* However messages are wrapped, sent and replayed, and wherever a restart
\* falls, the inbox stores each once, advances no cursor past what it stored,
\* and takes at most the message in hand once the session is over
\* (chat/inbound.rs handle).
THEOREM InboxIsSound == Spec => []InboundIsSound
<1>1. InboxInv => InboundIsSound
  BY DEF InboxInv, InboundIsSound
<1> QED
  BY <1>1, InboxStarts, InboxKeeps, PTL DEF Spec

=============================================================================
