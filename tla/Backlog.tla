------------------------------ MODULE Backlog ------------------------------
(***************************************************************************)
(* How revisions of a dispute reach Serbero: the live subscription, the    *)
(* relay watcher and the backlog sync (src/src/daemon/mod.rs start and     *)
(* event_loop, daemon/relays.rs watch, daemon/sync.rs).                    *)
(*                                                                         *)
(* Each relay stores the newest revision it got; some miss some.  What     *)
(* Serbero records is the disputes table's rule: a revision of a later     *)
(* second.  What follows from a record is Notifier's.  One dispute.        *)
(***************************************************************************)
EXTENDS Naturals, Sequences, FiniteSets, FiniteSetsExt

CONSTANTS
  Relays,
  LastTick,      \* bound: the clock
  MaxRevisions,  \* bound: revisions the node publishes
  MaxFaults      \* bound: connections lost, syncs that time out, restarts

ASSUME BacklogAssumption ==
  /\ IsFiniteSet(Relays) /\ Relays # {}
  /\ LastTick \in Nat /\ MaxRevisions \in Nat /\ MaxFaults \in Nat

VARIABLES
  tick,        \* the clock
  revisions,   \* external: what the node published, with its event id
  holds,       \* external: the revision a relay stores; 0 is none
  up,          \* relays connected to Serbero
  feed,        \* live events on their way, by relay
  since,       \* the live subscription's since
  recorded,    \* the row of the dispute: its revision; 0 is no row
  sync,        \* what sync_loop is doing
  on,          \* the process runs
  faults,
  replaced     \* history: the revisions that are no longer recorded

backlogVars == <<tick, revisions, holds, up, feed, since, recorded, sync, on,
                 faults, replaced>>

relayVars == <<revisions, holds>>

NoSync == [step |-> "idle", got |-> {}, asked |-> {}]

\* NIP-01: the later created_at, then the lowest id.
Newer(i, j) ==
  \/ j = 0
  \/ revisions[i].at > revisions[j].at
  \/ revisions[i].at = revisions[j].at /\ revisions[i].id < revisions[j].id

-----------------------------------------------------------------------------
(* The node and the relays (external).                                     *)

\* A revision reaches some relays, which keep it if it is newer, and send it to
\* whoever subscribed.
Issue(id, reached) ==
  LET i == Len(revisions) + 1
  IN /\ i <= MaxRevisions
     /\ reached # {}
     /\ \A j \in DOMAIN revisions : revisions[j].id # id
     /\ revisions' = Append(revisions, [at |-> tick, id |-> id])
     /\ holds' = [r \in Relays |->
                    IF /\ r \in reached
                       /\ \/ holds[r] = 0
                          \/ revisions[holds[r]].at < tick
                          \/ revisions[holds[r]].at = tick /\ id < revisions[holds[r]].id
                    THEN i ELSE holds[r]]
     /\ feed' = IF on /\ tick >= since
                THEN feed \union {<<r, i>> : r \in reached \intersect up} ELSE feed
     /\ UNCHANGED <<tick, up, since, recorded, sync, on, faults, replaced>>

NextTick ==
  /\ tick < LastTick
  /\ tick' = tick + 1
  /\ UNCHANGED <<relayVars, up, feed, since, recorded, sync, on, faults,
                 replaced>>

Drop(r) ==
  /\ r \in up /\ faults < MaxFaults
  /\ faults' = faults + 1
  /\ up' = up \ {r}
  /\ feed' = {e \in feed : e[1] # r}
  /\ UNCHANGED <<tick, relayVars, since, recorded, sync, on, replaced>>

\* The client reconnects; watch re-sends the subscription, which replays what
\* the relay stores.
Connect(r) ==
  /\ on /\ r \notin up
  /\ up' = up \union {r}
  /\ feed' = IF holds[r] # 0 /\ revisions[holds[r]].at >= since
             THEN feed \union {<<r, holds[r]>>} ELSE feed
  /\ UNCHANGED <<tick, relayVars, since, recorded, sync, on, faults, replaced>>

-----------------------------------------------------------------------------
(* Serbero.                                                                *)

SupersedesEqual(i) == recorded = 0 \/ revisions[recorded].at <= revisions[i].at

\* insert_if_new and apply_status: of equal seconds the first recorded stays.
Supersedes(i) == recorded = 0 \/ revisions[recorded].at < revisions[i].at

Apply(i) ==
  /\ recorded' = IF Supersedes(i) THEN i ELSE recorded
  /\ replaced' = IF Supersedes(i) /\ recorded # 0 THEN replaced \union {recorded}
                                                  ELSE replaced

\* event_loop: relays deliver in any order.
HandleLive(e) ==
  /\ on
  /\ e \in feed
  /\ feed' = feed \ {e}
  /\ Apply(e[2])
  /\ UNCHANGED <<tick, relayVars, up, since, sync, on, faults>>

\* sync_loop: at once, then when RESYNC_INTERVAL passed or the watcher asked,
\* which is any time.
BeginSync ==
  /\ on
  /\ sync.step = "idle"
  /\ sync' = [step |-> "fetching", got |-> {}, asked |-> up]
  /\ UNCHANGED <<tick, relayVars, up, feed, since, recorded, on, faults, replaced>>

\* A relay sends what it stores, and EOSE.
AnswerSync(r) ==
  /\ sync.step = "fetching"
  /\ r \in sync.asked
  /\ sync' = [sync EXCEPT !.asked = @ \ {r},
                          !.got = IF r \in up /\ holds[r] # 0 THEN @ \union {holds[r]} ELSE @]
  /\ UNCHANGED <<tick, relayVars, up, feed, since, recorded, on, faults,
                 replaced>>

\* fetch_events returns once every relay answered, or at the timeout.
EndFetch ==
  /\ sync.step = "fetching"
  /\ \/ sync.asked = {} /\ UNCHANGED faults
     \/ sync.asked # {} /\ faults < MaxFaults /\ faults' = faults + 1
  /\ sync' = IF sync.got = {} THEN NoSync ELSE [sync EXCEPT !.step = "applying"]
  /\ UNCHANGED <<tick, relayVars, up, feed, since, recorded, on, replaced>>

\* newest_revisions.
Picked(i, got) == \A j \in got : i = j \/ Newer(i, j)

ApplyNewest(i) ==
  /\ sync.step = "applying"
  /\ i \in sync.got
  /\ Picked(i, sync.got)
  /\ Apply(i)
  /\ sync' = NoSync
  /\ UNCHANGED <<tick, relayVars, up, feed, since, on, faults>>

TurnOff ==
  /\ on /\ faults < MaxFaults
  /\ faults' = faults + 1
  /\ on' = FALSE
  /\ up' = {} /\ feed' = {}
  /\ sync' = NoSync
  /\ UNCHANGED <<tick, relayVars, since, recorded, replaced>>

TurnOn ==
  /\ ~on
  /\ on' = TRUE
  /\ since' = tick
  /\ UNCHANGED <<tick, relayVars, up, feed, recorded, sync, faults, replaced>>

-----------------------------------------------------------------------------
BacklogInit ==
  /\ tick = 0 /\ revisions = << >>
  /\ holds = [r \in Relays |-> 0]
  /\ up = {} /\ feed = {} /\ since = 0
  /\ recorded = 0
  /\ sync = NoSync
  /\ on = TRUE
  /\ faults = 0
  /\ replaced = {}

BacklogNext ==
  \/ \E id \in 1..MaxRevisions, reached \in SUBSET Relays : Issue(id, reached)
  \/ \E r \in Relays : Drop(r) \/ Connect(r) \/ AnswerSync(r)
  \/ \E e \in feed : HandleLive(e)
  \/ \E i \in sync.got : ApplyNewest(i)
  \/ NextTick \/ BeginSync \/ EndFetch \/ TurnOff \/ TurnOn

\* The runtime polls the tasks, relays come back and answer, and the process
\* is started again.  The live feed is not counted on.
BacklogFairness ==
  /\ \A r \in Relays : WF_backlogVars(Connect(r)) /\ WF_backlogVars(AnswerSync(r))
  /\ WF_backlogVars(BeginSync)
  /\ WF_backlogVars(EndFetch)
  /\ WF_backlogVars(\E i \in sync.got : ApplyNewest(i))
  /\ WF_backlogVars(TurnOn)

BacklogSpec == BacklogInit /\ [][BacklogNext]_backlogVars

BacklogFairSpec == BacklogSpec /\ BacklogFairness

-----------------------------------------------------------------------------
\* Types.  What is recorded was published.
BacklogTypeOK ==
  /\ tick \in 0..LastTick
  /\ \A r \in Relays : holds[r] \in 0..Len(revisions)
  /\ up \subseteq Relays
  /\ feed \subseteq Relays \X DOMAIN revisions
  /\ recorded \in 0..Len(revisions)
  /\ sync.step \in {"idle", "fetching", "applying"}
  /\ sync.got \subseteq DOMAIN revisions /\ sync.asked \subseteq Relays
  /\ on \in BOOLEAN
  /\ ~on => sync = NoSync /\ feed = {} /\ up = {}

\* A revision that was replaced never comes back, whatever relays replay: the
\* dispute does not move twice for one revision (store/disputes.rs:102).
ReplacedStaysReplaced == recorded \notin replaced

\* Serbero comes to a revision as late as any published, although relays drop,
\* some hold an old one and a restart asks for new events only
\* (daemon/sync.rs sync_loop).
CatchesUp ==
  []<>(\A i \in DOMAIN revisions :
         recorded # 0 /\ revisions[i].at <= revisions[recorded].at)

=============================================================================
