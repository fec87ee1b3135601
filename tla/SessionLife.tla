---------------------------- MODULE SessionLife ----------------------------
(***************************************************************************)
(* What the rest of Serbero relies on about the rows of the sessions       *)
(* table, whoever writes them: a session is opened for one dispute, a      *)
(* dispute has at most one session that is not over, a session is handed   *)
(* off at most once, guidance starts from active mediation only, and a     *)
(* session that is over never changes again.  The detailed modules         *)
(* implement this one (store/sessions.rs keeps it with guarded UPDATEs     *)
(* and a partial unique index).                                            *)
(***************************************************************************)

CONSTANTS
  Sessions,     \* the identities of session rows
  Disputes,     \* the disputes Mostro publishes
  None          \* no dispute: the row does not exist yet

VARIABLES
  state,        \* state[s]: the column sessions.state, "none" before the insert
  dispute       \* dispute[s]: the column sessions.dispute_id

lifeVars == <<state, dispute>>

\* The states in which hand_off may claim a session.
Mediating == {"opening", "active", "guiding"}

\* SessionState::is_terminal: the session is over.
Terminal == {"closed", "superseded"}

Live == Mediating \union {"handed_off"}

SessionState == {"none"} \union Live \union Terminal

LifeInit ==
  /\ state = [s \in Sessions |-> "none"]
  /\ dispute = [s \in Sessions |-> None]

LiveFor(d) == {s \in Sessions : dispute[s] = d /\ state[s] \in Live}

Moves(s, to) ==
  /\ state' = [state EXCEPT ![s] = to]
  /\ UNCHANGED dispute

Open(s, d) ==
  /\ state[s] = "none"
  /\ LiveFor(d) = {}
  /\ state' = [state EXCEPT ![s] = "opening"]
  /\ dispute' = [dispute EXCEPT ![s] = d]

Activate(s) == state[s] = "opening" /\ Moves(s, "active")

StartGuiding(s) == state[s] = "active" /\ Moves(s, "guiding")

HandOff(s) == state[s] \in Mediating /\ Moves(s, "handed_off")

End(s) == state[s] \in Live /\ \E to \in Terminal : Moves(s, to)

LifeNext ==
  \E s \in Sessions :
    \/ \E d \in Disputes : Open(s, d)
    \/ Activate(s)
    \/ StartGuiding(s)
    \/ HandOff(s)
    \/ End(s)

LifeSpec == LifeInit /\ [][LifeNext]_lifeVars

=============================================================================
