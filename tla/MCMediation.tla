---------------------------- MODULE MCMediation ----------------------------
(* One mediated session on small instances.                                *)
EXTENDS Mediation, TLC

\* A judge that understood nothing.
Blank ==
  [wrote |-> {}, wants_human |-> {}, rejects_path |-> {},
   kind |-> [p \in Party |-> "answers"], language |-> [p \in Party |-> "unknown"],
   fraud |-> FALSE, outside_scope |-> FALSE, conflict |-> FALSE,
   buyer_sent |-> FALSE, buyer_not_sent |-> FALSE, buyer_not_sent_for_guide |-> FALSE,
   buyer_has_details |-> FALSE,
   seller_received |-> FALSE, seller_received_for_guide |-> FALSE,
   seller_not_received |-> FALSE, seller_has_checked |-> FALSE]

Paid == [Blank EXCEPT !.buyer_sent = TRUE]

\* Both claims are known and backed, and do not conflict.
Gathers == [Paid EXCEPT !.buyer_has_details = TRUE, !.seller_not_received = TRUE,
                        !.seller_has_checked = TRUE]

Arrived == [Paid EXCEPT !.seller_received = TRUE, !.seller_received_for_guide = TRUE]

Foreign == [Blank EXCEPT !.kind = [p \in Party |-> "not_understood"],
                         !.language = [p \in Party |-> "es"]]

\* Only the seller's claim is known, and backed; the writer asks what is next.
Denied == [Blank EXCEPT !.seller_not_received = TRUE, !.seller_has_checked = TRUE,
                        !.kind = [p \in Party |-> "asks_next_step"]]

\* The buyer's claim is known and backed; then the judge takes it back, knows
\* the seller's, and hears the buyer greet in Spanish.
Backed == [Paid EXCEPT !.buyer_has_details = TRUE]
Greeted == [Denied EXCEPT !.kind = [p \in Party |-> "greeting"],
                          !.language = [p \in Party |-> IF p = "buyer" THEN "es" ELSE "en"]]

\* The judges of the runs.
Talk == {Blank, Paid, Backed, Denied, Foreign, Greeted}
Outcomes == {Gathers, Arrived}
GuideOnly == {Arrived}
BlankOnly == {Blank}
Puzzled == {Blank, Foreign}

\* Clocks of the parties: right, or perhaps a second behind.
Right == {0}
Behind == {-1, 0}

=============================================================================
