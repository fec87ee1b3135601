------------------------------ MODULE MCParts ------------------------------
(* A small instance of every part of Parts.                                *)
EXTENDS Parts

SmallLanguages == <<"en", "es">>

SmallTranscripts == UNION {[1..n -> {"buyer", "seller", "serbero"}] : n \in 1..2}

\* Lines up to half longer than the longest body of a transcript, and one of
\* more than a hundred bodies.
SmallScripts == UNION {[1..n -> 1..6] : n \in 0..3} \union {<<2, 103, 3>>}

=============================================================================
