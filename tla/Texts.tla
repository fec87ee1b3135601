------------------------------- MODULE Texts -------------------------------
(***************************************************************************)
(* The transcript and the updates sent to solvers, split into DMs that are *)
(* not too long (transcript, update and chunk in src/src/solver/mod.rs).   *)
(*                                                                         *)
(* A line is its number of characters; what is written of it is a piece,   *)
(* from one character to another.  The loop of chunk is followed one       *)
(* iteration at a time.                                                    *)
(***************************************************************************)
EXTENDS Naturals, Sequences, SequencesExt, FiniteSets, FiniteSetsExt

CONSTANTS
  Limits,   \* values of MAX_DM_CHARS
  Header,   \* characters of a header without its part
  Scripts   \* the lines of the messages that are written

\* ", part 999/999".
LongestPart == 14

ASSUME TextsAssumption ==
  /\ Header \in Nat \ {0}
  /\ \A limit \in Limits : limit \in Nat /\ limit > Header + LongestPart
  /\ \A script \in Scripts : script \in Seq(Nat \ {0})

VARIABLES
  limit,   \* MAX_DM_CHARS
  kind,    \* "transcript" or "update"
  script,  \* the lines
  at,      \* the loop: the line it is at, and its characters already written
  body,    \* `current`: the pieces of the body being filled
  chunks,  \* the bodies that are full
  done

textsVars == <<limit, kind, script, at, body, chunks, done>>

-----------------------------------------------------------------------------
Sum2(s) == MapThenSumSet(LAMBDA i : s[i], DOMAIN s)

Digits(n) == IF n < 10 THEN 1 ELSE IF n < 100 THEN 2 ELSE 3

\* The header of part i of n: ", part i/n".
HeaderOf(i, n) ==
  IF kind = "transcript" THEN Header + 8 + Digits(i) + Digits(n) ELSE Header

\* The characters a body may have.
Budget ==
  IF kind = "transcript" THEN limit - (Header + LongestPart) ELSE limit - Header - 1

Length(piece) == piece.to - piece.from + 1

\* Characters of a body: its pieces, a newline between two.
Used(b) == Sum2([i \in DOMAIN b |-> Length(b[i])]) + (IF b = << >> THEN 0 ELSE Len(b) - 1)

\* A transcript that fits is one DM, without parts.
FitsInOne ==
  kind = "transcript" /\ Header + Len(script) + Sum2(script) <= limit

SeparatorNever(b) == 0

Separator(b) == IF b = << >> THEN 0 ELSE 1

Room == IF Budget > Used(body) + Separator(body)
        THEN Budget - Used(body) - Separator(body) ELSE 0

Left == script[at.line] - at.written

\* The body is full, or the rest of the line fits whole in the next one.
StartsNext == Room = 0 \/ (body # << >> /\ Left > Room /\ Left <= Budget)

InLoop == ~done /\ at.line <= Len(script)

Flush ==
  /\ InLoop
  /\ StartsNext
  /\ chunks' = Append(chunks, body)
  /\ body' = << >>
  /\ UNCHANGED <<limit, kind, script, at, done>>

Take ==
  LET chars == IF Left < Room THEN Left ELSE Room
  IN /\ InLoop
     /\ ~StartsNext
     /\ body' = Append(body, [line |-> at.line, from |-> at.written + 1,
                              to |-> at.written + chars])
     /\ at' = IF chars = Left THEN [line |-> at.line + 1, written |-> 0]
                              ELSE [at EXCEPT !.written = @ + chars]
     /\ UNCHANGED <<limit, kind, script, chunks, done>>

Finish ==
  /\ ~done
  /\ at.line > Len(script)
  /\ chunks' = Append(chunks, body)
  /\ body' = << >>
  /\ done' = TRUE
  /\ UNCHANGED <<limit, kind, script, at>>

\* The whole transcript in one DM.
WriteWhole ==
  /\ ~done
  /\ FitsInOne
  /\ chunks' = <<[i \in DOMAIN script |-> [line |-> i, from |-> 1, to |-> script[i]]]>>
  /\ done' = TRUE
  /\ UNCHANGED <<limit, kind, script, at, body>>

TextsInit ==
  /\ limit \in Limits
  /\ kind \in {"transcript", "update"}
  /\ script \in Scripts
  /\ at = [line |-> 1, written |-> 0]
  /\ body = << >> /\ chunks = << >>
  /\ done = FALSE

TextsNext == WriteWhole \/ (~FitsInOne /\ (Flush \/ Take \/ Finish))

\* The loop runs on.
TextsFairness == WF_textsVars(TextsNext)

TextsSpec == TextsInit /\ [][TextsNext]_textsVars

TextsFairSpec == TextsSpec /\ TextsFairness

-----------------------------------------------------------------------------
Pieces == FlattenSeq(chunks)

\* What is written of a line is contiguous from its first character to its last,
\* and the lines are in their order: nothing is cut, repeated or reordered,
\* wherever the bodies end (solver/mod.rs chunk).
NothingIsCut ==
  done =>
    /\ \A i \in 1..(Len(Pieces) - 1) :
         LET p == Pieces[i]
             q == Pieces[i + 1]
         IN IF p.to < script[p.line] THEN q.line = p.line /\ q.from = p.to + 1
                                     ELSE q.line = p.line + 1 /\ q.from = 1
    /\ Pieces = << >> <=> script = << >>
    /\ Pieces # << >> => /\ Head(Pieces).line = 1 /\ Head(Pieces).from = 1
                         /\ Last(Pieces).line = Len(script)
                         /\ Last(Pieces).to = script[Len(script)]

\* A line is split only if no body has room for it (solver/mod.rs chunk).
ShortLinesStayWhole ==
  \A i \in DOMAIN Pieces :
    script[Pieces[i].line] <= Budget => Length(Pieces[i]) = script[Pieces[i].line]

\* No DM is longer than the limit; of a transcript of a hundred parts and more,
\* the parts from the hundredth on may be longer by the newline after their
\* header, which its budget leaves out (solver/mod.rs transcript, update).
DmsFit ==
  done /\ ~FitsInOne =>
    \A i \in DOMAIN chunks :
      HeaderOf(i, Len(chunks)) + 1 + Used(chunks[i])
        <= limit + (IF kind = "transcript" /\ i >= 100 THEN 1 ELSE 0)

\* What solvers read is all that was said, in order, in DMs that are not too long
\* (solver/mod.rs transcript, update, chunk).
DmsAreSound == NothingIsCut /\ ShortLinesStayWhole /\ DmsFit

\* The loop ends, whatever the lines (solver/mod.rs chunk).
TextIsWritten == <>done

=============================================================================
