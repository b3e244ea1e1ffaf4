---------------------------- MODULE PrintUsingProps ----------------------------
(***************************************************************************)
(* What PRINT USING keeps of its format.                                   *)
(***************************************************************************)
EXTENDS PrintUsing

At(k) == IF k \in DOMAIN buf THEN buf[k] ELSE "end"

Run(i, j) == (\A k \in i .. j : buf[k] = "#") /\ At(i - 1) # "#" /\ At(j + 1) # "#"

\* Every number has digits on both sides of its point, and nothing else.
Plain ==
  /\ \A k \in DOMAIN buf : buf[k] \notin {"$", "*", ",", "-", "^"}
  /\ \A i \in DOMAIN buf : \A j \in i .. Len(buf) : Run(i, j) =>
       \/ At(j + 1) = "." /\ At(i - 1) # "."
       \/ At(j + 1) # "." /\ At(i - 1) = "." /\ At(i - 2) = "#"

Columns(tok) == CASE tok.kind = "char" -> 1 [] tok.kind = "string" -> tok.len [] OTHER -> Width(tok)

\* The columns of some tokens.
ColumnsOf(toks) ==
  LET ends[k \in 0 .. Len(toks)] == IF k = 0 THEN 0 ELSE ends[k - 1] + Columns(toks[k])
  IN ends[Len(toks)]

\* The columns of a plain format are those of what is printed with it: its tokens have the width
\* of the whole format, and every number that fits takes just its field's.
PlainFormatsKeepColumns ==
  Plain =>
    /\ phase = "print" => ColumnsOf(tokens) = Len(buf)
    /\ piece.kind = "fits" => piece.len = Width(piece.tok)

\* The interpreter gives up on PRINT USING for two reasons only: a format that ends in a number
\* without a point, and a number that takes up all the digits of a float.
UsingPanicsAreExplained ==
  phase = "panic" =>
    \/ piece = NoPiece /\ \E k \in DOMAIN buf :
         buf[k] = "#" /\ \A j \in k .. Len(buf) : buf[j] \in {"#", ",", "-", "^"}
    \/ piece # NoPiece /\ WholeLen(piece.tok, piece.op) > MaxDigits
=============================================================================
