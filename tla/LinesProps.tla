------------------------------- MODULE LinesProps ------------------------------
(***************************************************************************)
(* What the lexer keeps of a line.                                         *)
(***************************************************************************)
EXTENDS Lines

\* A program that is saved can be loaded, and is the same: the tokens of a stored line are those
\* of its text when it is read again, which gets a blank after the number if it has none. A line
\* that began with a blank, and is as long as lines may be, is refused.
ReloadsTheSame ==
  phase = "done" /\ first # <<>> =>
    \/ tokens = first
    \/ tokens = <<Tok("LONGLINE")>> /\ Len(raw) = maxLineLen /\ raw[Beyond(raw, {"1"})] # "blank"

\* In a list of tokens a comma or semicolon is the trailing one just where a statement ends.
Trails(list) ==
  \A k \in DOMAIN list :
    LET next == IF k < Len(list) THEN list[k + 1].token ELSE "none"
    IN /\ list[k].token \in {"COMMA", "SEMI"} => next \notin {"EOL", "COLON", "ELSE"}
       /\ list[k].token \in {"TRAILING_COMMA", "TRAILING_SEMI"} => next \in {"EOL", "COLON", "ELSE"}

\* A comma or semicolon is told apart at the end of a statement, and there only: two of them, a
\* comment or an IF's ELSE in between included.
SeparatorsTrail == Trails(tokens)

\* A string is the text between its quotes as it was typed, blanks and all, except that a
\* character outside ASCII is cut to its low byte: its length is that of the text, and every
\* other character of it is the one that was typed there.
StringsAsTyped ==
  \A k \in DOMAIN tokens :
    tokens[k].token = "STRING" =>
      LET quoted == tokens[k].quoted
      IN \E a \in DOMAIN raw :
           /\ a - 1 + Len(quoted) <= Len(raw)
           /\ \A j \in DOMAIN quoted :
                quoted[j] = raw[a - 1 + j] \/ (raw[a - 1 + j] = "wide" /\ quoted[j] = "low byte")
================================================================================
