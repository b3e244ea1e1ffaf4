----------------------------- MODULE PrintingProps -----------------------------
(***************************************************************************)
(* What the interpreter knows of the terminal's line.                      *)
(***************************************************************************)
EXTENDS Printing

PositionIsTrue == curPrintPos(p) = p.column

\* The position that POS, TAB and commas are computed from stays that of the terminal, through
\* functions that print, faults and changes of the window.  Only a new line that the printer is
\* not told of spoils it: PRINT alone, the report of PUT, an INPUT, and one inside a string.
PositionIsKept ==
  [][PositionIsTrue /\ ~ PositionIsTrue' =>
       \/ printLine \/ executeInput
       \/ printToken /\ Head(Todo).kind = "string" /\ Head(Todo).newline]_vars

\* The command loop finds the terminal at the beginning of a line, and the position too,
\* however the program ended: at most the prompt of an INPUT that failed is still there.
PromptAtLineStart ==
  mode = "prompt" => curPrintPos(p) = 0 /\ (p.column = 0 \/ dangling)

\* The window that decides is the one of the moment: after a comma the next item begins a zone
\* that is in it, and TAB reaches its column, if that is not exactly a zone's width away.
SeparatorsReachTheirColumn ==
  [][printToken /\ PositionIsTrue =>
       LET tok == Head(Todo)
       IN /\ tok.kind \in {"COMMA", "DCOMMA", "TRAILING_COMMA"} =>
               p'.column % zoneWidth = 0 /\ p'.column < zoneWidth * numOutputZones
          /\ tok.kind = "TAB" /\ tok.tab >= p.column =>
               p'.column = tok.tab \/ tok.tab = p.column + zoneWidth]_vars
=============================================================================
