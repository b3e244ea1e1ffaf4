------------------------------- MODULE Printing -------------------------------
(***************************************************************************)
(* The terminal's line (utils.go, executePrint): the interpreter keeps a   *)
(* zone and a position in it, from which it computes commas, TAB, POS and  *)
(* whether a new line is due; the terminal has a column of its own.        *)
(*                                                                         *)
(* An item of PRINT may call a function that prints too.  The goroutine of *)
(* the signal handler changes the number of zones at any time, and gives   *)
(* up if the window is too small.                                          *)
(***************************************************************************)
EXTENDS Integers, Sequences, SequencesExt, FiniteSetsExt

CONSTANTS
  zoneWidth, minWindowRows,
  Windows,          \* the widths a window may have
  Prints, Mats,     \* the lists of some PRINT and MAT PRINT statements
  promptLen,        \* the length of INPUT's prompt
  MaxCalls,         \* bounds of the model: calls in progress,
  MaxSteps          \* and statements

ASSUME PrintingAssumption ==
  /\ zoneWidth \in Nat \ {0} /\ minWindowRows \in Nat /\ minWindowRows >= zoneWidth
  /\ Windows \subseteq Nat /\ \E rows \in Windows : rows >= minWindowRows
  /\ promptLen \in Nat /\ MaxCalls \in Nat /\ MaxSteps \in Nat

VARIABLES
  p,              \* the printer: cursorPos and outputZone, and the terminal's column
  numOutputZones, \* g.numOutputZones, which the signal handler sets
  stack,          \* what is left of the PRINTs in progress, and the calls between them
  mode,           \* "prompt", "running" or "exited"
  dangling,       \* an INPUT that failed may have left its prompt on the line
  steps

vars == <<p, numOutputZones, stack, mode, dangling, steps>>

-----------------------------------------------------------------------------
\* The printer

Home == [cursorPos |-> 0, outputZone |-> 0, column |-> 0]

\* Fault variant: the zone is forgotten.
resetCursor(q, forceNL) == IF q.cursorPos # 0 \/ forceNL THEN [q EXCEPT !.cursorPos = 0, !.column = 0] ELSE q

\* resetPrint: a new line if the position is not the first one, or in any case.
resetPrint(q, forceNL) == IF q.cursorPos # 0 \/ q.outputZone # 0 \/ forceNL THEN Home ELSE q

curPrintPos(q) == zoneWidth * q.outputZone + q.cursorPos

\* The text after a string that may hold a new line.
written(q, msg) ==
  [q EXCEPT !.cursorPos = @ + msg.len, !.column = IF msg.newline THEN msg.tail ELSE @ + msg.len]

\* Fault variant: a string that reaches beyond a zone uses up one zone only.
nextZoneOnce(q, zones) ==
  LET resid == IF q.cursorPos > zoneWidth THEN 2 * zoneWidth - q.cursorPos ELSE zoneWidth - q.cursorPos
      next  == [cursorPos |-> 0, outputZone |-> q.outputZone + 1, column |-> q.column + resid]
  IN IF next.outputZone >= zones THEN resetPrint(next, FALSE) ELSE next

\* basicPrint with checkZone: the zones that the text has used up, spaces to the end of the
\* last, and a new line after the last zone of the window.
nextZone(q, zones) ==
  LET used == IF q.cursorPos = 0 THEN 1 ELSE (q.cursorPos + zoneWidth - 1) \div zoneWidth
      next == [cursorPos |-> 0, outputZone |-> q.outputZone + used,
               column |-> q.column + used * zoneWidth - q.cursorPos]
  IN IF next.outputZone >= zones THEN resetPrint(next, FALSE) ELSE next

Text(kind, len) == [kind |-> kind, len |-> len, newline |-> FALSE, tail |-> 0]

\* The tokens of a PRINT.  Behind a new line in a string is some part of it.
Texts  == {t \in [kind : {"number", "string"}, len : Nat, newline : BOOLEAN, tail : Nat] :
             t.tail <= t.len /\ (t.newline => t.kind = "string")}
Tokens ==
  Texts \cup [kind : {"TAB"}, tab : Int] \cup [kind : {"call"}, tab : Int, len : Nat] \cup
  [kind : {"COMMA", "DCOMMA", "SEMI", "TRAILING_COMMA", "TRAILING_SEMI", "row", "line"}]

\* A string of exactly a zone's width ends the zone, a number does not.
printString(q, msg, zones) ==
  IF msg.len = zoneWidth THEN nextZone(written(q, msg), zones) ELSE written(q, msg)

\* TAB is a string of spaces, from the position that is known when it is evaluated.
spaces(q, tab) == Max({0, tab - curPrintPos(q)})

printed(q, tok, zones) ==
  CASE tok.kind = "number"  -> written(q, tok)
    [] tok.kind = "string"  -> printString(q, tok, zones)
    [] tok.kind = "TAB"     -> printString(q, Text("string", spaces(q, tok.tab)), zones)
    [] tok.kind = "DCOMMA"  -> nextZone(nextZone(q, zones), zones)
    [] tok.kind \in {"COMMA", "TRAILING_COMMA"} -> nextZone(q, zones)
    [] tok.kind \in {"SEMI", "TRAILING_SEMI"}   -> q
    [] tok.kind = "row"     -> resetPrint(q, FALSE)
    [] tok.kind = "line"    -> resetPrint(q, TRUE)

-----------------------------------------------------------------------------

InCall == stack # <<>> /\ Last(stack).call

\* A statement can begin; one that begins is counted.
Ready == mode = "running" /\ (stack = <<>> \/ InCall)
Step  == Ready /\ steps < MaxSteps /\ steps' = steps + 1

Shows(q) == p' = q /\ dangling' = (dangling /\ q.column # 0)

Begins(todo, printNL) ==
  /\ Step
  /\ stack' = Append(stack, [call |-> FALSE, todo |-> todo, printNL |-> printNL])
  /\ UNCHANGED <<p, numOutputZones, mode, dangling>>

executePrint(list) == Begins(list, Last(list).kind \notin {"TRAILING_COMMA", "TRAILING_SEMI"})

\* PRINT alone, and the report that PUT writes: the position is not told of the new line.
printLine ==
  /\ Step /\ Shows([p EXCEPT !.column = 0])
  /\ UNCHANGED <<numOutputZones, stack, mode>>

\* matOperate: each element alone in its line, or in its row, in zones if there is a comma.
matOperate(mat) ==
  LET element == <<Text("number", 1)>> \o
                 CASE mat.sep = "none"  -> <<[kind |-> "line"]>>
                   [] mat.sep = "COMMA" -> <<[kind |-> "COMMA"]>>
                   [] mat.sep = "SEMI"  -> <<>>
      row(i)  == FlattenSeq([j \in 1 .. mat.cols |-> element])
                 \o IF i = mat.rows \/ mat.sep = "none" THEN <<>> ELSE <<[kind |-> "row"]>>
  IN FlattenSeq([i \in 1 .. mat.rows |-> row(i)])

ASSUME StatementsAssumption ==
  /\ Prints \subseteq Seq(Tokens) \ {<<>>}
  /\ \A mat \in Mats : matOperate(mat) \in Seq(Tokens)

matPrint(mat) == Begins(matOperate(mat), mat.sep # "none")

\* PRINT USING (PrintUsing), to the terminal or to a channel: it ends with a new line on the
\* terminal, and has none or some before an operand or the format is wrong.
executeUsing ==
  /\ Step /\ UNCHANGED numOutputZones
  /\ \/ Shows(Home) /\ UNCHANGED <<stack, mode>>
     \/ Shows(p) /\ UNCHANGED <<stack, mode>>
     \/ stack' = <<>> /\ mode' = "prompt" /\ Shows(Home)

\* INPUT from the terminal: a line is read, which ends in a new line; or none is, for time
\* or an interrupt.
executeInput ==
  /\ Step
  /\ \/ Shows([p EXCEPT !.column = 0]) /\ stack' = stack /\ mode' = mode
     \/ p' = [p EXCEPT !.column = @ + promptLen] /\ dangling' = TRUE /\ stack' = stack /\ mode' = mode
     \/ Shows(Home) /\ stack' = <<>> /\ mode' = "prompt"
  /\ UNCHANGED numOutputZones

-----------------------------------------------------------------------------
\* PRINT, token by token

Printing == mode = "running" /\ stack # <<>> /\ ~ Last(stack).call
Todo     == Last(stack).todo

WithTodo(todo) == [stack EXCEPT ![Len(stack)].todo = todo]

IsCall == Todo # <<>> /\ Head(Todo).kind = "call"

printToken ==
  /\ Printing /\ Todo # <<>> /\ ~ IsCall
  /\ Shows(printed(p, Head(Todo), numOutputZones))
  /\ stack' = WithTodo(Tail(Todo))
  /\ UNCHANGED <<numOutputZones, mode, steps>>

\* TAB(tab) + FNA: the spaces are known before the function is called, and printed after.
callFunction ==
  LET len == spaces(p, Head(Todo).tab) + Head(Todo).len
  IN /\ Printing /\ IsCall /\ Cardinality({k \in DOMAIN stack : stack[k].call}) < MaxCalls
     /\ stack' = Append(WithTodo(<<Text("string", len)>> \o Tail(Todo)),
                        [call |-> TRUE])
     /\ UNCHANGED <<p, numOutputZones, mode, dangling, steps>>

returnFromFunction ==
  /\ mode = "running" /\ InCall /\ stack' = Front(stack)
  /\ UNCHANGED <<p, numOutputZones, mode, dangling, steps>>

printNL ==
  /\ Printing /\ Todo = <<>> /\ stack' = Front(stack)
  /\ Shows(IF Last(stack).printNL THEN resetPrint(p, TRUE) ELSE p)
  /\ UNCHANGED <<numOutputZones, mode, steps>>

\* The expression of an item faults: a handler goes on with another statement, and without
\* one the error is reported on a new line.
fault ==
  /\ Printing /\ Todo # <<>>
  /\ \/ mode' = mode /\ stack' = Front(stack) /\ UNCHANGED <<p, dangling>>
     \/ mode' = "prompt" /\ stack' = <<>> /\ Shows(Home)
  /\ UNCHANGED <<numOutputZones, steps>>

\* RUN, CONT, or a line typed at the prompt.
run ==
  /\ mode = "prompt" /\ mode' = "running" /\ Shows(resetPrint(p, FALSE))
  /\ UNCHANGED <<numOutputZones, stack, steps>>

\* STOP and interrupts end the line with their message, wherever it is; the command loop
\* then resets the position.
exitToPrompt ==
  /\ mode = "running" /\ mode' = "prompt" /\ stack' = <<>>
  /\ Shows(resetPrint([p EXCEPT !.column = 0], FALSE))
  /\ UNCHANGED <<numOutputZones, steps>>

finish ==
  /\ mode = "running" /\ stack = <<>> /\ mode' = "prompt" /\ Shows(resetPrint(p, FALSE))
  /\ UNCHANGED <<numOutputZones, stack, steps>>

\* SIGWINCH.
setupWindow(rows) ==
  /\ mode # "exited"
  /\ IF rows < minWindowRows THEN mode' = "exited" /\ UNCHANGED numOutputZones
     ELSE mode' = mode /\ numOutputZones' = rows \div zoneWidth
  /\ UNCHANGED <<p, stack, dangling, steps>>

-----------------------------------------------------------------------------

Init ==
  /\ p = Home /\ stack = <<>> /\ mode = "prompt" /\ dangling = FALSE /\ steps = 0
  /\ numOutputZones \in {rows \div zoneWidth : rows \in {w \in Windows : w >= minWindowRows}}

Next ==
  \/ \E list \in Prints : executePrint(list)
  \/ \E mat \in Mats : matPrint(mat)
  \/ executeUsing \/ printLine \/ executeInput
  \/ printToken \/ callFunction \/ returnFromFunction \/ printNL \/ fault
  \/ run \/ exitToPrompt \/ finish
  \/ \E rows \in Windows : setupWindow(rows)

Spec == Init /\ [][Next]_vars
=============================================================================
