---------------------------- MODULE PrintingProofs ----------------------------
(***************************************************************************)
(* What the printer knows of the terminal's line, for zones, windows and   *)
(* texts of any size and however deep functions that print call others.    *)
(***************************************************************************)
EXTENDS PrintingProps, TLAPS

Printer == [cursorPos : Nat, outputZone : Nat, column : Int]
Frames  == [call : {FALSE}, todo : Seq(Tokens), printNL : BOOLEAN] \cup [call : {TRUE}]

AtHome(q) == q.cursorPos = 0 /\ q.outputZone = 0

\* What the printer knows is enough to tell that a new line is due: where it knows of nothing,
\* the line is empty, or there is only the prompt of an INPUT that failed.
LineIsKnown == p.column = 0 \/ dangling \/ ~ AtHome(p)

PInv ==
  /\ p \in Printer /\ dangling \in BOOLEAN
  /\ stack \in Seq(Frames)
  /\ LineIsKnown
  /\ mode = "prompt" => AtHome(p)

-----------------------------------------------------------------------------
(* The printer.                                                             *)

\* Next is a printer, and knows no less of its line than q does.
Follows(q, next) ==
  /\ next \in Printer
  /\ next.column # 0 /\ AtHome(next) => q.column # 0 /\ AtHome(q)

LEMMA FollowsTransitively ==
  ASSUME NEW q, NEW r, NEW s, Follows(q, r), Follows(r, s)
  PROVE  Follows(q, s)
BY DEF Follows

LEMMA SpacesNat == ASSUME NEW q \in Printer, NEW tab \in Int PROVE spaces(q, tab) \in Nat
<1> DEFINE x == tab - curPrintPos(q)
<1>1. x \in Int
  BY PrintingAssumption DEF curPrintPos, Printer
<1>2. \E y \in {0, x} : \A z \in {0, x} : y >= z
  <2>1. CASE x <= 0
    BY <1>1, <2>1
  <2>2. CASE x > 0
    BY <1>1, <2>2
  <2> QED
    BY <1>1, <2>1, <2>2
<1> HIDE DEF x
<1>3. /\ Max({0, x}) \in {0, x}
      /\ Max({0, x}) >= 0
  BY <1>1, <1>2 DEF Max
<1> QED
  BY <1>1, <1>3 DEF spaces, x

LEMMA TextIsText == ASSUME NEW len \in Nat PROVE Text("string", len) \in Texts
BY DEF Text, Texts

LEMMA WrittenFollows ==
  ASSUME NEW q \in Printer, NEW t \in Texts PROVE Follows(q, written(q, t))
<1>1. /\ t.len \in Nat /\ t.newline \in BOOLEAN /\ t.tail \in Nat /\ t.tail <= t.len
  BY DEF Texts
<1>2. /\ q.cursorPos \in Nat /\ q.outputZone \in Nat /\ q.column \in Int
  BY DEF Printer
<1>3. /\ written(q, t).cursorPos = q.cursorPos + t.len
      /\ written(q, t).outputZone = q.outputZone
      /\ written(q, t).column = IF t.newline THEN t.tail ELSE q.column + t.len
  BY DEF written, Printer
<1>4. written(q, t) \in Printer
  <2>1. /\ q.cursorPos + t.len \in Nat
        /\ (IF t.newline THEN t.tail ELSE q.column + t.len) \in Int
    BY <1>1, <1>2
  <2> QED
    BY <2>1 DEF written, Printer
<1>5. ASSUME written(q, t).column # 0, AtHome(written(q, t))
      PROVE  q.column # 0 /\ AtHome(q)
  <2>1. t.len = 0 /\ q.cursorPos = 0 /\ q.outputZone = 0
    BY <1>1, <1>2, <1>3, <1>5 DEF AtHome
  <2>2. t.tail = 0
    BY <1>1, <2>1
  <2> QED
    BY <1>2, <1>3, <1>5, <2>1, <2>2 DEF AtHome
<1> QED
  BY <1>4, <1>5 DEF Follows

\* Text that is not at the beginning of a zone uses up a zone.
LEMMA ZonesUsed ==
  ASSUME NEW n \in Nat, n # 0
  PROVE  (n + zoneWidth - 1) \div zoneWidth \in Nat \ {0}
<1>1. zoneWidth \in Nat /\ zoneWidth > 0
  BY PrintingAssumption
<1> DEFINE d == (n + zoneWidth - 1) \div zoneWidth
<1>2. d \in Int
  BY <1>1
<1>3. n + zoneWidth - 1 < zoneWidth * (d + 1)
  BY <1>1
<1>4. CASE d <= 0
  <2>1. zoneWidth * (d + 1) <= zoneWidth
    BY <1>1, <1>2, <1>4
  <2> QED
    BY <1>1, <1>3, <2>1
<1> QED
  BY <1>2, <1>4

LEMMA NextZoneFollows ==
  ASSUME NEW q \in Printer, NEW zones PROVE Follows(q, nextZone(q, zones))
<1> DEFINE used == IF q.cursorPos = 0 THEN 1 ELSE (q.cursorPos + zoneWidth - 1) \div zoneWidth
           next == [cursorPos |-> 0, outputZone |-> q.outputZone + used,
                    column |-> q.column + used * zoneWidth - q.cursorPos]
<1>1. used \in Nat \ {0}
  BY ZonesUsed DEF Printer
<1> HIDE DEF used
<1>2. used * zoneWidth \in Int
  BY <1>1, PrintingAssumption
<1>3. next \in Printer /\ next.outputZone # 0
  BY <1>1, <1>2 DEF Printer
<1>4. nextZone(q, zones) \in {next, Home}
  BY DEF nextZone, resetPrint, used
<1> QED
  BY <1>3, <1>4 DEF Follows, AtHome, Home, Printer

LEMMA PrintStringFollows ==
  ASSUME NEW q \in Printer, NEW t \in Texts, NEW zones PROVE Follows(q, printString(q, t, zones))
<1>1. Follows(q, written(q, t)) /\ written(q, t) \in Printer
  BY WrittenFollows DEF Follows
<1> QED
  BY <1>1, NextZoneFollows, FollowsTransitively DEF printString

LEMMA ResetPrintFollows ==
  ASSUME NEW q \in Printer, NEW forceNL \in BOOLEAN PROVE Follows(q, resetPrint(q, forceNL))
BY DEF Follows, resetPrint, Home, Printer, AtHome

LEMMA PrintedFollows ==
  ASSUME NEW q \in Printer, NEW tok \in Tokens, tok.kind # "call", NEW zones
  PROVE  Follows(q, printed(q, tok, zones))
<1>1. CASE tok.kind = "number"
  <2>1. tok \in Texts
    BY <1>1 DEF Tokens
  <2> QED
    BY <1>1, <2>1, WrittenFollows DEF printed
<1>2. CASE tok.kind = "string"
  <2>1. tok \in Texts
    BY <1>2 DEF Tokens
  <2> QED
    BY <1>2, <2>1, PrintStringFollows DEF printed
<1>3. CASE tok.kind = "TAB"
  <2>1. tok.tab \in Int
    BY <1>3 DEF Tokens, Texts
  <2>2. Text("string", spaces(q, tok.tab)) \in Texts
    BY <2>1, SpacesNat, TextIsText
  <2> QED
    BY <1>3, <2>2, PrintStringFollows DEF printed
<1>4. CASE tok.kind = "DCOMMA"
  <2>1. Follows(q, nextZone(q, zones)) /\ nextZone(q, zones) \in Printer
    BY NextZoneFollows DEF Follows
  <2> QED
    BY <1>4, <2>1, NextZoneFollows, FollowsTransitively DEF printed
<1>5. CASE tok.kind \in {"COMMA", "TRAILING_COMMA"}
  BY <1>5, NextZoneFollows DEF printed
<1>6. CASE tok.kind \in {"SEMI", "TRAILING_SEMI"}
  BY <1>6 DEF printed, Follows
<1>7. CASE tok.kind = "row"
  BY <1>7, ResetPrintFollows DEF printed
<1>8. CASE tok.kind = "line"
  BY <1>8, ResetPrintFollows DEF printed
<1> QED
  BY <1>1, <1>2, <1>3, <1>4, <1>5, <1>6, <1>7, <1>8 DEF Tokens, Texts

\* The line stays known, whatever follows.
LEMMA StaysKnown ==
  ASSUME PInv, NEW next, Follows(p, next), Shows(next)
  PROVE  p' \in Printer /\ dangling' \in BOOLEAN /\ LineIsKnown'
BY DEF PInv, Follows, Shows, LineIsKnown

LEMMA HomeIsKnown ==
  ASSUME NEW q \in Printer, q.column = 0, PInv, Shows(q)
  PROVE  p' \in Printer /\ dangling' \in BOOLEAN /\ LineIsKnown'
BY DEF PInv, Shows, LineIsKnown

LEMMA HomeIsPrinter == Home \in Printer /\ Home.column = 0 /\ AtHome(Home)
BY DEF Home, Printer, AtHome

-----------------------------------------------------------------------------
(* The statements in progress.                                              *)

\* A frame is put on the stack, or taken from it.
LEMMA StackMoves ==
  ASSUME NEW s \in Seq(Frames)
  PROVE  /\ \A f \in Frames : Append(s, f) \in Seq(Frames)
         /\ s # <<>> => Front(s) \in Seq(Frames) /\ Last(s) \in Frames
         /\ <<>> \in Seq(Frames)
<1>1. s # <<>> => Len(s) \in DOMAIN s
  OBVIOUS
<1>2. s # <<>> => Last(s) \in Frames
  BY <1>1 DEF Last
<1>3. s # <<>> => Front(s) \in Seq(Frames)
  BY DEF Front
<1> QED
  BY <1>2, <1>3

\* What is left to print is a list of tokens, and stays one.
LEMMA TodoIsTokens ==
  ASSUME PInv, Printing
  PROVE  /\ Todo \in Seq(Tokens)
         /\ \A todo \in Seq(Tokens) : WithTodo(todo) \in Seq(Frames)
<1>1. stack \in Seq(Frames) /\ stack # <<>> /\ Len(stack) \in DOMAIN stack
  BY DEF PInv, Printing
<1>2. stack[Len(stack)] \in Frames /\ ~ stack[Len(stack)].call
  BY <1>1 DEF Printing, Last
<1>3. Todo \in Seq(Tokens)
  BY <1>2 DEF Todo, Last, Frames
<1>4. ASSUME NEW todo \in Seq(Tokens)
      PROVE  WithTodo(todo) \in Seq(Frames)
  <2>1. [stack[Len(stack)] EXCEPT !.todo = todo] \in Frames
    BY <1>2 DEF Frames
  <2> QED
    BY <1>1, <2>1 DEF WithTodo
<1> QED
  BY <1>3, <1>4

LEMMA BeginsKeeps ==
  ASSUME PInv, NEW todo \in Seq(Tokens), NEW nl \in BOOLEAN, Begins(todo, nl)
  PROVE  PInv'
<1>1. [call |-> FALSE, todo |-> todo, printNL |-> nl] \in Frames
  BY DEF Frames
<1>2. stack' \in Seq(Frames)
  BY <1>1, StackMoves DEF Begins, PInv
<1> QED
  BY <1>2 DEF Begins, PInv, LineIsKnown

-----------------------------------------------------------------------------
(* The steps.                                                               *)

LEMMA ExecutePrint == ASSUME PInv, NEW list \in Prints, executePrint(list) PROVE PInv'
<1>1. list \in Seq(Tokens)
  BY StatementsAssumption
<1> QED
  BY <1>1, BeginsKeeps DEF executePrint

LEMMA MatPrint == ASSUME PInv, NEW mat \in Mats, matPrint(mat) PROVE PInv'
<1>1. matOperate(mat) \in Seq(Tokens)
  BY StatementsAssumption
<1> QED
  BY <1>1, BeginsKeeps DEF matPrint

LEMMA PrintLine == ASSUME PInv, printLine PROVE PInv'
<1>1. Shows([p EXCEPT !.column = 0]) /\ mode' = mode /\ mode # "prompt" /\ stack' = stack
  BY DEF printLine, Step, Ready
<1>2. [p EXCEPT !.column = 0] \in Printer /\ [p EXCEPT !.column = 0].column = 0
  BY DEF PInv, Printer
<1>3. p' \in Printer /\ dangling' \in BOOLEAN /\ LineIsKnown'
  BY <1>1, <1>2, HomeIsKnown
<1> QED
  BY <1>1, <1>3 DEF PInv

LEMMA ExecuteUsing == ASSUME PInv, executeUsing PROVE PInv'
<1>1. CASE Shows(Home) /\ UNCHANGED <<stack, mode>>
  <2>1. p' \in Printer /\ dangling' \in BOOLEAN /\ LineIsKnown'
    BY <1>1, HomeIsPrinter, HomeIsKnown
  <2> QED
    BY <1>1, <2>1, HomeIsPrinter DEF PInv, Shows
<1>2. CASE Shows(p) /\ UNCHANGED <<stack, mode>>
  <2>1. Follows(p, p)
    BY DEF Follows, PInv
  <2>2. p' \in Printer /\ dangling' \in BOOLEAN /\ LineIsKnown'
    BY <1>2, <2>1, StaysKnown
  <2> QED
    BY <1>2, <2>2 DEF PInv, Shows
<1>3. CASE stack' = <<>> /\ mode' = "prompt" /\ Shows(Home)
  <2>1. p' \in Printer /\ dangling' \in BOOLEAN /\ LineIsKnown'
    BY <1>3, HomeIsPrinter, HomeIsKnown
  <2> QED
    BY <1>3, <2>1, HomeIsPrinter, StackMoves DEF PInv, Shows
<1> QED
  BY <1>1, <1>2, <1>3 DEF executeUsing

LEMMA ExecuteInput == ASSUME PInv, executeInput PROVE PInv'
<1>1. mode # "prompt"
  BY DEF executeInput, Step, Ready
<1>2. CASE Shows([p EXCEPT !.column = 0]) /\ stack' = stack /\ mode' = mode
  <2>1. [p EXCEPT !.column = 0] \in Printer /\ [p EXCEPT !.column = 0].column = 0
    BY DEF PInv, Printer
  <2>2. p' \in Printer /\ dangling' \in BOOLEAN /\ LineIsKnown'
    BY <1>2, <2>1, HomeIsKnown
  <2> QED
    BY <1>1, <1>2, <2>2 DEF PInv
<1>3. CASE p' = [p EXCEPT !.column = @ + promptLen] /\ dangling' = TRUE /\ stack' = stack /\ mode' = mode
  <2>1. p' \in Printer
    BY <1>3, PrintingAssumption DEF PInv, Printer
  <2> QED
    BY <1>1, <1>3, <2>1 DEF PInv, LineIsKnown
<1>4. CASE Shows(Home) /\ stack' = <<>> /\ mode' = "prompt"
  <2>1. p' \in Printer /\ dangling' \in BOOLEAN /\ LineIsKnown'
    BY <1>4, HomeIsPrinter, HomeIsKnown
  <2> QED
    BY <1>4, <2>1, HomeIsPrinter, StackMoves DEF PInv, Shows
<1> QED
  BY <1>2, <1>3, <1>4 DEF executeInput

LEMMA PrintToken == ASSUME PInv, printToken PROVE PInv'
<1>1. Todo \in Seq(Tokens) /\ Todo # <<>> /\ Printing
  BY TodoIsTokens DEF printToken
<1>2. Head(Todo) \in Tokens /\ Tail(Todo) \in Seq(Tokens) /\ Head(Todo).kind # "call"
  BY <1>1 DEF printToken, IsCall
<1>3. Follows(p, printed(p, Head(Todo), numOutputZones))
  BY <1>2, PrintedFollows DEF PInv
<1>4. p' \in Printer /\ dangling' \in BOOLEAN /\ LineIsKnown'
  BY <1>3, StaysKnown DEF printToken
<1>5. stack' \in Seq(Frames)
  BY <1>1, <1>2, TodoIsTokens DEF printToken
<1> QED
  BY <1>4, <1>5 DEF PInv, printToken, Printing

LEMMA CallFunction == ASSUME PInv, callFunction PROVE PInv'
<1> DEFINE len == spaces(p, Head(Todo).tab) + Head(Todo).len
           todo == <<Text("string", len)>> \o Tail(Todo)
<1>1. Todo \in Seq(Tokens) /\ Todo # <<>> /\ Printing /\ Head(Todo).kind = "call"
  BY TodoIsTokens DEF callFunction, IsCall
<1>2. Head(Todo) \in Tokens /\ Tail(Todo) \in Seq(Tokens)
  BY <1>1
<1>3. Head(Todo).tab \in Int /\ Head(Todo).len \in Nat
  BY <1>1, <1>2 DEF Tokens, Texts
<1>4. len \in Nat
  <2>1. spaces(p, Head(Todo).tab) \in Nat
    BY <1>3, SpacesNat DEF PInv
  <2> QED
    BY <1>3, <2>1
<1>5. Text("string", len) \in Tokens
  BY <1>4, TextIsText DEF Tokens
<1> HIDE DEF len
<1>6. todo \in Seq(Tokens)
  BY <1>2, <1>5
<1>7. [call |-> TRUE] \in Frames /\ WithTodo(todo) \in Seq(Frames)
  BY <1>1, <1>6, TodoIsTokens DEF Frames
<1>8. stack' \in Seq(Frames)
  BY <1>7, StackMoves DEF callFunction, len
<1> QED
  BY <1>8 DEF PInv, callFunction, LineIsKnown

LEMMA ReturnFromFunction == ASSUME PInv, returnFromFunction PROVE PInv'
<1>1. stack' \in Seq(Frames)
  BY StackMoves DEF PInv, returnFromFunction, InCall
<1> QED
  BY <1>1 DEF PInv, returnFromFunction, LineIsKnown

LEMMA PrintNL == ASSUME PInv, printNL PROVE PInv'
<1> DEFINE next == IF Last(stack).printNL THEN resetPrint(p, TRUE) ELSE p
<1>1. Follows(p, next)
  <2>1. Follows(p, p) /\ Follows(p, resetPrint(p, TRUE))
    BY ResetPrintFollows DEF PInv, Follows
  <2> QED
    BY <2>1
<1> HIDE DEF next
<1>2. p' \in Printer /\ dangling' \in BOOLEAN /\ LineIsKnown'
  BY <1>1, StaysKnown DEF printNL, next
<1>3. stack' \in Seq(Frames)
  BY StackMoves DEF PInv, printNL, Printing
<1> QED
  BY <1>2, <1>3 DEF PInv, printNL, Printing

LEMMA Fault == ASSUME PInv, fault PROVE PInv'
<1>1. CASE mode' = mode /\ stack' = Front(stack) /\ UNCHANGED <<p, dangling>>
  <2>1. stack' \in Seq(Frames)
    BY <1>1, StackMoves DEF PInv, fault, Printing
  <2> QED
    BY <1>1, <2>1 DEF PInv, LineIsKnown
<1>2. CASE mode' = "prompt" /\ stack' = <<>> /\ Shows(Home)
  <2>1. p' \in Printer /\ dangling' \in BOOLEAN /\ LineIsKnown'
    BY <1>2, HomeIsPrinter, HomeIsKnown
  <2> QED
    BY <1>2, <2>1, HomeIsPrinter, StackMoves DEF PInv, Shows
<1> QED
  BY <1>1, <1>2 DEF fault

LEMMA Run == ASSUME PInv, run PROVE PInv'
<1>1. Follows(p, resetPrint(p, FALSE))
  BY ResetPrintFollows DEF PInv
<1>2. p' \in Printer /\ dangling' \in BOOLEAN /\ LineIsKnown'
  BY <1>1, StaysKnown DEF run
<1> QED
  BY <1>2 DEF PInv, run

LEMMA ExitToPrompt == ASSUME PInv, exitToPrompt PROVE PInv'
<1> DEFINE q == [p EXCEPT !.column = 0]
<1>1. q \in Printer /\ q.column = 0
  BY DEF PInv, Printer
<1> HIDE DEF q
<1>2. /\ resetPrint(q, FALSE) \in Printer
      /\ resetPrint(q, FALSE).column = 0
      /\ AtHome(resetPrint(q, FALSE))
  BY <1>1 DEF resetPrint, Home, Printer, AtHome
<1>3. Shows(resetPrint(q, FALSE))
  BY DEF exitToPrompt, q
<1>4. p' \in Printer /\ dangling' \in BOOLEAN /\ LineIsKnown'
  BY <1>2, <1>3, HomeIsKnown
<1> QED
  BY <1>2, <1>3, <1>4, StackMoves DEF PInv, exitToPrompt, Shows

LEMMA Finish == ASSUME PInv, finish PROVE PInv'
<1>1. Follows(p, resetPrint(p, FALSE))
  BY ResetPrintFollows DEF PInv
<1>2. p' \in Printer /\ dangling' \in BOOLEAN /\ LineIsKnown'
  BY <1>1, StaysKnown DEF finish
<1>3. AtHome(resetPrint(p, FALSE))
  BY DEF resetPrint, Home, AtHome
<1> QED
  BY <1>2, <1>3 DEF PInv, finish, Shows

LEMMA SetupWindow == ASSUME PInv, NEW rows \in Windows, setupWindow(rows) PROVE PInv'
<1>1. mode' \in {mode, "exited"}
  BY DEF setupWindow
<1> QED
  BY <1>1 DEF PInv, setupWindow, LineIsKnown

-----------------------------------------------------------------------------

\* The printer stays well-formed, and knows whether something stands on the terminal's line:
\* nothing is left there that a new line would not be printed for.
THEOREM LineStaysKnown == Spec => []PInv
<1>1. Init => PInv
  <2> SUFFICES ASSUME Init PROVE PInv
    OBVIOUS
  <2>1. p = Home /\ stack = <<>> /\ dangling = FALSE
    BY DEF Init
  <2>2. stack \in Seq(Frames)
    BY <2>1
  <2> QED
    BY <2>1, <2>2, HomeIsPrinter DEF PInv, LineIsKnown
<1>2. PInv /\ [Next]_vars => PInv'
  <2> SUFFICES ASSUME PInv, [Next]_vars PROVE PInv'
    OBVIOUS
  <2>1. CASE UNCHANGED vars
    BY <2>1 DEF PInv, vars, LineIsKnown
  <2>2. CASE Next
    BY <2>2, ExecutePrint, MatPrint, PrintLine, ExecuteUsing, ExecuteInput, PrintToken,
       CallFunction, ReturnFromFunction, PrintNL, Fault, Run, ExitToPrompt, Finish, SetupWindow
       DEF Next
  <2> QED
    BY <2>1, <2>2
<1> QED
  BY <1>1, <1>2, PTL DEF Spec

\* However a program ends, in the middle of a PRINT or of a function that it calls, the command
\* loop finds the terminal and the position at the beginning of a line.
THEOREM PromptFindsLineStart == Spec => []PromptAtLineStart
<1>1. PInv => PromptAtLineStart
  BY PrintingAssumption DEF PInv, PromptAtLineStart, LineIsKnown, AtHome, Printer, curPrintPos
<1> QED
  BY <1>1, LineStaysKnown, PTL

-----------------------------------------------------------------------------
(* The position.                                                            *)

True(q) == curPrintPos(q) = q.column

\* As many zones as fit into a window that is not too small.
WindowHasZones == numOutputZones \in Nat \ {0}

LEMMA ZonesOf ==
  ASSUME NEW rows \in Windows, rows >= minWindowRows
  PROVE  rows \div zoneWidth \in Nat \ {0}
<1>1. zoneWidth \in Nat /\ zoneWidth > 0 /\ rows \in Nat /\ rows >= zoneWidth
  BY PrintingAssumption
<1> DEFINE d == rows \div zoneWidth
<1>2. d \in Int /\ rows < zoneWidth * (d + 1)
  BY <1>1
<1>3. CASE d <= 0
  <2>1. zoneWidth * (d + 1) <= zoneWidth
    BY <1>1, <1>2, <1>3
  <2> QED
    BY <1>1, <1>2, <2>1
<1> QED
  BY <1>2, <1>3

LEMMA ZonesStay == Spec => []WindowHasZones
<1>1. Init => WindowHasZones
  BY ZonesOf DEF Init, WindowHasZones
<1>2. WindowHasZones /\ [Next]_vars => WindowHasZones'
  <2> SUFFICES ASSUME WindowHasZones, [Next]_vars PROVE WindowHasZones'
    OBVIOUS
  <2>1. ASSUME NEW rows \in Windows, setupWindow(rows) PROVE WindowHasZones'
    <3>1. CASE rows < minWindowRows
      BY <2>1, <3>1 DEF setupWindow, WindowHasZones
    <3>2. CASE rows >= minWindowRows
      <4>1. numOutputZones' = rows \div zoneWidth
        BY <2>1, <3>2, PrintingAssumption DEF setupWindow
      <4> QED
        BY <3>2, <4>1, ZonesOf DEF WindowHasZones
    <3> QED
      BY <3>1, <3>2, PrintingAssumption
  <2>2. CASE UNCHANGED numOutputZones
    BY <2>2 DEF WindowHasZones
  <2> QED
    BY <2>1, <2>2 DEF Next, vars, executePrint, matPrint, Begins, executeUsing, printLine,
       executeInput, printToken, callFunction, returnFromFunction, printNL, fault, run,
       exitToPrompt, finish
<1> QED
  BY <1>1, <1>2, PTL DEF Spec

LEMMA HomeIsTrue == True(Home)
BY PrintingAssumption DEF True, curPrintPos, Home

LEMMA WrittenTrue ==
  ASSUME NEW q \in Printer, True(q), NEW t \in Texts, ~ t.newline
  PROVE  True(written(q, t)) /\ written(q, t).column = q.column + t.len
<1>1. zoneWidth * q.outputZone \in Int /\ t.len \in Nat
  BY PrintingAssumption DEF Printer, Texts
<1>2. /\ written(q, t).cursorPos = q.cursorPos + t.len
      /\ written(q, t).outputZone = q.outputZone
      /\ written(q, t).column = q.column + t.len
  BY DEF written, Printer
<1> QED
  BY <1>1, <1>2 DEF True, curPrintPos, Printer

\* A zone is begun where it is, and it is one of the window.
LEMMA NextZoneTrue ==
  ASSUME NEW q \in Printer, True(q), NEW zones \in Nat \ {0}
  PROVE  /\ True(nextZone(q, zones))
         /\ nextZone(q, zones).cursorPos = 0
         /\ nextZone(q, zones).outputZone < zones
<1> DEFINE used == IF q.cursorPos = 0 THEN 1 ELSE (q.cursorPos + zoneWidth - 1) \div zoneWidth
           next == [cursorPos |-> 0, outputZone |-> q.outputZone + used,
                    column |-> q.column + used * zoneWidth - q.cursorPos]
<1>1. used \in Nat \ {0}
  BY ZonesUsed DEF Printer
<1>2. nextZone(q, zones) = IF next.outputZone >= zones THEN resetPrint(next, FALSE) ELSE next
  BY DEF nextZone
<1> HIDE DEF used
<1>3. CASE next.outputZone >= zones
  <2>1. next.outputZone # 0
    BY <1>3
  <2>2. nextZone(q, zones) = Home
    BY <1>2, <1>3, <2>1 DEF resetPrint
  <2> QED
    BY <2>2, HomeIsTrue DEF Home
<1>4. CASE ~ (next.outputZone >= zones)
  <2>1. nextZone(q, zones) = next
    BY <1>2, <1>4
  <2>2. next.outputZone < zones
    BY <1>1, <1>4 DEF Printer
  <2>3. True(next)
    <3>1. q.outputZone \in Nat /\ q.cursorPos \in Nat /\ zoneWidth \in Nat /\ used \in Nat
      BY <1>1, PrintingAssumption DEF Printer
    <3>2. zoneWidth * (q.outputZone + used) = zoneWidth * q.outputZone + used * zoneWidth
      BY <3>1
    <3>3. zoneWidth * q.outputZone \in Nat /\ used * zoneWidth \in Nat
      BY <3>1
    <3>4. q.column = zoneWidth * q.outputZone + q.cursorPos
      BY DEF True, curPrintPos
    <3> QED
      BY <3>1, <3>2, <3>3, <3>4 DEF True, curPrintPos
  <2> QED
    BY <2>1, <2>2, <2>3
<1> QED
  BY <1>3, <1>4

LEMMA PrintStringTrue ==
  ASSUME NEW q \in Printer, True(q), NEW t \in Texts, ~ t.newline, NEW zones \in Nat \ {0}
  PROVE  True(printString(q, t, zones))
<1>1. written(q, t) \in Printer /\ True(written(q, t))
  BY WrittenFollows, WrittenTrue DEF Follows
<1> QED
  BY <1>1, NextZoneTrue DEF printString

LEMMA ResetPrintTrue ==
  ASSUME NEW q \in Printer, True(q), NEW forceNL \in BOOLEAN PROVE True(resetPrint(q, forceNL))
BY HomeIsTrue DEF resetPrint

LEMMA PrintedTrue ==
  ASSUME NEW q \in Printer, True(q), NEW tok \in Tokens, tok.kind # "call",
         ~ (tok.kind = "string" /\ tok.newline), NEW zones \in Nat \ {0}
  PROVE  True(printed(q, tok, zones))
<1>1. CASE tok.kind \in {"number", "string"}
  <2>1. tok \in Texts /\ ~ tok.newline
    BY <1>1 DEF Tokens, Texts
  <2> QED
    BY <1>1, <2>1, WrittenTrue, PrintStringTrue DEF printed
<1>2. CASE tok.kind = "TAB"
  <2>1. tok.tab \in Int
    BY <1>2 DEF Tokens, Texts
  <2>2. Text("string", spaces(q, tok.tab)) \in Texts
    BY <2>1, SpacesNat, TextIsText
  <2>3. ~ Text("string", spaces(q, tok.tab)).newline
    BY DEF Text
  <2> QED
    BY <1>2, <2>2, <2>3, PrintStringTrue DEF printed
<1>3. CASE tok.kind = "DCOMMA"
  <2>1. True(nextZone(q, zones)) /\ nextZone(q, zones) \in Printer
    BY NextZoneTrue, NextZoneFollows DEF Follows
  <2> QED
    BY <1>3, <2>1, NextZoneTrue DEF printed
<1>4. CASE tok.kind \in {"COMMA", "TRAILING_COMMA"}
  BY <1>4, NextZoneTrue DEF printed
<1>5. CASE tok.kind \in {"SEMI", "TRAILING_SEMI"}
  BY <1>5 DEF printed
<1>6. CASE tok.kind = "row"
  BY <1>6, ResetPrintTrue DEF printed
<1>7. CASE tok.kind = "line"
  BY <1>7, ResetPrintTrue DEF printed
<1> QED
  BY <1>1, <1>2, <1>3, <1>4, <1>5, <1>6, <1>7 DEF Tokens, Texts

\* A new line that ends the line of an error or of a program is one that the printer knows of.
LEMMA StepsKeepPosition ==
  ASSUME PInv, WindowHasZones, Next, PositionIsTrue,
         ~ printLine, ~ executeInput,
         ~ (printToken /\ Head(Todo).kind = "string" /\ Head(Todo).newline)
  PROVE  PositionIsTrue'
<1>1. p \in Printer /\ True(p)
  BY DEF PInv, PositionIsTrue, True
<1>2. ASSUME NEW next, True(next), p' = next PROVE PositionIsTrue'
  BY <1>2 DEF PositionIsTrue, True, curPrintPos
<1>3. CASE p' \in {p, Home}
  BY <1>1, <1>2, <1>3, HomeIsTrue
<1>4. CASE p' \in {resetPrint(p, FALSE), resetPrint(p, TRUE)}
  BY <1>1, <1>2, <1>4, ResetPrintTrue
<1>5. CASE printToken
  <2>1. Todo \in Seq(Tokens) /\ Todo # <<>>
    BY <1>5, TodoIsTokens DEF printToken
  <2>2. Head(Todo) \in Tokens /\ Head(Todo).kind # "call"
    BY <1>5, <2>1 DEF printToken, IsCall
  <2>3. True(printed(p, Head(Todo), numOutputZones))
    BY <1>1, <1>5, <2>2, PrintedTrue DEF WindowHasZones
  <2> QED
    BY <1>2, <1>5, <2>3 DEF printToken, Shows
<1>6. CASE exitToPrompt
  <2> DEFINE q == [p EXCEPT !.column = 0]
  <2>1. q \in Printer /\ q.column = 0
    BY DEF PInv, Printer
  <2> HIDE DEF q
  <2>2. resetPrint(q, FALSE) = Home \/ (resetPrint(q, FALSE) = q /\ AtHome(q))
    BY DEF resetPrint, AtHome
  <2>3. AtHome(q) => True(q)
    BY <2>1, PrintingAssumption DEF AtHome, True, curPrintPos
  <2>4. p' = resetPrint(q, FALSE)
    BY <1>6 DEF exitToPrompt, Shows, q
  <2> QED
    BY <1>2, <2>2, <2>3, <2>4, HomeIsTrue
<1>7. CASE \/ \E list \in Prints : executePrint(list)
           \/ \E mat \in Mats : matPrint(mat)
           \/ callFunction \/ returnFromFunction
           \/ \E rows \in Windows : setupWindow(rows)
  BY <1>3, <1>7 DEF executePrint, matPrint, Begins, callFunction, returnFromFunction, setupWindow
<1>8. CASE executeUsing \/ fault
  BY <1>3, <1>8 DEF executeUsing, fault, Shows
<1>9. CASE printNL \/ run \/ finish
  BY <1>3, <1>4, <1>9 DEF printNL, run, finish, Shows
<1> QED
  BY <1>5, <1>6, <1>7, <1>8, <1>9 DEF Next

\* The position that commas, TAB and POS go by stays that of the terminal, but for the new
\* lines that the printer is not told of.
THEOREM PositionStaysTrue == Spec => PositionIsKept
<1>1. ASSUME PInv, WindowHasZones, [Next]_vars,
             PositionIsTrue, ~ PositionIsTrue'
      PROVE  \/ printLine \/ executeInput
             \/ printToken /\ Head(Todo).kind = "string" /\ Head(Todo).newline
  <2>1. CASE UNCHANGED vars
    BY <1>1, <2>1 DEF vars, PositionIsTrue, curPrintPos
  <2>2. CASE Next
    BY <1>1, <2>2, StepsKeepPosition
  <2> QED
    BY <1>1, <2>1, <2>2
<1> QED
  BY <1>1, LineStaysKnown, ZonesStay, PTL DEF Spec, PositionIsKept

-----------------------------------------------------------------------------
(* The columns.                                                             *)

LEMMA MultipleOfWidth == ASSUME NEW k \in Nat PROVE (zoneWidth * k) % zoneWidth = 0
<1>1. zoneWidth \in Nat /\ zoneWidth > 0
  BY PrintingAssumption
<1> DEFINE n == zoneWidth * k
           d == n \div zoneWidth
           r == n % zoneWidth
<1>2. n \in Nat
  BY <1>1
<1>3. d \in Int /\ r \in 0 .. zoneWidth - 1 /\ n = zoneWidth * d + r
  BY <1>1, <1>2
<1>4. r = zoneWidth * (k - d)
  BY <1>1, <1>3
<1>5. k - d \in Int
  BY <1>3
<1>6. CASE k - d = 0
  <2>1. zoneWidth * (k - d) = 0
    BY <1>1, <1>6
  <2> QED
    BY <1>4, <2>1
<1>7. CASE k - d >= 1
  <2>1. zoneWidth * (k - d) >= zoneWidth
    BY <1>1, <1>5, <1>7
  <2> QED
    BY <1>1, <1>3, <1>4, <2>1
<1>8. CASE k - d <= -1
  <2>1. zoneWidth * (k - d) <= - zoneWidth
    BY <1>1, <1>5, <1>8
  <2> QED
    BY <1>1, <1>3, <1>4, <2>1
<1> QED
  BY <1>5, <1>6, <1>7, <1>8

LEMMA ZoneColumn ==
  ASSUME NEW q \in Printer, NEW zones \in Nat \ {0},
         True(q), q.cursorPos = 0, q.outputZone < zones
  PROVE  q.column % zoneWidth = 0 /\ q.column < zoneWidth * zones
<1>1. zoneWidth \in Nat /\ zoneWidth > 0 /\ q.outputZone \in Nat
  BY PrintingAssumption DEF Printer
<1>2. q.column = zoneWidth * q.outputZone
  BY <1>1 DEF True, curPrintPos, Printer
<1>3. zoneWidth * q.outputZone < zoneWidth * zones
  BY <1>1
<1> QED
  BY <1>1, <1>2, <1>3, MultipleOfWidth

\* TAB prints the spaces that are missing, and goes to the next zone if they fill one.
LEMMA TabColumn ==
  ASSUME NEW q \in Printer, True(q), NEW tab \in Int, tab >= q.column, NEW zones \in Nat \ {0}
  PROVE  LET next == printString(q, Text("string", spaces(q, tab)), zones)
         IN next.column = tab \/ tab = q.column + zoneWidth
<1> DEFINE t == Text("string", spaces(q, tab))
<1>1. q.column \in Int /\ curPrintPos(q) = q.column
  BY DEF Printer, True
<1>2. spaces(q, tab) = tab - q.column
  <2>1. tab - q.column \in Int /\ tab - q.column >= 0
    BY <1>1
  <2>2. \A x \in Nat : Max({0, x}) = x
    <3> TAKE x \in Nat
    <3>1. /\ \A z \in {0, x} : x >= z
          /\ \A y \in {0, x} : (\A z \in {0, x} : y >= z) => y = x
      OBVIOUS
    <3> QED
      BY <3>1 DEF Max
  <2>3. tab - q.column \in Nat
    BY <2>1
  <2> QED
    BY <1>1, <2>2, <2>3 DEF spaces
<1>3. t \in Texts /\ ~ t.newline /\ t.len = tab - q.column
  BY <1>2, SpacesNat, TextIsText DEF Text
<1>4. written(q, t).column = tab
  BY <1>1, <1>3, WrittenTrue
<1>5. t.len = zoneWidth => tab = q.column + zoneWidth
  BY <1>1, <1>3
<1> QED
  BY <1>4, <1>5 DEF printString

\* In a window of any width, a comma ends at the beginning of a zone of it and TAB at its column,
\* as long as the printer's position is the terminal's.
THEOREM SeparatorsReach == Spec => SeparatorsReachTheirColumn
<1>1. ASSUME PInv, WindowHasZones, printToken, PositionIsTrue
      PROVE  LET tok == Head(Todo)
             IN /\ tok.kind \in {"COMMA", "DCOMMA", "TRAILING_COMMA"} =>
                     p'.column % zoneWidth = 0 /\ p'.column < zoneWidth * numOutputZones
                /\ tok.kind = "TAB" /\ tok.tab >= p.column =>
                     p'.column = tok.tab \/ tok.tab = p.column + zoneWidth
  <2> DEFINE tok == Head(Todo)
             zones == numOutputZones
             once == nextZone(p, zones)
  <2>1. p \in Printer /\ True(p) /\ zones \in Nat \ {0} /\ p' = printed(p, tok, zones)
    BY <1>1 DEF PInv, PositionIsTrue, True, WindowHasZones, printToken, Shows
  <2>2. tok \in Tokens
    BY <1>1, TodoIsTokens DEF printToken
  <2>3. /\ once \in Printer /\ True(once)
        /\ once.cursorPos = 0 /\ once.outputZone < zones
    BY <2>1, NextZoneFollows, NextZoneTrue DEF Follows
  <2> HIDE DEF once
  <2>4. CASE tok.kind \in {"COMMA", "TRAILING_COMMA"}
    <3>1. p' = once
      BY <2>1, <2>4 DEF printed, once
    <3> QED
      BY <2>1, <2>3, <2>4, <3>1, ZoneColumn
  <2>5. CASE tok.kind = "DCOMMA"
    <3> DEFINE twice == nextZone(once, zones)
    <3>1. p' = twice
      BY <2>1, <2>5 DEF printed, once
    <3>2. /\ twice \in Printer /\ True(twice)
          /\ twice.cursorPos = 0 /\ twice.outputZone < zones
      BY <2>1, <2>3, NextZoneFollows, NextZoneTrue DEF Follows
    <3> QED
      BY <2>1, <2>5, <3>1, <3>2, ZoneColumn
  <2>6. CASE tok.kind = "TAB"
    <3>1. tok.tab \in Int
      BY <2>2, <2>6 DEF Tokens, Texts
    <3>2. p' = printString(p, Text("string", spaces(p, tok.tab)), zones)
      BY <2>1, <2>6 DEF printed
    <3> QED
      BY <2>1, <2>6, <3>1, <3>2, TabColumn
  <2> QED
    BY <2>4, <2>5, <2>6
<1> QED
  BY <1>1, LineStaysKnown, ZonesStay, PTL DEF Spec, SeparatorsReachTheirColumn
=============================================================================
