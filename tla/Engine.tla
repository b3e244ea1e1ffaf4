------------------------------- MODULE Engine -------------------------------
(***************************************************************************)
(* The execution engine of the interpreter (execute.go, basic.go): the     *)
(* statement loop executeRunInternal, the fault path through executeStmt   *)
(* and decodePanic, the FOR, GOSUB and user-function stacks, the ON ERROR  *)
(* handler, and what the user does at the prompt between two runs.         *)
(*                                                                         *)
(* The program is the constant Prog, its statement nodes in the order in   *)
(* which computeNextStmt visits them; position 0 is the nil pointer.  Data *)
(* is abstracted away: a condition or a loop bound is a free choice, and a *)
(* statement may raise whichever faults its node lists.                    *)
(***************************************************************************)
EXTENDS Naturals, Sequences, FiniteSetsExt, SequencesExt

CONSTANTS
  Prog,            \* the statement nodes of the loaded program
  forStackMax,     \* definitions.go: 10
  gosubStackMax,   \* definitions.go: 10
  fnRecursionMax,  \* definitions.go: 1000
  UserOps          \* what the user may do: a subset of AllUserOps

AllUserOps == {"int", "cont", "immediate", "edit"}

Ops == {"PLAIN", "INPUT", "GOTO", "GOSUB", "RETURN", "FOR", "NEXT", "IF",
        "ONGOTO", "ONGOSUB", "ONERROR", "RESUME", "STOP", "END", "DEF", "FNEND"}

\* The faults a statement's own work may raise: "arith" goes through arithFault,
\* "num" has an error number, "fatal" has none, "badcall" is raised by a call.
FaultKinds == {"arith", "num", "fatal", "badcall"}

Nil   == 0
Stmts == 1 .. Len(Prog)
Nodes == Stmts \cup {Nil}

\* op: the verb.  line: fetchStmtNo, the number of the line.  head: whether stmtNo
\* is set (not a chained statement).  to: the target lines.  var: the loop variable.
\* fn: the DEF that its expression (of a FOR: its bounds) calls, or Nil.
\* fnend: for a multi-line DEF, its FNEND.  subs: the verbs of an IF's clauses.
\* cond: the FOR ends on WHILE or UNTIL.
StmtNode == [op : Ops, line : Nat \ {0}, head : BOOLEAN, to : Seq(Nat), var : STRING,
             fn : Nodes, fnend : Nodes, subs : SUBSET Ops, faults : SUBSET FaultKinds,
             cond : BOOLEAN]

\* What the parser and processDeclarations guarantee of a program that runs.
ASSUME ProgAssumption ==
  /\ Prog \in Seq(StmtNode) /\ Prog # <<>>
  /\ Prog[Len(Prog)].op = "END"
  /\ \A i, j \in Stmts : i < j =>
        Prog[i].line <= Prog[j].line /\ (Prog[j].head => Prog[i].line < Prog[j].line)
  /\ \A i \in Stmts : Prog[i].op \in {"DEF", "FNEND", "STOP"} =>     \* alone on its line
        Prog[i].head /\ \A j \in Stmts : Prog[j].line = Prog[i].line => j = i
  /\ \A i \in Stmts : Prog[i].fn # Nil => Prog[Prog[i].fn].op = "DEF"
  /\ \A i \in Stmts : Prog[i].fnend # Nil => /\ Prog[i].op = "DEF"
                                             /\ Prog[i].fnend > i
                                             /\ Prog[Prog[i].fnend].op = "FNEND"
  /\ \A d, e \in Stmts : d < e /\ e < Prog[d].fnend => Prog[e].op \notin {"DEF", "FNEND"}
  /\ \A i \in Stmts : Prog[i].op \in {"GOTO", "GOSUB", "ONGOTO", "ONGOSUB"} => Prog[i].to # <<>>
  /\ \A i \in Stmts : Prog[i].subs \cap {"GOTO", "GOSUB"} # {} => Prog[i].to # <<>>

ASSUME BoundsAssumption ==
  /\ forStackMax \in Nat \ {0} /\ gosubStackMax \in Nat \ {0} /\ fnRecursionMax \in Nat \ {0}
  /\ UserOps \subseteq AllUserOps

VARIABLES
  mode,          \* "prompt" or "running" (g.running)
  pc,            \* the phase of the current statement: "fetch", "exec" or "after"
  curStmt, nextStmt, forStack, gosubStack, userDefStack, level, onErrorStmtNo, fip,
                 \* the fields of the struct r
  declared,      \* r.userDefMap is filled
  interrupted,   \* g.interrupted, set by sigHdlr's goroutine
  arg,           \* executeRunInternal's arg: the FOR was reached from its NEXT
  fsIdx,         \* executeFor's local of that name, plus 1
  acts,          \* spawnUserFunction's locals, one record per active call
  out            \* why the terminal is back at the prompt; in a running program whether
                 \* CONT took it up with a fault still pending

stmtVars == <<curStmt, nextStmt, pc, arg>>
loopVars == <<forStack, gosubStack, fsIdx>>
callVars == <<userDefStack, level, acts, declared>>
vars == <<mode, stmtVars, loopVars, callVars, onErrorStmtNo, fip, interrupted, out>>

NoFault == [stmt |-> Nil, err |-> "nil"]

-----------------------------------------------------------------------------
(* The program's shape.                                                     *)

stmtAvlTreeLookup(no) ==
  LET hits == {i \in Stmts : Prog[i].head /\ Prog[i].line = no}
  IN  IF hits = {} THEN Nil ELSE CHOOSE i \in hits : TRUE

\* END is the last statement: only END itself has no successor.
computeNextStmt(i) == IF i < Len(Prog) THEN i + 1 ELSE Nil

stmtAvlTreeNextStmt(i) ==
  LET later == {j \in Stmts : j > i /\ Prog[j].head}
  IN  IF later = {} THEN Nil ELSE Min(later)

\* The DEF of the multi-line function that holds a line, or Nil (an index of -1).
lookupStmtInUserFunctionList(no) ==
  LET hits == {d \in Stmts : /\ Prog[d].fnend # Nil
                             /\ Prog[d].line <= no /\ no <= Prog[Prog[d].fnend].line}
  IN  IF hits = {} THEN Nil ELSE CHOOSE d \in hits : TRUE

ScopeOf(i) == lookupStmtInUserFunctionList(Prog[i].line)

\* The next FOR or NEXT with the same loop variable: getLoopVar answers for both.
findNext(i) ==
  LET hits == {j \in Stmts : /\ j > i /\ Prog[j].op \in {"FOR", "NEXT"}
                             /\ Prog[j].var = Prog[i].var}
  IN  IF hits = {} THEN Nil ELSE Min(hits)

findForStackEntryVar(stack, v) ==
  LET hits == {k \in DOMAIN stack : Prog[stack[k].stmt].var = v}
  IN  IF hits = {} THEN 0 ELSE Min(hits)

\* Fault variant: the popped entry itself survives.
popKeepsEntry(stack, k) == IF k > Len(stack) THEN stack ELSE SubSeq(stack, 1, k)

\* Entry k and everything above it go.
popForStackEntry(stack, k) == IF k > Len(stack) THEN stack ELSE SubSeq(stack, 1, k - 1)

\* The FOR stack after checkForExit(no, TRUE): leaving a loop's lines ends it.
checkForExit(no) ==
  LET within(ln, e) == Prog[e.stmt].line <= ln /\ ln <= Prog[e.next].line
      left == {k \in DOMAIN forStack : /\ within(Prog[curStmt].line, forStack[k])
                                       /\ ~ within(no, forStack[k])}
  IN  IF left = {} THEN forStack ELSE popForStackEntry(forStack, Min(left))

\* Fault variant: any transfer is let through.
noScopeCheck(no) == TRUE

\* checkStmtTargetScope passes.
checkStmtTargetScope(no) == ScopeOf(curStmt) = lookupStmtInUserFunctionList(no)

-----------------------------------------------------------------------------
(* Transfers of control.                                                    *)

Op == Prog[curStmt].op
To(k) == Prog[curStmt].to[k]

\* Fault variant: the flag that NEXT passes to FOR outlives the FOR.
JumpStickyArg(i, a) ==
  /\ curStmt' = i /\ nextStmt' = i /\ arg' = (a \/ arg) /\ pc' = "fetch"
  /\ UNCHANGED <<mode, acts, out>>

\* One turn of executeRunInternal's loop hands over to statement i.
Jump(i, a) ==
  /\ curStmt' = i /\ nextStmt' = i /\ arg' = a /\ pc' = "fetch"
  /\ UNCHANGED <<mode, acts, out>>

\* executeRunInternal is entered at statement i.
executeRunInternal(i) ==
  /\ curStmt' = i /\ arg' = FALSE /\ pc' = "fetch" /\ mode' = "running"
  /\ interrupted' = FALSE

\* Fault variant: CONT would go on behind the interrupted statement.
UnwindPast(msg) ==
  /\ mode' = "prompt" /\ acts' = <<>> /\ pc' = "fetch" /\ arg' = FALSE
  /\ out' = msg /\ nextStmt' = stmtAvlTreeNextStmt(curStmt)

\* A panic unwinds every activation and leaves the engine at the prompt.
Unwind(msg) ==
  /\ mode' = "prompt" /\ acts' = <<>> /\ pc' = "fetch" /\ arg' = FALSE
  /\ out' = msg /\ nextStmt' = nextStmt

\* decodePanic of a runtime error nobody caught.  Inside a user function the callers
\* then unwind on a crawloutException, which forgets the fault.
Uncaught(kind, fault) ==
  /\ Unwind(kind)
  /\ curStmt' = IF kind = "int" THEN curStmt ELSE Nil
  /\ fip' = IF kind = "int" /\ acts = <<>> THEN fault ELSE NoFault

\* Fault variant: a handler's own fault is caught.
catchesAgain(old, kind) == kind \in {"int", "num"}

\* The fault gets an error number: it has one, and no handler is being executed.
catchable(old, kind) == old = NoFault /\ kind \in {"int", "num"}

\* runtimeErrorInternal and the recovery in executeStmt, with r.fip equal to old.
RaiseOver(old, kind) ==
  LET caught == catchable(old, kind)
      fault  == [stmt |-> curStmt, err |-> IF caught THEN kind ELSE "none"]
  IN  /\ IF caught /\ onErrorStmtNo # 0
         THEN Jump(stmtAvlTreeLookup(onErrorStmtNo), FALSE) /\ fip' = fault
         ELSE Uncaught(kind, fault)
      /\ UNCHANGED onErrorStmtNo

Raise(kind) == RaiseOver(fip, kind)

\* The faults of the statement's own work.  arithFault only warns without a handler.
StmtFault(kinds) ==
  \E k \in kinds \cap Prog[curStmt].faults :
     /\ k = "arith" => onErrorStmtNo # 0
     /\ Raise(IF k = "arith" THEN "num" ELSE IF k = "badcall" THEN "fatal" ELSE k)

WorkFaults == {"arith", "num", "fatal"}

Advance == Jump(computeNextStmt(curStmt), FALSE) /\ UNCHANGED <<fip, onErrorStmtNo>>

initializeRun ==
  /\ curStmt' = Nil /\ nextStmt' = Nil /\ forStack' = <<>> /\ gosubStack' = <<>>
  /\ userDefStack' = <<>> /\ level' = 0 /\ onErrorStmtNo' = 0 /\ fip' = NoFault
  /\ declared' = FALSE

-----------------------------------------------------------------------------
(* The statement loop.                                                      *)

At(phase, op) == mode = "running" /\ pc = phase /\ Op = op

\* Fault variant: the statement starts without looking at the flag.
FetchBlind ==
  /\ mode = "running" /\ pc = "fetch"
  /\ pc' = "exec"
  /\ UNCHANGED <<mode, curStmt, nextStmt, arg, loopVars, callVars, onErrorStmtNo, fip,
                 interrupted, out>>

\* executeStmt begins with checkInterrupts ...
Fetch ==
  /\ mode = "running" /\ pc = "fetch" /\ ~ interrupted
  /\ pc' = "exec"
  /\ UNCHANGED <<mode, curStmt, nextStmt, arg, loopVars, callVars, onErrorStmtNo, fip,
                 interrupted, out>>

\* Fault variant: the flag is cleared, and nothing more.
dropInterrupt ==
  /\ mode = "running" /\ pc = "fetch" /\ interrupted
  /\ interrupted' = FALSE /\ pc' = "exec"
  /\ UNCHANGED <<mode, curStmt, nextStmt, arg, loopVars, callVars, onErrorStmtNo, fip, out>>

\* ... which turns a posted interrupt into a fault of the statement.
checkInterrupts ==
  /\ mode = "running" /\ pc = "fetch" /\ interrupted
  /\ interrupted' = FALSE
  /\ Raise("int")
  /\ UNCHANGED <<loopVars, userDefStack, level, declared>>

\* callFunction and spawnUserFunction; a single-line DEF is only substituted.
CallFunction(d, k, stmt, prompt) ==
  /\ level' = level + 1
  /\ IF Prog[d].fnend = Nil
     THEN /\ pc' = IF prompt THEN pc ELSE "after"
          /\ fsIdx' = k
          /\ UNCHANGED <<mode, curStmt, arg, userDefStack, acts, onErrorStmtNo, interrupted>>
     ELSE /\ userDefStack' = Append(userDefStack, d)
          /\ acts' = Append(acts, [call |-> stmt, fn |-> d, onErr |-> onErrorStmtNo,
                                   idx |-> k, prompt |-> prompt])
          /\ onErrorStmtNo' = 0
          /\ executeRunInternal(computeNextStmt(d))
          /\ UNCHANGED fsIdx
  /\ UNCHANGED <<nextStmt, gosubStack, declared, fip, out>>

\* Evaluate the statement's expression, whose call (if any) suspends it.
Evaluate(k) ==
  LET d == Prog[curStmt].fn
  IN  \/ /\ d = Nil
         /\ pc' = "after" /\ fsIdx' = k
         /\ UNCHANGED <<mode, curStmt, nextStmt, arg, gosubStack, callVars, onErrorStmtNo,
                        fip, interrupted, out>>
      \/ /\ d # Nil /\ level >= fnRecursionMax
         /\ Raise("fatal")
         /\ UNCHANGED <<gosubStack, fsIdx, userDefStack, level, declared, interrupted>>
      \/ /\ d # Nil /\ level < fnRecursionMax
         /\ level' = level + 1
         /\ StmtFault({"badcall"})
         /\ UNCHANGED <<gosubStack, fsIdx, userDefStack, declared, interrupted>>
      \/ /\ d # Nil /\ level < fnRecursionMax
         /\ CallFunction(d, k, curStmt, FALSE)

\* LET, PRINT and every other verb that neither transfers control nor waits.
EvalPlain == At("exec", "PLAIN") /\ Evaluate(0) /\ UNCHANGED forStack

DonePlain ==
  /\ At("after", "PLAIN")
  /\ Advance \/ StmtFault(WorkFaults)
  /\ UNCHANGED <<loopVars, userDefStack, level, declared, interrupted>>

\* INPUT, SLEEP and WAIT poll for interrupts while they wait.
ExecInput ==
  /\ At("exec", "INPUT")
  /\ \/ interrupted /\ interrupted' = FALSE /\ Raise("int")
     \/ ~ interrupted /\ UNCHANGED interrupted /\ (Advance \/ StmtFault(WorkFaults))
  /\ UNCHANGED <<loopVars, userDefStack, level, declared>>

-----------------------------------------------------------------------------
(* FOR and NEXT.                                                            *)

noLoopChange == UNCHANGED <<gosubStack, fsIdx, userDefStack, level, declared, interrupted>>

\* executeFor from outside the loop: a live entry of the same statement is dropped
\* before the bounds are evaluated.
InitFor ==
  /\ At("exec", "FOR") /\ ~ arg
  /\ LET k    == findForStackEntryVar(forStack, Prog[curStmt].var)
         rest == IF k = 0 THEN forStack ELSE popForStackEntry(forStack, k)
     IN  IF k # 0 /\ forStack[k].stmt # curStmt         \* Duplicate FOR statement
         THEN Raise("fatal") /\ UNCHANGED forStack /\ noLoopChange
         ELSE /\ forStack' = rest
              /\ IF Len(rest) >= forStackMax
                 THEN Raise("fatal") /\ noLoopChange
                 ELSE Evaluate(k)

\* The bounds are known: push the entry at once, and pop from the index found before
\* the bounds were evaluated if the body does not run at all.
EnterFor ==
  /\ At("after", "FOR")
  /\ LET entry == [stmt |-> curStmt, next |-> findNext(curStmt), saved |-> FALSE]
         stack == Append(forStack, entry)
         k     == IF fsIdx = 0 THEN Len(stack) ELSE fsIdx
     IN  \/ /\ StmtFault(WorkFaults)
            /\ UNCHANGED forStack
         \/ /\ entry.next = Nil                          \* No matching NEXT
            /\ Raise("fatal") /\ UNCHANGED forStack
         \/ /\ entry.next # Nil                          \* the WHILE or UNTIL faults
            /\ Prog[curStmt].cond
            /\ forStack' = stack
            /\ StmtFault(WorkFaults)
         \/ /\ entry.next # Nil
            /\ forStack' = stack
            /\ Advance
         \/ /\ entry.next # Nil
            /\ forStack' = popForStackEntry(stack, k)
            /\ Jump(computeNextStmt(entry.next), FALSE)
            /\ UNCHANGED <<fip, onErrorStmtNo>>
  /\ noLoopChange

\* executeFor handed over by NEXT.
IterateFor ==
  /\ At("exec", "FOR") /\ arg
  /\ LET k == findForStackEntryVar(forStack, Prog[curStmt].var)
     IN  \/ Prog[curStmt].cond /\ StmtFault(WorkFaults) /\ UNCHANGED forStack
         \/ Advance /\ UNCHANGED forStack
         \/ /\ forStack' = popForStackEntry(forStack, k)
            /\ Jump(computeNextStmt(forStack[k].next), FALSE)
            /\ UNCHANGED <<fip, onErrorStmtNo>>
  /\ noLoopChange

\* executeNext; incrementLoopVar saves the old value once the step is known to be good.
ExecNext ==
  /\ At("exec", "NEXT")
  /\ LET k == findForStackEntryVar(forStack, Prog[curStmt].var)
     IN  \/ k = 0 /\ Raise("fatal") /\ UNCHANGED forStack
         \/ k # 0 /\ StmtFault(WorkFaults) /\ UNCHANGED forStack
         \/ /\ k # 0
            /\ forStack' = [forStack EXCEPT ![k].saved = TRUE]
            /\ Jump(forStack[k].stmt, TRUE)
            /\ UNCHANGED <<fip, onErrorStmtNo>>
  /\ noLoopChange

-----------------------------------------------------------------------------
(* GOTO, GOSUB, RETURN, IF and ON.                                          *)

noCallChange == UNCHANGED <<fsIdx, userDefStack, level, declared, interrupted>>

ToLine(no) == Jump(stmtAvlTreeLookup(no), FALSE) /\ UNCHANGED <<fip, onErrorStmtNo>>

ExecGoto ==
  /\ At("exec", "GOTO")
  /\ \/ ~ checkStmtTargetScope(To(1)) /\ Raise("fatal") /\ UNCHANGED forStack
     \/ /\ checkStmtTargetScope(To(1))
        /\ forStack' = checkForExit(To(1))
        /\ IF stmtAvlTreeLookup(To(1)) = Nil THEN Raise("fatal") ELSE ToLine(To(1))
  /\ noCallChange /\ UNCHANGED gosubStack

\* Fault variant: one level too many.
executeGosubDeep(no) ==
  IF stmtAvlTreeLookup(no) = Nil \/ Len(gosubStack) > gosubStackMax
  THEN Raise("fatal") /\ UNCHANGED gosubStack
  ELSE gosubStack' = Append(gosubStack, curStmt) /\ ToLine(no)

executeGosub(no) ==
  IF stmtAvlTreeLookup(no) = Nil \/ Len(gosubStack) >= gosubStackMax
  THEN Raise("fatal") /\ UNCHANGED gosubStack
  ELSE gosubStack' = Append(gosubStack, curStmt) /\ ToLine(no)

ExecGosub ==
  /\ At("exec", "GOSUB")
  /\ IF checkStmtTargetScope(To(1))
     THEN executeGosub(To(1))
     ELSE Raise("fatal") /\ UNCHANGED gosubStack
  /\ noCallChange /\ UNCHANGED forStack

\* RETURN goes on behind the GOSUB, wherever that is.
ExecReturn ==
  /\ At("exec", "RETURN")
  /\ IF gosubStack = <<>>
     THEN Raise("fatal") /\ UNCHANGED gosubStack
     ELSE /\ gosubStack' = Front(gosubStack)
          /\ Jump(computeNextStmt(Last(gosubStack)), FALSE)
          /\ UNCHANGED <<fip, onErrorStmtNo>>
  /\ noCallChange /\ UNCHANGED forStack

ExecOn ==
  /\ mode = "running" /\ pc = "exec" /\ Op \in {"ONGOTO", "ONGOSUB"}
  /\ \/ Raise("num") /\ UNCHANGED gosubStack             \* EONERROR: no such target
     \/ \E k \in DOMAIN Prog[curStmt].to :
          IF ~ checkStmtTargetScope(To(k))
          THEN Raise("fatal") /\ UNCHANGED gosubStack
          ELSE IF Op = "ONGOSUB" THEN executeGosub(To(k))
          ELSE /\ UNCHANGED gosubStack
               /\ IF stmtAvlTreeLookup(To(k)) = Nil THEN Raise("fatal") ELSE ToLine(To(k))
  /\ noCallChange /\ UNCHANGED forStack

\* executeResume clears the fault before it looks at anything else.
resumeTarget(no) == IF no # 0 THEN stmtAvlTreeLookup(no) ELSE fip.stmt

\* Fault variant: RESUME leaves the fault in place.
keepFault == fip' = fip

clearFault == fip' = NoFault

RaiseInResume == RaiseOver(NoFault, "fatal")

\* No fault, an interrupt without a target, or a target that does not exist.
ResumeRefused(no) ==
  \/ fip = NoFault
  \/ no # 0 /\ stmtAvlTreeLookup(no) = Nil
  \/ no = 0 /\ fip.err = "int"

ResumeLine == IF Prog[curStmt].to = <<>> THEN 0 ELSE To(1)

ExecResume ==
  /\ At("exec", "RESUME")
  /\ IF Prog[curStmt].to # <<>> /\ ~ checkStmtTargetScope(To(1))
     THEN Raise("fatal")
     ELSE IF ResumeRefused(ResumeLine) THEN RaiseInResume
     ELSE /\ resumeTarget(ResumeLine) # Nil
          /\ Jump(resumeTarget(ResumeLine), FALSE)
          /\ clearFault /\ UNCHANGED onErrorStmtNo
  /\ noCallChange /\ UNCHANGED <<forStack, gosubStack>>

\* The clause of an IF runs first; only then is its target checked, by its stmtNo,
\* which is 0 for a chained statement.
stmtNoOf(i) == IF Prog[i].head THEN Prog[i].line ELSE 0

IfGoto ==
  /\ UNCHANGED gosubStack
  /\ IF stmtAvlTreeLookup(To(1)) = Nil \/ ~ checkStmtTargetScope(To(1))
     THEN Raise("fatal") /\ UNCHANGED forStack
     ELSE forStack' = checkForExit(To(1)) /\ ToLine(To(1))

IfGosub ==
  /\ UNCHANGED forStack
  /\ IF checkStmtTargetScope(To(1)) THEN executeGosub(To(1))
     ELSE /\ Raise("fatal")
          /\ gosubStack' = IF stmtAvlTreeLookup(To(1)) # Nil /\ Len(gosubStack) < gosubStackMax
                           THEN Append(gosubStack, curStmt) ELSE gosubStack

\* A fault that has no statement (it was raised at the prompt) resumes behind the IF.
IfResume ==
  /\ UNCHANGED gosubStack
  /\ IF ResumeRefused(ResumeLine) THEN RaiseInResume /\ UNCHANGED forStack
     ELSE LET target == resumeTarget(ResumeLine)
          IN  IF target = Nil
              THEN /\ Jump(computeNextStmt(curStmt), FALSE)
                   /\ clearFault /\ UNCHANGED <<forStack, onErrorStmtNo>>
              ELSE IF ~ checkStmtTargetScope(stmtNoOf(target))
              THEN RaiseInResume /\ UNCHANGED forStack
              ELSE /\ forStack' = checkForExit(stmtNoOf(target))
                   /\ Jump(target, FALSE)
                   /\ clearFault /\ UNCHANGED onErrorStmtNo

\* executeStop; the panic is a continuable crawloutException.
Stop ==
  /\ mode' = "prompt" /\ acts' = <<>> /\ pc' = "fetch" /\ arg' = FALSE /\ out' = "stop"
  /\ nextStmt' = stmtAvlTreeNextStmt(curStmt)
  /\ fip' = NoFault
  /\ UNCHANGED <<curStmt, forStack, gosubStack, onErrorStmtNo>>

\* THEN RETURN is parsed as RANDOMIZE, a clause like any other plain one.
ExecIf ==
  /\ At("exec", "IF")
  /\ \/ Advance /\ UNCHANGED <<forStack, gosubStack>>
     \/ StmtFault(WorkFaults) /\ UNCHANGED <<forStack, gosubStack>>
     \/ "GOTO" \in Prog[curStmt].subs /\ IfGoto
     \/ "GOSUB" \in Prog[curStmt].subs /\ IfGosub
     \/ "RESUME" \in Prog[curStmt].subs /\ IfResume
     \/ "STOP" \in Prog[curStmt].subs /\ Stop
  /\ noCallChange

ExecStop == At("exec", "STOP") /\ Stop /\ noCallChange

-----------------------------------------------------------------------------
(* ON ERROR, user functions and END.                                        *)

ExecOnError ==
  /\ At("exec", "ONERROR")
  /\ LET no == IF Prog[curStmt].to = <<>> THEN 0 ELSE To(1)
     IN  IF no # 0 /\ (~ checkStmtTargetScope(no) \/ stmtAvlTreeLookup(no) = Nil)
         THEN Raise("fatal")
         ELSE /\ onErrorStmtNo' = no
              /\ Jump(computeNextStmt(curStmt), FALSE) /\ fip' = fip
  /\ noCallChange /\ UNCHANGED <<forStack, gosubStack>>

\* Reached in sequence, a multi-line DEF is skipped up to and including its FNEND.
ExecDef ==
  /\ At("exec", "DEF")
  /\ Jump(computeNextStmt(IF Prog[curStmt].fnend = Nil THEN curStmt ELSE Prog[curStmt].fnend),
          FALSE)
  /\ UNCHANGED <<loopVars, userDefStack, level, declared, onErrorStmtNo, fip, interrupted>>

\* Fault variants: the frame of the call, or its nesting level, is not given back.
framesKept == userDefStack
levelKept  == level

framesAfterCall == Front(userDefStack)
levelAfterCall  == level - 1

\* executeRunInternal's loop ends: callFunction pops its stacks and the caller goes on.
FinishCall ==
  /\ LET frame == Last(acts)
     IN  /\ curStmt' = frame.call
         /\ onErrorStmtNo' = frame.onErr
         /\ fsIdx' = frame.idx
         /\ IF frame.prompt
            THEN mode' = "prompt" /\ out' = "done" /\ pc' = "fetch"
            ELSE UNCHANGED <<mode, out>> /\ pc' = "after"
  /\ nextStmt' = Nil /\ arg' = FALSE
  /\ acts' = Front(acts)
  /\ userDefStack' = framesAfterCall
  /\ level' = levelAfterCall
  /\ UNCHANGED <<forStack, gosubStack, declared, interrupted>>

ReturnFromFunction == At("exec", "FNEND") /\ acts # <<>> /\ FinishCall /\ UNCHANGED fip

\* With no activation left the loop of the main program just ends.
FinishProgram ==
  /\ mode' = "prompt" /\ out' = "done" /\ pc' = "fetch" /\ nextStmt' = Nil /\ arg' = FALSE
  /\ UNCHANGED <<curStmt, loopVars, callVars, onErrorStmtNo, interrupted>>

StrayFnend == At("exec", "FNEND") /\ acts = <<>> /\ FinishProgram /\ UNCHANGED fip

\* RESUME to the statement of a fault that has none ends the loop as well.
ResumeNowhere ==
  /\ At("exec", "RESUME") /\ Prog[curStmt].to = <<>>
  /\ ~ ResumeRefused(0) /\ resumeTarget(0) = Nil
  /\ clearFault
  /\ IF acts = <<>> THEN FinishProgram ELSE FinishCall

\* END reinitialises r.  Inside a function, userFunctionWrapper then indexes the empty
\* userDefStack and the Go runtime panics.
ExecEnd ==
  /\ At("exec", "END")
  /\ initializeRun
  /\ mode' = "prompt" /\ acts' = <<>> /\ pc' = "fetch" /\ arg' = FALSE
  /\ out' = IF acts = <<>> THEN "done" ELSE "gopanic"
  /\ UNCHANGED <<fsIdx, interrupted>>

-----------------------------------------------------------------------------
(* The prompt, and the signal handler's goroutine.                          *)

\* executeRun; processDeclarations fills the function tables again.
Run ==
  /\ mode = "prompt"
  /\ executeRunInternal(1)
  /\ nextStmt' = Nil /\ forStack' = <<>> /\ gosubStack' = <<>> /\ userDefStack' = <<>>
  /\ level' = 0 /\ onErrorStmtNo' = 0 /\ fip' = NoFault /\ declared' = TRUE
  /\ out' = "" /\ UNCHANGED <<acts, fsIdx>>

\* executeCont; a refusal is a crawloutException and forgets the fault.
Cont ==
  /\ mode = "prompt" /\ "cont" \in UserOps
  /\ \/ /\ curStmt # Nil /\ nextStmt # Nil
        /\ executeRunInternal(nextStmt)
        /\ nextStmt' = Nil /\ fip' = fip
        /\ out' = IF fip = NoFault THEN "" ELSE "pending"
     \/ /\ curStmt = Nil \/ nextStmt = Nil
        /\ out' = "nocont" /\ fip' = NoFault
        /\ UNCHANGED <<mode, stmtVars, interrupted>>
  /\ UNCHANGED <<loopVars, callVars, onErrorStmtNo>>

\* An immediate LET, PRINT, MAT or KILL raises a runtime error: g.running is false, so
\* decodePanic keeps both the statement and the new fault.
ImmediateFault ==
  /\ mode = "prompt" /\ "immediate" \in UserOps
  /\ \E kind \in {"num", "none"} :
       fip' = [stmt |-> curStmt, err |-> IF fip = NoFault THEN kind ELSE "none"]
  /\ out' = "immediate"
  /\ UNCHANGED <<mode, stmtVars, loopVars, callVars, onErrorStmtNo, interrupted>>

\* A syntax error (errorLocFull) is a crawloutException that forbids CONT.
SyntaxError ==
  /\ mode = "prompt" /\ "immediate" \in UserOps
  /\ curStmt' = Nil /\ fip' = NoFault /\ out' = "syntax"
  /\ UNCHANGED <<mode, nextStmt, pc, arg, loopVars, callVars, onErrorStmtNo, interrupted>>

\* The function called is not defined or its arguments do not fit: callFunction has
\* raised r.level already, and pushes no frame.
RefusedCall ==
  /\ level' = level + 1
  /\ fip' = [stmt |-> curStmt, err |-> "none"] /\ out' = "immediate"
  /\ UNCHANGED <<mode, stmtVars, gosubStack, fsIdx, userDefStack, acts, declared,
                 onErrorStmtNo, interrupted>>

\* An immediate LET or PRINT calls a function, of the stopped program if there is one.
ImmediateCall ==
  /\ mode = "prompt" /\ "immediate" \in UserOps
  /\ level < fnRecursionMax
  /\ \/ RefusedCall
     \/ /\ declared
        /\ \E d \in Stmts : Prog[d].op = "DEF" /\ CallFunction(d, 0, curStmt, TRUE)
  /\ UNCHANGED forStack

\* Storing or deleting a line reinitialises r.
EditLine ==
  /\ mode = "prompt" /\ "edit" \in UserOps
  /\ initializeRun
  /\ out' = "edit"
  /\ UNCHANGED <<mode, pc, arg, fsIdx, acts, interrupted>>

\* sigHdlr on SIGINT.
Signal ==
  /\ "int" \in UserOps /\ interrupted' = TRUE
  /\ UNCHANGED <<mode, stmtVars, loopVars, callVars, onErrorStmtNo, fip, out>>

-----------------------------------------------------------------------------

Init ==
  /\ mode = "prompt" /\ pc = "fetch" /\ curStmt = Nil /\ nextStmt = Nil
  /\ forStack = <<>> /\ gosubStack = <<>> /\ userDefStack = <<>> /\ level = 0
  /\ onErrorStmtNo = 0 /\ fip = NoFault /\ declared = FALSE
  /\ interrupted = FALSE /\ arg = FALSE /\ fsIdx = 0 /\ acts = <<>> /\ out = ""

Step ==
  \/ Fetch \/ checkInterrupts
  \/ EvalPlain \/ DonePlain \/ ExecInput
  \/ InitFor \/ EnterFor \/ IterateFor \/ ExecNext
  \/ ExecGoto \/ ExecGosub \/ ExecReturn \/ ExecOn \/ ExecIf
  \/ ExecResume \/ ExecOnError \/ ExecStop \/ ExecEnd
  \/ ExecDef \/ ReturnFromFunction \/ StrayFnend \/ ResumeNowhere

User == Run \/ Cont \/ ImmediateFault \/ SyntaxError \/ ImmediateCall \/ EditLine \/ Signal

Next == Step \/ User

Spec == Init /\ [][Next]_vars

\* The goroutine that runs the program is always scheduled again; the user owes nothing.
FairSpec == Spec /\ WF_vars(Step)
=============================================================================
