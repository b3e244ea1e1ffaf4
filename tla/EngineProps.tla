---------------------------- MODULE EngineProps ----------------------------
(* What the execution engine must never do, and what it must do in the end. *)
EXTENDS Engine

FaultRecord == [stmt : Nodes, err : {"nil", "num", "int", "none"}]
ForEntry    == [stmt : Stmts, next : Stmts, saved : BOOLEAN]
Frame       == [call : Nodes, fn : Stmts, onErr : Nat, idx : Nat, prompt : BOOLEAN]
Outcomes    == {"", "int", "num", "fatal", "none", "stop", "done", "gopanic", "nocont",
                "immediate", "syntax", "edit", "pending"}

\* Every variable has its type, and the stacks that the code limits keep their limits.
TypeOK ==
  /\ mode \in {"prompt", "running"} /\ pc \in {"fetch", "exec", "after"}
  /\ curStmt \in Nodes /\ nextStmt \in Nodes
  /\ forStack \in Seq(ForEntry)
  /\ gosubStack \in Seq(Stmts) /\ Len(gosubStack) <= gosubStackMax
  /\ userDefStack \in Seq(Stmts) /\ level \in 0 .. fnRecursionMax
  /\ onErrorStmtNo \in Nat /\ fip \in FaultRecord /\ declared \in BOOLEAN
  /\ interrupted \in BOOLEAN /\ arg \in BOOLEAN /\ fsIdx \in Nat
  /\ acts \in Seq(Frame) /\ out \in Outcomes

-----------------------------------------------------------------------------
(* Pointers the loop follows without a check.                               *)

\* executeFor, told that it iterates, dereferences the entry it looks up without a test
\* for nil: the flag is only ever up at a FOR whose loop is on the stack.
IterationFindsItsLoop ==
  arg => /\ mode = "running" /\ Op = "FOR"
         /\ findForStackEntryVar(forStack, Prog[curStmt].var) # 0

\* userFunctionWrapper takes the result from the top of r.userDefStack, and callFunction
\* pops that top: for every call in progress it is the call's own node, whatever faults,
\* interrupts and immediate calls have left below.
ResultsComeFromOwnFrame ==
  /\ Len(acts) <= Len(userDefStack)
  /\ \A k \in DOMAIN acts :
        userDefStack[Len(userDefStack) - Len(acts) + k] = acts[k].fn

\* The FOR stack never holds two loops over one variable, nor more than the limit:
\* findForStackEntryVar returns the first match only.
ForLoopsAreDistinct ==
  /\ Len(forStack) <= forStackMax
  /\ \A j, k \in DOMAIN forStack :
        Prog[forStack[j].stmt].var = Prog[forStack[k].stmt].var => j = k

-----------------------------------------------------------------------------
(* Interrupts, STOP and CONT.                                               *)

\* CONT takes up an interrupted program at the statement the interrupt kept from running,
\* and a stopped one on a later line.  (An interrupt inside a function leaves no fault.)
ContResumesInPlace ==
  mode = "prompt" /\ nextStmt # Nil =>
     /\ out = "int" /\ fip # NoFault => nextStmt = curStmt
     /\ out = "stop" => Prog[nextStmt].line > Prog[curStmt].line

\* Two things take a posted interrupt away from a running program: the fault that it raises,
\* and the call of a multi-line function, which starts executeRunInternal anew.
InterruptsAreNotLost ==
  [][mode = "running" /\ interrupted /\ ~ interrupted' =>
       out' = "int" \/ fip'.err = "int" \/ Len(acts') > Len(acts)]_vars

\* The armed handler has just been entered with the interrupt as its fault ...
HandlerHasInterrupt ==
  fip.err = "int" /\ curStmt = stmtAvlTreeLookup(onErrorStmtNo)

\* ... or a multi-line function has just been entered, whose executeRunInternal resets the flag.
FunctionHasStarted == acts # <<>> /\ curStmt = computeNextStmt(Last(acts).fn)

\* A posted interrupt does not wait, and is not just dropped: the program comes back to the
\* prompt, or is at the first statement of its handler with the interrupt as the fault, or at
\* the first statement of a function whose call has taken the interrupt away (execute.go:478).
InterruptsAreObeyed ==
  (mode = "running" /\ interrupted) ~>
     \/ mode = "prompt"
     \/ pc = "fetch" /\ ~ interrupted /\ (HandlerHasInterrupt \/ FunctionHasStarted)

-----------------------------------------------------------------------------
(* Faults and the ON ERROR handler.                                         *)

\* An error that has a number does not abort a program whose handler is armed and cannot
\* fault itself (as that of the program checked), with one exception: the fault of an interrupt
\* (basic.go:354) or of an immediate statement that was still pending when CONT took the program
\* up.  Until a RESUME clears it, no other error is caught, against errors.go:71.
NumberedErrorsAreCaught ==
  [][mode = "running" /\ out' = "num" =>
       onErrorStmtNo = 0 \/ (out = "pending" /\ fip # NoFault)]_vars

\* While a handler runs, its fault is not replaced by another: handlers do not nest.
HandlersDoNotNest ==
  [][mode = "running" /\ mode' = "running" /\ fip # NoFault => fip' \in {fip, NoFault}]_vars

-----------------------------------------------------------------------------
(* User functions.                                                          *)

\* The statement that runs belongs to the function that is active: checkStmtTargetScope
\* keeps transfers from entering or leaving a multi-line function.  (A DEF met in
\* sequence is inside its own lines.)
RunsInItsOwnScope ==
  mode = "running" /\ Op # "DEF" =>
     ScopeOf(curStmt) = IF acts = <<>> THEN Nil ELSE Last(acts).fn

\* A call that takes a level and no frame: of a single-line function, or refused for its
\* arguments or for want of a DEF.
CallsWithoutFrame ==
  \/ mode = "prompt" /\ "immediate" \in UserOps
  \/ /\ mode = "running" /\ pc = "exec" /\ Prog[curStmt].fn # Nil
     /\ Prog[Prog[curStmt].fn].fnend = Nil \/ "badcall" \in Prog[curStmt].faults

\* r.level, which fnRecursionMax limits, and the frames on r.userDefStack rise and fall
\* together, whatever faults, interrupts and CONT do to the calls: a function that returns gives
\* back its level with its frame.  Levels are lost by the calls that have no frame, one each, and
\* are found again only when r is made anew.
LevelsFollowFrames ==
  [][level' + Len(userDefStack) # level + Len(userDefStack') =>
       \/ CallsWithoutFrame /\ level' = level + 1 /\ userDefStack' = userDefStack
       \/ level' = 0 /\ userDefStack' = <<>>]_vars
=============================================================================
