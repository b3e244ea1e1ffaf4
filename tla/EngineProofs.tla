---------------------------- MODULE EngineProofs ----------------------------
(***************************************************************************)
(* Proofs about the execution engine, for every program that satisfies     *)
(* ProgAssumption, every limit and every selection of user operations.     *)
(*                                                                         *)
(* IInv is the inductive invariant: next to the types it says which        *)
(* statements the pointers on the stacks refer to (so that the statement   *)
(* behind them exists), that the prompt has no call in progress, and that  *)
(* r.level is never below the number of frames.  The sections behind it    *)
(* add to it what each further property needs; two properties that some    *)
(* programs violate are proved of those that meet a stated condition.      *)
(***************************************************************************)
EXTENDS EngineProps, SequenceTheorems, WellFoundedInduction, TLAPS

\* A stack of FORs: each entry's statement is a FOR, and its end is followed by another
\* statement, since it is not an END.
GoodLoops(s) ==
  /\ s \in Seq(ForEntry)
  /\ \A k \in DOMAIN s : /\ Prog[s[k].stmt].op = "FOR"
                         /\ Prog[s[k].next].op \in {"FOR", "NEXT"}

\* A stack of statements that call subroutines, within its limit.
GoodGosubs(s) ==
  /\ s \in Seq(Stmts) /\ Len(s) <= gosubStackMax
  /\ \A k \in DOMAIN s : Prog[s[k]].op \in {"GOSUB", "IF", "ONGOSUB"}

\* A handler's line exists.
GoodHandler(no) == no \in Nat /\ (no # 0 => stmtAvlTreeLookup(no) # Nil)

\* The calls in progress: only the outermost may come from the prompt.
GoodActs(s) ==
  /\ s \in Seq(Frame)
  /\ \A k \in DOMAIN s : /\ GoodHandler(s[k].onErr)
                         /\ s[k].prompt => k = 1
                         /\ ~ s[k].prompt => s[k].call \in Stmts

\* Where control is, and which calls it is in.
ControlInv ==
  /\ mode \in {"prompt", "running"} /\ pc \in {"fetch", "exec", "after"}
  /\ curStmt \in Nodes /\ nextStmt \in Nodes /\ GoodActs(acts)
  /\ mode = "running" => curStmt \in Stmts
  /\ mode = "prompt" => acts = <<>> /\ pc = "fetch" /\ ~ arg
  /\ fip \in FaultRecord /\ out \in Outcomes /\ arg \in BOOLEAN

\* The stacks and the handler.
DataInv ==
  /\ GoodLoops(forStack) /\ GoodGosubs(gosubStack) /\ GoodHandler(onErrorStmtNo)
  /\ declared \in BOOLEAN /\ interrupted \in BOOLEAN /\ fsIdx \in Nat

\* Every call in progress has its frame on top of r.userDefStack.
CallInv ==
  /\ userDefStack \in Seq(Stmts)
  /\ level \in Nat /\ Len(userDefStack) <= level /\ level <= fnRecursionMax
  /\ ResultsComeFromOwnFrame

IInv == ControlInv /\ DataInv /\ CallInv /\ IterationFindsItsLoop

-----------------------------------------------------------------------------
(* The program's shape.                                                     *)

\* Min of a set of naturals is a member of it.
LEMMA MinIsMember ==
  ASSUME NEW S \in SUBSET Nat, S # {}
  PROVE  Min(S) \in S
<1>1. \E x \in S : \A y \in S : ~ (<<y, x>> \in OpToRel(<, Nat))
  BY WFMin, NatLessThanWellFounded
<1>2. \E x \in S : \A y \in S : x =< y
  <2>1. PICK x \in S : \A y \in S : ~ (<<y, x>> \in OpToRel(<, Nat))
    BY <1>1
  <2>2. ASSUME NEW y \in S PROVE ~ (y < x)
    <3>1. <<y, x>> \in Nat \X Nat /\ <<y, x>>[1] = y /\ <<y, x>>[2] = x
      OBVIOUS
    <3>2. QED
      BY <2>1, <3>1, Zenon DEF OpToRel
  <2>3. QED
    BY <2>2
<1>3. QED
  BY <1>2 DEF Min

\* A node of the program is a record of the right type.
LEMMA NodeType ==
  ASSUME NEW i \in Stmts
  PROVE  Prog[i] \in StmtNode
BY ProgAssumption, ElementOfSeq DEF Stmts

LEMMA StmtsAreNat == Len(Prog) \in Nat \ {0} /\ Stmts \subseteq Nat \ {0} /\ Nodes \subseteq Nat
BY ProgAssumption, EmptySeq, LenProperties DEF Stmts, Nodes, Nil

\* The target of a line number is a statement or nil.
LEMMA LookupType ==
  ASSUME NEW no
  PROVE  stmtAvlTreeLookup(no) \in Nodes
BY DEF stmtAvlTreeLookup, Nodes

\* Only END has no successor.
LEMMA SuccessorExists ==
  ASSUME NEW i \in Stmts, Prog[i].op # "END"
  PROVE  computeNextStmt(i) \in Stmts
BY ProgAssumption, StmtsAreNat DEF computeNextStmt, Stmts

\* The statement of the next numbered line is a statement or nil.
LEMMA NextLineType ==
  ASSUME NEW i \in Nodes
  PROVE  stmtAvlTreeNextStmt(i) \in Nodes
<1> DEFINE later == {j \in Stmts : j > i /\ Prog[j].head}
<1>1. later \in SUBSET Nat
  BY StmtsAreNat
<1>2. CASE later = {}
  BY <1>2 DEF stmtAvlTreeNextStmt, Nodes
<1>3. CASE later # {}
  <2>1. Min(later) \in later
    BY <1>1, <1>3, MinIsMember
  <2>2. QED
    BY <2>1, <1>3 DEF stmtAvlTreeNextStmt, Nodes
<1>4. QED
  BY <1>2, <1>3

\* findNext finds a FOR or a NEXT, or nothing.
LEMMA FindNextType ==
  ASSUME NEW i \in Stmts, findNext(i) # Nil
  PROVE  findNext(i) \in Stmts /\ Prog[findNext(i)].op \in {"FOR", "NEXT"}
<1> DEFINE hits == {j \in Stmts : /\ j > i /\ Prog[j].op \in {"FOR", "NEXT"}
                                  /\ Prog[j].var = Prog[i].var}
<1>1. hits # {} /\ findNext(i) = Min(hits)
  BY DEF findNext
<1>2. hits \in SUBSET Nat
  BY StmtsAreNat
<1>3. Min(hits) \in hits
  BY <1>1, <1>2, MinIsMember
<1>4. QED
  BY <1>1, <1>3

\* findForStackEntryVar answers with the place of an entry of that variable, if there is one.
LEMMA FindEntry ==
  ASSUME NEW s, NEW v, GoodLoops(s)
  PROVE  /\ findForStackEntryVar(s, v) \in Nat
         /\ findForStackEntryVar(s, v) # 0 =>
              /\ findForStackEntryVar(s, v) \in DOMAIN s
              /\ Prog[s[findForStackEntryVar(s, v)].stmt].var = v
         /\ (\E k \in DOMAIN s : Prog[s[k].stmt].var = v) =>
              findForStackEntryVar(s, v) # 0
<1> DEFINE hits == {k \in DOMAIN s : Prog[s[k].stmt].var = v}
<1>1. DOMAIN s = 1 .. Len(s) /\ Len(s) \in Nat
  BY LenProperties DEF GoodLoops
<1>2. hits \in SUBSET Nat
  BY <1>1
<1>3. CASE hits = {}
  BY <1>3 DEF findForStackEntryVar
<1>4. CASE hits # {}
  <2>1. Min(hits) \in hits
    BY <1>2, <1>4, MinIsMember
  <2>2. findForStackEntryVar(s, v) = Min(hits)
    BY <1>4 DEF findForStackEntryVar
  <2>3. Min(hits) \in DOMAIN s /\ Prog[s[Min(hits)].stmt].var = v
    BY <2>1
  <2>4. Min(hits) \in Nat \ {0}
    BY <2>3, <1>1
  <2> HIDE DEF hits
  <2>5. QED
    BY <2>2, <2>3, <2>4
<1>5. QED
  BY <1>3, <1>4

-----------------------------------------------------------------------------
(* Sequences.                                                               *)

\* A prefix of a good FOR stack is good.
LEMMA PrefixOfLoops ==
  ASSUME NEW s, GoodLoops(s), NEW n \in Int, n <= Len(s)
  PROVE  GoodLoops(SubSeq(s, 1, n))
<1>1. s \in Seq(ForEntry) /\ Len(s) \in Nat /\ DOMAIN s = 1 .. Len(s)
  BY LenProperties DEF GoodLoops
<1>2. \A i \in 1 .. n : s[i] \in ForEntry
  BY <1>1, ElementOfSeq
<1>3. /\ SubSeq(s, 1, n) \in Seq(ForEntry)
      /\ Len(SubSeq(s, 1, n)) = IF 1 <= n THEN n - 1 + 1 ELSE 0
      /\ \A i \in 1 .. n - 1 + 1 : SubSeq(s, 1, n)[i] = s[1 + i - 1]
  BY <1>2, SubSeqProperties
<1>4. DOMAIN SubSeq(s, 1, n) = 1 .. Len(SubSeq(s, 1, n))
  BY <1>3, LenProperties
<1>5. ASSUME NEW k \in DOMAIN SubSeq(s, 1, n)
      PROVE  k \in DOMAIN s /\ SubSeq(s, 1, n)[k] = s[k]
  BY <1>1, <1>3, <1>4
<1>6. QED
  BY <1>1, <1>3, <1>5 DEF GoodLoops

\* Popping leaves a good stack.
LEMMA PopKeepsLoops ==
  ASSUME NEW s, GoodLoops(s), NEW k \in Nat
  PROVE  GoodLoops(popForStackEntry(s, k))
<1>1. Len(s) \in Nat
  BY LenProperties DEF GoodLoops
<1>2. CASE k > Len(s)
  BY <1>2 DEF popForStackEntry
<1>3. CASE ~ (k > Len(s))
  <2>1. k - 1 \in Int /\ k - 1 <= Len(s)
    BY <1>1, <1>3
  <2>2. QED
    BY <2>1, <1>3, PrefixOfLoops DEF popForStackEntry
<1>4. QED
  BY <1>2, <1>3

\* So does leaving loops by a transfer.
LEMMA ExitKeepsLoops ==
  ASSUME GoodLoops(forStack), NEW no
  PROVE  GoodLoops(checkForExit(no))
<1> DEFINE within(ln, e) == Prog[e.stmt].line <= ln /\ ln <= Prog[e.next].line
<1> DEFINE left == {k \in DOMAIN forStack : /\ within(Prog[curStmt].line, forStack[k])
                                            /\ ~ within(no, forStack[k])}
<1>1. checkForExit(no) = IF left = {} THEN forStack ELSE popForStackEntry(forStack, Min(left))
  BY DEF checkForExit
<1>2. left \in SUBSET Nat
  BY LenProperties DEF GoodLoops
<1> HIDE DEF left
<1>3. CASE left = {}
  BY <1>1, <1>3
<1>4. CASE left # {}
  <2>1. Min(left) \in Nat
    BY <1>2, <1>4, MinIsMember
  <2>2. QED
    BY <1>1, <1>4, <2>1, PopKeepsLoops
<1>5. QED
  BY <1>3, <1>4

\* Entering a loop.
LEMMA PushKeepsLoops ==
  ASSUME NEW s, GoodLoops(s), NEW e \in ForEntry,
         Prog[e.stmt].op = "FOR", Prog[e.next].op \in {"FOR", "NEXT"}
  PROVE  GoodLoops(Append(s, e)) /\ Len(Append(s, e)) \in Nat
<1>1. s \in Seq(ForEntry) /\ Len(s) \in Nat /\ DOMAIN s = 1 .. Len(s)
  BY LenProperties DEF GoodLoops
<1>2. /\ Append(s, e) \in Seq(ForEntry)
      /\ Len(Append(s, e)) = Len(s) + 1
      /\ \A i \in 1 .. Len(s) : Append(s, e)[i] = s[i]
      /\ Append(s, e)[Len(s) + 1] = e
  BY <1>1, AppendProperties
<1>3. DOMAIN Append(s, e) = 1 .. Len(s) + 1
  BY <1>2, LenProperties
<1>4. ASSUME NEW k \in DOMAIN Append(s, e)
      PROVE  Append(s, e)[k] = e \/ (k \in DOMAIN s /\ Append(s, e)[k] = s[k])
  BY <1>1, <1>2, <1>3
<1>5. QED
  BY <1>1, <1>2, <1>4 DEF GoodLoops

\* Calling a subroutine.
LEMMA PushKeepsGosubs ==
  ASSUME NEW s, GoodGosubs(s), Len(s) < gosubStackMax, NEW i \in Stmts,
         Prog[i].op \in {"GOSUB", "IF", "ONGOSUB"}
  PROVE  GoodGosubs(Append(s, i))
<1>1. s \in Seq(Stmts) /\ Len(s) \in Nat /\ DOMAIN s = 1 .. Len(s)
  BY LenProperties DEF GoodGosubs
<1>2. /\ Append(s, i) \in Seq(Stmts)
      /\ Len(Append(s, i)) = Len(s) + 1
      /\ \A j \in 1 .. Len(s) : Append(s, i)[j] = s[j]
      /\ Append(s, i)[Len(s) + 1] = i
  BY <1>1, AppendProperties
<1>3. DOMAIN Append(s, i) = 1 .. Len(s) + 1
  BY <1>2, LenProperties
<1>4. ASSUME NEW k \in DOMAIN Append(s, i)
      PROVE  Append(s, i)[k] = i \/ (k \in DOMAIN s /\ Append(s, i)[k] = s[k])
  BY <1>1, <1>2, <1>3
<1>5. Len(Append(s, i)) <= gosubStackMax
  BY <1>1, <1>2, BoundsAssumption
<1>6. QED
  BY <1>2, <1>4, <1>5 DEF GoodGosubs

\* The prefix of length n.
LEMMA PrefixProperties ==
  ASSUME NEW S, NEW s \in Seq(S), NEW n \in Nat, n <= Len(s)
  PROVE  /\ SubSeq(s, 1, n) \in Seq(S) /\ Len(SubSeq(s, 1, n)) = n
         /\ DOMAIN SubSeq(s, 1, n) = 1 .. n
         /\ \A k \in 1 .. n : SubSeq(s, 1, n)[k] = s[k]
<1>1. Len(s) \in Nat
  BY LenProperties
<1>2. \A i \in 1 .. n : s[i] \in S
  BY <1>1, ElementOfSeq
<1>3. /\ SubSeq(s, 1, n) \in Seq(S)
      /\ Len(SubSeq(s, 1, n)) = IF 1 <= n THEN n - 1 + 1 ELSE 0
      /\ \A i \in 1 .. n - 1 + 1 : SubSeq(s, 1, n)[i] = s[1 + i - 1]
  BY <1>2, SubSeqProperties
<1>4. Len(SubSeq(s, 1, n)) = n
  BY <1>3
<1>5. ASSUME NEW k \in 1 .. n PROVE SubSeq(s, 1, n)[k] = s[k]
  BY <1>3
<1>6. DOMAIN SubSeq(s, 1, n) = 1 .. n
  BY <1>3, <1>4, LenProperties
<1>7. QED
  BY <1>3, <1>4, <1>5, <1>6

\* A sequence without its last element.
LEMMA FrontProperties ==
  ASSUME NEW S, NEW s \in Seq(S), s # <<>>
  PROVE  /\ Len(s) \in Nat \ {0} /\ DOMAIN s = 1 .. Len(s)
         /\ Last(s) \in S /\ Last(s) = s[Len(s)]
         /\ Front(s) \in Seq(S) /\ Len(Front(s)) = Len(s) - 1
         /\ DOMAIN Front(s) = 1 .. Len(s) - 1
         /\ \A k \in 1 .. Len(s) - 1 : Front(s)[k] = s[k]
<1>1. Len(s) \in Nat \ {0} /\ DOMAIN s = 1 .. Len(s)
  BY EmptySeq, LenProperties
<1>2. Last(s) = s[Len(s)] /\ s[Len(s)] \in S
  BY <1>1, ElementOfSeq DEF Last
<1> DEFINE n == Len(s) - 1
<1>3. n \in Nat /\ n <= Len(s)
  BY <1>1
<1>4. Front(s) = SubSeq(s, 1, n)
  BY DEF Front
<1> HIDE DEF n
<1>5. /\ SubSeq(s, 1, n) \in Seq(S) /\ Len(SubSeq(s, 1, n)) = n
      /\ DOMAIN SubSeq(s, 1, n) = 1 .. n
      /\ \A k \in 1 .. n : SubSeq(s, 1, n)[k] = s[k]
  BY <1>3, PrefixProperties
<1>6. /\ Front(s) \in Seq(S) /\ Len(Front(s)) = n
      /\ DOMAIN Front(s) = 1 .. n
      /\ \A k \in 1 .. n : Front(s)[k] = s[k]
  BY <1>4, <1>5, Zenon
<1>7. QED
  BY <1>1, <1>2, <1>6 DEF n

\* Returning from a subroutine.
LEMMA PopKeepsGosubs ==
  ASSUME NEW s, GoodGosubs(s), s # <<>>
  PROVE  /\ GoodGosubs(Front(s))
         /\ Last(s) \in Stmts /\ Prog[Last(s)].op \in {"GOSUB", "IF", "ONGOSUB"}
<1>1. s \in Seq(Stmts)
  BY DEF GoodGosubs
<1>2. /\ Len(s) \in Nat \ {0} /\ DOMAIN s = 1 .. Len(s)
      /\ Last(s) \in Stmts /\ Last(s) = s[Len(s)]
      /\ Front(s) \in Seq(Stmts) /\ Len(Front(s)) = Len(s) - 1
      /\ DOMAIN Front(s) = 1 .. Len(s) - 1
      /\ \A k \in 1 .. Len(s) - 1 : Front(s)[k] = s[k]
  BY <1>1, FrontProperties
<1>3. Len(Front(s)) <= gosubStackMax
  BY <1>2, BoundsAssumption DEF GoodGosubs
<1>4. \A k \in DOMAIN Front(s) : k \in DOMAIN s /\ Front(s)[k] = s[k]
  BY <1>2
<1>5. Prog[s[Len(s)]].op \in {"GOSUB", "IF", "ONGOSUB"}
  BY <1>2 DEF GoodGosubs
<1>6. GoodGosubs(Front(s))
  BY <1>2, <1>3, <1>4 DEF GoodGosubs
<1>7. QED
  BY <1>2, <1>5, <1>6

-----------------------------------------------------------------------------
(* Steps that end a statement.  Most actions leave control settled: at the  *)
(* start of another statement with the same calls in progress, or at the    *)
(* prompt with none.  What they do to the stacks is a separate matter.      *)

Settled ==
  /\ \/ mode' = "running" /\ curStmt' \in Stmts /\ acts' = acts
     \/ mode' = "prompt" /\ curStmt' \in Nodes /\ acts' = <<>>
  /\ nextStmt' \in Nodes /\ pc' = "fetch" /\ arg' = FALSE
  /\ fip' \in FaultRecord /\ out' \in Outcomes

\* The data a settling step leaves behind is good.
Consistent ==
  /\ GoodLoops(forStack') /\ GoodGosubs(gosubStack') /\ GoodHandler(onErrorStmtNo')
  /\ declared' \in BOOLEAN /\ interrupted' \in BOOLEAN /\ fsIdx' \in Nat
  /\ userDefStack' = userDefStack /\ level' \in level .. fnRecursionMax

\* Without calls in progress nothing is asked of the frames.
LEMMA NoCalls == GoodActs(<<>>)
BY EmptySeq DEF GoodActs

\* A settling step with consistent data preserves the invariant.
LEMMA SettledStep ==
  ASSUME IInv, Settled, Consistent
  PROVE  IInv'
<1>1. ControlInv'
  <2>1. GoodActs(acts')
    BY NoCalls DEF Settled, IInv, ControlInv
  <2>2. QED
    BY <2>1 DEF Settled, ControlInv, Nodes
<1>2. DataInv'
  BY DEF Consistent, DataInv
<1>3. CallInv'
  <2>1. userDefStack' \in Seq(Stmts) /\ Len(userDefStack') \in Nat
    BY LenProperties DEF Consistent, IInv, CallInv
  <2>2. level' \in Nat /\ Len(userDefStack') <= level' /\ level' <= fnRecursionMax
    BY <2>1, BoundsAssumption DEF Consistent, IInv, CallInv
  <2>3. ASSUME acts' = acts PROVE ResultsComeFromOwnFrame'
    BY <2>3 DEF Consistent, IInv, CallInv, ResultsComeFromOwnFrame
  <2>4. ASSUME acts' = <<>> PROVE ResultsComeFromOwnFrame'
    BY <2>1, <2>4 DEF ResultsComeFromOwnFrame
  <2>5. ResultsComeFromOwnFrame'
    BY <2>3, <2>4 DEF Settled
  <2>6. QED
    BY <2>1, <2>2, <2>5 DEF CallInv
<1>4. IterationFindsItsLoop'
  BY DEF Settled, IterationFindsItsLoop
<1>5. QED
  BY <1>1, <1>2, <1>3, <1>4 DEF IInv

\* A jump to a statement settles.
LEMMA JumpSettles ==
  ASSUME IInv, mode = "running", NEW i \in Stmts, Jump(i, FALSE), fip' \in FaultRecord
  PROVE  Settled
BY DEF IInv, ControlInv, Jump, Settled, Nodes

\* So does a fault, caught or not: decodePanic and the recovery in executeStmt.
LEMMA RaiseSettles ==
  ASSUME IInv, mode = "running", NEW old \in FaultRecord,
         NEW kind \in {"int", "num", "fatal", "none"}, RaiseOver(old, kind)
  PROVE  Settled /\ onErrorStmtNo' = onErrorStmtNo
<1> DEFINE caught == catchable(old, kind)
           fault  == [stmt |-> curStmt, err |-> IF caught THEN kind ELSE "none"]
<1>1. onErrorStmtNo' = onErrorStmtNo
  BY DEF RaiseOver
<1>2. curStmt \in Stmts /\ nextStmt \in Nodes /\ curStmt \in Nodes
  BY DEF IInv, ControlInv, Nodes
<1>3. fault \in FaultRecord /\ NoFault \in FaultRecord
  BY <1>2 DEF FaultRecord, NoFault, Nodes, catchable
<1>4. CASE caught /\ onErrorStmtNo # 0
  <2>1. Jump(stmtAvlTreeLookup(onErrorStmtNo), FALSE) /\ fip' = fault
    BY <1>4 DEF RaiseOver
  <2>2. stmtAvlTreeLookup(onErrorStmtNo) \in Stmts
    BY <1>4, LookupType DEF IInv, DataInv, GoodHandler, Nodes
  <2>3. QED
    BY <1>1, <1>3, <2>1, <2>2, JumpSettles
<1>5. CASE ~ (caught /\ onErrorStmtNo # 0)
  <2>1. Uncaught(kind, fault)
    BY <1>5 DEF RaiseOver
  <2> HIDE DEF fault, caught
  <2>2. fip' \in FaultRecord
    BY <2>1, <1>3 DEF Uncaught
  <2>3. curStmt' \in Nodes
    BY <2>1, <1>2 DEF Uncaught, Nodes
  <2>4. mode' = "prompt" /\ acts' = <<>> /\ nextStmt' \in Nodes /\ pc' = "fetch" /\ arg' = FALSE
    BY <2>1, <1>2 DEF Uncaught, Unwind
  <2>5. out' \in Outcomes
    BY <2>1 DEF Uncaught, Unwind, Outcomes
  <2>6. QED
    BY <1>1, <2>2, <2>3, <2>4, <2>5 DEF Settled
<1>6. QED
  BY <1>4, <1>5

\* A fault of the statement's own work settles.
LEMMA StmtFaultSettles ==
  ASSUME IInv, mode = "running", NEW kinds \in SUBSET FaultKinds, StmtFault(kinds)
  PROVE  Settled /\ onErrorStmtNo' = onErrorStmtNo
<1>1. PICK k \in kinds :
        Raise(IF k = "arith" THEN "num" ELSE IF k = "badcall" THEN "fatal" ELSE k)
  BY DEF StmtFault
<1>2. k \in {"arith", "num", "fatal", "badcall"}
  BY DEF FaultKinds
<1>3. (IF k = "arith" THEN "num" ELSE IF k = "badcall" THEN "fatal" ELSE k)
        \in {"int", "num", "fatal", "none"}
  BY <1>2
<1>4. fip \in FaultRecord
  BY DEF IInv, ControlInv
<1>5. QED
  BY <1>1, <1>3, <1>4, RaiseSettles DEF Raise

\* So does a fault with a kind of its own.
LEMMA FaultSettles ==
  ASSUME IInv, mode = "running", NEW kind \in {"int", "num", "fatal", "none"}, Raise(kind)
  PROVE  Settled /\ onErrorStmtNo' = onErrorStmtNo
<1>1. fip \in FaultRecord
  BY DEF IInv, ControlInv
<1>2. QED
  BY <1>1, RaiseSettles DEF Raise

\* Going on behind a statement that is not an END settles.
LEMMA SuccessorSettles ==
  ASSUME IInv, mode = "running", NEW i \in Stmts, Prog[i].op # "END",
         Jump(computeNextStmt(i), FALSE), fip' \in FaultRecord
  PROVE  Settled
BY SuccessorExists, JumpSettles

LEMMA AdvanceSettles ==
  ASSUME IInv, mode = "running", Op # "END", Advance
  PROVE  Settled /\ onErrorStmtNo' = onErrorStmtNo
<1>1. curStmt \in Stmts /\ fip \in FaultRecord
  BY DEF IInv, ControlInv
<1>2. Jump(computeNextStmt(curStmt), FALSE) /\ fip' = fip /\ onErrorStmtNo' = onErrorStmtNo
  BY DEF Advance
<1>3. QED
  BY <1>1, <1>2, SuccessorSettles DEF Op

\* Going to a line that exists settles.
LEMMA ToLineSettles ==
  ASSUME IInv, mode = "running", NEW no, stmtAvlTreeLookup(no) # Nil, ToLine(no)
  PROVE  Settled /\ onErrorStmtNo' = onErrorStmtNo
<1>1. stmtAvlTreeLookup(no) \in Stmts
  BY LookupType DEF Nodes
<1>2. fip \in FaultRecord /\ fip' = fip
  BY DEF IInv, ControlInv, ToLine
<1>3. QED
  BY <1>1, <1>2, JumpSettles DEF ToLine

\* What the invariant says of the data as it is.
LEMMA DataNow ==
  ASSUME IInv
  PROVE  /\ GoodLoops(forStack) /\ GoodGosubs(gosubStack) /\ GoodHandler(onErrorStmtNo)
         /\ declared \in BOOLEAN /\ interrupted \in BOOLEAN /\ fsIdx \in Nat
         /\ level \in level .. fnRecursionMax
<1>1. level \in Nat /\ level <= fnRecursionMax
  BY DEF IInv, CallInv
<1>2. level \in level .. fnRecursionMax
  BY <1>1, BoundsAssumption
<1>3. QED
  BY <1>2 DEF IInv, DataInv

\* A settling step that changes no call data, with good stacks.
LEMMA LoopStep ==
  ASSUME IInv, Settled, onErrorStmtNo' = onErrorStmtNo,
         GoodLoops(forStack'), GoodGosubs(gosubStack'), noCallChange
  PROVE  IInv'
BY SettledStep, DataNow DEF Consistent, noCallChange

\* A settling step that changes none of the stacks.
LEMMA QuietStep ==
  ASSUME IInv, Settled, onErrorStmtNo' = onErrorStmtNo, interrupted' \in BOOLEAN,
         UNCHANGED <<loopVars, userDefStack, level, declared>>
  PROVE  IInv'
BY SettledStep, DataNow DEF Consistent, loopVars

-----------------------------------------------------------------------------
(* The statements that settle.                                              *)

LEMMA InterruptStep == ASSUME IInv, checkInterrupts PROVE IInv'
<1>1. Settled /\ onErrorStmtNo' = onErrorStmtNo
  BY FaultSettles DEF checkInterrupts
<1>2. QED
  BY <1>1, QuietStep DEF checkInterrupts

LEMMA DonePlainStep == ASSUME IInv, DonePlain PROVE IInv'
<1>1. mode = "running" /\ Op # "END" /\ (Advance \/ StmtFault(WorkFaults))
  BY DEF DonePlain, At
<1>2. WorkFaults \in SUBSET FaultKinds
  BY DEF WorkFaults, FaultKinds
<1>3. Settled /\ onErrorStmtNo' = onErrorStmtNo
  BY <1>1, <1>2, AdvanceSettles, StmtFaultSettles
<1>4. interrupted' \in BOOLEAN
  BY DataNow DEF DonePlain
<1>5. QED
  BY <1>3, <1>4, QuietStep DEF DonePlain

LEMMA ExecInputStep == ASSUME IInv, ExecInput PROVE IInv'
<1>1. mode = "running" /\ Op # "END"
  BY DEF ExecInput, At
<1>2. WorkFaults \in SUBSET FaultKinds
  BY DEF WorkFaults, FaultKinds
<1>3. Settled /\ onErrorStmtNo' = onErrorStmtNo
  BY <1>1, <1>2, AdvanceSettles, StmtFaultSettles, FaultSettles DEF ExecInput
<1>4. interrupted' \in BOOLEAN
  BY DataNow DEF ExecInput
<1>5. QED
  BY <1>3, <1>4, QuietStep DEF ExecInput

LEMMA ExecGotoStep == ASSUME IInv, ExecGoto PROVE IInv'
<1>1. mode = "running" /\ noCallChange /\ gosubStack' = gosubStack
  BY DEF ExecGoto, At
<1>2. GoodLoops(forStack) /\ GoodLoops(checkForExit(To(1))) /\ GoodGosubs(gosubStack)
  BY DataNow, ExitKeepsLoops
<1>3. GoodLoops(forStack')
  BY <1>2 DEF ExecGoto
<1>4. Settled /\ onErrorStmtNo' = onErrorStmtNo
  BY <1>1, FaultSettles, ToLineSettles DEF ExecGoto
<1>5. QED
  BY <1>1, <1>2, <1>3, <1>4, LoopStep

\* executeGosub settles and keeps the stack within its limit.
LEMMA GosubSettles ==
  ASSUME IInv, mode = "running", Op \in {"GOSUB", "IF", "ONGOSUB"}, NEW no, executeGosub(no)
  PROVE  Settled /\ onErrorStmtNo' = onErrorStmtNo /\ GoodGosubs(gosubStack')
<1>1. curStmt \in Stmts /\ GoodGosubs(gosubStack)
  BY DataNow DEF IInv, ControlInv
<1>2. CASE stmtAvlTreeLookup(no) = Nil \/ Len(gosubStack) >= gosubStackMax
  BY <1>1, <1>2, FaultSettles DEF executeGosub
<1>3. CASE ~ (stmtAvlTreeLookup(no) = Nil \/ Len(gosubStack) >= gosubStackMax)
  <2>1. gosubStack' = Append(gosubStack, curStmt) /\ ToLine(no)
    BY <1>3 DEF executeGosub
  <2>2. Len(gosubStack) < gosubStackMax
    BY <1>1, <1>3, LenProperties, BoundsAssumption DEF GoodGosubs
  <2>3. GoodGosubs(Append(gosubStack, curStmt))
    BY <1>1, <2>2, PushKeepsGosubs DEF Op
  <2>4. QED
    BY <1>3, <2>1, <2>3, ToLineSettles
<1>4. QED
  BY <1>2, <1>3

LEMMA ExecGosubStep == ASSUME IInv, ExecGosub PROVE IInv'
<1>1. mode = "running" /\ Op = "GOSUB" /\ noCallChange /\ forStack' = forStack
  BY DEF ExecGosub, At
<1>2. GoodLoops(forStack) /\ GoodGosubs(gosubStack)
  BY DataNow
<1>3. Settled /\ onErrorStmtNo' = onErrorStmtNo /\ GoodGosubs(gosubStack')
  <2>1. CASE checkStmtTargetScope(To(1))
    BY <1>1, <2>1, GosubSettles DEF ExecGosub
  <2>2. CASE ~ checkStmtTargetScope(To(1))
    BY <1>1, <1>2, <2>2, FaultSettles DEF ExecGosub
  <2>3. QED
    BY <2>1, <2>2
<1>4. QED
  BY <1>1, <1>2, <1>3, LoopStep

LEMMA ExecReturnStep == ASSUME IInv, ExecReturn PROVE IInv'
<1>1. mode = "running" /\ noCallChange /\ forStack' = forStack
  BY DEF ExecReturn, At
<1>2. GoodLoops(forStack) /\ GoodGosubs(gosubStack) /\ fip \in FaultRecord
  BY DataNow DEF IInv, ControlInv
<1>3. Settled /\ onErrorStmtNo' = onErrorStmtNo /\ GoodGosubs(gosubStack')
  <2>1. CASE gosubStack = <<>>
    BY <1>1, <1>2, <2>1, FaultSettles DEF ExecReturn
  <2>2. CASE gosubStack # <<>>
    <3>1. /\ GoodGosubs(Front(gosubStack)) /\ Last(gosubStack) \in Stmts
          /\ Prog[Last(gosubStack)].op # "END"
      BY <1>2, <2>2, PopKeepsGosubs
    <3>2. /\ gosubStack' = Front(gosubStack)
          /\ Jump(computeNextStmt(Last(gosubStack)), FALSE)
          /\ fip' = fip /\ onErrorStmtNo' = onErrorStmtNo
      BY <2>2 DEF ExecReturn
    <3>3. QED
      BY <1>1, <1>2, <3>1, <3>2, SuccessorSettles
  <2>3. QED
    BY <2>1, <2>2
<1>4. QED
  BY <1>1, <1>2, <1>3, LoopStep

LEMMA ExecOnStep == ASSUME IInv, ExecOn PROVE IInv'
<1>1. /\ mode = "running" /\ Op \in {"ONGOTO", "ONGOSUB"} /\ noCallChange
      /\ forStack' = forStack
  BY DEF ExecOn
<1>2. GoodLoops(forStack) /\ GoodGosubs(gosubStack)
  BY DataNow
<1>3. Settled /\ onErrorStmtNo' = onErrorStmtNo /\ GoodGosubs(gosubStack')
  <2>1. CASE Raise("num") /\ gosubStack' = gosubStack
    BY <1>1, <1>2, <2>1, FaultSettles
  <2>2. ASSUME NEW k \in DOMAIN Prog[curStmt].to,
               Raise("fatal") /\ gosubStack' = gosubStack
        PROVE  Settled /\ onErrorStmtNo' = onErrorStmtNo /\ GoodGosubs(gosubStack')
    BY <1>1, <1>2, <2>2, FaultSettles
  <2>3. ASSUME NEW k \in DOMAIN Prog[curStmt].to, Op = "ONGOSUB", executeGosub(To(k))
        PROVE  Settled /\ onErrorStmtNo' = onErrorStmtNo /\ GoodGosubs(gosubStack')
    BY <1>1, <2>3, GosubSettles
  <2>4. ASSUME NEW k \in DOMAIN Prog[curStmt].to, stmtAvlTreeLookup(To(k)) # Nil,
               ToLine(To(k)), gosubStack' = gosubStack
        PROVE  Settled /\ onErrorStmtNo' = onErrorStmtNo /\ GoodGosubs(gosubStack')
    BY <1>1, <1>2, <2>4, ToLineSettles
  <2>5. QED
    BY <2>1, <2>2, <2>3, <2>4 DEF ExecOn
<1>4. QED
  BY <1>1, <1>2, <1>3, LoopStep

\* RESUME: its refusals come after the fault has been cleared.
LEMMA RefusalSettles ==
  ASSUME IInv, mode = "running", RaiseInResume
  PROVE  Settled /\ onErrorStmtNo' = onErrorStmtNo
<1>1. NoFault \in FaultRecord
  BY DEF NoFault, FaultRecord, Nodes
<1>2. QED
  BY <1>1, RaiseSettles DEF RaiseInResume

LEMMA ResumeSettles ==
  ASSUME IInv, mode = "running", NEW no, resumeTarget(no) # Nil,
         Jump(resumeTarget(no), FALSE), clearFault
  PROVE  Settled
<1>1. fip.stmt \in Nodes
  BY DEF IInv, ControlInv, FaultRecord
<1>2. resumeTarget(no) \in Stmts
  BY <1>1, LookupType DEF resumeTarget, Nodes
<1>3. fip' \in FaultRecord
  BY DEF clearFault, NoFault, FaultRecord, Nodes
<1>4. QED
  BY <1>2, <1>3, JumpSettles

LEMMA ExecResumeStep == ASSUME IInv, ExecResume PROVE IInv'
<1>1. mode = "running" /\ noCallChange /\ forStack' = forStack /\ gosubStack' = gosubStack
  BY DEF ExecResume, At
<1>2. GoodLoops(forStack) /\ GoodGosubs(gosubStack)
  BY DataNow
<1>3. \/ Raise("fatal") \/ RaiseInResume
      \/ /\ resumeTarget(ResumeLine) # Nil /\ Jump(resumeTarget(ResumeLine), FALSE)
         /\ clearFault /\ onErrorStmtNo' = onErrorStmtNo
  BY DEF ExecResume
<1>4. Settled /\ onErrorStmtNo' = onErrorStmtNo
  BY <1>1, <1>3, FaultSettles, RefusalSettles, ResumeSettles
<1>5. QED
  BY <1>1, <1>2, <1>4, LoopStep

\* STOP leaves the engine at the prompt, behind itself.
LEMMA StopSettles ==
  ASSUME IInv, mode = "running", Stop
  PROVE  Settled /\ onErrorStmtNo' = onErrorStmtNo
<1>1. curStmt \in Nodes
  BY DEF IInv, ControlInv
<1>2. stmtAvlTreeNextStmt(curStmt) \in Nodes
  BY <1>1, NextLineType
<1>3. NoFault \in FaultRecord /\ "stop" \in Outcomes
  BY DEF NoFault, FaultRecord, Nodes, Outcomes
<1>4. QED
  BY <1>1, <1>2, <1>3 DEF Stop, Settled

LEMMA ExecStopStep == ASSUME IInv, ExecStop PROVE IInv'
<1>1. mode = "running" /\ noCallChange /\ Stop
  BY DEF ExecStop, At
<1>2. Settled /\ onErrorStmtNo' = onErrorStmtNo
  BY <1>1, StopSettles
<1>3. forStack' = forStack /\ gosubStack' = gosubStack
  BY <1>1 DEF Stop
<1>4. QED
  BY <1>1, <1>2, <1>3, DataNow, LoopStep

\* IF: one step per clause.
LEMMA ExecIfStep == ASSUME IInv, ExecIf PROVE IInv'
<1>1. mode = "running" /\ Op = "IF" /\ noCallChange
  BY DEF ExecIf, At
<1>2. GoodLoops(forStack) /\ GoodGosubs(gosubStack) /\ curStmt \in Stmts
  BY <1>1, DataNow DEF IInv, ControlInv
<1> DEFINE Goal == /\ Settled /\ onErrorStmtNo' = onErrorStmtNo
                   /\ GoodLoops(forStack') /\ GoodGosubs(gosubStack')
<1>3. ASSUME Advance \/ StmtFault(WorkFaults), UNCHANGED <<forStack, gosubStack>>
      PROVE  Goal
  <2>1. WorkFaults \in SUBSET FaultKinds
    BY DEF WorkFaults, FaultKinds
  <2>2. QED
    BY <1>1, <1>2, <1>3, <2>1, AdvanceSettles, StmtFaultSettles
<1>4. ASSUME IfGoto PROVE Goal
  <2>1. GoodLoops(checkForExit(To(1)))
    BY <1>2, ExitKeepsLoops
  <2>2. QED
    BY <1>1, <1>2, <1>4, <2>1, FaultSettles, ToLineSettles DEF IfGoto
<1>5. ASSUME IfGosub PROVE Goal
  <2>1. forStack' = forStack
    BY <1>5 DEF IfGosub
  <2>2. CASE checkStmtTargetScope(To(1))
    BY <1>1, <1>2, <1>5, <2>1, <2>2, GosubSettles DEF IfGosub
  <2>3. CASE ~ checkStmtTargetScope(To(1))
    <3>1. Settled /\ onErrorStmtNo' = onErrorStmtNo
      BY <1>1, <1>5, <2>3, FaultSettles DEF IfGosub
    <3>2. \/ gosubStack' = gosubStack
          \/ Len(gosubStack) < gosubStackMax /\ gosubStack' = Append(gosubStack, curStmt)
      BY <1>5, <2>3 DEF IfGosub
    <3>3. GoodGosubs(gosubStack')
      BY <1>1, <1>2, <3>2, PushKeepsGosubs DEF Op
    <3>4. QED
      BY <1>2, <2>1, <3>1, <3>3
  <2>4. QED
    BY <2>2, <2>3
<1>6. ASSUME IfResume PROVE Goal
  <2>1. gosubStack' = gosubStack
    BY <1>6 DEF IfResume
  <2>2. CASE RaiseInResume /\ forStack' = forStack
    BY <1>1, <1>2, <2>1, <2>2, RefusalSettles
  <2>3. CASE /\ resumeTarget(ResumeLine) # Nil /\ Jump(resumeTarget(ResumeLine), FALSE)
             /\ forStack' = checkForExit(stmtNoOf(resumeTarget(ResumeLine)))
             /\ clearFault /\ onErrorStmtNo' = onErrorStmtNo
    <3>1. GoodLoops(checkForExit(stmtNoOf(resumeTarget(ResumeLine))))
      BY <1>2, ExitKeepsLoops
    <3>2. QED
      BY <1>1, <1>2, <2>1, <2>3, <3>1, ResumeSettles
  <2>4. CASE /\ Jump(computeNextStmt(curStmt), FALSE)
             /\ clearFault /\ UNCHANGED <<forStack, onErrorStmtNo>>
    <3>1. fip' \in FaultRecord
      BY <2>4 DEF clearFault, NoFault, FaultRecord, Nodes
    <3>2. QED
      BY <1>1, <1>2, <2>1, <2>4, <3>1, SuccessorSettles DEF Op
  <2>5. QED
    BY <1>6, <2>2, <2>3, <2>4 DEF IfResume
<1>7. ASSUME Stop PROVE Goal
  BY <1>1, <1>2, <1>7, StopSettles DEF Stop
<1>8. Goal
  BY <1>3, <1>4, <1>5, <1>6, <1>7 DEF ExecIf
<1>9. QED
  BY <1>1, <1>8, LoopStep

LEMMA ExecOnErrorStep == ASSUME IInv, ExecOnError PROVE IInv'
<1> DEFINE no == IF Prog[curStmt].to = <<>> THEN 0 ELSE To(1)
<1>1. /\ mode = "running" /\ Op = "ONERROR" /\ noCallChange
      /\ forStack' = forStack /\ gosubStack' = gosubStack
  BY DEF ExecOnError, At
<1>2. curStmt \in Stmts /\ fip \in FaultRecord
  BY <1>1 DEF IInv, ControlInv
<1>3. CASE no # 0 /\ (~ checkStmtTargetScope(no) \/ stmtAvlTreeLookup(no) = Nil)
  <2>1. Raise("fatal")
    BY <1>3 DEF ExecOnError
  <2>2. QED
    BY <1>1, <2>1, DataNow, FaultSettles, LoopStep
<1>4. CASE ~ (no # 0 /\ (~ checkStmtTargetScope(no) \/ stmtAvlTreeLookup(no) = Nil))
  <2>1. onErrorStmtNo' = no /\ Jump(computeNextStmt(curStmt), FALSE) /\ fip' = fip
    BY <1>4 DEF ExecOnError
  <2>2. no \in Nat
    <3>1. Prog[curStmt].to \in Seq(Nat)
      BY <1>2, NodeType DEF StmtNode
    <3>2. Prog[curStmt].to # <<>> => 1 \in 1 .. Len(Prog[curStmt].to)
      BY <3>1, EmptySeq
    <3>3. QED
      BY <3>1, <3>2, ElementOfSeq DEF To
  <2>3. GoodHandler(no)
    BY <1>4, <2>2 DEF GoodHandler
  <2> HIDE DEF no
  <2>4. Settled
    BY <1>1, <1>2, <2>1, SuccessorSettles DEF Op
  <2>5. Consistent
    BY <1>1, <2>1, <2>3, DataNow DEF Consistent, noCallChange
  <2>6. QED
    BY <2>4, <2>5, SettledStep
<1>5. QED
  BY <1>3, <1>4

LEMMA ExecDefStep == ASSUME IInv, ExecDef PROVE IInv'
<1> DEFINE i == IF Prog[curStmt].fnend = Nil THEN curStmt ELSE Prog[curStmt].fnend
<1>1. mode = "running" /\ Op = "DEF" /\ Jump(computeNextStmt(i), FALSE) /\ fip' = fip
  BY DEF ExecDef, At
<1>2. curStmt \in Stmts /\ fip \in FaultRecord
  BY <1>1 DEF IInv, ControlInv
<1>3. i \in Stmts /\ Prog[i].op # "END"
  BY <1>1, <1>2, NodeType, ProgAssumption DEF StmtNode, Nodes, Op
<1> HIDE DEF i
<1>4. Settled
  BY <1>1, <1>2, <1>3, SuccessorSettles
<1>5. interrupted' \in BOOLEAN
  BY DataNow DEF ExecDef
<1>6. QED
  BY <1>4, <1>5, QuietStep DEF ExecDef

-----------------------------------------------------------------------------
(* FOR and NEXT.                                                            *)

\* A settling step of a FOR or a NEXT, with good loops.
LEMMA ForStep ==
  ASSUME IInv, Settled, onErrorStmtNo' = onErrorStmtNo, GoodLoops(forStack'), noLoopChange
  PROVE  IInv'
BY SettledStep, DataNow DEF Consistent, noLoopChange

\* Marking an entry's saved value leaves a good stack with the same loops.
LEMMA MarkKeepsLoops ==
  ASSUME NEW s, GoodLoops(s), NEW k \in DOMAIN s
  PROVE  /\ GoodLoops([s EXCEPT ![k].saved = TRUE])
         /\ DOMAIN [s EXCEPT ![k].saved = TRUE] = DOMAIN s
         /\ Len([s EXCEPT ![k].saved = TRUE]) = Len(s)
         /\ \A j \in DOMAIN s : [s EXCEPT ![k].saved = TRUE][j].stmt = s[j].stmt
<1> DEFINE e == [s[k] EXCEPT !.saved = TRUE]
           t == [s EXCEPT ![k] = e]
<1>1. s \in Seq(ForEntry) /\ DOMAIN s = 1 .. Len(s) /\ s[k] \in ForEntry
  BY LenProperties, ElementOfSeq DEF GoodLoops
<1>2. e \in ForEntry /\ e.stmt = s[k].stmt /\ e.next = s[k].next
  BY <1>1 DEF ForEntry
<1> HIDE DEF e
<1>3. /\ t \in Seq(ForEntry) /\ Len(t) = Len(s)
      /\ \A j \in 1 .. Len(s) : t[j] = IF j = k THEN e ELSE s[j]
  BY <1>1, <1>2, ExceptSeq
<1> HIDE DEF t
<1>4. DOMAIN t = DOMAIN s
  BY <1>1, <1>3, LenProperties
<1>5. \A j \in DOMAIN s : t[j].stmt = s[j].stmt /\ t[j].next = s[j].next
  BY <1>1, <1>2, <1>3
<1>6. GoodLoops(t)
  BY <1>3, <1>4, <1>5 DEF GoodLoops
<1>7. t = [s EXCEPT ![k].saved = TRUE]
  BY DEF t, e
<1>8. QED
  BY <1>3, <1>4, <1>5, <1>6, <1>7

LEMMA EnterForStep == ASSUME IInv, EnterFor PROVE IInv'
<1> DEFINE entry == [stmt |-> curStmt, next |-> findNext(curStmt), saved |-> FALSE]
           stack == Append(forStack, entry)
           k     == IF fsIdx = 0 THEN Len(stack) ELSE fsIdx
<1>1. mode = "running" /\ Op = "FOR" /\ noLoopChange
  BY DEF EnterFor, At
<1>2. curStmt \in Stmts /\ fip \in FaultRecord /\ GoodLoops(forStack) /\ fsIdx \in Nat
  BY <1>1, DataNow DEF IInv, ControlInv
<1>3. ASSUME findNext(curStmt) # Nil
      PROVE  /\ GoodLoops(stack) /\ GoodLoops(popForStackEntry(stack, k))
             /\ findNext(curStmt) \in Stmts /\ Prog[findNext(curStmt)].op # "END"
  <2>1. findNext(curStmt) \in Stmts /\ Prog[findNext(curStmt)].op \in {"FOR", "NEXT"}
    BY <1>2, <1>3, FindNextType
  <2>2. entry \in ForEntry
    BY <1>2, <2>1 DEF ForEntry
  <2>3. GoodLoops(stack) /\ Len(stack) \in Nat
    BY <1>1, <1>2, <2>1, <2>2, PushKeepsLoops DEF Op
  <2>4. k \in Nat
    BY <1>2, <2>3
  <2> HIDE DEF k, stack
  <2>5. QED
    BY <2>1, <2>3, <2>4, PopKeepsLoops
<1>4. WorkFaults \in SUBSET FaultKinds
  BY DEF WorkFaults, FaultKinds
<1>5. CASE StmtFault(WorkFaults) /\ forStack' = forStack
  BY <1>1, <1>2, <1>4, <1>5, StmtFaultSettles, ForStep
<1>6. CASE Raise("fatal") /\ forStack' = forStack
  BY <1>1, <1>2, <1>6, FaultSettles, ForStep
<1>7. CASE findNext(curStmt) # Nil /\ forStack' = stack /\ (Advance \/ StmtFault(WorkFaults))
  BY <1>1, <1>3, <1>4, <1>7, AdvanceSettles, StmtFaultSettles, ForStep
<1>8. CASE /\ findNext(curStmt) # Nil /\ forStack' = popForStackEntry(stack, k)
           /\ Jump(computeNextStmt(findNext(curStmt)), FALSE)
           /\ UNCHANGED <<fip, onErrorStmtNo>>
  BY <1>1, <1>2, <1>3, <1>8, SuccessorSettles, ForStep
<1>9. QED
  BY <1>5, <1>6, <1>7, <1>8 DEF EnterFor

\* The flag is up only with the loop on the stack.
LEMMA IterateForStep == ASSUME IInv, IterateFor PROVE IInv'
<1> DEFINE k == findForStackEntryVar(forStack, Prog[curStmt].var)
<1>1. mode = "running" /\ Op = "FOR" /\ arg /\ noLoopChange
  BY DEF IterateFor, At
<1>2. curStmt \in Stmts /\ fip \in FaultRecord /\ GoodLoops(forStack)
  BY <1>1, DataNow DEF IInv, ControlInv
<1>3. k \in DOMAIN forStack /\ k \in Nat
  BY <1>1, <1>2, FindEntry DEF IInv, IterationFindsItsLoop
<1> HIDE DEF k
<1>4. forStack[k].next \in Stmts /\ Prog[forStack[k].next].op # "END"
  <2>1. forStack[k] \in ForEntry
    BY <1>2, <1>3, LenProperties, ElementOfSeq DEF GoodLoops
  <2>2. QED
    BY <1>2, <1>3, <2>1 DEF GoodLoops, ForEntry
<1>5. WorkFaults \in SUBSET FaultKinds
  BY DEF WorkFaults, FaultKinds
<1>6. CASE StmtFault(WorkFaults) /\ forStack' = forStack
  BY <1>1, <1>2, <1>5, <1>6, StmtFaultSettles, ForStep
<1>7. CASE Advance /\ forStack' = forStack
  BY <1>1, <1>2, <1>7, AdvanceSettles, ForStep
<1>8. CASE /\ forStack' = popForStackEntry(forStack, k)
           /\ Jump(computeNextStmt(forStack[k].next), FALSE)
           /\ UNCHANGED <<fip, onErrorStmtNo>>
  <2>1. GoodLoops(forStack')
    BY <1>2, <1>3, <1>8, PopKeepsLoops
  <2>2. QED
    BY <1>1, <1>2, <1>4, <1>8, <2>1, SuccessorSettles, ForStep
<1>9. QED
  BY <1>6, <1>7, <1>8 DEF IterateFor, k

\* NEXT raises the flag and goes to a FOR whose entry it has just found.
LEMMA ExecNextStep == ASSUME IInv, ExecNext PROVE IInv'
<1> DEFINE v == Prog[curStmt].var
           k == findForStackEntryVar(forStack, v)
<1>1. mode = "running" /\ Op = "NEXT" /\ noLoopChange
  BY DEF ExecNext, At
<1>2. curStmt \in Stmts /\ fip \in FaultRecord /\ GoodLoops(forStack)
  BY <1>1, DataNow DEF IInv, ControlInv
<1>3. WorkFaults \in SUBSET FaultKinds
  BY DEF WorkFaults, FaultKinds
<1>4. CASE Raise("fatal") /\ forStack' = forStack
  BY <1>1, <1>2, <1>4, FaultSettles, ForStep
<1>5. CASE StmtFault(WorkFaults) /\ forStack' = forStack
  BY <1>1, <1>2, <1>3, <1>5, StmtFaultSettles, ForStep
<1>6. CASE /\ k # 0 /\ forStack' = [forStack EXCEPT ![k].saved = TRUE]
           /\ Jump(forStack[k].stmt, TRUE)
           /\ UNCHANGED <<fip, onErrorStmtNo>>
  <2>1. k \in DOMAIN forStack /\ Prog[forStack[k].stmt].var = v
    BY <1>2, <1>6, FindEntry
  <2> HIDE DEF k, v
  <2>2. forStack[k].stmt \in Stmts /\ Prog[forStack[k].stmt].op = "FOR"
    <3>1. forStack[k] \in ForEntry
      BY <1>2, <2>1, LenProperties, ElementOfSeq DEF GoodLoops
    <3>2. QED
      BY <1>2, <2>1, <3>1 DEF GoodLoops, ForEntry
  <2>3. /\ GoodLoops(forStack') /\ DOMAIN forStack' = DOMAIN forStack
        /\ \A j \in DOMAIN forStack : forStack'[j].stmt = forStack[j].stmt
    BY <1>2, <1>6, <2>1, MarkKeepsLoops
  <2>4. /\ curStmt' = forStack[k].stmt /\ nextStmt' = forStack[k].stmt /\ arg' = TRUE
        /\ pc' = "fetch" /\ mode' = "running" /\ acts' = acts /\ out' = out
    BY <1>1, <1>6 DEF Jump
  <2>5. ControlInv'
    BY <1>6, <2>2, <2>4 DEF IInv, ControlInv, Nodes
  <2>6. DataInv'
    BY <1>1, <1>6, <2>3, DataNow DEF DataInv, noLoopChange
  <2>7. CallInv'
    BY <1>1, <2>4 DEF IInv, CallInv, ResultsComeFromOwnFrame, noLoopChange
  <2>8. IterationFindsItsLoop'
    <3>1. Prog[curStmt'].var = v /\ Op' = "FOR"
      BY <2>1, <2>2, <2>4 DEF Op
    <3>2. k \in DOMAIN forStack' /\ Prog[forStack'[k].stmt].var = v
      BY <2>1, <2>3
    <3>3. findForStackEntryVar(forStack', v) # 0
      BY <2>3, <3>2, FindEntry
    <3>4. QED
      BY <2>4, <3>1, <3>3 DEF IterationFindsItsLoop
  <2>9. QED
    BY <2>5, <2>6, <2>7, <2>8 DEF IInv
<1>7. QED
  BY <1>4, <1>5, <1>6 DEF ExecNext

-----------------------------------------------------------------------------
(* Calls of user functions.                                                 *)

\* The statement looks at the flag and goes on.
LEMMA FetchStep == ASSUME IInv, Fetch PROVE IInv'
<1>1. ControlInv'
  BY DEF IInv, ControlInv, Fetch, callVars
<1>2. DataInv' /\ CallInv'
  BY DEF IInv, DataInv, CallInv, ResultsComeFromOwnFrame, Fetch, callVars, loopVars
<1>3. IterationFindsItsLoop'
  BY DEF IInv, IterationFindsItsLoop, Fetch, loopVars, Op
<1>4. QED
  BY <1>1, <1>2, <1>3 DEF IInv

\* One more call in progress.
LEMMA PushKeepsActs ==
  ASSUME NEW s, GoodActs(s), NEW f \in Frame, GoodHandler(f.onErr),
         f.prompt => s = <<>>, ~ f.prompt => f.call \in Stmts
  PROVE  GoodActs(Append(s, f))
<1>1. s \in Seq(Frame) /\ Len(s) \in Nat /\ DOMAIN s = 1 .. Len(s)
  BY LenProperties DEF GoodActs
<1>2. /\ Append(s, f) \in Seq(Frame)
      /\ Len(Append(s, f)) = Len(s) + 1
      /\ \A j \in 1 .. Len(s) : Append(s, f)[j] = s[j]
      /\ Append(s, f)[Len(s) + 1] = f
  BY <1>1, AppendProperties
<1>3. DOMAIN Append(s, f) = 1 .. Len(s) + 1
  BY <1>2, LenProperties
<1>4. ASSUME NEW k \in DOMAIN Append(s, f)
      PROVE  \/ k = Len(s) + 1 /\ Append(s, f)[k] = f
             \/ k \in DOMAIN s /\ Append(s, f)[k] = s[k]
  BY <1>1, <1>2, <1>3
<1>5. s = <<>> => Len(s) + 1 = 1
  BY EmptySeq
<1>6. QED
  BY <1>2, <1>4, <1>5 DEF GoodActs

\* callFunction: the new frame is on top of both stacks.
LEMMA CallStep ==
  ASSUME IInv, ~ arg, GoodLoops(forStack'), level < fnRecursionMax,
         NEW d \in Stmts, Prog[d].op = "DEF", NEW k \in Nat, NEW prompt \in BOOLEAN,
         prompt <=> mode = "prompt",
         CallFunction(d, k, curStmt, prompt)
  PROVE  IInv'
<1>1. /\ level' = level + 1 /\ nextStmt' = nextStmt /\ gosubStack' = gosubStack
      /\ declared' = declared /\ fip' = fip /\ out' = out
  BY DEF CallFunction
<1>2. level' \in Nat /\ level' <= fnRecursionMax /\ level \in Nat /\ Len(userDefStack) <= level
  BY <1>1, BoundsAssumption DEF IInv, CallInv
<1>3. CASE Prog[d].fnend = Nil
  <2>1. /\ pc' = (IF prompt THEN pc ELSE "after") /\ fsIdx' = k
        /\ mode' = mode /\ curStmt' = curStmt /\ arg' = arg /\ userDefStack' = userDefStack
        /\ acts' = acts /\ onErrorStmtNo' = onErrorStmtNo /\ interrupted' = interrupted
    BY <1>3 DEF CallFunction
  <2>2. ControlInv'
    BY <1>1, <2>1 DEF IInv, ControlInv
  <2>3. DataInv'
    BY <1>1, <2>1, DataNow DEF DataInv
  <2>4. CallInv'
    <3>1. Len(userDefStack) \in Nat
      BY LenProperties DEF IInv, CallInv
    <3>2. Len(userDefStack') <= level'
      BY <1>1, <1>2, <2>1, <3>1
    <3>3. QED
      BY <1>2, <2>1, <3>2 DEF IInv, CallInv, ResultsComeFromOwnFrame
  <2>5. IterationFindsItsLoop'
    BY <2>1 DEF IterationFindsItsLoop
  <2>6. QED
    BY <2>2, <2>3, <2>4, <2>5 DEF IInv
<1>4. CASE Prog[d].fnend # Nil
  <2> DEFINE f == [call |-> curStmt, fn |-> d, onErr |-> onErrorStmtNo,
                   idx |-> k, prompt |-> prompt]
  <2>1. /\ userDefStack' = Append(userDefStack, d) /\ acts' = Append(acts, f)
        /\ onErrorStmtNo' = 0 /\ fsIdx' = fsIdx
        /\ curStmt' = computeNextStmt(d) /\ arg' = FALSE /\ pc' = "fetch"
        /\ mode' = "running" /\ interrupted' = FALSE
    BY <1>4 DEF CallFunction, executeRunInternal
  <2>2. f \in Frame /\ f.onErr = onErrorStmtNo /\ f.prompt = prompt /\ f.call = curStmt /\ f.fn = d
    BY DataNow DEF IInv, ControlInv, Frame, GoodHandler
  <2>3. (prompt => acts = <<>>) /\ (~ prompt => curStmt \in Stmts)
    BY DEF IInv, ControlInv
  <2> HIDE DEF f
  <2>4. GoodActs(acts')
    BY <2>1, <2>2, <2>3, DataNow, PushKeepsActs DEF IInv, ControlInv
  <2>5. curStmt' \in Stmts
    BY <2>1, SuccessorExists
  <2>6. ControlInv'
    BY <1>1, <2>1, <2>4, <2>5 DEF IInv, ControlInv, Nodes
  <2>7. DataInv'
    <3>1. GoodHandler(0)
      BY DEF GoodHandler
    <3>2. QED
      BY <1>1, <2>1, <3>1, DataNow DEF DataInv
  <2>8. CallInv'
    <3>1. /\ userDefStack \in Seq(Stmts) /\ Len(userDefStack) \in Nat
          /\ acts \in Seq(Frame) /\ Len(acts) \in Nat /\ DOMAIN acts = 1 .. Len(acts)
          /\ Len(acts) <= Len(userDefStack)
          /\ \A j \in DOMAIN acts :
                userDefStack[Len(userDefStack) - Len(acts) + j] = acts[j].fn
      BY LenProperties DEF IInv, CallInv, ControlInv, GoodActs, ResultsComeFromOwnFrame
    <3>2. /\ userDefStack' \in Seq(Stmts) /\ Len(userDefStack') = Len(userDefStack) + 1
          /\ \A j \in 1 .. Len(userDefStack) : userDefStack'[j] = userDefStack[j]
          /\ userDefStack'[Len(userDefStack) + 1] = d
      BY <2>1, <3>1, AppendProperties
    <3>3. /\ acts' \in Seq(Frame) /\ Len(acts') = Len(acts) + 1
          /\ \A j \in 1 .. Len(acts) : acts'[j] = acts[j]
          /\ acts'[Len(acts) + 1] = f
      BY <2>1, <2>2, <3>1, AppendProperties
    <3>4. DOMAIN acts' = 1 .. Len(acts) + 1
      BY <3>3, LenProperties
    <3>5. ASSUME NEW j \in DOMAIN acts'
          PROVE  userDefStack'[Len(userDefStack') - Len(acts') + j] = acts'[j].fn
      <4> DEFINE m == Len(userDefStack) - Len(acts) + j
      <4>1. j \in Nat /\ Len(userDefStack') - Len(acts') + j = m
        BY <3>1, <3>2, <3>3, <3>4
      <4>2. CASE j = Len(acts) + 1
        <5>1. m = Len(userDefStack) + 1
          BY <3>1, <4>2
        <5>2. QED
          BY <2>2, <3>2, <3>3, <4>1, <4>2, <5>1
      <4>3. CASE j # Len(acts) + 1
        <5>1. j \in DOMAIN acts /\ m \in 1 .. Len(userDefStack)
          BY <3>1, <3>4, <4>3
        <5>2. userDefStack'[m] = userDefStack[m] /\ acts'[j] = acts[j]
          BY <3>1, <3>2, <3>3, <5>1
        <5>3. QED
          BY <3>1, <4>1, <5>1, <5>2
      <4>4. QED
        BY <4>2, <4>3
    <3>6. ResultsComeFromOwnFrame'
      BY <3>1, <3>2, <3>3, <3>5 DEF ResultsComeFromOwnFrame
    <3>7. Len(userDefStack') <= level'
      BY <1>1, <1>2, <3>1, <3>2
    <3>8. QED
      BY <1>2, <3>2, <3>6, <3>7 DEF CallInv
  <2>9. IterationFindsItsLoop'
    BY <2>1 DEF IterationFindsItsLoop
  <2>10. QED
    BY <2>6, <2>7, <2>8, <2>9 DEF IInv
<1>5. QED
  BY <1>3, <1>4

\* Evaluating the expression of a LET or the bounds of a FOR, whose stack has lost at most
\* a live entry of the same loop.
LEMMA EvaluateStep ==
  ASSUME IInv, mode = "running", ~ arg, GoodLoops(forStack'), NEW k \in Nat, Evaluate(k)
  PROVE  IInv'
<1> DEFINE d == Prog[curStmt].fn
<1>1. curStmt \in Stmts
  BY DEF IInv, ControlInv
<1>2. CASE /\ d = Nil /\ pc' = "after" /\ fsIdx' = k
           /\ UNCHANGED <<mode, curStmt, nextStmt, arg, gosubStack, callVars, onErrorStmtNo,
                          fip, interrupted, out>>
  <2>1. ControlInv'
    BY <1>2 DEF IInv, ControlInv, callVars
  <2>2. DataInv'
    BY <1>2, DataNow DEF DataInv, callVars
  <2>3. CallInv'
    BY <1>2 DEF IInv, CallInv, ResultsComeFromOwnFrame, callVars
  <2>4. IterationFindsItsLoop'
    BY <1>2 DEF IterationFindsItsLoop
  <2>5. QED
    BY <2>1, <2>2, <2>3, <2>4 DEF IInv
<1>3. CASE /\ Raise("fatal")
           /\ UNCHANGED <<gosubStack, fsIdx, userDefStack, level, declared, interrupted>>
  BY <1>3, FaultSettles, ForStep DEF noLoopChange
<1>4. CASE /\ d # Nil /\ level < fnRecursionMax /\ level' = level + 1
           /\ StmtFault({"badcall"})
           /\ UNCHANGED <<gosubStack, fsIdx, userDefStack, declared, interrupted>>
  <2>1. {"badcall"} \in SUBSET FaultKinds
    BY DEF FaultKinds
  <2>2. Settled /\ onErrorStmtNo' = onErrorStmtNo
    BY <1>4, <2>1, StmtFaultSettles
  <2>3. level' \in level .. fnRecursionMax
    BY <1>4, BoundsAssumption DEF IInv, CallInv
  <2>4. QED
    BY <1>4, <2>2, <2>3, DataNow, SettledStep DEF Consistent
<1>5. CASE d # Nil /\ level < fnRecursionMax /\ CallFunction(d, k, curStmt, FALSE)
  <2>1. d \in Stmts /\ Prog[d].op = "DEF"
    BY <1>1, <1>5, NodeType, ProgAssumption DEF StmtNode, Nodes
  <2>2. FALSE <=> mode = "prompt"
    OBVIOUS
  <2>3. QED
    BY <1>5, <2>1, <2>2, CallStep
<1>6. QED
  BY <1>2, <1>3, <1>4, <1>5 DEF Evaluate

LEMMA EvalPlainStep == ASSUME IInv, EvalPlain PROVE IInv'
<1>1. mode = "running" /\ Op = "PLAIN" /\ Evaluate(0) /\ forStack' = forStack
  BY DEF EvalPlain, At
<1>2. ~ arg
  BY <1>1 DEF IInv, ControlInv, IterationFindsItsLoop
<1>3. QED
  BY <1>1, <1>2, DataNow, EvaluateStep

LEMMA InitForStep == ASSUME IInv, InitFor PROVE IInv'
<1> DEFINE k    == findForStackEntryVar(forStack, Prog[curStmt].var)
           rest == IF k = 0 THEN forStack ELSE popForStackEntry(forStack, k)
<1>1. mode = "running" /\ ~ arg
  BY DEF InitFor, At
<1>2. GoodLoops(forStack)
  BY DataNow
<1>3. k \in Nat
  BY <1>2, FindEntry
<1>4. GoodLoops(rest)
  BY <1>2, <1>3, PopKeepsLoops
<1>5. \/ Raise("fatal") /\ forStack' = forStack /\ noLoopChange
      \/ forStack' = rest /\ Raise("fatal") /\ noLoopChange
      \/ forStack' = rest /\ Evaluate(k)
  BY DEF InitFor
<1> HIDE DEF k, rest
<1>6. QED
  BY <1>1, <1>2, <1>3, <1>4, <1>5, FaultSettles, ForStep, EvaluateStep

\* The loop of a call ends: the frame on top of both stacks goes, and the caller's handler
\* comes back.
LEMMA FinishCallStep ==
  ASSUME IInv, mode = "running", acts # <<>>, FinishCall, fip' \in FaultRecord
  PROVE  IInv'
<1> DEFINE frame == Last(acts)
<1>1. /\ curStmt' = frame.call /\ onErrorStmtNo' = frame.onErr /\ fsIdx' = frame.idx
      /\ nextStmt' = Nil /\ arg' = FALSE
      /\ acts' = Front(acts) /\ userDefStack' = Front(userDefStack) /\ level' = level - 1
      /\ UNCHANGED <<forStack, gosubStack, declared, interrupted>>
  BY DEF FinishCall, framesAfterCall, levelAfterCall
<1>2. \/ frame.prompt /\ mode' = "prompt" /\ out' = "done" /\ pc' = "fetch"
      \/ ~ frame.prompt /\ mode' = mode /\ out' = out /\ pc' = "after"
  BY DEF FinishCall
<1>3. /\ acts \in Seq(Frame) /\ GoodActs(acts)
      /\ Len(acts) \in Nat \ {0} /\ DOMAIN acts = 1 .. Len(acts)
      /\ frame \in Frame /\ frame = acts[Len(acts)]
      /\ Front(acts) \in Seq(Frame) /\ Len(Front(acts)) = Len(acts) - 1
      /\ DOMAIN Front(acts) = 1 .. Len(acts) - 1
      /\ \A k \in 1 .. Len(acts) - 1 : Front(acts)[k] = acts[k]
  BY FrontProperties DEF IInv, ControlInv, GoodActs
<1>4. /\ userDefStack \in Seq(Stmts) /\ Len(userDefStack) \in Nat \ {0}
      /\ Len(acts) <= Len(userDefStack)
      /\ \A k \in DOMAIN acts : userDefStack[Len(userDefStack) - Len(acts) + k] = acts[k].fn
  <2>1. userDefStack \in Seq(Stmts) /\ Len(userDefStack) \in Nat
    BY LenProperties DEF IInv, CallInv
  <2>2. QED
    BY <1>3, <2>1 DEF IInv, CallInv, ResultsComeFromOwnFrame
<1>5. /\ Front(userDefStack) \in Seq(Stmts)
      /\ Len(Front(userDefStack)) = Len(userDefStack) - 1
      /\ \A k \in 1 .. Len(userDefStack) - 1 : Front(userDefStack)[k] = userDefStack[k]
  <2>1. userDefStack # <<>>
    BY <1>4
  <2>2. QED
    BY <1>4, <2>1, FrontProperties
<1>6. /\ GoodHandler(frame.onErr)
      /\ frame.prompt => Len(acts) = 1
      /\ ~ frame.prompt => frame.call \in Stmts
  <2>1. Len(acts) \in DOMAIN acts
    BY <1>3
  <2>2. QED
    BY <1>3, <2>1 DEF GoodActs
<1> HIDE DEF frame
<1>7. GoodActs(Front(acts))
  <2>1. \A k \in DOMAIN Front(acts) : k \in DOMAIN acts /\ Front(acts)[k] = acts[k]
    BY <1>3
  <2>2. QED
    BY <1>3, <2>1 DEF GoodActs
<1>8. ControlInv'
  <2>1. frame.call \in Nodes
    BY <1>3 DEF Frame
  <2>2. CASE frame.prompt /\ mode' = "prompt" /\ out' = "done" /\ pc' = "fetch"
    <3>1. Len(Front(acts)) = 0
      BY <1>3, <1>6, <2>2
    <3>2. Front(acts) = <<>>
      BY <1>3, <3>1, EmptySeq
    <3>3. QED
      BY <1>1, <1>7, <2>1, <2>2, <3>2 DEF IInv, ControlInv, Nodes, Outcomes
  <2>3. CASE ~ frame.prompt /\ mode' = mode /\ out' = out /\ pc' = "after"
    BY <1>1, <1>6, <1>7, <2>1, <2>3 DEF IInv, ControlInv, Nodes
  <2>4. QED
    BY <1>2, <2>2, <2>3
<1>9. DataInv'
  <2>1. frame.idx \in Nat
    BY <1>3 DEF Frame
  <2>2. QED
    BY <1>1, <1>6, <2>1, DataNow DEF DataInv
<1>10. CallInv'
  <2>1. level \in Nat /\ Len(userDefStack) <= level /\ level <= fnRecursionMax
    BY DEF IInv, CallInv
  <2>2. level' \in Nat /\ Len(userDefStack') <= level' /\ level' <= fnRecursionMax
    BY <1>1, <1>4, <1>5, <2>1, BoundsAssumption
  <2>3. ASSUME NEW k \in DOMAIN acts'
        PROVE  userDefStack'[Len(userDefStack') - Len(acts') + k] = acts'[k].fn
    <3> DEFINE m == Len(userDefStack) - Len(acts) + k
    <3>1. /\ k \in 1 .. Len(acts) - 1 /\ k \in DOMAIN acts
          /\ Len(userDefStack') - Len(acts') + k = m /\ m \in 1 .. Len(userDefStack) - 1
      BY <1>1, <1>3, <1>4, <1>5
    <3>2. userDefStack'[m] = userDefStack[m] /\ acts'[k] = acts[k]
      BY <1>1, <1>3, <1>5, <3>1
    <3>3. userDefStack[m] = acts[k].fn
      BY <1>4, <3>1
    <3>4. QED
      BY <3>1, <3>2, <3>3
  <2>4. Len(acts') <= Len(userDefStack')
    BY <1>1, <1>3, <1>4, <1>5
  <2>5. QED
    BY <1>1, <1>5, <2>2, <2>3, <2>4 DEF CallInv, ResultsComeFromOwnFrame
<1>11. IterationFindsItsLoop'
  BY <1>1 DEF IterationFindsItsLoop
<1>12. QED
  BY <1>8, <1>9, <1>10, <1>11 DEF IInv

LEMMA FinishProgramStep ==
  ASSUME IInv, acts = <<>>, FinishProgram, fip' \in FaultRecord
  PROVE  IInv'
<1>1. ControlInv'
  BY NoCalls DEF IInv, ControlInv, FinishProgram, Nodes, Outcomes, callVars
<1>2. DataInv' /\ CallInv' /\ IterationFindsItsLoop'
  BY DEF IInv, DataInv, CallInv, ResultsComeFromOwnFrame, IterationFindsItsLoop,
         FinishProgram, callVars, loopVars
<1>3. QED
  BY <1>1, <1>2 DEF IInv

LEMMA ReturnStep == ASSUME IInv, ReturnFromFunction PROVE IInv'
BY FinishCallStep DEF ReturnFromFunction, At, IInv, ControlInv

LEMMA StrayFnendStep == ASSUME IInv, StrayFnend PROVE IInv'
BY FinishProgramStep DEF StrayFnend, IInv, ControlInv

LEMMA ResumeNowhereStep == ASSUME IInv, ResumeNowhere PROVE IInv'
<1>1. mode = "running" /\ fip' \in FaultRecord
  BY DEF ResumeNowhere, At, clearFault, NoFault, FaultRecord, Nodes
<1>2. QED
  BY <1>1, FinishCallStep, FinishProgramStep DEF ResumeNowhere

-----------------------------------------------------------------------------
(* END, the prompt and the signal handler.                                  *)

\* The reinitialised struct r.
LEMMA FreshData ==
  /\ GoodLoops(<<>>) /\ GoodGosubs(<<>>) /\ GoodHandler(0) /\ GoodActs(<<>>)
  /\ NoFault \in FaultRecord /\ <<>> \in Seq(Stmts) /\ Len(<<>>) = 0 /\ Nil \in Nodes
  /\ fnRecursionMax \in Nat
BY EmptySeq, BoundsAssumption
   DEF GoodLoops, GoodGosubs, GoodHandler, GoodActs, NoFault, FaultRecord, Nodes

\* With r reinitialised and no call in progress, the call data is good.
LEMMA FreshCalls ==
  ASSUME userDefStack' = <<>>, level' = 0, acts' = <<>>
  PROVE  CallInv'
<1>1. ResultsComeFromOwnFrame'
  BY DEF ResultsComeFromOwnFrame
<1>2. QED
  BY <1>1, FreshData DEF CallInv

LEMMA ExecEndStep == ASSUME IInv, ExecEnd PROVE IInv'
<1>1. ControlInv'
  BY FreshData DEF ExecEnd, initializeRun, ControlInv, Outcomes
<1>2. DataInv'
  BY FreshData, DataNow DEF DataInv, ExecEnd, initializeRun
<1>3. CallInv'
  BY FreshCalls DEF ExecEnd, initializeRun
<1>4. IterationFindsItsLoop'
  BY DEF IterationFindsItsLoop, ExecEnd
<1>5. QED
  BY <1>1, <1>2, <1>3, <1>4 DEF IInv

LEMMA RunStep == ASSUME IInv, Run PROVE IInv'
<1>1. acts' = <<>>
  BY DEF IInv, ControlInv, Run
<1>2. 1 \in Stmts
  BY StmtsAreNat DEF Stmts
<1>3. ControlInv'
  BY <1>1, <1>2, FreshData DEF Run, executeRunInternal, ControlInv, Nodes, Outcomes
<1>4. DataInv'
  BY FreshData, DataNow DEF DataInv, Run, executeRunInternal
<1>5. CallInv'
  BY <1>1, FreshCalls DEF Run
<1>6. IterationFindsItsLoop'
  BY DEF IterationFindsItsLoop, Run, executeRunInternal
<1>7. QED
  BY <1>3, <1>4, <1>5, <1>6 DEF IInv

LEMMA ContStep == ASSUME IInv, Cont PROVE IInv'
<1>1. DataInv' /\ CallInv'
  <2>1. interrupted' \in BOOLEAN
    BY DataNow DEF Cont, executeRunInternal
  <2>2. QED
    BY <2>1 DEF IInv, DataInv, CallInv, ResultsComeFromOwnFrame, Cont, loopVars, callVars
<1>2. CASE /\ curStmt # Nil /\ nextStmt # Nil
           /\ executeRunInternal(nextStmt)
           /\ nextStmt' = Nil /\ out' \in {"", "pending"} /\ fip' = fip
  <2>1. nextStmt \in Stmts /\ acts' = acts
    BY <1>2 DEF IInv, ControlInv, Nodes, Cont, callVars
  <2>2. ControlInv'
    BY <1>2, <2>1 DEF IInv, ControlInv, executeRunInternal, Nodes, Outcomes
  <2>3. IterationFindsItsLoop'
    BY <1>2 DEF IterationFindsItsLoop, executeRunInternal
  <2>4. QED
    BY <1>1, <2>2, <2>3 DEF IInv
<1>3. CASE /\ out' = "nocont" /\ fip' = NoFault
           /\ UNCHANGED <<mode, stmtVars, interrupted>>
  <2>1. ControlInv'
    BY <1>3, FreshData DEF IInv, ControlInv, Cont, stmtVars, callVars, Outcomes
  <2>2. IterationFindsItsLoop'
    BY <1>3 DEF IInv, ControlInv, IterationFindsItsLoop, Cont, stmtVars
  <2>3. QED
    BY <1>1, <2>1, <2>2 DEF IInv
<1>4. QED
  BY <1>2, <1>3 DEF Cont

LEMMA ImmediateFaultStep == ASSUME IInv, ImmediateFault PROVE IInv'
<1>1. fip' \in FaultRecord
  BY DEF IInv, ControlInv, ImmediateFault, FaultRecord
<1>2. ControlInv'
  BY <1>1 DEF IInv, ControlInv, ImmediateFault, stmtVars, callVars, Outcomes
<1>3. DataInv' /\ CallInv' /\ IterationFindsItsLoop'
  BY DEF IInv, ControlInv, DataInv, CallInv, ResultsComeFromOwnFrame, IterationFindsItsLoop,
         ImmediateFault, stmtVars, callVars, loopVars
<1>4. QED
  BY <1>2, <1>3 DEF IInv

LEMMA SyntaxErrorStep == ASSUME IInv, SyntaxError PROVE IInv'
<1>1. ControlInv'
  BY FreshData DEF IInv, ControlInv, SyntaxError, callVars, Outcomes
<1>2. DataInv' /\ CallInv' /\ IterationFindsItsLoop'
  BY DEF IInv, ControlInv, DataInv, CallInv, ResultsComeFromOwnFrame, IterationFindsItsLoop,
         SyntaxError, callVars, loopVars
<1>3. QED
  BY <1>1, <1>2 DEF IInv

\* A refused call has taken its level, and left nothing else but its fault.
LEMMA RefusedCallStep ==
  ASSUME IInv, RefusedCall, level < fnRecursionMax, UNCHANGED forStack
  PROVE  IInv'
<1>1. fip' \in FaultRecord /\ out' \in Outcomes
  BY DEF IInv, ControlInv, RefusedCall, FaultRecord, Outcomes
<1>2. ControlInv'
  BY <1>1 DEF IInv, ControlInv, RefusedCall, stmtVars
<1>3. DataInv' /\ IterationFindsItsLoop'
  BY DEF IInv, DataInv, IterationFindsItsLoop, RefusedCall, stmtVars, Op
<1>4. CallInv'
  <2>1. level' = level + 1 /\ userDefStack' = userDefStack /\ acts' = acts
    BY DEF RefusedCall
  <2>2. level \in Nat /\ Len(userDefStack) <= level /\ userDefStack \in Seq(Stmts)
        /\ ResultsComeFromOwnFrame
    BY DEF IInv, CallInv
  <2>3. fnRecursionMax \in Nat /\ Len(userDefStack) \in Nat
    BY <2>2, BoundsAssumption
  <2>4. ResultsComeFromOwnFrame'
    BY <2>1, <2>2 DEF ResultsComeFromOwnFrame
  <2> QED
    BY <2>1, <2>2, <2>3, <2>4 DEF CallInv
<1> QED
  BY <1>2, <1>3, <1>4 DEF IInv

LEMMA ImmediateCallStep == ASSUME IInv, ImmediateCall PROVE IInv'
<1>1. ~ arg /\ level < fnRecursionMax /\ forStack' = forStack /\ (TRUE <=> mode = "prompt")
  BY DEF IInv, ControlInv, ImmediateCall
<1>2. CASE RefusedCall
  BY <1>1, <1>2, RefusedCallStep
<1>3. CASE \E d \in Stmts : Prog[d].op = "DEF" /\ CallFunction(d, 0, curStmt, TRUE)
  BY <1>1, <1>3, DataNow, CallStep
<1>4. QED
  BY <1>2, <1>3 DEF ImmediateCall

LEMMA EditLineStep == ASSUME IInv, EditLine PROVE IInv'
<1>1. acts' = <<>> /\ pc' = "fetch" /\ ~ arg'
  BY DEF IInv, ControlInv, EditLine
<1>2. ControlInv'
  BY <1>1, FreshData DEF IInv, ControlInv, EditLine, initializeRun, Outcomes
<1>3. DataInv'
  BY FreshData, DataNow DEF DataInv, EditLine, initializeRun
<1>4. CallInv'
  BY <1>1, FreshCalls DEF EditLine, initializeRun
<1>5. IterationFindsItsLoop'
  BY <1>1 DEF IterationFindsItsLoop
<1>6. QED
  BY <1>2, <1>3, <1>4, <1>5 DEF IInv

LEMMA SignalStep == ASSUME IInv, Signal PROVE IInv'
BY DEF IInv, ControlInv, DataInv, CallInv, ResultsComeFromOwnFrame, IterationFindsItsLoop,
       Signal, stmtVars, callVars, loopVars, Op

LEMMA StutterStep == ASSUME IInv, UNCHANGED vars PROVE IInv'
BY DEF IInv, ControlInv, DataInv, CallInv, ResultsComeFromOwnFrame, IterationFindsItsLoop,
       vars, stmtVars, callVars, loopVars, Op

-----------------------------------------------------------------------------
(* The theorems.                                                            *)

LEMMA InitInv == Init => IInv
<1> SUFFICES ASSUME Init PROVE IInv
  OBVIOUS
<1>1. ControlInv
  BY FreshData DEF Init, ControlInv, Outcomes
<1>2. DataInv
  BY FreshData DEF Init, DataInv
<1>3. CallInv
  <2>1. userDefStack = <<>> /\ level = 0 /\ acts = <<>>
    BY DEF Init
  <2>2. ResultsComeFromOwnFrame
    BY <2>1 DEF ResultsComeFromOwnFrame
  <2>3. QED
    BY <2>1, <2>2, FreshData DEF CallInv
<1>4. IterationFindsItsLoop
  BY DEF Init, IterationFindsItsLoop
<1>5. QED
  BY <1>1, <1>2, <1>3, <1>4 DEF IInv

\* The invariant is inductive: one step per action.
LEMMA NextInv == IInv /\ [Next]_vars => IInv'
<1> SUFFICES ASSUME IInv, [Next]_vars PROVE IInv'
  OBVIOUS
<1>1. ASSUME Step PROVE IInv'
  BY <1>1, FetchStep, InterruptStep, EvalPlainStep, DonePlainStep, ExecInputStep,
     InitForStep, EnterForStep, IterateForStep, ExecNextStep, ExecGotoStep, ExecGosubStep,
     ExecReturnStep, ExecOnStep, ExecIfStep, ExecResumeStep, ExecOnErrorStep, ExecStopStep,
     ExecEndStep, ExecDefStep, ReturnStep, StrayFnendStep, ResumeNowhereStep
  DEF Step
<1>2. ASSUME User PROVE IInv'
  BY <1>2, RunStep, ContStep, ImmediateFaultStep, SyntaxErrorStep, ImmediateCallStep,
     EditLineStep, SignalStep
  DEF User
<1>3. QED
  BY <1>1, <1>2, StutterStep DEF Next

\* Every reachable state satisfies the inductive invariant.
THEOREM Inductive == Spec => []IInv
<1>1. Init => IInv
  BY InitInv
<1>2. IInv /\ [Next]_vars => IInv'
  BY NextInv
<1>3. QED
  BY <1>1, <1>2, PTL DEF Spec

\* Every variable has its type: the GOSUB stack and the nesting of calls stay within the
\* limits that executeGosub and callFunction enforce, and the loop always has a node.
THEOREM TypeCorrect == Spec => []TypeOK
<1>1. IInv => TypeOK
  <2> SUFFICES ASSUME IInv PROVE TypeOK
    OBVIOUS
  <2>1. level \in 0 .. fnRecursionMax
    BY BoundsAssumption DEF IInv, CallInv
  <2>2. QED
    BY <2>1 DEF IInv, ControlInv, DataInv, CallInv, TypeOK, GoodLoops, GoodGosubs,
                GoodHandler, GoodActs
<1>2. QED
  BY <1>1, Inductive, PTL

\* executeFor, told that it iterates, always finds its entry: the nil it does not test for
\* never occurs.
THEOREM IterationIsSafe == Spec => []IterationFindsItsLoop
<1>1. IInv => IterationFindsItsLoop
  BY DEF IInv
<1>2. QED
  BY <1>1, Inductive, PTL

\* userFunctionWrapper always reads the result of its own call, whatever aborts left on
\* r.userDefStack: the frames of the calls in progress are the topmost ones.
THEOREM FramesAreOwn == Spec => []ResultsComeFromOwnFrame
<1>1. IInv => ResultsComeFromOwnFrame
  BY DEF IInv, CallInv
<1>2. QED
  BY <1>1, Inductive, PTL

-----------------------------------------------------------------------------
(* Handlers do not nest: decodePanic gives a second fault no error number.  *)

KeepsFault == mode' = "running" => fip' \in {fip, NoFault}

\* A fault raised over a pending one goes uncaught, and so does one without a number.
LEMMA RaiseKeepsFault ==
  ASSUME NEW old, NEW kind, RaiseOver(old, kind), old # NoFault \/ kind = "fatal"
  PROVE  KeepsFault
<1>1. ~ catchable(old, kind)
  BY DEF catchable
<1>2. mode' = "prompt"
  BY <1>1 DEF RaiseOver, Uncaught, Unwind
<1>3. QED
  BY <1>2 DEF KeepsFault

LEMMA FaultKeepsFault ==
  ASSUME fip # NoFault, NEW kind, Raise(kind)
  PROVE  KeepsFault
BY RaiseKeepsFault DEF Raise

LEMMA StmtFaultKeepsFault ==
  ASSUME fip # NoFault, NEW kinds, StmtFault(kinds)
  PROVE  KeepsFault
BY FaultKeepsFault DEF StmtFault

LEMMA EvaluateKeepsFault ==
  ASSUME fip # NoFault, NEW k, Evaluate(k)
  PROVE  KeepsFault
BY FaultKeepsFault, StmtFaultKeepsFault DEF Evaluate, CallFunction, KeepsFault

LEMMA GosubKeepsFault ==
  ASSUME fip # NoFault, NEW no, executeGosub(no)
  PROVE  KeepsFault
BY FaultKeepsFault DEF executeGosub, ToLine, KeepsFault

LEMMA ResumeKeepsFault ==
  ASSUME RaiseInResume \/ clearFault
  PROVE  KeepsFault
BY RaiseKeepsFault DEF RaiseInResume, clearFault, KeepsFault

\* While a handler runs, the fault it handles is not replaced by another.
THEOREM HandlersAreFlat == Spec => HandlersDoNotNest
<1>1. ASSUME Next, fip # NoFault PROVE KeepsFault
  <2>1. CASE Fetch \/ checkInterrupts \/ EvalPlain \/ DonePlain \/ ExecInput
    BY <1>1, <2>1, FaultKeepsFault, StmtFaultKeepsFault, EvaluateKeepsFault
    DEF Fetch, checkInterrupts, EvalPlain, DonePlain, ExecInput, Advance, KeepsFault
  <2>2. CASE InitFor \/ EnterFor \/ IterateFor \/ ExecNext
    BY <1>1, <2>2, FaultKeepsFault, StmtFaultKeepsFault, EvaluateKeepsFault
    DEF InitFor, EnterFor, IterateFor, ExecNext, Advance, KeepsFault
  <2>3. CASE ExecGoto \/ ExecGosub \/ ExecReturn \/ ExecOn
    BY <1>1, <2>3, FaultKeepsFault, GosubKeepsFault
    DEF ExecGoto, ExecGosub, ExecReturn, ExecOn, ToLine, KeepsFault
  <2>4. CASE ExecIf
    <3>1. CASE Advance \/ StmtFault(WorkFaults)
      BY <1>1, <3>1, StmtFaultKeepsFault DEF Advance, KeepsFault
    <3>2. CASE IfGoto \/ IfGosub
      BY <1>1, <3>2, FaultKeepsFault, GosubKeepsFault DEF IfGoto, IfGosub, ToLine, KeepsFault
    <3>3. CASE IfResume \/ Stop
      BY <3>3, ResumeKeepsFault DEF IfResume, Stop, KeepsFault
    <3>4. QED
      BY <2>4, <3>1, <3>2, <3>3 DEF ExecIf
  <2>5. CASE ExecResume \/ ExecOnError \/ ExecStop \/ ExecEnd
    BY <1>1, <2>5, FaultKeepsFault, ResumeKeepsFault
    DEF ExecResume, ExecOnError, ExecStop, Stop, ExecEnd, initializeRun, KeepsFault
  <2>6. CASE ExecDef \/ ReturnFromFunction \/ StrayFnend \/ ResumeNowhere
    BY <2>6, ResumeKeepsFault
    DEF ExecDef, ReturnFromFunction, StrayFnend, ResumeNowhere, KeepsFault
  <2>7. CASE User /\ ~ ImmediateFault
    BY <2>7
    DEF User, Run, Cont, SyntaxError, ImmediateCall, RefusedCall, stmtVars, CallFunction, EditLine, initializeRun,
        Signal, KeepsFault
  <2>8. CASE ImmediateFault
    BY <2>8 DEF ImmediateFault, stmtVars, KeepsFault
  <2>9. QED
    BY <1>1, <2>1, <2>2, <2>3, <2>4, <2>5, <2>6, <2>7, <2>8 DEF Next, Step, User
<1>2. [Next]_vars =>
        [mode = "running" /\ mode' = "running" /\ fip # NoFault
           => fip' \in {fip, NoFault}]_vars
  BY <1>1 DEF KeepsFault
<1>3. QED
  BY <1>2, PTL DEF Spec, HandlersDoNotNest

-----------------------------------------------------------------------------
(* The shapes that a step may have, for what is proved of all of them.      *)

\* Nothing that control depends on changes, but the phase of the statement.
Stays == UNCHANGED <<mode, curStmt, nextStmt, acts, out, fip>>

Moves == mode' = "running" /\ nextStmt' = curStmt'

Fails == \E old, kind : kind # "stop" /\ RaiseOver(old, kind)

Ends == mode' = "prompt" /\ nextStmt' = Nil

\* A function is called: there is a call more.
Calls == mode' = "running" /\ acts' # <<>> /\ Len(acts') > Len(acts)

Returns == mode' = "running" /\ nextStmt' = Nil

Shaped == Stays \/ Moves \/ Fails \/ Stop \/ Ends \/ Calls \/ Returns

LEMMA JumpIsShaped ==
  ASSUME mode = "running", NEW i, NEW a, Jump(i, a)
  PROVE  Shaped
BY DEF Jump, Shaped, Moves

LEMMA RaiseIsShaped ==
  ASSUME NEW kind, kind # "stop", Raise(kind)
  PROVE  Shaped
BY DEF Raise, Fails, Shaped

LEMMA StmtFaultIsShaped ==
  ASSUME NEW kinds \in SUBSET FaultKinds, StmtFault(kinds)
  PROVE  Shaped
<1>1. PICK k \in kinds : Raise(IF k = "arith" THEN "num" ELSE IF k = "badcall" THEN "fatal" ELSE k)
  BY DEF StmtFault
<1>2. (IF k = "arith" THEN "num" ELSE IF k = "badcall" THEN "fatal" ELSE k) # "stop"
  BY DEF FaultKinds
<1> QED
  BY <1>1, <1>2, RaiseIsShaped

LEMMA WorkFaultIsShaped ==
  ASSUME StmtFault(WorkFaults)
  PROVE  Shaped
<1>1. WorkFaults \in SUBSET FaultKinds
  BY DEF WorkFaults, FaultKinds
<1> QED
  BY <1>1, StmtFaultIsShaped

\* A call of a function whose lines run starts another activation.
LEMMA CallIsShaped ==
  ASSUME IInv, NEW d, NEW k, NEW stmt, NEW prompt, CallFunction(d, k, stmt, prompt)
  PROVE  /\ Shaped /\ (Prog[d].fnend = Nil => interrupted' = interrupted)
         /\ Prog[d].fnend # Nil => Len(acts') > Len(acts)
<1>1. CASE Prog[d].fnend = Nil
  BY <1>1 DEF CallFunction, Shaped, Stays
<1>2. CASE Prog[d].fnend # Nil
  <2> DEFINE frame == [call |-> stmt, fn |-> d, onErr |-> onErrorStmtNo, idx |-> k, prompt |-> prompt]
  <2>1. mode' = "running" /\ acts' = Append(acts, frame)
    BY <1>2 DEF CallFunction, executeRunInternal
  <2>2. acts \in Seq(Frame) /\ Len(acts) \in Nat
    BY LenProperties DEF IInv, ControlInv, GoodActs
  <2>3. Len(Append(acts, frame)) = Len(acts) + 1 /\ Append(acts, frame) # <<>>
    BY <2>2
  <2> HIDE DEF frame
  <2>4. Len(acts') > Len(acts) /\ acts' # <<>>
    BY <2>1, <2>2, <2>3
  <2> QED
    BY <1>2, <2>1, <2>4 DEF Shaped, Calls
<1> QED
  BY <1>1, <1>2

LEMMA EvaluateIsShaped ==
  ASSUME IInv, NEW k, Evaluate(k)
  PROVE  Shaped /\ (interrupted' = interrupted \/ Len(acts') > Len(acts))
<1> DEFINE d == Prog[curStmt].fn
<1>1. CASE UNCHANGED <<mode, curStmt, nextStmt, arg, gosubStack, callVars, onErrorStmtNo, fip, interrupted, out>>
  BY <1>1 DEF Shaped, Stays, callVars
<1>2. CASE Raise("fatal") /\ interrupted' = interrupted
  BY <1>2, RaiseIsShaped
<1>3. CASE StmtFault({"badcall"}) /\ interrupted' = interrupted
  <2>1. {"badcall"} \in SUBSET FaultKinds
    BY DEF FaultKinds
  <2> QED
    BY <1>3, <2>1, StmtFaultIsShaped
<1>4. CASE CallFunction(d, k, curStmt, FALSE)
  BY <1>4, CallIsShaped
<1> QED
  BY <1>1, <1>2, <1>3, <1>4 DEF Evaluate

LEMMA GosubIsShaped ==
  ASSUME mode = "running", NEW no, executeGosub(no)
  PROVE  Shaped
BY RaiseIsShaped, JumpIsShaped DEF executeGosub, ToLine

LEMMA FinishCallIsShaped ==
  ASSUME mode = "running", FinishCall
  PROVE  Shaped
<1>1. nextStmt' = Nil /\ (mode' = "prompt" \/ mode' = "running")
  BY DEF FinishCall
<1> QED
  BY <1>1 DEF Shaped, Ends, Returns

LEMMA FinishProgramIsShaped ==
  ASSUME FinishProgram
  PROVE  Shaped
BY DEF FinishProgram, Shaped, Ends

LEMMA RefusalIsShaped ==
  ASSUME RaiseInResume
  PROVE  Shaped
BY DEF RaiseInResume, Shaped, Fails

LEMMA StepIsShaped ==
  ASSUME IInv, Step
  PROVE  Shaped
<1>1. CASE Fetch
  BY <1>1 DEF Fetch, Shaped, Stays, callVars
<1>2. CASE checkInterrupts
  BY <1>2, RaiseIsShaped DEF checkInterrupts
<1>3. CASE EvalPlain
  BY <1>3, EvaluateIsShaped DEF EvalPlain
<1>4. CASE DonePlain \/ ExecInput
  BY <1>4, JumpIsShaped, WorkFaultIsShaped, RaiseIsShaped DEF DonePlain, ExecInput, Advance, At
<1>5. CASE InitFor
  BY <1>5, EvaluateIsShaped, RaiseIsShaped DEF InitFor
<1>6. CASE EnterFor \/ IterateFor \/ ExecNext
  BY <1>6, JumpIsShaped, WorkFaultIsShaped, RaiseIsShaped DEF EnterFor, IterateFor, ExecNext, Advance, At
<1>7. CASE ExecGoto \/ ExecGosub \/ ExecReturn \/ ExecOn
  BY <1>7, JumpIsShaped, GosubIsShaped, RaiseIsShaped
  DEF ExecGoto, ExecGosub, ExecReturn, ExecOn, ToLine, At
<1>8. CASE ExecIf
  <2>1. mode = "running"
    BY <1>8 DEF ExecIf, At
  <2>2. CASE Advance \/ StmtFault(WorkFaults)
    BY <2>1, <2>2, JumpIsShaped, WorkFaultIsShaped DEF Advance
  <2>3. CASE IfGoto \/ IfGosub
    BY <2>1, <2>3, RaiseIsShaped, JumpIsShaped, GosubIsShaped DEF IfGoto, IfGosub, ToLine
  <2>4. CASE IfResume
    BY <2>1, <2>4, RefusalIsShaped, JumpIsShaped DEF IfResume
  <2>5. CASE Stop
    BY <2>5 DEF Shaped
  <2> QED
    BY <1>8, <2>2, <2>3, <2>4, <2>5 DEF ExecIf
<1>9. CASE ExecResume \/ ExecOnError
  BY <1>9, RaiseIsShaped, RefusalIsShaped, JumpIsShaped DEF ExecResume, ExecOnError, At
<1>10. CASE ExecStop
  BY <1>10 DEF ExecStop, Shaped
<1>11. CASE ExecEnd
  BY <1>11 DEF ExecEnd, initializeRun, Shaped, Ends
<1>12. CASE ExecDef
  BY <1>12, JumpIsShaped DEF ExecDef, At
<1>13. CASE ReturnFromFunction \/ StrayFnend \/ ResumeNowhere
  BY <1>13, FinishCallIsShaped, FinishProgramIsShaped DEF ReturnFromFunction, StrayFnend, ResumeNowhere, At
<1> QED
  BY <1>1, <1>2, <1>3, <1>4, <1>5, <1>6, <1>7, <1>8, <1>9, <1>10, <1>11, <1>12, <1>13 DEF Step

-----------------------------------------------------------------------------
(* CONT.                                                                    *)

\* In the main program CONT would take up the statement that runs, or nothing.
InPlace ==
  /\ mode = "running" /\ acts = <<>> => nextStmt \in {Nil, curStmt}
  /\ ContResumesInPlace

\* The next numbered line is a later one.
LEMMA NextLineIsLater ==
  ASSUME NEW i \in Nodes, stmtAvlTreeNextStmt(i) # Nil, i # Nil
  PROVE  Prog[stmtAvlTreeNextStmt(i)].line > Prog[i].line
<1> DEFINE later == {j \in Stmts : j > i /\ Prog[j].head}
           next  == stmtAvlTreeNextStmt(i)
<1>1. later # {} /\ next = Min(later) /\ later \in SUBSET Nat
  BY StmtsAreNat DEF stmtAvlTreeNextStmt
<1>2. next \in later
  BY <1>1, MinIsMember
<1>3. i \in Stmts /\ next \in Stmts /\ next > i /\ Prog[next].head
  BY <1>2 DEF Nodes
<1> HIDE DEF next
<1>4. Prog[i].line \in Nat /\ Prog[next].line \in Nat
  BY <1>3, NodeType DEF StmtNode
<1>5. i \in Nat /\ next \in Nat /\ i < next
  BY <1>3, StmtsAreNat
<1>6. Prog[i].line < Prog[next].line
  BY <1>3, <1>5, ProgAssumption
<1> QED
  BY <1>4, <1>6 DEF next

LEMMA FaultInPlace ==
  ASSUME IInv, InPlace, mode = "running", Fails
  PROVE  InPlace'
<1>1. PICK old, kind : kind # "stop" /\ RaiseOver(old, kind)
  BY DEF Fails
<1>2. CASE catchable(old, kind) /\ onErrorStmtNo # 0
  <2>1. mode' = "running" /\ nextStmt' = curStmt'
    BY <1>1, <1>2 DEF RaiseOver, Jump
  <2> QED
    BY <2>1 DEF InPlace, ContResumesInPlace
<1>3. CASE ~ (catchable(old, kind) /\ onErrorStmtNo # 0)
  <2>1. PICK fault : Uncaught(kind, fault)
    BY <1>1, <1>3 DEF RaiseOver
  <2>2. mode' = "prompt" /\ out' = kind /\ nextStmt' = nextStmt
    BY <2>1 DEF Uncaught, Unwind
  <2>3. ASSUME nextStmt' # Nil, kind = "int", fip' # NoFault PROVE nextStmt' = curStmt'
    <3>1. acts = <<>> /\ curStmt' = curStmt
      BY <2>1, <2>3 DEF Uncaught
    <3> QED
      BY <2>2, <2>3, <3>1 DEF InPlace
  <2> QED
    BY <1>1, <2>2, <2>3 DEF InPlace, ContResumesInPlace
<1> QED
  BY <1>2, <1>3

LEMMA StopInPlace ==
  ASSUME IInv, InPlace, mode = "running", Stop
  PROVE  InPlace'
<1>1. mode' = "prompt" /\ out' = "stop" /\ nextStmt' = stmtAvlTreeNextStmt(curStmt) /\ curStmt' = curStmt
  BY DEF Stop
<1>2. curStmt \in Nodes /\ curStmt # Nil
  BY StmtsAreNat DEF IInv, ControlInv, Nodes, Nil
<1>3. nextStmt' # Nil => Prog[nextStmt'].line > Prog[curStmt'].line
  BY <1>1, <1>2, NextLineIsLater
<1> QED
  BY <1>1, <1>3 DEF InPlace, ContResumesInPlace

LEMMA ShapedInPlace ==
  ASSUME IInv, InPlace, mode = "running", Shaped
  PROVE  InPlace'
<1>1. CASE Stays
  BY <1>1 DEF Stays, InPlace, ContResumesInPlace
<1>2. CASE Moves \/ Ends \/ Calls \/ Returns
  BY <1>2 DEF Moves, Ends, Calls, Returns, InPlace, ContResumesInPlace
<1>3. CASE Fails
  BY <1>3, FaultInPlace
<1>4. CASE Stop
  BY <1>4, StopInPlace
<1> QED
  BY <1>1, <1>2, <1>3, <1>4 DEF Shaped

LEMMA StepRuns == ASSUME Step PROVE mode = "running"
BY DEF Step, Fetch, checkInterrupts, EvalPlain, DonePlain, ExecInput, InitFor, EnterFor, IterateFor,
       ExecNext, ExecGoto, ExecGosub, ExecReturn, ExecOn, ExecIf, ExecResume, ExecOnError, ExecStop,
       ExecEnd, ExecDef, ReturnFromFunction, StrayFnend, ResumeNowhere, At

LEMMA UserInPlace ==
  ASSUME IInv, InPlace, User
  PROVE  InPlace'
<1>1. CASE Run \/ Cont \/ EditLine
  BY <1>1 DEF Run, Cont, EditLine, executeRunInternal, initializeRun, InPlace, ContResumesInPlace
<1>2. CASE ImmediateFault \/ SyntaxError
  BY <1>2 DEF ImmediateFault, SyntaxError, stmtVars, InPlace, ContResumesInPlace
<1>3. CASE Signal
  BY <1>3 DEF Signal, stmtVars, callVars, InPlace, ContResumesInPlace
<1>5. CASE ImmediateCall /\ RefusedCall
  BY <1>5 DEF RefusedCall, stmtVars, InPlace, ContResumesInPlace
<1>4. CASE ImmediateCall /\ ~ RefusedCall
  <2>1. PICK d \in Stmts : CallFunction(d, 0, curStmt, TRUE)
    BY <1>4 DEF ImmediateCall
  <2>2. CASE Prog[d].fnend = Nil
    BY <2>1, <2>2 DEF CallFunction, InPlace, ContResumesInPlace
  <2>3. CASE Prog[d].fnend # Nil
    <3>1. acts' # <<>>
      <4>1. acts \in Seq(Frame)
        BY DEF IInv, ControlInv, GoodActs
      <4>2. PICK frame : acts' = Append(acts, frame)
        BY <2>1, <2>3 DEF CallFunction
      <4>3. Len(Append(acts, frame)) = Len(acts) + 1 /\ Len(acts) \in Nat
        BY <4>1
      <4>4. Len(<<>>) = 0
        OBVIOUS
      <4> QED
        BY <4>2, <4>3, <4>4
    <3>2. mode' = "running"
      BY <2>1, <2>3 DEF CallFunction, executeRunInternal
    <3> QED
      BY <3>1, <3>2 DEF InPlace, ContResumesInPlace
  <2> QED
    BY <2>2, <2>3
<1> QED
  BY <1>1, <1>2, <1>3, <1>4, <1>5 DEF User

\* CONT takes up an interrupted main program at the statement that was not executed, and a
\* stopped program on the line behind the STOP.
THEOREM ContIsInPlace == Spec => []ContResumesInPlace
<1>1. Init => InPlace
  BY DEF Init, InPlace, ContResumesInPlace, Nil
<1>2. IInv /\ InPlace /\ [Next]_vars => InPlace'
  <2>1. ASSUME IInv, InPlace, UNCHANGED vars PROVE InPlace'
    BY <2>1 DEF vars, stmtVars, callVars, InPlace, ContResumesInPlace
  <2> QED
    BY <2>1, StepRuns, StepIsShaped, ShapedInPlace, UserInPlace DEF Next
<1>3. InPlace => ContResumesInPlace
  BY DEF InPlace
<1> QED
  BY <1>1, <1>2, <1>3, Inductive, PTL DEF Spec

-----------------------------------------------------------------------------
(* Interrupts.                                                              *)

\* What may become of a posted interrupt.
Kept ==
  \/ interrupted' = interrupted \/ interrupted' = TRUE
  \/ out' = "int" \/ fip'.err = "int" \/ Len(acts') > Len(acts)

\* An interrupt that is raised is the fault that is handled, or the reason to stop.
LEMMA InterruptIsRaised ==
  ASSUME Raise("int")
  PROVE  Kept
<1>1. CASE catchable(fip, "int") /\ onErrorStmtNo # 0
  <2>1. fip' = [stmt |-> curStmt, err |-> "int"]
    BY <1>1 DEF Raise, RaiseOver
  <2> QED
    BY <2>1 DEF Kept
<1>2. CASE ~ (catchable(fip, "int") /\ onErrorStmtNo # 0)
  <2>1. out' = "int"
    BY <1>2 DEF Raise, RaiseOver, Uncaught, Unwind
  <2> QED
    BY <2>1 DEF Kept
<1> QED
  BY <1>1, <1>2

\* A posted interrupt is lost to the call of a function only.
THEOREM InterruptsAreKept == Spec => InterruptsAreNotLost
<1>1. ASSUME IInv, Next, mode = "running" PROVE Kept
  <2>1. CASE checkInterrupts
    BY <2>1, InterruptIsRaised DEF checkInterrupts
  <2>2. CASE ExecInput
    BY <2>2, InterruptIsRaised DEF ExecInput, Kept
  <2>3. CASE EvalPlain
    BY <1>1, <2>3, EvaluateIsShaped DEF EvalPlain, Kept
  <2>4. CASE InitFor
    BY <1>1, <2>4, EvaluateIsShaped DEF InitFor, noLoopChange, Kept
  <2>5. CASE Fetch \/ DonePlain \/ EnterFor \/ IterateFor \/ ExecNext
    BY <2>5 DEF Fetch, DonePlain, EnterFor, IterateFor, ExecNext, noLoopChange, Kept
  <2>6. CASE ExecGoto \/ ExecGosub \/ ExecReturn \/ ExecOn \/ ExecIf \/ ExecResume \/ ExecOnError \/ ExecStop
    BY <2>6 DEF ExecGoto, ExecGosub, ExecReturn, ExecOn, ExecIf, ExecResume, ExecOnError, ExecStop,
                noCallChange, Kept
  <2>7. CASE ExecEnd \/ ExecDef \/ ReturnFromFunction \/ StrayFnend \/ ResumeNowhere
    BY <2>7 DEF ExecEnd, ExecDef, ReturnFromFunction, StrayFnend, ResumeNowhere, FinishCall, FinishProgram, Kept
  <2>8. CASE Signal
    BY <2>8 DEF Signal, Kept
  <2>9. CASE Run \/ Cont \/ ImmediateFault \/ SyntaxError \/ ImmediateCall \/ EditLine
    BY <1>1, <2>9 DEF Run, Cont, ImmediateFault, SyntaxError, ImmediateCall, EditLine
  <2> QED
    BY <1>1, <2>1, <2>2, <2>3, <2>4, <2>5, <2>6, <2>7, <2>8, <2>9 DEF Next, Step, User
<1>2. IInv /\ [Next]_vars =>
        [mode = "running" /\ interrupted /\ ~ interrupted' =>
           out' = "int" \/ fip'.err = "int" \/ Len(acts') > Len(acts)]_vars
  BY <1>1 DEF Kept
<1> QED
  BY <1>2, Inductive, PTL DEF Spec, InterruptsAreNotLost
-----------------------------------------------------------------------------
(* The nesting that fnRecursionMax limits.  r.level also counts the calls   *)
(* that push nothing: those of single-line functions, never given back, and *)
(* those that fault before they have a frame.  No other step of any program *)
(* moves the level without the frames.                                      *)

\* A step of which LevelsFollowFrames holds.
LevelKept ==
  \/ level' + Len(userDefStack) = level + Len(userDefStack')
  \/ CallsWithoutFrame /\ level' = level + 1 /\ userDefStack' = userDefStack
  \/ level' = 0 /\ userDefStack' = <<>>

\* A call has a frame, or it is one of those that have none.
LEMMA CallLevels ==
  ASSUME IInv, NEW d \in Stmts, NEW k, NEW stmt, NEW prompt, CallFunction(d, k, stmt, prompt),
         Prog[d].fnend = Nil => CallsWithoutFrame
  PROVE  LevelKept
<1>1. level' = level + 1 /\ level \in Nat /\ userDefStack \in Seq(Stmts)
  BY DEF CallFunction, IInv, CallInv
<1>2. CASE Prog[d].fnend = Nil
  BY <1>1, <1>2 DEF CallFunction, LevelKept
<1>3. CASE Prog[d].fnend # Nil
  <2>1. userDefStack' = Append(userDefStack, d)
    BY <1>3 DEF CallFunction
  <2>2. Len(Append(userDefStack, d)) = Len(userDefStack) + 1 /\ Len(userDefStack) \in Nat
    BY <1>1
  <2> QED
    BY <1>1, <2>1, <2>2 DEF LevelKept
<1> QED
  BY <1>2, <1>3

\* A failed call is one of those that have no frame.
LEMMA EvaluateLevels ==
  ASSUME IInv, mode = "running", pc = "exec", NEW k, Evaluate(k)
  PROVE  LevelKept
<1> DEFINE d == Prog[curStmt].fn
<1>1. curStmt \in Stmts /\ (d # Nil => d \in Stmts)
  BY NodeType DEF IInv, ControlInv, StmtNode, Nodes
<1>2. CASE UNCHANGED <<userDefStack, level>>
  BY <1>2 DEF LevelKept
<1>3. CASE d # Nil /\ level' = level + 1 /\ StmtFault({"badcall"}) /\ userDefStack' = userDefStack
  <2>1. "badcall" \in Prog[curStmt].faults
    BY <1>3 DEF StmtFault
  <2> QED
    BY <1>3, <2>1 DEF LevelKept, CallsWithoutFrame
<1>4. CASE d # Nil /\ CallFunction(d, k, curStmt, FALSE)
  <2>1. Prog[d].fnend = Nil => CallsWithoutFrame
    BY <1>4 DEF CallsWithoutFrame
  <2> QED
    BY <1>1, <1>4, <2>1, CallLevels
<1> QED
  BY <1>2, <1>3, <1>4 DEF Evaluate, callVars

\* A call that ends gives back its level with its frame.
LEMMA FinishLevels ==
  ASSUME IInv, mode = "running", acts # <<>>, FinishCall
  PROVE  LevelKept
<1>1. userDefStack \in Seq(Stmts) /\ level \in Nat /\ Len(userDefStack) \in Nat
  BY LenProperties DEF IInv, CallInv
<1>2. acts \in Seq(Frame) /\ Len(acts) <= Len(userDefStack)
  BY DEF IInv, ControlInv, GoodActs, CallInv, ResultsComeFromOwnFrame
<1>3. userDefStack # <<>>
  BY <1>1, <1>2, FrontProperties, EmptySeq
<1>4. Len(Front(userDefStack)) = Len(userDefStack) - 1
  BY <1>1, <1>3, FrontProperties
<1>5. level' = level - 1 /\ userDefStack' = Front(userDefStack)
  BY DEF FinishCall, framesAfterCall, levelAfterCall
<1> QED
  BY <1>1, <1>4, <1>5 DEF LevelKept

LEMMA StepLevels ==
  ASSUME IInv, Step
  PROVE  LevelKept
<1>1. mode = "running"
  BY StepRuns
<1>2. CASE UNCHANGED <<userDefStack, level>>
  BY <1>2 DEF LevelKept
<1>3. CASE EvalPlain \/ InitFor
  BY <1>1, <1>2, <1>3, EvaluateLevels DEF EvalPlain, InitFor, noLoopChange, At
<1>4. CASE ExecEnd
  BY <1>4 DEF ExecEnd, initializeRun, LevelKept
<1>5. CASE ReturnFromFunction \/ ResumeNowhere
  BY <1>1, <1>2, <1>5, FinishLevels DEF ReturnFromFunction, ResumeNowhere, FinishProgram, callVars
<1>6. CASE Fetch \/ checkInterrupts \/ DonePlain \/ ExecInput \/ ExecDef \/ StrayFnend
  BY <1>2, <1>6 DEF Fetch, checkInterrupts, DonePlain, ExecInput, ExecDef, StrayFnend, FinishProgram,
                    callVars
<1>7. CASE EnterFor \/ IterateFor \/ ExecNext
  BY <1>2, <1>7 DEF EnterFor, IterateFor, ExecNext, noLoopChange
<1>8. CASE ExecGoto \/ ExecGosub \/ ExecReturn \/ ExecOn \/ ExecIf \/ ExecResume \/ ExecOnError \/ ExecStop
  BY <1>2, <1>8 DEF ExecGoto, ExecGosub, ExecReturn, ExecOn, ExecIf, ExecResume, ExecOnError, ExecStop,
                    noCallChange
<1> QED
  BY <1>3, <1>4, <1>5, <1>6, <1>7, <1>8 DEF Step

LEMMA UserLevels ==
  ASSUME IInv, User
  PROVE  LevelKept
<1>1. CASE Run \/ EditLine
  BY <1>1 DEF Run, EditLine, initializeRun, LevelKept
<1>2. CASE Cont \/ ImmediateFault \/ SyntaxError \/ Signal
  BY <1>2 DEF Cont, ImmediateFault, SyntaxError, Signal, callVars, LevelKept
<1>3. CASE ImmediateCall
  <2>1. CallsWithoutFrame
    BY <1>3 DEF ImmediateCall, CallsWithoutFrame
  <2>2. CASE RefusedCall
    BY <2>1, <2>2 DEF RefusedCall, LevelKept
  <2>3. CASE \E d \in Stmts : Prog[d].op = "DEF" /\ CallFunction(d, 0, curStmt, TRUE)
    BY <2>1, <2>3, CallLevels
  <2> QED
    BY <1>3, <2>2, <2>3 DEF ImmediateCall
<1> QED
  BY <1>1, <1>2, <1>3 DEF User

\* r.level and the frames of the calls move together in every step of every program but the
\* calls that have no frame: what a call that returns took, it gives back.
THEOREM LevelsAreGivenBack == Spec => LevelsFollowFrames
<1>1. IInv /\ [Next]_vars =>
        [level' + Len(userDefStack) # level + Len(userDefStack') =>
           \/ CallsWithoutFrame /\ level' = level + 1 /\ userDefStack' = userDefStack
           \/ level' = 0 /\ userDefStack' = <<>>]_vars
  BY StepLevels, UserLevels DEF Next, LevelKept
<1> QED
  BY <1>1, Inductive, PTL DEF Spec, LevelsFollowFrames
-----------------------------------------------------------------------------
(* The FOR stack.  executeFor evaluates the bounds of a loop between the    *)
(* moment it looks for an older entry of the variable and the moment it     *)
(* pushes the new one, and the bounds may call a function.                  *)

\* A call in progress that evaluates the bounds of a FOR.
CallsFromBounds(f) == ~ f.prompt /\ Prog[f.call].op = "FOR"

InBounds == \E k \in DOMAIN acts : CallsFromBounds(acts[k])

\* No other FOR is executed while the bounds of one are evaluated.
NoLoopInBounds == mode = "running" /\ InBounds => Op # "FOR"

Distinct(s) ==
  /\ Len(s) <= forStackMax
  /\ \A j, k \in DOMAIN s : Prog[s[j].stmt].var = Prog[s[k].stmt].var => j = k

\* The loop of statement i can be pushed.
Room(s, i) ==
  /\ Len(s) < forStackMax
  /\ \A k \in DOMAIN s : Prog[s[k].stmt].var # Prog[i].var

BoundsKnown == mode = "running" /\ pc = "after" /\ Op = "FOR"

\* There is room for the loops whose bounds are being evaluated or are known.
LoopInv ==
  /\ Distinct(forStack)
  /\ BoundsKnown => Room(forStack, curStmt)
  /\ \A k \in DOMAIN acts : CallsFromBounds(acts[k]) => Room(forStack, acts[k].call)

\* What is left of a stack.
Shrinks(t, s) ==
  /\ Len(t) <= Len(s)
  /\ \A k \in DOMAIN t : k \in DOMAIN s /\ t[k].stmt = s[k].stmt

LEMMA ShrinkKeepsRoom ==
  ASSUME NEW s, NEW t, GoodLoops(s), GoodLoops(t), Shrinks(t, s)
  PROVE  /\ Distinct(s) => Distinct(t)
         /\ \A i : Room(s, i) => Room(t, i)
<1>1. Len(s) \in Nat /\ Len(t) \in Nat /\ forStackMax \in Nat
  BY LenProperties, BoundsAssumption DEF GoodLoops
<1> QED
  BY <1>1 DEF Shrinks, Distinct, Room

\* Min of a set of naturals is the least of them.
LEMMA MinIsLeast ==
  ASSUME NEW S \in SUBSET Nat, NEW y \in S
  PROVE  Min(S) <= y
<1>1. \E x \in S : \A z \in S : ~ (<<z, x>> \in OpToRel(<, Nat))
  BY WFMin, NatLessThanWellFounded
<1>2. \E x \in S : \A z \in S : x =< z
  <2>1. PICK x \in S : \A z \in S : ~ (<<z, x>> \in OpToRel(<, Nat))
    BY <1>1
  <2>2. ASSUME NEW z \in S PROVE ~ (z < x)
    <3>1. <<z, x>> \in Nat \X Nat /\ <<z, x>>[1] = z /\ <<z, x>>[2] = x
      OBVIOUS
    <3>2. QED
      BY <2>1, <3>1, Zenon DEF OpToRel
  <2>3. QED
    BY <2>2
<1>3. QED
  BY <1>2 DEF Min

\* Popping shrinks, and takes entry k with it.
LEMMA PopShrinks ==
  ASSUME NEW s, GoodLoops(s), NEW k \in Nat, k # 0
  PROVE  /\ Shrinks(popForStackEntry(s, k), s)
         /\ \A j \in DOMAIN popForStackEntry(s, k) : k <= Len(s) => j < k
         /\ k <= Len(s) => Len(popForStackEntry(s, k)) = k - 1
<1>1. s \in Seq(ForEntry) /\ Len(s) \in Nat /\ DOMAIN s = 1 .. Len(s)
  BY LenProperties DEF GoodLoops
<1>2. CASE k > Len(s)
  BY <1>1, <1>2 DEF popForStackEntry, Shrinks
<1>3. CASE ~ (k > Len(s))
  <2> DEFINE n == k - 1
             t == SubSeq(s, 1, n)
  <2>1. n \in Nat /\ n <= Len(s) /\ n < k
    BY <1>1, <1>3
  <2>2. popForStackEntry(s, k) = t
    BY <1>3 DEF popForStackEntry
  <2> HIDE DEF n
  <2>3. Len(t) = n /\ DOMAIN t = 1 .. n /\ \A j \in 1 .. n : t[j] = s[j]
    BY <1>1, <2>1, PrefixProperties
  <2> HIDE DEF t
  <2>4. Shrinks(t, s)
    BY <1>1, <2>1, <2>3 DEF Shrinks
  <2>5. \A j \in DOMAIN t : j < k
    BY <2>1, <2>3
  <2> QED
    BY <2>2, <2>3, <2>4, <2>5 DEF n
<1> QED
  BY <1>2, <1>3

\* Leaving loops by a transfer.
LEMMA ExitShrinks ==
  ASSUME GoodLoops(forStack), NEW no
  PROVE  Shrinks(checkForExit(no), forStack)
<1> DEFINE within(ln, e) == Prog[e.stmt].line <= ln /\ ln <= Prog[e.next].line
           left == {k \in DOMAIN forStack : /\ within(Prog[curStmt].line, forStack[k])
                                            /\ ~ within(no, forStack[k])}
<1>1. checkForExit(no) = IF left = {} THEN forStack ELSE popForStackEntry(forStack, Min(left))
  BY DEF checkForExit
<1>2. DOMAIN forStack = 1 .. Len(forStack) /\ Len(forStack) \in Nat
  BY LenProperties DEF GoodLoops
<1>3. left \subseteq DOMAIN forStack
  OBVIOUS
<1> HIDE DEF left
<1>5. CASE left = {}
  BY <1>1, <1>2, <1>5 DEF Shrinks
<1>6. CASE left # {}
  <2>1. left \in SUBSET Nat
    BY <1>2, <1>3
  <2>2. Min(left) \in left
    BY <1>6, <2>1, MinIsMember
  <2>3. Min(left) \in Nat /\ Min(left) # 0
    BY <1>2, <1>3, <2>2
  <2> QED
    BY <1>1, <1>6, <2>3, PopShrinks
<1> QED
  BY <1>5, <1>6

\* Dropping the first entry of a variable, and all above it, drops every entry of it.
LEMMA DropMakesRoom ==
  ASSUME NEW s, GoodLoops(s), NEW v, NEW k, k = findForStackEntryVar(s, v)
  PROVE  LET rest == IF k = 0 THEN s ELSE popForStackEntry(s, k)
         IN  /\ Shrinks(rest, s)
             /\ \A j \in DOMAIN rest : Prog[rest[j].stmt].var # v
             /\ k # 0 => Len(rest) = k - 1
<1> DEFINE hits == {j \in DOMAIN s : Prog[s[j].stmt].var = v}
<1>1. DOMAIN s = 1 .. Len(s) /\ Len(s) \in Nat
  BY LenProperties DEF GoodLoops
<1>2. hits \in SUBSET Nat /\ hits \subseteq DOMAIN s
  BY <1>1
<1>3. \A j \in DOMAIN s : Prog[s[j].stmt].var = v <=> j \in hits
  OBVIOUS
<1>4. k = IF hits = {} THEN 0 ELSE Min(hits)
  BY DEF findForStackEntryVar
<1> HIDE DEF hits
<1>5. CASE hits = {}
  BY <1>1, <1>3, <1>4, <1>5 DEF Shrinks
<1>6. CASE hits # {}
  <2>1. k \in hits /\ k = Min(hits)
    BY <1>2, <1>4, <1>6, MinIsMember
  <2>2. k \in Nat /\ k # 0 /\ k <= Len(s)
    BY <1>1, <1>2, <2>1
  <2> DEFINE rest == popForStackEntry(s, k)
  <2>3. /\ Shrinks(rest, s) /\ Len(rest) = k - 1
        /\ \A j \in DOMAIN rest : j < k
    BY <2>2, PopShrinks
  <2> HIDE DEF rest
  <2>4. ASSUME NEW j \in DOMAIN rest PROVE Prog[rest[j].stmt].var # v
    <3>1. j \in DOMAIN s /\ rest[j].stmt = s[j].stmt /\ j < k
      BY <2>3 DEF Shrinks
    <3>2. j \notin hits
      BY <1>1, <1>2, <2>1, <2>2, <3>1, MinIsLeast
    <3> QED
      BY <1>3, <3>1, <3>2
  <2> QED
    BY <2>2, <2>3, <2>4 DEF rest
<1> QED
  BY <1>5, <1>6

\* What every step does but those that evaluate, fetch or return.
Lands == pc' = "fetch" /\ (acts' = acts \/ acts' = <<>>)

LEMMA JumpLands ==
  ASSUME NEW i, NEW a, Jump(i, a)
  PROVE  Lands
BY DEF Jump, Lands

LEMMA RaiseLands ==
  ASSUME NEW old, NEW kind, RaiseOver(old, kind)
  PROVE  Lands
BY JumpLands DEF RaiseOver, Uncaught, Unwind, Lands

LEMMA FaultLands ==
  /\ \A kind : Raise(kind) => Lands
  /\ \A kinds : StmtFault(kinds) => Lands
  /\ RaiseInResume => Lands
BY RaiseLands DEF Raise, StmtFault, RaiseInResume

LEMMA TransferLands ==
  /\ Advance => Lands
  /\ \A no : ToLine(no) => Lands
  /\ \A no : executeGosub(no) => Lands
BY JumpLands, FaultLands DEF Advance, ToLine, executeGosub

LEMMA StopLands == ASSUME Stop PROVE Lands
BY DEF Stop, Lands

LEMMA IfLands == ASSUME ExecIf PROVE Lands
<1>1. CASE Advance \/ StmtFault(WorkFaults) \/ Stop
  BY <1>1, TransferLands, FaultLands, StopLands
<1>2. CASE IfGoto \/ IfGosub
  BY <1>2, TransferLands, FaultLands DEF IfGoto, IfGosub
<1>3. CASE IfResume
  BY <1>3, JumpLands, FaultLands DEF IfResume
<1> QED
  BY <1>1, <1>2, <1>3 DEF ExecIf

LEMMA StepLands ==
  ASSUME Step
  PROVE  Lands \/ Fetch \/ EvalPlain \/ InitFor \/ (FinishCall /\ acts # <<>> /\ Op # "FOR")
<1>1. CASE checkInterrupts \/ DonePlain \/ ExecInput
  BY <1>1, TransferLands, FaultLands DEF checkInterrupts, DonePlain, ExecInput
<1>2. CASE EnterFor \/ IterateFor \/ ExecNext
  BY <1>2, TransferLands, FaultLands, JumpLands DEF EnterFor, IterateFor, ExecNext
<1>3. CASE ExecGoto \/ ExecGosub \/ ExecReturn \/ ExecOn
  BY <1>3, TransferLands, FaultLands, JumpLands DEF ExecGoto, ExecGosub, ExecReturn, ExecOn
<1>4. CASE ExecIf \/ ExecStop
  BY <1>4, IfLands, StopLands DEF ExecStop
<1>5. CASE ExecResume \/ ExecOnError \/ ExecDef
  BY <1>5, FaultLands, JumpLands DEF ExecResume, ExecOnError, ExecDef
<1>6. CASE ExecEnd \/ StrayFnend
  BY <1>6 DEF ExecEnd, StrayFnend, FinishProgram, callVars, Lands
<1>7. CASE ReturnFromFunction \/ ResumeNowhere
  BY <1>7 DEF ReturnFromFunction, ResumeNowhere, FinishProgram, callVars, Lands, At
<1> QED
  BY <1>1, <1>2, <1>3, <1>4, <1>5, <1>6, <1>7 DEF Step

\* What the statements other than a FOR do to the stack: END empties it, a transfer drops the
\* loops whose lines it leaves, a NEXT marks an entry.
LEMMA OthersShrink ==
  ASSUME IInv, Step, Op # "FOR"
  PROVE  Shrinks(forStack', forStack)
<1>1. GoodLoops(forStack) /\ Len(forStack) \in Nat
  BY DataNow, LenProperties DEF GoodLoops
<1>2. CASE forStack' = forStack
  BY <1>1, <1>2 DEF Shrinks
<1>3. ASSUME NEW no, forStack' = checkForExit(no)
      PROVE  Shrinks(forStack', forStack)
  BY <1>1, <1>3, ExitShrinks
<1>4. CASE ExecNext
  <2> DEFINE k == findForStackEntryVar(forStack, Prog[curStmt].var)
  <2>1. k = 0 => forStack' = forStack
    BY <1>4 DEF ExecNext
  <2>2. k # 0 => forStack' = forStack \/ forStack' = [forStack EXCEPT ![k].saved = TRUE]
    BY <1>4 DEF ExecNext
  <2>3. k # 0 => k \in DOMAIN forStack
    BY <1>1, FindEntry
  <2> HIDE DEF k
  <2>4. CASE k # 0 /\ forStack' = [forStack EXCEPT ![k].saved = TRUE]
    <3>1. /\ DOMAIN forStack' = DOMAIN forStack /\ Len(forStack') = Len(forStack)
          /\ \A j \in DOMAIN forStack : forStack'[j].stmt = forStack[j].stmt
      BY <1>1, <2>3, <2>4, MarkKeepsLoops
    <3> QED
      BY <1>1, <3>1 DEF Shrinks
  <2> QED
    BY <1>2, <2>1, <2>2, <2>4
<1>5. CASE ExecGoto
  BY <1>2, <1>3, <1>5 DEF ExecGoto
<1>6. CASE ExecIf
  BY <1>2, <1>3, <1>6 DEF ExecIf, IfGoto, IfGosub, IfResume, Stop
<1>7. CASE ExecEnd
  BY <1>1, <1>7, EmptySeq DEF ExecEnd, initializeRun, Shrinks
<1>8. CASE InitFor \/ EnterFor \/ IterateFor
  BY <1>8 DEF InitFor, EnterFor, IterateFor, At
<1>9. CASE ~ (ExecNext \/ ExecGoto \/ ExecIf \/ ExecEnd \/ InitFor \/ EnterFor \/ IterateFor)
  BY <1>2, <1>9 DEF Step, Fetch, checkInterrupts, EvalPlain, DonePlain, ExecInput, loopVars,
     ExecGosub, ExecReturn, ExecOn, ExecResume, ExecOnError, ExecStop, Stop, ExecDef,
     ReturnFromFunction, StrayFnend, ResumeNowhere, FinishCall, FinishProgram
<1> QED
  BY <1>4, <1>5, <1>6, <1>7, <1>8, <1>9

\* What is left of a stack has the room that the stack had.
LEMMA LandingLoops ==
  ASSUME IInv, LoopInv, Lands, GoodLoops(forStack'), Shrinks(forStack', forStack)
  PROVE  LoopInv'
<1>1. Distinct(forStack') /\ \A i : Room(forStack, i) => Room(forStack', i)
  BY DataNow, ShrinkKeepsRoom DEF LoopInv
<1>2. ~ BoundsKnown'
  BY DEF Lands, BoundsKnown
<1>3. \A k \in DOMAIN acts' : k \in DOMAIN acts /\ acts'[k] = acts[k]
  BY DEF Lands
<1> QED
  BY <1>1, <1>2, <1>3 DEF LoopInv

\* A new frame on top of the calls in progress.
LEMMA FramesOfCall ==
  ASSUME IInv, NEW f, acts' = Append(acts, f), NEW k \in DOMAIN acts'
  PROVE  acts'[k] = f \/ (k \in DOMAIN acts /\ acts'[k] = acts[k])
<1>1. acts \in Seq(Frame) /\ Len(acts) \in Nat /\ DOMAIN acts = 1 .. Len(acts)
  BY LenProperties DEF IInv, ControlInv, GoodActs
<1>2. DOMAIN Append(acts, f) = 1 .. Len(acts) + 1
  BY <1>1
<1>3. CASE k = Len(acts) + 1
  BY <1>1, <1>3
<1>4. CASE k # Len(acts) + 1
  BY <1>1, <1>2, <1>4
<1> QED
  BY <1>3, <1>4

\* Evaluating suspends the statement, or goes on in it, or fails.
LEMMA EvaluateShapes ==
  ASSUME IInv, mode = "running", NEW k, Evaluate(k)
  PROVE  \/ Lands
         \/ mode' = "running" /\ pc' = "after" /\ fsIdx' = k /\ curStmt' = curStmt /\ acts' = acts
         \/ pc' = "fetch" /\ \E f : /\ f.call = curStmt /\ f.idx = k /\ ~ f.prompt
                                    /\ acts' = Append(acts, f)
<1> DEFINE d == Prog[curStmt].fn
<1>1. CASE /\ pc' = "after" /\ fsIdx' = k
           /\ UNCHANGED <<mode, curStmt, nextStmt, arg, gosubStack, callVars, onErrorStmtNo,
                          fip, interrupted, out>>
  BY <1>1 DEF callVars
<1>2. CASE Raise("fatal") \/ StmtFault({"badcall"})
  BY <1>2, FaultLands
<1>3. CASE CallFunction(d, k, curStmt, FALSE)
  <2>1. CASE Prog[d].fnend = Nil
    BY <1>3, <2>1 DEF CallFunction
  <2>2. CASE Prog[d].fnend # Nil
    <3> DEFINE f == [call |-> curStmt, fn |-> d, onErr |-> onErrorStmtNo, idx |-> k,
                     prompt |-> FALSE]
    <3>1. pc' = "fetch" /\ acts' = Append(acts, f)
      BY <1>3, <2>2 DEF CallFunction, executeRunInternal
    <3>2. f.call = curStmt /\ f.idx = k /\ ~ f.prompt
      OBVIOUS
    <3> QED
      BY <3>1, <3>2
  <2> QED
    BY <2>1, <2>2
<1> QED
  BY <1>1, <1>2, <1>3 DEF Evaluate

\* PLAIN is not a FOR, and leaves the stack alone.
LEMMA PlainLoops ==
  ASSUME IInv, EvalPlain
  PROVE  LoopInv => LoopInv'
<1>1. /\ mode = "running" /\ Op = "PLAIN" /\ Evaluate(0) /\ forStack' = forStack
      /\ GoodLoops(forStack) /\ Len(forStack) \in Nat
  BY DataNow, LenProperties DEF EvalPlain, At, GoodLoops
<1>2. CASE Lands
  BY <1>1, <1>2, LandingLoops DEF Shrinks
<1>3. CASE curStmt' = curStmt /\ acts' = acts
  BY <1>1, <1>3 DEF LoopInv, BoundsKnown, Op
<1>4. CASE pc' = "fetch" /\ \E f : /\ f.call = curStmt /\ f.idx = 0 /\ ~ f.prompt
                                   /\ acts' = Append(acts, f)
  <2>1. PICK f : f.call = curStmt /\ acts' = Append(acts, f)
    BY <1>4
  <2>2. ~ CallsFromBounds(f) /\ ~ BoundsKnown'
    BY <1>1, <1>4, <2>1 DEF CallsFromBounds, Op, BoundsKnown
  <2>3. \A k \in DOMAIN acts' : acts'[k] = f \/ (k \in DOMAIN acts /\ acts'[k] = acts[k])
    BY <2>1, FramesOfCall
  <2> QED
    BY <1>1, <2>2, <2>3 DEF LoopInv
<1> QED
  BY <1>1, <1>2, <1>3, <1>4, EvaluateShapes

\* A FOR makes room before it evaluates its bounds.
LEMMA InitForLoops ==
  ASSUME IInv, ~ InBounds, InitFor
  PROVE  LoopInv => LoopInv'
<1> DEFINE k    == findForStackEntryVar(forStack, Prog[curStmt].var)
           rest == IF k = 0 THEN forStack ELSE popForStackEntry(forStack, k)
<1>1. mode = "running" /\ Op = "FOR" /\ GoodLoops(forStack)
  BY DataNow DEF InitFor, At
<1>2. /\ Shrinks(rest, forStack) /\ GoodLoops(rest)
      /\ \A j \in DOMAIN rest : Prog[rest[j].stmt].var # Prog[curStmt].var
      /\ k # 0 => Len(rest) = k - 1
  BY <1>1, DropMakesRoom, FindEntry, PopKeepsLoops
<1>3. Shrinks(forStack, forStack) /\ k \in Nat /\ forStackMax \in Nat
      /\ Len(rest) \in Nat /\ rest \in Seq(ForEntry)
  BY <1>1, <1>2, FindEntry, LenProperties, BoundsAssumption DEF Shrinks, GoodLoops
<1>4. \/ Raise("fatal") /\ forStack' = forStack
      \/ Raise("fatal") /\ forStack' = rest
      \/ ~ (Len(rest) >= forStackMax) /\ Evaluate(k) /\ forStack' = rest
  BY DEF InitFor
<1> HIDE DEF k, rest
<1>6. CASE Lands /\ (forStack' = forStack \/ forStack' = rest)
  BY <1>1, <1>2, <1>3, <1>6, LandingLoops
  DEF Lands, BoundsKnown, InBounds
<1>7. CASE Evaluate(k) /\ forStack' = rest /\ ~ (Len(rest) >= forStackMax) /\ ~ Lands
  <2>1. Room(forStack', curStmt)
    BY <1>2, <1>3, <1>7 DEF Room
  <2>2. ASSUME LoopInv PROVE Distinct(forStack')
    BY <1>1, <1>2, <1>7, <2>2, ShrinkKeepsRoom DEF LoopInv
  <2>3. CASE pc' = "after" /\ fsIdx' = k /\ curStmt' = curStmt /\ acts' = acts
    BY <1>7, <2>1, <2>2, <2>3 DEF LoopInv, BoundsKnown, InBounds
  <2>4. CASE pc' = "fetch" /\ \E f : /\ f.call = curStmt /\ f.idx = k /\ ~ f.prompt
                                     /\ acts' = Append(acts, f)
    <3>1. PICK f : f.call = curStmt /\ f.idx = k /\ acts' = Append(acts, f)
      BY <2>4
    <3>2. \A j \in DOMAIN acts' : acts'[j] = f \/ (j \in DOMAIN acts /\ acts'[j] = acts[j])
      BY <3>1, FramesOfCall
    <3>3. ~ BoundsKnown'
      BY <2>4 DEF BoundsKnown
    <3>4. \A j \in DOMAIN acts' : CallsFromBounds(acts'[j]) => acts'[j] = f
      BY <3>2 DEF InBounds
    <3> QED
      BY <1>7, <2>1, <2>2, <3>1, <3>3, <3>4 DEF LoopInv
  <2> QED
    BY <1>1, <1>7, <2>3, <2>4, EvaluateShapes
<1>8. Raise("fatal") => Lands
  BY FaultLands
<1> QED
  BY <1>4, <1>6, <1>7, <1>8, <1>3

\* Pushing a loop there is room for.
LEMMA PushKeepsDistinct ==
  ASSUME NEW s, GoodLoops(s), Distinct(s), NEW e \in ForEntry, Room(s, e.stmt)
  PROVE  Distinct(Append(s, e))
<1>1. s \in Seq(ForEntry) /\ Len(s) \in Nat /\ DOMAIN s = 1 .. Len(s) /\ forStackMax \in Nat
  BY LenProperties, BoundsAssumption DEF GoodLoops
<1> DEFINE t == Append(s, e)
<1>2. Len(t) = Len(s) + 1 /\ t[Len(s) + 1] = e /\ \A j \in 1 .. Len(s) : t[j] = s[j]
  BY <1>1, AppendProperties
<1>3. DOMAIN t = 1 .. Len(s) + 1
  BY <1>1
<1> HIDE DEF t
<1>4. Len(t) <= forStackMax
  BY <1>1, <1>2 DEF Room
<1>5. ASSUME NEW j \in DOMAIN t, NEW k \in DOMAIN t, Prog[t[j].stmt].var = Prog[t[k].stmt].var
      PROVE  j = k
  <2>1. CASE j \in 1 .. Len(s) /\ k \in 1 .. Len(s)
    BY <1>1, <1>2, <1>5, <2>1 DEF Distinct
  <2>2. CASE j \in 1 .. Len(s) /\ k = Len(s) + 1
    BY <1>1, <1>2, <1>5, <2>2 DEF Room
  <2>3. CASE j = Len(s) + 1 /\ k \in 1 .. Len(s)
    BY <1>1, <1>2, <1>5, <2>3 DEF Room
  <2>4. CASE j = Len(s) + 1 /\ k = Len(s) + 1
    BY <2>4
  <2> QED
    BY <1>1, <1>3, <2>1, <2>2, <2>3, <2>4
<1> QED
  BY <1>4, <1>5 DEF Distinct, t

\* A FOR pushes its entry while no other FOR is waiting for its bounds.
LEMMA EnterForLoops ==
  ASSUME IInv, LoopInv, ~ InBounds, EnterFor
  PROVE  LoopInv'
<1> DEFINE entry == [stmt |-> curStmt, next |-> findNext(curStmt), saved |-> FALSE]
           stack == Append(forStack, entry)
           k     == IF fsIdx = 0 THEN Len(stack) ELSE fsIdx
<1>1. mode = "running" /\ Op = "FOR" /\ BoundsKnown
  BY DEF EnterFor, At, BoundsKnown
<1>2. /\ curStmt \in Stmts /\ GoodLoops(forStack) /\ fsIdx \in Nat
      /\ Distinct(forStack) /\ Room(forStack, curStmt)
  BY <1>1, DataNow DEF IInv, ControlInv, LoopInv
<1>3. ASSUME findNext(curStmt) # Nil
      PROVE  Distinct(stack) /\ Distinct(popForStackEntry(stack, k))
  <2>1. findNext(curStmt) \in Stmts /\ Prog[findNext(curStmt)].op \in {"FOR", "NEXT"}
    BY <1>2, <1>3, FindNextType
  <2>2. entry \in ForEntry /\ entry.stmt = curStmt
    BY <1>2, <2>1 DEF ForEntry
  <2>3. GoodLoops(stack) /\ Len(stack) \in Nat /\ Len(stack) # 0
    <3>1. GoodLoops(stack) /\ Len(stack) \in Nat
      BY <1>1, <1>2, <2>1, <2>2, PushKeepsLoops DEF Op
    <3>2. Len(stack) = Len(forStack) + 1 /\ Len(forStack) \in Nat
      BY <1>2, LenProperties DEF GoodLoops
    <3> QED
      BY <3>1, <3>2
  <2>4. Distinct(stack)
    BY <1>2, <2>2, PushKeepsDistinct
  <2>5. k \in Nat /\ k # 0
    BY <1>2, <2>3
  <2> HIDE DEF k, stack
  <2>6. Shrinks(popForStackEntry(stack, k), stack) /\ GoodLoops(popForStackEntry(stack, k))
    BY <2>3, <2>5, PopShrinks, PopKeepsLoops
  <2> QED
    BY <2>3, <2>4, <2>6, ShrinkKeepsRoom
<1>4. \/ forStack' = forStack
      \/ /\ findNext(curStmt) # Nil
         /\ forStack' = stack \/ forStack' = popForStackEntry(stack, k)
  BY DEF EnterFor
<1>5. Lands
  BY FaultLands, TransferLands, JumpLands DEF EnterFor
<1>6. Distinct(forStack')
  BY <1>2, <1>3, <1>4
<1> QED
  BY <1>5, <1>6 DEF Lands, LoopInv, BoundsKnown, InBounds

LEMMA IterateForLoops ==
  ASSUME IInv, LoopInv, IterateFor
  PROVE  LoopInv'
<1> DEFINE k == findForStackEntryVar(forStack, Prog[curStmt].var)
<1>1. GoodLoops(forStack) /\ k \in Nat /\ k # 0
  BY DataNow, FindEntry DEF IterateFor, IInv, IterationFindsItsLoop
<1>2. forStack' = forStack \/ forStack' = popForStackEntry(forStack, k)
  BY DEF IterateFor
<1> HIDE DEF k
<1>3. GoodLoops(forStack') /\ Shrinks(forStack', forStack)
  <2>1. Len(forStack) \in Nat
    BY <1>1, LenProperties DEF GoodLoops
  <2>2. CASE forStack' = forStack
    BY <1>1, <2>1, <2>2 DEF Shrinks
  <2>3. CASE forStack' = popForStackEntry(forStack, k)
    BY <1>1, <2>3, PopShrinks, PopKeepsLoops
  <2> QED
    BY <1>2, <2>2, <2>3
<1>4. Lands
  BY FaultLands, TransferLands, JumpLands DEF IterateFor
<1> QED
  BY <1>3, <1>4, LandingLoops

\* The frame of a call remembers what its FOR waits for.
LEMMA FinishLoops ==
  ASSUME IInv, acts # <<>>, FinishCall
  PROVE  LoopInv => LoopInv'
<1> DEFINE frame == Last(acts)
<1>1. /\ forStack' = forStack /\ curStmt' = frame.call /\ fsIdx' = frame.idx /\ acts' = Front(acts)
      /\ pc' = "after" => ~ frame.prompt
  BY DEF FinishCall
<1>2. /\ Len(acts) \in DOMAIN acts /\ frame = acts[Len(acts)]
      /\ \A k \in DOMAIN Front(acts) : k \in DOMAIN acts /\ Front(acts)[k] = acts[k]
  <2>1. acts \in Seq(Frame)
    BY DEF IInv, ControlInv, GoodActs
  <2>2. /\ Len(acts) \in Nat \ {0} /\ DOMAIN acts = 1 .. Len(acts)
        /\ Last(acts) = acts[Len(acts)] /\ DOMAIN Front(acts) = 1 .. Len(acts) - 1
        /\ \A k \in 1 .. Len(acts) - 1 : Front(acts)[k] = acts[k]
    BY <2>1, FrontProperties
  <2>3. Len(acts) \in DOMAIN acts /\ \A k \in DOMAIN Front(acts) : k \in DOMAIN acts
    BY <2>2
  <2> QED
    BY <2>2, <2>3
<1> HIDE DEF frame
<1>3. BoundsKnown' => CallsFromBounds(frame)
  BY <1>1 DEF BoundsKnown, Op, CallsFromBounds
<1> QED
  BY <1>1, <1>2, <1>3 DEF LoopInv

LEMMA UserLoops ==
  ASSUME IInv, User
  PROVE  LoopInv => LoopInv'
<1>1. CASE Run \/ EditLine
  <2>1. forStack' = <<>> /\ pc' = "fetch" /\ acts' = <<>>
    BY <1>1 DEF IInv, ControlInv, Run, EditLine, initializeRun, executeRunInternal
  <2>2. Distinct(<<>>) /\ DOMAIN <<>> = {}
    BY FreshData, BoundsAssumption DEF Distinct
  <2> QED
    BY <2>1, <2>2 DEF LoopInv, BoundsKnown
<1>2. CASE Cont \/ ImmediateFault \/ SyntaxError
  <2>1. forStack' = forStack /\ pc' = "fetch" /\ acts' = acts
    BY <1>2 DEF IInv, ControlInv, Cont, ImmediateFault, SyntaxError, executeRunInternal, stmtVars, loopVars,
                callVars
  <2> QED
    BY <2>1 DEF LoopInv, BoundsKnown
<1>3. CASE Signal
  BY <1>3 DEF Signal, stmtVars, loopVars, callVars, LoopInv, BoundsKnown, Op
<1>5. CASE ImmediateCall /\ RefusedCall
  <2>1. forStack' = forStack /\ mode' = "prompt" /\ acts' = acts
    BY <1>5 DEF ImmediateCall, RefusedCall
  <2> QED
    BY <2>1 DEF LoopInv, BoundsKnown
<1>4. CASE ImmediateCall /\ ~ RefusedCall
  <2>1. PICK d \in Stmts : CallFunction(d, 0, curStmt, TRUE)
    BY <1>4 DEF ImmediateCall
  <2>2. mode = "prompt" /\ forStack' = forStack
    BY <1>4 DEF ImmediateCall
  <2>3. CASE Prog[d].fnend = Nil
    BY <2>1, <2>2, <2>3 DEF CallFunction, LoopInv, BoundsKnown
  <2>4. CASE Prog[d].fnend # Nil
    <3> DEFINE f == [call |-> curStmt, fn |-> d, onErr |-> onErrorStmtNo, idx |-> 0, prompt |-> TRUE]
    <3>1. pc' = "fetch" /\ acts' = Append(acts, f)
      BY <2>1, <2>4 DEF CallFunction, executeRunInternal
    <3>2. ~ CallsFromBounds(f)
      BY DEF CallsFromBounds
    <3> HIDE DEF f
    <3>3. \A k \in DOMAIN acts' : acts'[k] = f \/ (k \in DOMAIN acts /\ acts'[k] = acts[k])
      BY <3>1, FramesOfCall
    <3> QED
      BY <2>2, <3>1, <3>2, <3>3 DEF LoopInv, BoundsKnown
  <2> QED
    BY <2>3, <2>4
<1> QED
  BY <1>1, <1>2, <1>3, <1>4, <1>5 DEF User

LEMMA FetchLoops ==
  ASSUME Fetch
  PROVE  LoopInv => LoopInv'
BY DEF Fetch, loopVars, callVars, LoopInv, BoundsKnown, Op

\* If no FOR is executed while the bounds of another are evaluated, the stack never holds two
\* loops over one variable, nor more than forStackMax.
THEOREM LoopsAreDistinct == Spec /\ []NoLoopInBounds => []ForLoopsAreDistinct
<1>1. Init => LoopInv
  <2>1. Distinct(<<>>) /\ DOMAIN <<>> = {}
    BY FreshData, BoundsAssumption DEF Distinct
  <2> QED
    BY <2>1 DEF Init, LoopInv, BoundsKnown
<1>2. IInv /\ IInv' /\ NoLoopInBounds /\ LoopInv /\ [Next]_vars => LoopInv'
  <2> SUFFICES ASSUME IInv, IInv', NoLoopInBounds, LoopInv, [Next]_vars PROVE LoopInv'
    OBVIOUS
  <2>1. CASE UNCHANGED vars
    BY <2>1 DEF vars, stmtVars, loopVars, callVars, LoopInv, BoundsKnown, Op
  <2>2. CASE Step /\ Op # "FOR" /\ Lands
    BY <2>2, OthersShrink, LandingLoops DEF IInv, DataInv
  <2>3. CASE Step /\ Op = "FOR"
    <3>1. ~ InBounds
      BY <2>3, StepRuns DEF NoLoopInBounds
    <3>2. CASE Fetch \/ InitFor \/ EnterFor \/ IterateFor
      BY <3>1, <3>2, FetchLoops, InitForLoops, EnterForLoops, IterateForLoops
    <3>3. CASE checkInterrupts
      BY <3>3, LandingLoops, FaultLands, LenProperties, DataNow
      DEF checkInterrupts, loopVars, Shrinks, GoodLoops
    <3> QED
      BY <2>3, <3>2, <3>3
      DEF Step, EvalPlain, DonePlain, ExecInput, ExecNext, ExecGoto, ExecGosub, ExecReturn, ExecOn,
          ExecIf, ExecResume, ExecOnError, ExecStop, ExecEnd, ExecDef, ReturnFromFunction,
          StrayFnend, ResumeNowhere, At
  <2>4. CASE Step /\ ~ Lands /\ Op # "FOR"
    BY <2>4, StepLands, FetchLoops, PlainLoops, FinishLoops DEF InitFor, At
  <2>5. CASE User
    BY <2>5, UserLoops
  <2> QED
    BY <2>1, <2>2, <2>3, <2>4, <2>5 DEF Next
<1>3. LoopInv => ForLoopsAreDistinct
  BY DEF LoopInv, Distinct, ForLoopsAreDistinct
<1> QED
  BY <1>1, <1>2, <1>3, Inductive, PTL DEF Spec

-----------------------------------------------------------------------------
(* Scopes.  checkStmtTargetScope looks at the lines of a transfer, and only *)
(* some transfers are checked: RETURN, RESUME without a line, NEXT and CONT *)
(* go wherever the stacks or the fault say.  What follows shows that the    *)
(* checks are enough for a program in which those four stay at home.        *)

\* Statement i may run in a function, or in the main program (Nil), where a multi-line DEF is
\* met in sequence and skipped.
InScope(i, scope) == IF Prog[i].fnend # Nil THEN scope = Nil ELSE ScopeOf(i) = scope

\* A transfer to a line stays in a scope.  (That the line exists is GoodHandler's concern.)
LineInScope(no, scope) ==
  no # 0 => /\ lookupStmtInUserFunctionList(no) = scope
            /\ Prog[stmtAvlTreeLookup(no)].fnend = Nil

\* The function that is active, and the one that the k-th call was made from.
Top       == IF acts = <<>> THEN Nil ELSE Last(acts).fn
Caller(k) == IF k = 1 THEN Nil ELSE acts[k - 1].fn

\* The program's text: no function names the line of its own DEF, whose lines the check takes
\* for its own and which is skipped up to behind the FNEND; a FOR has its NEXT in its scope.
ClosedFunctions ==
  /\ \A i \in Stmts : ScopeOf(i) # Nil =>
        \A k \in DOMAIN Prog[i].to : Prog[i].to[k] # Prog[ScopeOf(i)].line
  /\ \A i \in Stmts : Prog[i].op = "FOR" /\ findNext(i) # Nil => InScope(findNext(i), ScopeOf(i))

\* RESUME without a line is about to go back to the statement of the fault.
ResumesFault ==
  /\ Op = "RESUME" \/ (Op = "IF" /\ "RESUME" \in Prog[curStmt].subs)
  /\ ResumeLine = 0 /\ fip.stmt # Nil /\ fip.err # "int"

\* The program's run: RETURN, NEXT and RESUME find what belongs to their own scope, and the
\* user does not continue a program that was stopped inside a function.
KeepsToScopes ==
  /\ mode = "running" /\ pc # "fetch" =>
       /\ Op = "RETURN" /\ gosubStack # <<>> => InScope(Last(gosubStack), ScopeOf(curStmt))
       /\ Op \in {"FOR", "NEXT"} =>
            \A k \in DOMAIN forStack :
               Prog[forStack[k].stmt].var = Prog[curStmt].var =>
                  /\ InScope(forStack[k].stmt, ScopeOf(curStmt))
                  /\ InScope(forStack[k].next, ScopeOf(curStmt))
       /\ ResumesFault => InScope(fip.stmt, ScopeOf(curStmt))
  /\ mode = "prompt" /\ "cont" \in UserOps /\ curStmt # Nil /\ nextStmt # Nil =>
       InScope(nextStmt, Nil)

\* The call of a frame, and the handler it puts back, are in the caller's scope.
FramesInScope ==
  \A k \in DOMAIN acts :
     /\ Prog[acts[k].fn].fnend # Nil
     /\ ~ acts[k].prompt => /\ Prog[acts[k].call].fnend = Nil
                            /\ ScopeOf(acts[k].call) = Caller(k)
                            /\ LineInScope(acts[k].onErr, Caller(k))

\* CONT's statement may be that of an outer call, as long as no handler has been set since.
ScopeInv ==
  /\ FramesInScope
  /\ mode = "running" => /\ InScope(curStmt, Top) /\ LineInScope(onErrorStmtNo, Top)
                         /\ onErrorStmtNo = 0 \/ nextStmt \in {Nil, curStmt}
  /\ mode = "prompt" /\ curStmt # Nil /\ nextStmt # Nil =>
       (InScope(nextStmt, Nil) => LineInScope(onErrorStmtNo, Nil))

\* Lines are in the order of the nodes, and DEF, FNEND and STOP have theirs to themselves.
LEMMA LineOrder ==
  ASSUME NEW i \in Stmts, NEW j \in Stmts
  PROVE  /\ Prog[i].line \in Nat /\ Prog[j].line \in Nat /\ i \in Nat /\ j \in Nat
         /\ i < j => Prog[i].line <= Prog[j].line
         /\ Prog[i].line < Prog[j].line => i < j
         /\ Prog[i].line = Prog[j].line /\ Prog[i].op \in {"DEF", "FNEND", "STOP"} => i = j
<1>1. Prog[i].line \in Nat /\ Prog[j].line \in Nat /\ i \in Nat /\ j \in Nat
  BY NodeType, StmtsAreNat DEF StmtNode
<1>2. \A m, n \in Stmts : m < n => Prog[m].line <= Prog[n].line
  BY ProgAssumption
<1>3. i < j \/ i = j \/ j < i
  BY <1>1
<1>4. Prog[i].line = Prog[j].line /\ Prog[i].op \in {"DEF", "FNEND", "STOP"} => i = j
  BY ProgAssumption
<1> QED
  BY <1>1, <1>2, <1>3, <1>4

\* The lines of a multi-line function.
Holds(d, no) ==
  /\ d \in Stmts /\ Prog[d].fnend # Nil
  /\ Prog[d].line <= no /\ no <= Prog[Prog[d].fnend].line

LEMMA FunctionEnds ==
  ASSUME NEW d \in Stmts, Prog[d].fnend # Nil
  PROVE  /\ Prog[d].fnend \in Stmts /\ d < Prog[d].fnend
         /\ Prog[d].op = "DEF" /\ Prog[Prog[d].fnend].op = "FNEND"
         /\ Prog[Prog[d].fnend].fnend = Nil /\ Prog[d].line <= Prog[Prog[d].fnend].line
<1> DEFINE f == Prog[d].fnend
<1>1. f \in Stmts
  BY NodeType DEF StmtNode, Nodes
<1>2. Prog[d].op = "DEF" /\ Prog[f].op = "FNEND" /\ f > d
  BY ProgAssumption
<1>3. Prog[f].fnend = Nil
  BY <1>1, <1>2, ProgAssumption
<1>4. d < f
  BY <1>1, <1>2, LineOrder
<1>5. Prog[d].line <= Prog[f].line
  BY <1>1, <1>4, LineOrder
<1> QED
  BY <1>1, <1>2, <1>3, <1>4, <1>5

\* No line belongs to two functions: processDeclarations refuses nested DEFs.
LEMMA FunctionsAreDisjoint ==
  ASSUME NEW d, NEW e, NEW no \in Nat, Holds(d, no), Holds(e, no)
  PROVE  d = e
<1>1. ASSUME NEW a \in Stmts, NEW b \in Stmts, Holds(a, no), Holds(b, no), a < b
      PROVE  FALSE
  <2> DEFINE f == Prog[a].fnend
  <2>1. f \in Stmts /\ Prog[f].op = "FNEND" /\ Prog[b].op = "DEF"
    BY <1>1, FunctionEnds DEF Holds
  <2>2. Prog[b].line <= no /\ no <= Prog[f].line
    BY <1>1 DEF Holds
  <2>3. Prog[b].line <= Prog[f].line /\ Prog[b].line # Prog[f].line
    BY <2>1, <2>2, LineOrder
  <2>4. b < f
    BY <2>1, <2>3, LineOrder
  <2> QED
    BY <1>1, <2>1, <2>4, ProgAssumption
<1>2. d \in Stmts /\ e \in Stmts /\ d \in Nat /\ e \in Nat
  BY StmtsAreNat DEF Holds
<1> QED
  BY <1>1, <1>2

\* lookupStmtInUserFunctionList finds the function that holds a line.
LEMMA LookupFunction ==
  ASSUME NEW no \in Nat
  PROVE  /\ \A d : Holds(d, no) => lookupStmtInUserFunctionList(no) = d
         /\ lookupStmtInUserFunctionList(no) # Nil => Holds(lookupStmtInUserFunctionList(no), no)
<1> DEFINE hits == {d \in Stmts : /\ Prog[d].fnend # Nil
                                  /\ Prog[d].line <= no /\ no <= Prog[Prog[d].fnend].line}
<1>1. \A d : d \in hits <=> Holds(d, no)
  BY DEF Holds
<1>2. lookupStmtInUserFunctionList(no) = IF hits = {} THEN Nil ELSE CHOOSE d \in hits : TRUE
  BY DEF lookupStmtInUserFunctionList
<1> HIDE DEF hits
<1>3. hits # {} => lookupStmtInUserFunctionList(no) \in hits
  BY <1>2
<1> QED
  BY <1>1, <1>2, <1>3, FunctionsAreDisjoint

\* The scope of a statement.
LEMMA ScopeHolds ==
  ASSUME NEW i \in Stmts
  PROVE  /\ \A d : Holds(d, Prog[i].line) => ScopeOf(i) = d
         /\ ScopeOf(i) # Nil => Holds(ScopeOf(i), Prog[i].line)
BY LineOrder, LookupFunction DEF ScopeOf

\* A function's statements lie between its DEF and its FNEND.
LEMMA ScopeNodes ==
  ASSUME NEW i \in Stmts, NEW d, Holds(d, Prog[i].line), i # d, i # Prog[d].fnend
  PROVE  d < i /\ i < Prog[d].fnend
<1> DEFINE f == Prog[d].fnend
<1>1. d \in Stmts /\ f \in Stmts /\ Prog[d].op = "DEF" /\ Prog[f].op = "FNEND"
  BY FunctionEnds DEF Holds
<1>2. Prog[d].line <= Prog[i].line /\ Prog[i].line <= Prog[f].line
  BY DEF Holds
<1>3. Prog[d].line # Prog[i].line /\ Prog[f].line # Prog[i].line
  BY <1>1, LineOrder
<1>4. Prog[d].line < Prog[i].line /\ Prog[i].line < Prog[f].line
  BY <1>1, <1>2, <1>3, LineOrder
<1> QED
  BY <1>1, <1>4, LineOrder

\* Nodes between the DEF and the FNEND belong to the function.
LEMMA NodesInScope ==
  ASSUME NEW i \in Stmts, NEW d \in Stmts, Prog[d].fnend # Nil, d < i, i <= Prog[d].fnend
  PROVE  Holds(d, Prog[i].line) /\ ScopeOf(i) = d /\ Prog[i].fnend = Nil /\ d # Nil
<1> DEFINE f == Prog[d].fnend
<1>1. f \in Stmts /\ Prog[f].fnend = Nil /\ d # Nil
  BY FunctionEnds, StmtsAreNat DEF Nil
<1>2. i = f \/ i < f
  BY <1>1, LineOrder
<1>3. Prog[d].line <= Prog[i].line /\ Prog[i].line <= Prog[f].line
  BY <1>1, <1>2, LineOrder
<1>4. Holds(d, Prog[i].line)
  BY <1>3 DEF Holds
<1>5. Prog[i].fnend = Nil
  <2>1. CASE i < f
    BY <2>1, ProgAssumption
  <2> QED
    BY <1>1, <1>2, <2>1
<1> QED
  BY <1>1, <1>4, <1>5, ScopeHolds

\* What follows a statement of a function, up to its FNEND, is in the function; what follows a
\* statement of the main program is in the main program, or the DEF of a function.
LEMMA NextInScope ==
  ASSUME NEW i \in Stmts, computeNextStmt(i) # Nil, NEW s, InScope(i, s),
         Prog[i].fnend = Nil, Prog[i].op # "FNEND"
  PROVE  InScope(computeNextStmt(i), s)
<1> DEFINE n == i + 1
<1>1. computeNextStmt(i) = n /\ n \in Stmts /\ i < n /\ i \in Nat
  <2>1. i \in Nat /\ Len(Prog) \in Nat /\ 1 <= i /\ i < Len(Prog)
    BY StmtsAreNat DEF computeNextStmt, Stmts
  <2> QED
    BY <2>1 DEF computeNextStmt, Stmts
<1>2. ScopeOf(i) = s
  BY DEF InScope
<1>0. n = i + 1
  OBVIOUS
<1> HIDE DEF n
<1>3. CASE s # Nil
  <2>1. Holds(s, Prog[i].line)
    BY <1>2, <1>3, ScopeHolds
  <2>2. s \in Stmts /\ Prog[s].fnend # Nil /\ Prog[s].fnend \in Stmts /\ Prog[Prog[s].fnend].op = "FNEND"
    BY <2>1, FunctionEnds DEF Holds
  <2>3. i # s /\ i # Prog[s].fnend
    BY <2>2
  <2>4. s < i /\ i < Prog[s].fnend
    BY <2>1, <2>3, ScopeNodes
  <2>5. s < n /\ n <= Prog[s].fnend
    <3>1. s \in Nat /\ Prog[s].fnend \in Nat
      BY <2>2, StmtsAreNat
    <3> QED
      BY <1>1, <1>0, <2>4, <3>1
  <2> QED
    BY <1>1, <2>2, <2>5, NodesInScope DEF InScope
<1>4. CASE s = Nil
  <2> SUFFICES ASSUME Prog[n].fnend = Nil, ScopeOf(n) # Nil PROVE FALSE
    BY <1>1, <1>4 DEF InScope
  <2> DEFINE d == ScopeOf(n)
  <2>1. Holds(d, Prog[n].line)
    BY <1>1, ScopeHolds
  <2> HIDE DEF d
  <2>2. d \in Stmts /\ Prog[d].fnend # Nil /\ Prog[d].fnend \in Stmts /\ d < Prog[d].fnend
    BY <2>1, FunctionEnds DEF Holds
  <2>3. d # n /\ d \in Nat /\ Prog[d].fnend \in Nat
    BY <2>2, StmtsAreNat
  <2>4. d < n /\ n <= Prog[d].fnend
    <3>1. CASE n = Prog[d].fnend
      BY <2>2, <2>3, <3>1
    <3>2. CASE n # Prog[d].fnend
      <4>1. d < n /\ n < Prog[d].fnend
        BY <1>1, <2>1, <2>3, <3>2, ScopeNodes
      <4> QED
        BY <1>1, <1>0, <2>3, <4>1
    <3> QED
      BY <3>1, <3>2
  <2>5. d < i /\ i <= Prog[d].fnend
    <3>1. d # i
      BY <2>2
    <3> QED
      BY <1>1, <1>0, <2>3, <2>4, <3>1
  <2>6. ScopeOf(i) # Nil
    BY <2>2, <2>5, NodesInScope
  <2> QED
    BY <1>2, <1>4, <2>6
<1> QED
  BY <1>3, <1>4

\* A call starts in the function, and a DEF that is skipped is followed by the main program.
LEMMA BodyInScope ==
  ASSUME NEW d \in Stmts, Prog[d].fnend # Nil
  PROVE  /\ InScope(computeNextStmt(d), d)
         /\ computeNextStmt(Prog[d].fnend) # Nil => InScope(computeNextStmt(Prog[d].fnend), Nil)
<1> DEFINE f == Prog[d].fnend
<1>1. f \in Stmts /\ d < f /\ Prog[f].op = "FNEND" /\ d \in Nat /\ f \in Nat
  BY FunctionEnds, LineOrder
<1>2. computeNextStmt(d) = d + 1 /\ d + 1 \in Stmts /\ d < d + 1 /\ d + 1 <= f
  BY <1>1, StmtsAreNat DEF computeNextStmt, Stmts
<1>3. InScope(computeNextStmt(d), d)
  BY <1>2, NodesInScope DEF InScope
<1>4. ASSUME computeNextStmt(f) # Nil PROVE InScope(computeNextStmt(f), Nil)
  <2> DEFINE n == f + 1
  <2>1. computeNextStmt(f) = n /\ n \in Stmts /\ f < n
    BY <1>1, <1>4, StmtsAreNat DEF computeNextStmt, Stmts
  <2> SUFFICES ASSUME Prog[n].fnend = Nil, ScopeOf(n) # Nil PROVE FALSE
    BY <2>1 DEF InScope
  <2> DEFINE e == ScopeOf(n)
  <2>2. Holds(e, Prog[n].line)
    BY <2>1, ScopeHolds
  <2> HIDE DEF e
  <2>3. /\ e \in Stmts /\ Prog[e].fnend # Nil /\ Prog[e].fnend \in Stmts /\ e < Prog[e].fnend
        /\ e \in Nat /\ Prog[e].fnend \in Nat /\ Prog[e].op = "DEF"
    BY <2>2, FunctionEnds, LineOrder DEF Holds
  <2>4. e # n
    BY <2>3
  <2>5. e < n /\ n <= Prog[e].fnend
    <3>1. CASE n = Prog[e].fnend
      BY <2>3, <3>1
    <3>2. CASE n # Prog[e].fnend
      <4>1. e < n /\ n < Prog[e].fnend
        BY <2>1, <2>2, <2>4, <3>2, ScopeNodes
      <4> QED
        BY <1>1, <2>3, <4>1
    <3> QED
      BY <3>1, <3>2
  <2>6. e < f /\ f < Prog[e].fnend
    <3>1. e # f
      BY <1>1, <2>3
    <3> QED
      BY <1>1, <2>3, <2>5, <3>1
  <2> QED
    BY <1>1, <2>3, <2>6, ProgAssumption
<1> QED
  BY <1>3, <1>4

\* The statement of a line that a transfer may go to.
LEMMA LineTarget ==
  ASSUME NEW no \in Nat \ {0}, NEW s, LineInScope(no, s), stmtAvlTreeLookup(no) # Nil
  PROVE  InScope(stmtAvlTreeLookup(no), s)
<1> DEFINE hits == {i \in Stmts : Prog[i].head /\ Prog[i].line = no}
           t    == stmtAvlTreeLookup(no)
<1>1. t \in hits
  BY DEF stmtAvlTreeLookup
<1>2. Prog[t].line = no
  BY <1>1
<1> HIDE DEF t, hits
<1>3. lookupStmtInUserFunctionList(no) = s /\ Prog[t].fnend = Nil
  BY DEF LineInScope, t
<1> QED
  BY <1>2, <1>3 DEF InScope, ScopeOf, t

\* checkStmtTargetScope keeps the transfers it is asked about in the scope.
LEMMA CheckedTarget ==
  ASSUME ClosedFunctions, curStmt \in Stmts, Prog[curStmt].fnend = Nil, NEW s, InScope(curStmt, s),
         NEW k \in DOMAIN Prog[curStmt].to, checkStmtTargetScope(To(k)),
         stmtAvlTreeLookup(To(k)) # Nil
  PROVE  LineInScope(To(k), s)
<1> DEFINE no   == To(k)
           hits == {i \in Stmts : Prog[i].head /\ Prog[i].line = no}
           t    == stmtAvlTreeLookup(no)
<1>1. t \in Stmts /\ Prog[t].line = no
  BY DEF stmtAvlTreeLookup
<1>2. ScopeOf(curStmt) = s /\ lookupStmtInUserFunctionList(no) = s
  BY DEF InScope, checkStmtTargetScope
<1>3. no = Prog[curStmt].to[k]
  BY DEF To
<1> HIDE DEF no, t
<1>4. no \in Nat
  BY <1>1, LineOrder
<1>5. ASSUME Prog[t].fnend # Nil PROVE FALSE
  <2>1. Holds(t, no)
    BY <1>1, <1>4, <1>5, FunctionEnds DEF Holds
  <2>2. t = s /\ s # Nil
    BY <1>1, <1>2, <1>4, <2>1, LookupFunction, StmtsAreNat DEF Nil
  <2> QED
    BY <1>1, <1>2, <1>3, <2>2 DEF ClosedFunctions
<1> QED
  BY <1>2, <1>5 DEF LineInScope, no, t

\* The line behind a STOP is in the same function.
LEMMA StopsInScope ==
  ASSUME curStmt \in Stmts, Prog[curStmt].op \notin {"DEF", "FNEND"}, NEW s, s # Nil,
         InScope(curStmt, s), NEW n, n = stmtAvlTreeNextStmt(curStmt), n # Nil
  PROVE  ~ InScope(n, Nil)
<1> DEFINE later == {j \in Stmts : j > curStmt /\ Prog[j].head}
           f     == Prog[s].fnend
<1>1. Prog[curStmt].fnend = Nil
  BY FunctionEnds
<1>2. Holds(s, Prog[curStmt].line)
  BY <1>1, ScopeHolds DEF InScope
<1>3. s \in Stmts /\ f \in Stmts /\ Prog[s].fnend # Nil /\ Prog[f].op = "FNEND" /\ Prog[s].op = "DEF"
  BY <1>2, FunctionEnds DEF Holds
<1>4. curStmt # s /\ curStmt # f
  BY <1>3
<1>5. s < curStmt /\ curStmt < f
  BY <1>2, <1>4, ScopeNodes
<1>6. curStmt \in Nat /\ s \in Nat /\ f \in Nat /\ later \in SUBSET Nat
  BY <1>3, StmtsAreNat
<1>7. f \in later
  BY <1>3, <1>5, <1>6, ProgAssumption
<1>8. later # {} /\ n = Min(later)
  BY <1>7 DEF stmtAvlTreeNextStmt
<1>9. n \in later /\ n <= f
  BY <1>6, <1>7, <1>8, MinIsMember, MinIsLeast
<1>10. n \in Stmts /\ s < n
  BY <1>5, <1>6, <1>9
<1> QED
  BY <1>3, <1>9, <1>10, NodesInScope DEF InScope

-----------------------------------------------------------------------------
(* The steps and their scopes.                                              *)

\* The active function is one of several lines.
LEMMA TopIsFunction ==
  ASSUME IInv, FramesInScope
  PROVE  /\ acts = <<>> => Top = Nil
         /\ acts # <<>> => Top \in Stmts /\ Top # Nil /\ Prog[Top].fnend # Nil /\ Top = acts[Len(acts)].fn
<1>1. acts \in Seq(Frame)
  BY DEF IInv, ControlInv, GoodActs
<1>2. ASSUME acts # <<>>
      PROVE  Last(acts) = acts[Len(acts)] /\ Last(acts).fn \in Stmts /\ Prog[Last(acts).fn].fnend # Nil
  <2>1. Last(acts) \in Frame /\ Last(acts) = acts[Len(acts)] /\ Len(acts) \in DOMAIN acts
    BY <1>1, <1>2, FrontProperties
  <2> QED
    BY <2>1 DEF Frame, FramesInScope
<1> QED
  BY <1>2, StmtsAreNat DEF Top, Nil

\* Control moves to a statement of the scope.
LEMMA MoveInScope ==
  ASSUME ScopeInv, mode = "running", mode' = "running", acts' = acts,
         nextStmt' = curStmt' \/ onErrorStmtNo' = 0 \/ nextStmt' = Nil,
         InScope(curStmt', Top), LineInScope(onErrorStmtNo', Top)
  PROVE  ScopeInv'
<1>1. FramesInScope' /\ Top' = Top
  BY DEF ScopeInv, FramesInScope, Caller, Top
<1>2. InScope(curStmt', Top') /\ LineInScope(onErrorStmtNo', Top')
  BY <1>1
<1> QED
  BY <1>1, <1>2 DEF ScopeInv, InScope, LineInScope, ScopeOf

LEMMA JumpInScope ==
  ASSUME ScopeInv, mode = "running", NEW i, NEW a, Jump(i, a), InScope(i, Top),
         onErrorStmtNo' = onErrorStmtNo
  PROVE  ScopeInv'
BY MoveInScope DEF Jump, ScopeInv

\* At the prompt, and not to be continued.
LEMMA EndInScope ==
  ASSUME mode' = "prompt", acts' = <<>>, curStmt' = Nil \/ nextStmt' = Nil
  PROVE  ScopeInv'
BY DEF ScopeInv, FramesInScope

\* A fault goes to a handler of the scope, or to the prompt.
LEMMA RaiseInScope ==
  ASSUME IInv, ScopeInv, mode = "running", NEW old, NEW kind, RaiseOver(old, kind)
  PROVE  ScopeInv'
<1>1. onErrorStmtNo' = onErrorStmtNo
  BY DEF RaiseOver
<1>2. CASE catchable(old, kind) /\ onErrorStmtNo # 0
  <2>1. Jump(stmtAvlTreeLookup(onErrorStmtNo), FALSE)
    BY <1>2 DEF RaiseOver
  <2>2. onErrorStmtNo \in Nat \ {0} /\ stmtAvlTreeLookup(onErrorStmtNo) # Nil
    BY <1>2, DataNow DEF GoodHandler
  <2>3. InScope(stmtAvlTreeLookup(onErrorStmtNo), Top)
    BY <2>2, LineTarget DEF ScopeInv
  <2> QED
    BY <1>1, <2>1, <2>3, JumpInScope
<1>3. CASE ~ (catchable(old, kind) /\ onErrorStmtNo # 0)
  <2>1. \E fault : Uncaught(kind, fault)
    BY <1>3 DEF RaiseOver
  <2>2. /\ mode' = "prompt" /\ acts' = <<>> /\ nextStmt' = nextStmt
        /\ curStmt' = curStmt \/ curStmt' = Nil
    BY <2>1 DEF Uncaught, Unwind
  <2>3. ASSUME onErrorStmtNo # 0, nextStmt # Nil, InScope(nextStmt, Nil)
        PROVE  LineInScope(onErrorStmtNo, Nil)
    <3>1. nextStmt = curStmt /\ InScope(curStmt, Top) /\ LineInScope(onErrorStmtNo, Top)
      BY <2>3 DEF ScopeInv
    <3>2. CASE Prog[curStmt].fnend # Nil
      BY <3>1, <3>2 DEF InScope
    <3>3. CASE Prog[curStmt].fnend = Nil
      BY <2>3, <3>1, <3>3 DEF InScope
    <3> QED
      BY <3>1, <3>2, <3>3
  <2>4. InScope(nextStmt', Nil) /\ nextStmt' # Nil => LineInScope(onErrorStmtNo', Nil)
    BY <1>1, <2>2, <2>3 DEF LineInScope
  <2> QED
    BY <2>2, <2>4 DEF ScopeInv, FramesInScope, InScope, LineInScope, ScopeOf
<1> QED
  BY <1>2, <1>3

LEMMA FaultInScope ==
  ASSUME IInv, ScopeInv, mode = "running"
  PROVE  /\ \A kind : Raise(kind) => ScopeInv'
         /\ \A kinds : StmtFault(kinds) => ScopeInv'
         /\ RaiseInResume => ScopeInv'
BY RaiseInScope DEF Raise, StmtFault, RaiseInResume

\* STOP.
LEMMA StopInScope ==
  ASSUME IInv, ScopeInv, mode = "running", Op \in {"IF", "STOP"}, Stop
  PROVE  ScopeInv'
<1>1. /\ mode' = "prompt" /\ acts' = <<>> /\ nextStmt' = stmtAvlTreeNextStmt(curStmt)
      /\ onErrorStmtNo' = onErrorStmtNo
  BY DEF Stop
<1>2. /\ curStmt \in Stmts /\ InScope(curStmt, Top) /\ LineInScope(onErrorStmtNo, Top)
      /\ Prog[curStmt].op \notin {"DEF", "FNEND"}
  BY DEF IInv, ControlInv, ScopeInv, Op
<1>3. Top = Nil \/ nextStmt' = Nil \/ ~ InScope(nextStmt', Nil)
  BY <1>1, <1>2, StopsInScope
<1>4. nextStmt' # Nil /\ InScope(nextStmt', Nil) => LineInScope(onErrorStmtNo', Nil)
  BY <1>1, <1>2, <1>3
<1> QED
  BY <1>1, <1>4 DEF ScopeInv, FramesInScope, InScope, LineInScope, ScopeOf

\* Going on behind a statement of the scope.
LEMMA BehindInScope ==
  ASSUME ScopeInv, mode = "running", NEW i \in Stmts, InScope(i, Top),
         Prog[i].op \notin {"DEF", "FNEND", "END"},
         Jump(computeNextStmt(i), FALSE), onErrorStmtNo' = onErrorStmtNo
  PROVE  ScopeInv'
<1>1. computeNextStmt(i) \in Stmts /\ computeNextStmt(i) # Nil
  BY SuccessorExists, StmtsAreNat DEF Nil
<1>2. Prog[i].fnend = Nil
  BY FunctionEnds
<1>3. InScope(computeNextStmt(i), Top)
  BY <1>1, <1>2, NextInScope
<1> QED
  BY <1>3, JumpInScope

LEMMA AdvanceInScope ==
  ASSUME IInv, ScopeInv, mode = "running", Op \notin {"DEF", "FNEND", "END"}, Advance
  PROVE  ScopeInv'
BY BehindInScope DEF Advance, IInv, ControlInv, ScopeInv, Op

\* Transfers to a line that has been checked.
LEMMA CheckedInScope ==
  ASSUME IInv, ScopeInv, ClosedFunctions, mode = "running", Op # "DEF",
         NEW k \in DOMAIN Prog[curStmt].to, checkStmtTargetScope(To(k)),
         stmtAvlTreeLookup(To(k)) # Nil
  PROVE  LineInScope(To(k), Top) /\ InScope(stmtAvlTreeLookup(To(k)), Top)
<1>1. curStmt \in Stmts /\ InScope(curStmt, Top)
  BY DEF IInv, ControlInv, ScopeInv
<1>2. Prog[curStmt].fnend = Nil
  BY <1>1, FunctionEnds DEF Op
<1>3. LineInScope(To(k), Top)
  BY <1>1, <1>2, CheckedTarget
<1>4. To(k) \in Nat \ {0}
  <2>1. PICK t \in Stmts : Prog[t].line = To(k)
    BY DEF stmtAvlTreeLookup
  <2> QED
    BY <2>1, NodeType DEF StmtNode
<1> QED
  BY <1>3, <1>4, LineTarget

LEMMA ToLineInScope ==
  ASSUME IInv, ScopeInv, ClosedFunctions, mode = "running", Op # "DEF",
         NEW k \in DOMAIN Prog[curStmt].to, checkStmtTargetScope(To(k)),
         stmtAvlTreeLookup(To(k)) # Nil, ToLine(To(k))
  PROVE  ScopeInv'
BY CheckedInScope, JumpInScope DEF ToLine

LEMMA GosubInScope ==
  ASSUME IInv, ScopeInv, ClosedFunctions, mode = "running", Op # "DEF",
         NEW k \in DOMAIN Prog[curStmt].to, checkStmtTargetScope(To(k)), executeGosub(To(k))
  PROVE  ScopeInv'
BY FaultInScope, ToLineInScope DEF executeGosub

\* A call starts in the function's own scope, with its caller's in the frame.
LEMMA CallInScope ==
  ASSUME IInv, FramesInScope, NEW d \in Stmts, Prog[d].fnend # Nil,
         NEW k, NEW prompt, CallFunction(d, k, curStmt, prompt),
         ~ prompt => /\ Prog[curStmt].fnend = Nil /\ ScopeOf(curStmt) = Top
                     /\ LineInScope(onErrorStmtNo, Top)
  PROVE  ScopeInv'
<1> DEFINE f == [call |-> curStmt, fn |-> d, onErr |-> onErrorStmtNo, idx |-> k, prompt |-> prompt]
<1>0. PICK n : n = Len(acts)
  OBVIOUS
<1>1. /\ acts' = Append(acts, f) /\ onErrorStmtNo' = 0 /\ curStmt' = computeNextStmt(d)
      /\ mode' = "running"
  BY DEF CallFunction, executeRunInternal
<1>2. acts \in Seq(Frame) /\ n \in Nat /\ DOMAIN acts = 1 .. n /\ (acts = <<>> <=> n = 0)
  BY <1>0, LenProperties, EmptySeq DEF IInv, ControlInv, GoodActs
<1>3. /\ Len(acts') = n + 1 /\ DOMAIN acts' = 1 .. n + 1 /\ acts' # <<>>
      /\ acts'[n + 1] = f /\ \A j \in 1 .. n : acts'[j] = acts[j]
  <2>1. Len(acts') = n + 1 /\ DOMAIN acts' = 1 .. n + 1
    BY <1>1, <1>2
  <2>2. acts'[n + 1] = f /\ \A j \in 1 .. n : acts'[j] = acts[j]
    BY <1>1, <1>2
  <2>3. acts' # <<>>
    BY <1>2, <2>1
  <2> QED
    BY <2>1, <2>2, <2>3
<1>4. f.call = curStmt /\ f.fn = d /\ f.onErr = onErrorStmtNo /\ f.prompt = prompt
  OBVIOUS
<1> HIDE DEF f
<1>5. Top' = d
  BY <1>3, <1>4 DEF Top, Last
<1>6. \A j \in 1 .. n : Caller(j)' = Caller(j)
  BY <1>2, <1>3 DEF Caller
<1>7. Caller(n + 1)' = Top
  <2>1. CASE n = 0
    <3>1. n + 1 = 1 /\ acts = <<>>
      BY <1>2, <2>1
    <3> QED
      BY <3>1 DEF Caller, Top
  <2>2. CASE n # 0
    <3>1. n \in 1 .. n /\ n + 1 # 1 /\ (n + 1) - 1 = n
      BY <1>2, <2>2
    <3>2. Caller(n + 1)' = acts[n].fn
      BY <1>3, <3>1 DEF Caller
    <3> QED
      BY <1>0, <1>2, <2>2, <3>2 DEF Top, Last
  <2> QED
    BY <2>1, <2>2
<1>8. FramesInScope'
  <2> SUFFICES ASSUME NEW j \in DOMAIN acts'
               PROVE  /\ Prog[acts'[j].fn].fnend # Nil
                      /\ ~ acts'[j].prompt => /\ Prog[acts'[j].call].fnend = Nil
                                              /\ ScopeOf(acts'[j].call) = Caller(j)'
                                              /\ LineInScope(acts'[j].onErr, Caller(j)')
    BY DEF FramesInScope, ScopeOf, LineInScope
  <2>1. CASE j = n + 1
    <3>1. acts'[j] = f /\ Caller(j)' = Top
      BY <1>3, <1>7, <2>1
    <3> QED
      BY <1>4, <3>1
  <2>2. CASE j # n + 1
    <3>1. j \in 1 .. n
      BY <1>2, <1>3, <2>2
    <3> QED
      BY <1>2, <1>3, <1>6, <3>1 DEF FramesInScope
  <2> QED
    BY <2>1, <2>2
<1>9. InScope(curStmt', d)
  BY <1>1, BodyInScope
<1> QED
  BY <1>1, <1>5, <1>8, <1>9 DEF ScopeInv, InScope, LineInScope, ScopeOf

\* A call that ends gives control and the handler back to the caller's scope.
LEMMA FinishInScope ==
  ASSUME IInv, FramesInScope, mode = "running", acts # <<>>, FinishCall
  PROVE  ScopeInv'
<1> DEFINE frame == Last(acts)
           n     == Len(acts)
<1>1. /\ curStmt' = frame.call /\ onErrorStmtNo' = frame.onErr /\ nextStmt' = Nil
      /\ acts' = Front(acts) /\ (mode' = "running" => ~ frame.prompt)
  BY DEF FinishCall
<1>2. acts \in Seq(Frame)
  BY DEF IInv, ControlInv, GoodActs
<1>3. /\ n \in Nat \ {0} /\ DOMAIN acts = 1 .. n /\ frame = acts[n]
      /\ acts' \in Seq(Frame) /\ Len(acts') = n - 1 /\ DOMAIN acts' = 1 .. n - 1
      /\ \A j \in 1 .. n - 1 : acts'[j] = acts[j]
  BY <1>1, <1>2, FrontProperties
<1> HIDE DEF frame
<1>4. Top' = Caller(n)
  <2>1. CASE n = 1
    <3>1. acts' = <<>>
      BY <1>3, <2>1, EmptySeq
    <3> QED
      BY <2>1, <3>1 DEF Top, Caller
  <2>2. CASE n # 1
    <3>1. n - 1 \in 1 .. n - 1 /\ Len(acts') # 0
      BY <1>3, <2>2
    <3>2. acts' # <<>> /\ Last(acts') = acts[n - 1]
      BY <1>3, <3>1 DEF Last
    <3> QED
      BY <2>2, <3>2 DEF Top, Caller
  <2> QED
    BY <2>1, <2>2
<1>5. \A j \in 1 .. n - 1 : j \in DOMAIN acts /\ Caller(j)' = Caller(j)
  BY <1>3 DEF Caller
<1>6. FramesInScope'
  BY <1>3, <1>5 DEF FramesInScope, ScopeOf, LineInScope
<1>7. ~ frame.prompt => /\ Prog[frame.call].fnend = Nil /\ ScopeOf(frame.call) = Caller(n)
                        /\ LineInScope(frame.onErr, Caller(n))
  BY <1>3 DEF FramesInScope
<1>8. mode' = "running" => InScope(curStmt', Caller(n)) /\ LineInScope(onErrorStmtNo', Caller(n))
  BY <1>1, <1>7 DEF InScope
<1> QED
  BY <1>1, <1>4, <1>6, <1>8 DEF ScopeInv, InScope, LineInScope, ScopeOf

LEMMA EvaluateInScope ==
  ASSUME IInv, ScopeInv, mode = "running", Op \in {"PLAIN", "FOR"}, NEW k, Evaluate(k)
  PROVE  ScopeInv'
<1> DEFINE d == Prog[curStmt].fn
<1>1. curStmt \in Stmts /\ Prog[curStmt].fnend = Nil /\ InScope(curStmt, Top) /\ LineInScope(onErrorStmtNo, Top)
  BY FunctionEnds DEF IInv, ControlInv, ScopeInv, Op
<1>2. CASE UNCHANGED <<mode, curStmt, nextStmt, acts, onErrorStmtNo>>
  BY <1>1, <1>2, MoveInScope DEF ScopeInv
<1>3. CASE Raise("fatal") \/ StmtFault({"badcall"})
  BY <1>3, FaultInScope
<1>4. CASE d # Nil /\ CallFunction(d, k, curStmt, FALSE)
  <2>1. d \in Stmts
    BY <1>1, <1>4, NodeType DEF StmtNode, Nodes
  <2>2. CASE Prog[d].fnend = Nil
    BY <1>2, <1>4, <2>2 DEF CallFunction
  <2>3. CASE Prog[d].fnend # Nil
    BY <1>1, <1>4, <2>1, <2>3, CallInScope DEF InScope, ScopeInv
  <2> QED
    BY <2>2, <2>3
<1> QED
  BY <1>2, <1>3, <1>4 DEF Evaluate, callVars
\* The first target of a statement that has any.
LEMMA TargetType ==
  ASSUME NEW i \in Stmts
  PROVE  /\ \A k \in DOMAIN Prog[i].to : Prog[i].to[k] \in Nat
         /\ Prog[i].to # <<>> => 1 \in DOMAIN Prog[i].to
<1>1. Prog[i].to \in Seq(Nat)
  BY NodeType DEF StmtNode
<1> QED
  BY <1>1, LenProperties, EmptySeq

\* A statement that runs is in the active function, as is the handler.
LEMMA OwnScope ==
  ASSUME IInv, ScopeInv, mode = "running", Op # "DEF"
  PROVE  /\ curStmt \in Stmts /\ Prog[curStmt].fnend = Nil
         /\ InScope(curStmt, Top) /\ ScopeOf(curStmt) = Top /\ LineInScope(onErrorStmtNo, Top)
<1>1. curStmt \in Stmts /\ InScope(curStmt, Top) /\ LineInScope(onErrorStmtNo, Top)
  BY DEF IInv, ControlInv, ScopeInv
<1>2. Prog[curStmt].fnend = Nil
  BY <1>1, FunctionEnds DEF Op
<1> QED
  BY <1>1, <1>2 DEF InScope

\* Nothing that scopes depend on changes.
LEMMA StillInScope ==
  ASSUME ScopeInv, UNCHANGED <<mode, curStmt, nextStmt, acts, onErrorStmtNo>>
  PROVE  ScopeInv'
BY DEF ScopeInv, FramesInScope, Caller, Top, InScope, LineInScope, ScopeOf

LEMMA QuietInScope ==
  ASSUME IInv, ScopeInv, Fetch \/ checkInterrupts \/ DonePlain \/ ExecInput
  PROVE  ScopeInv'
<1>1. CASE Fetch
  BY <1>1, StillInScope DEF Fetch, callVars
<1>2. CASE checkInterrupts
  BY <1>2, FaultInScope DEF checkInterrupts
<1>3. CASE DonePlain
  <2>1. mode = "running" /\ Op = "PLAIN"
    BY <1>3 DEF DonePlain, At
  <2> QED
    BY <1>3, <2>1, FaultInScope, AdvanceInScope DEF DonePlain
<1>4. CASE ExecInput
  <2>1. mode = "running" /\ Op = "INPUT"
    BY <1>4 DEF ExecInput, At
  <2> QED
    BY <1>4, <2>1, FaultInScope, AdvanceInScope DEF ExecInput
<1> QED
  BY <1>1, <1>2, <1>3, <1>4

LEMMA LoopsInScope ==
  ASSUME IInv, ScopeInv, ClosedFunctions, KeepsToScopes,
         EvalPlain \/ InitFor \/ EnterFor \/ IterateFor \/ ExecNext
  PROVE  ScopeInv'
<1>1. mode = "running" /\ pc # "fetch" /\ Op \in {"PLAIN", "FOR", "NEXT"}
  BY DEF EvalPlain, InitFor, EnterFor, IterateFor, ExecNext, At
<1>2. /\ curStmt \in Stmts /\ Prog[curStmt].fnend = Nil /\ InScope(curStmt, Top)
      /\ ScopeOf(curStmt) = Top
  BY <1>1, OwnScope
<1>3. ASSUME NEW k, k = findForStackEntryVar(forStack, Prog[curStmt].var), k # 0,
             Op \in {"FOR", "NEXT"}
      PROVE  /\ InScope(forStack[k].stmt, Top) /\ InScope(forStack[k].next, Top)
             /\ forStack[k].next \in Stmts /\ Prog[forStack[k].next].op \in {"FOR", "NEXT"}
  <2>1. GoodLoops(forStack)
    BY DataNow
  <2>2. k \in DOMAIN forStack /\ Prog[forStack[k].stmt].var = Prog[curStmt].var
    BY <1>3, <2>1, FindEntry
  <2>3. forStack[k] \in ForEntry
    BY <2>1, <2>2 DEF GoodLoops
  <2> QED
    BY <1>1, <1>2, <1>3, <2>1, <2>2, <2>3 DEF KeepsToScopes, GoodLoops, ForEntry
<1>4. CASE EvalPlain \/ InitFor
  BY <1>1, <1>4, EvaluateInScope, FaultInScope DEF EvalPlain, InitFor, At
<1>5. CASE EnterFor
  <2>1. Op = "FOR"
    BY <1>5 DEF EnterFor, At
  <2>2. CASE findNext(curStmt) # Nil /\ Jump(computeNextStmt(findNext(curStmt)), FALSE)
             /\ onErrorStmtNo' = onErrorStmtNo
    <3>1. findNext(curStmt) \in Stmts /\ Prog[findNext(curStmt)].op \in {"FOR", "NEXT"}
      BY <1>2, <2>2, FindNextType
    <3>2. InScope(findNext(curStmt), Top)
      BY <1>2, <2>1, <2>2 DEF ClosedFunctions, Op
    <3> QED
      BY <1>1, <2>2, <3>1, <3>2, BehindInScope
  <2>3. CASE Raise("fatal") \/ StmtFault(WorkFaults) \/ Advance
    BY <1>1, <2>1, <2>3, FaultInScope, AdvanceInScope
  <2> QED
    BY <1>5, <2>2, <2>3 DEF EnterFor
<1>6. CASE IterateFor
  <2>1. Op = "FOR" /\ arg
    BY <1>6 DEF IterateFor, At
  <2> DEFINE k == findForStackEntryVar(forStack, Prog[curStmt].var)
  <2>2. k # 0
    BY <2>1 DEF IInv, IterationFindsItsLoop
  <2>3. CASE Jump(computeNextStmt(forStack[k].next), FALSE) /\ onErrorStmtNo' = onErrorStmtNo
    BY <1>1, <1>3, <2>1, <2>2, <2>3, BehindInScope
  <2>4. CASE StmtFault(WorkFaults) \/ Advance
    BY <1>1, <2>1, <2>4, FaultInScope, AdvanceInScope
  <2> QED
    BY <1>6, <2>3, <2>4 DEF IterateFor
<1>7. CASE ExecNext
  <2>1. Op = "NEXT"
    BY <1>7 DEF ExecNext, At
  <2> DEFINE k == findForStackEntryVar(forStack, Prog[curStmt].var)
  <2>2. CASE k # 0 /\ Jump(forStack[k].stmt, TRUE) /\ onErrorStmtNo' = onErrorStmtNo
    BY <1>1, <1>3, <2>1, <2>2, JumpInScope
  <2>3. CASE Raise("fatal") \/ StmtFault(WorkFaults)
    BY <1>1, <2>3, FaultInScope
  <2> QED
    BY <1>7, <2>2, <2>3 DEF ExecNext
<1> QED
  BY <1>4, <1>5, <1>6, <1>7

LEMMA TransfersInScope ==
  ASSUME IInv, ScopeInv, ClosedFunctions, KeepsToScopes,
         ExecGoto \/ ExecGosub \/ ExecOn \/ ExecReturn
  PROVE  ScopeInv'
<1>1. /\ mode = "running" /\ pc # "fetch"
      /\ Op \in {"GOTO", "GOSUB", "ONGOTO", "ONGOSUB", "RETURN"}
  BY DEF ExecGoto, ExecGosub, ExecOn, ExecReturn, At
<1>2. curStmt \in Stmts /\ ScopeOf(curStmt) = Top
  BY <1>1, OwnScope
<1>3. Op \in {"GOTO", "GOSUB"} => 1 \in DOMAIN Prog[curStmt].to
  BY <1>2, ProgAssumption, TargetType DEF Op
<1>4. CASE ExecGoto
  <2>1. Op = "GOTO"
    BY <1>4 DEF ExecGoto, At
  <2>2. CASE Raise("fatal")
    BY <1>1, <2>2, FaultInScope
  <2>3. CASE checkStmtTargetScope(To(1)) /\ stmtAvlTreeLookup(To(1)) # Nil /\ ToLine(To(1))
    BY <1>1, <1>3, <2>1, <2>3, ToLineInScope
  <2> QED
    BY <1>4, <2>2, <2>3 DEF ExecGoto
<1>5. CASE ExecGosub
  <2>1. Op = "GOSUB"
    BY <1>5 DEF ExecGosub, At
  <2>2. CASE Raise("fatal")
    BY <1>1, <2>2, FaultInScope
  <2>3. CASE checkStmtTargetScope(To(1)) /\ executeGosub(To(1))
    BY <1>1, <1>3, <2>1, <2>3, GosubInScope
  <2> QED
    BY <1>5, <2>2, <2>3 DEF ExecGosub
<1>6. CASE ExecOn
  <2>1. CASE Raise("fatal") \/ Raise("num")
    BY <1>1, <2>1, FaultInScope
  <2>2. ASSUME NEW k \in DOMAIN Prog[curStmt].to, checkStmtTargetScope(To(k)),
               executeGosub(To(k)) \/ (stmtAvlTreeLookup(To(k)) # Nil /\ ToLine(To(k)))
        PROVE  ScopeInv'
    BY <1>1, <2>2, GosubInScope, ToLineInScope
  <2> QED
    BY <1>6, <2>1, <2>2 DEF ExecOn
<1>7. CASE ExecReturn
  <2>1. CASE Raise("fatal")
    BY <1>1, <2>1, FaultInScope
  <2>2. CASE /\ gosubStack # <<>> /\ Jump(computeNextStmt(Last(gosubStack)), FALSE)
             /\ onErrorStmtNo' = onErrorStmtNo
    <3>1. Last(gosubStack) \in Stmts /\ Prog[Last(gosubStack)].op \in {"GOSUB", "IF", "ONGOSUB"}
      BY <2>2, DataNow, PopKeepsGosubs
    <3>2. InScope(Last(gosubStack), Top)
      BY <1>1, <1>2, <1>7, <2>2 DEF KeepsToScopes, ExecReturn, At
    <3> QED
      BY <1>1, <2>2, <3>1, <3>2, BehindInScope
  <2> QED
    BY <1>7, <2>1, <2>2 DEF ExecReturn
<1> QED
  BY <1>4, <1>5, <1>6, <1>7
\* RESUME goes to a line that has been checked, or back to the statement of the fault.
LEMMA ResumeInScope ==
  ASSUME IInv, ScopeInv, ClosedFunctions, KeepsToScopes, mode = "running", pc # "fetch",
         Op = "RESUME" \/ (Op = "IF" /\ "RESUME" \in Prog[curStmt].subs),
         ~ ResumeRefused(ResumeLine), resumeTarget(ResumeLine) # Nil,
         ResumeLine # 0 => checkStmtTargetScope(To(1)),
         Jump(resumeTarget(ResumeLine), FALSE), onErrorStmtNo' = onErrorStmtNo
  PROVE  ScopeInv'
<1>1. curStmt \in Stmts /\ ScopeOf(curStmt) = Top /\ Op # "DEF"
  BY OwnScope
<1>2. CASE ResumeLine = 0
  <2>1. fip.stmt # Nil /\ fip.err # "int" /\ resumeTarget(ResumeLine) = fip.stmt
    BY <1>2 DEF ResumeRefused, resumeTarget
  <2>2. InScope(fip.stmt, Top)
    BY <1>1, <1>2, <2>1 DEF KeepsToScopes, ResumesFault
  <2> QED
    BY <2>1, <2>2, JumpInScope
<1>3. CASE ResumeLine # 0
  <2>1. 1 \in DOMAIN Prog[curStmt].to /\ ResumeLine = To(1)
    BY <1>1, <1>3, TargetType DEF ResumeLine
  <2>2. resumeTarget(ResumeLine) = stmtAvlTreeLookup(To(1))
    BY <1>3, <2>1 DEF resumeTarget
  <2>3. InScope(stmtAvlTreeLookup(To(1)), Top)
    BY <1>1, <1>3, <2>1, <2>2, CheckedInScope
  <2> QED
    BY <2>2, <2>3, JumpInScope
<1> QED
  BY <1>2, <1>3

LEMMA ExecResumeInScope ==
  ASSUME IInv, ScopeInv, ClosedFunctions, KeepsToScopes, ExecResume
  PROVE  ScopeInv'
<1>1. mode = "running" /\ pc # "fetch" /\ Op = "RESUME"
  BY DEF ExecResume, At
<1>2. CASE Raise("fatal") \/ RaiseInResume
  BY <1>1, <1>2, FaultInScope
<1>3. CASE /\ Prog[curStmt].to = <<>> \/ checkStmtTargetScope(To(1))
           /\ ~ ResumeRefused(ResumeLine) /\ resumeTarget(ResumeLine) # Nil
           /\ Jump(resumeTarget(ResumeLine), FALSE) /\ onErrorStmtNo' = onErrorStmtNo
  <2>1. ResumeLine # 0 => checkStmtTargetScope(To(1))
    BY <1>3 DEF ResumeLine
  <2> QED
    BY <1>1, <1>3, <2>1, ResumeInScope
<1> QED
  BY <1>2, <1>3 DEF ExecResume

LEMMA IfResumeInScope ==
  ASSUME IInv, ScopeInv, ClosedFunctions, KeepsToScopes, mode = "running", pc # "fetch",
         Op = "IF", "RESUME" \in Prog[curStmt].subs, IfResume
  PROVE  ScopeInv'
<1> DEFINE target == resumeTarget(ResumeLine)
<1>0. curStmt \in Stmts /\ InScope(curStmt, Top)
  BY OwnScope
<1>1. CASE RaiseInResume
  BY <1>1, FaultInScope
<1>2. CASE Jump(computeNextStmt(curStmt), FALSE) /\ onErrorStmtNo' = onErrorStmtNo
  BY <1>0, <1>2, BehindInScope DEF Op
<1>3. CASE /\ ~ ResumeRefused(ResumeLine) /\ target # Nil
           /\ checkStmtTargetScope(stmtNoOf(target))
           /\ Jump(target, FALSE) /\ onErrorStmtNo' = onErrorStmtNo
  <2>1. ASSUME ResumeLine # 0 PROVE checkStmtTargetScope(To(1))
    <3>1. ResumeLine = To(1)
      BY <2>1 DEF ResumeLine
    <3>2. target = stmtAvlTreeLookup(To(1))
      BY <2>1, <3>1 DEF resumeTarget
    <3>3. target \in Stmts /\ Prog[target].head /\ Prog[target].line = To(1)
      BY <1>3, <3>2 DEF stmtAvlTreeLookup
    <3> QED
      BY <1>3, <3>3 DEF stmtNoOf
  <2> QED
    BY <1>3, <2>1, ResumeInScope
<1> QED
  BY <1>1, <1>2, <1>3 DEF IfResume

LEMMA IfInScope ==
  ASSUME IInv, ScopeInv, ClosedFunctions, KeepsToScopes, ExecIf
  PROVE  ScopeInv'
<1>1. mode = "running" /\ pc # "fetch" /\ Op = "IF" /\ pc = "exec"
  BY DEF ExecIf, At
<1>2. curStmt \in Stmts
  BY <1>1, OwnScope
<1>3. Prog[curStmt].subs \cap {"GOTO", "GOSUB"} # {} => 1 \in DOMAIN Prog[curStmt].to
  BY <1>2, ProgAssumption, TargetType
<1>4. CASE Advance \/ StmtFault(WorkFaults) \/ Stop
  BY <1>1, <1>4, AdvanceInScope, FaultInScope, StopInScope
<1>5. CASE "GOTO" \in Prog[curStmt].subs /\ IfGoto
  <2>1. CASE Raise("fatal")
    BY <1>1, <2>1, FaultInScope
  <2>2. CASE stmtAvlTreeLookup(To(1)) # Nil /\ checkStmtTargetScope(To(1)) /\ ToLine(To(1))
    BY <1>1, <1>3, <1>5, <2>2, ToLineInScope
  <2> QED
    BY <1>5, <2>1, <2>2 DEF IfGoto
<1>6. CASE "GOSUB" \in Prog[curStmt].subs /\ IfGosub
  <2>1. CASE Raise("fatal")
    BY <1>1, <2>1, FaultInScope
  <2>2. CASE checkStmtTargetScope(To(1)) /\ executeGosub(To(1))
    BY <1>1, <1>3, <1>6, <2>2, GosubInScope
  <2> QED
    BY <1>6, <2>1, <2>2 DEF IfGosub
<1>7. CASE "RESUME" \in Prog[curStmt].subs /\ IfResume
  BY <1>1, <1>7, IfResumeInScope
<1> QED
  BY <1>4, <1>5, <1>6, <1>7 DEF ExecIf

\* A handler is set in the function that it serves.
LEMMA OnErrorInScope ==
  ASSUME IInv, ScopeInv, ClosedFunctions, ExecOnError
  PROVE  ScopeInv'
<1> DEFINE no == IF Prog[curStmt].to = <<>> THEN 0 ELSE To(1)
<1>1. mode = "running" /\ Op = "ONERROR"
  BY DEF ExecOnError, At
<1>2. curStmt \in Stmts /\ Prog[curStmt].fnend = Nil /\ InScope(curStmt, Top)
  BY <1>1, OwnScope
<1>3. CASE Raise("fatal")
  BY <1>1, <1>3, FaultInScope
<1>4. CASE /\ no # 0 => checkStmtTargetScope(no) /\ stmtAvlTreeLookup(no) # Nil
           /\ onErrorStmtNo' = no /\ Jump(computeNextStmt(curStmt), FALSE)
  <2>1. LineInScope(no, Top)
    <3>1. CASE no = 0
      BY <3>1 DEF LineInScope
    <3>2. CASE no # 0
      <4>1. no = To(1) /\ 1 \in DOMAIN Prog[curStmt].to
        BY <1>2, <3>2, TargetType
      <4> QED
        BY <1>1, <1>4, <3>2, <4>1, CheckedInScope
    <3> QED
      BY <3>1, <3>2
  <2>2. computeNextStmt(curStmt) \in Stmts /\ computeNextStmt(curStmt) # Nil
    BY <1>1, <1>2, SuccessorExists, StmtsAreNat DEF Nil, Op
  <2>3. InScope(computeNextStmt(curStmt), Top)
    BY <1>1, <1>2, <2>2, NextInScope DEF Op
  <2> QED
    BY <1>1, <1>4, <2>1, <2>3, MoveInScope DEF Jump
<1> QED
  BY <1>3, <1>4 DEF ExecOnError

LEMMA DefInScope ==
  ASSUME IInv, ScopeInv, ExecDef
  PROVE  ScopeInv'
<1>1. /\ mode = "running" /\ Prog[curStmt].op = "DEF" /\ curStmt \in Stmts
      /\ InScope(curStmt, Top) /\ onErrorStmtNo' = onErrorStmtNo
  BY DEF ExecDef, At, Op, IInv, ControlInv, ScopeInv
<1>2. CASE Prog[curStmt].fnend = Nil
  <2>1. computeNextStmt(curStmt) \in Stmts /\ computeNextStmt(curStmt) # Nil
    BY <1>1, SuccessorExists, StmtsAreNat DEF Nil
  <2>2. InScope(computeNextStmt(curStmt), Top)
    BY <1>1, <1>2, <2>1, NextInScope
  <2> QED
    BY <1>1, <1>2, <2>2, JumpInScope DEF ExecDef
<1>3. CASE Prog[curStmt].fnend # Nil
  <2> DEFINE f == Prog[curStmt].fnend
  <2>1. f \in Stmts /\ Prog[f].op = "FNEND" /\ Top = Nil
    BY <1>1, <1>3, FunctionEnds DEF InScope
  <2>2. computeNextStmt(f) # Nil
    BY <2>1, SuccessorExists, StmtsAreNat DEF Nil
  <2>3. InScope(computeNextStmt(f), Top)
    BY <1>1, <1>3, <2>1, <2>2, BodyInScope
  <2> QED
    BY <1>1, <1>3, <2>3, JumpInScope DEF ExecDef
<1> QED
  BY <1>2, <1>3

LEMMA FinishesInScope ==
  ASSUME IInv, ScopeInv, ReturnFromFunction \/ StrayFnend \/ ResumeNowhere \/ ExecEnd
  PROVE  ScopeInv'
<1>1. mode = "running"
  BY DEF ReturnFromFunction, StrayFnend, ResumeNowhere, ExecEnd, At
<1>2. CASE acts # <<>> /\ FinishCall
  BY <1>1, <1>2, FinishInScope DEF ScopeInv
<1>3. CASE acts = <<>> /\ FinishProgram
  BY <1>3, EndInScope DEF FinishProgram, callVars
<1>4. CASE ExecEnd
  BY <1>4, EndInScope DEF ExecEnd, initializeRun
<1> QED
  BY <1>2, <1>3, <1>4 DEF ReturnFromFunction, StrayFnend, ResumeNowhere

LEMMA StepsInScope ==
  ASSUME IInv, ScopeInv, ClosedFunctions, KeepsToScopes, Step
  PROVE  ScopeInv'
<1>1. CASE ExecStop
  BY <1>1, StopInScope DEF ExecStop, At
<1> QED
  BY <1>1, QuietInScope, LoopsInScope, TransfersInScope, ExecResumeInScope, IfInScope,
     OnErrorInScope, DefInScope, FinishesInScope DEF Step

-----------------------------------------------------------------------------
(* What the user does.                                                      *)

\* A run starts in the main program, or at the DEF of a function.
LEMMA FirstInScope == InScope(1, Nil)
<1>1. 1 \in Stmts
  BY StmtsAreNat DEF Stmts
<1> SUFFICES ASSUME Prog[1].fnend = Nil, ScopeOf(1) # Nil PROVE FALSE
  BY DEF InScope
<1> DEFINE d == ScopeOf(1)
<1>2. Holds(d, Prog[1].line)
  BY <1>1, ScopeHolds
<1> HIDE DEF d
<1>3. d \in Stmts /\ Prog[d].fnend # Nil /\ d < Prog[d].fnend /\ d \in Nat \ {0}
  BY <1>2, FunctionEnds, StmtsAreNat DEF Holds
<1>4. d # 1 /\ Prog[d].fnend # 1
  BY <1>3
<1>5. d < 1
  BY <1>1, <1>2, <1>4, ScopeNodes
<1> QED
  BY <1>3, <1>5

LEMMA UserInScope ==
  ASSUME IInv, ScopeInv, KeepsToScopes, User
  PROVE  ScopeInv'
<1>1. mode = "prompt" => acts = <<>> /\ Top = Nil
  BY DEF IInv, ControlInv, Top
<1>2. ASSUME mode = "prompt", mode' = "running", acts' = acts, nextStmt' = Nil,
             InScope(curStmt', Nil), LineInScope(onErrorStmtNo', Nil)
      PROVE  ScopeInv'
  <2>1. Top' = Nil /\ FramesInScope'
    BY <1>1, <1>2 DEF Top, FramesInScope
  <2> QED
    BY <1>2, <2>1 DEF ScopeInv, InScope, LineInScope, ScopeOf
<1>3. CASE Run
  BY <1>2, <1>3, FirstInScope DEF Run, executeRunInternal, LineInScope
<1>4. CASE Cont
  <2>1. CASE curStmt # Nil /\ nextStmt # Nil /\ executeRunInternal(nextStmt) /\ nextStmt' = Nil
    <3>1. mode = "prompt" /\ "cont" \in UserOps /\ acts' = acts /\ onErrorStmtNo' = onErrorStmtNo
      BY <1>4 DEF Cont, callVars
    <3>2. InScope(nextStmt, Nil) /\ LineInScope(onErrorStmtNo, Nil)
      BY <2>1, <3>1 DEF KeepsToScopes, ScopeInv
    <3> QED
      BY <1>2, <2>1, <3>1, <3>2 DEF executeRunInternal
  <2>2. CASE UNCHANGED <<mode, stmtVars>>
    BY <1>4, <2>2, StillInScope DEF Cont, stmtVars, callVars
  <2> QED
    BY <1>4, <2>1, <2>2 DEF Cont
<1>5. CASE ImmediateFault \/ Signal
  BY <1>5, StillInScope DEF ImmediateFault, Signal, stmtVars, callVars
<1>6. CASE SyntaxError \/ EditLine
  <2>1. mode' = "prompt" /\ acts' = <<>> /\ curStmt' = Nil
    BY <1>1, <1>6 DEF SyntaxError, EditLine, callVars, initializeRun
  <2> QED
    BY <2>1, EndInScope
<1>8. CASE ImmediateCall /\ RefusedCall
  BY <1>8, StillInScope DEF RefusedCall, stmtVars
<1>7. CASE ImmediateCall /\ ~ RefusedCall
  <2>1. PICK d \in Stmts : CallFunction(d, 0, curStmt, TRUE)
    BY <1>7 DEF ImmediateCall
  <2>2. CASE Prog[d].fnend = Nil
    BY <2>1, <2>2, StillInScope DEF CallFunction
  <2>3. CASE Prog[d].fnend # Nil
    BY <2>1, <2>3, CallInScope DEF ScopeInv
  <2> QED
    BY <2>2, <2>3
<1> QED
  BY <1>3, <1>4, <1>5, <1>6, <1>7, <1>8 DEF User

\* The statement that runs belongs to the function that is active, in a program whose functions
\* are closed, as long as RETURN, NEXT and RESUME stay at home: the transfers that name a line
\* are all checked, on the way to it, when a handler is set and when a fault goes to it.
THEOREM ScopesAreKept ==
  ClosedFunctions => (Spec /\ []KeepsToScopes => []RunsInItsOwnScope)
<1> SUFFICES ASSUME ClosedFunctions PROVE Spec /\ []KeepsToScopes => []RunsInItsOwnScope
  OBVIOUS
<1>1. Init => ScopeInv
  <2>1. DOMAIN <<>> = {}
    OBVIOUS
  <2> QED
    BY <2>1 DEF Init, ScopeInv, FramesInScope
<1>2. IInv /\ KeepsToScopes /\ ScopeInv /\ [Next]_vars => ScopeInv'
  <2>1. ASSUME ScopeInv, UNCHANGED vars PROVE ScopeInv'
    BY <2>1, StillInScope DEF vars, stmtVars, callVars
  <2> QED
    BY <2>1, StepsInScope, UserInScope DEF Next
<1>3. IInv /\ ScopeInv => RunsInItsOwnScope
  BY OwnScope DEF RunsInItsOwnScope, Top
<1> QED
  BY <1>1, <1>2, <1>3, Inductive, PTL DEF Spec
=============================================================================
