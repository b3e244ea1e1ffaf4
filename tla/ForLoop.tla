-------------------------------- MODULE ForLoop --------------------------------
(***************************************************************************)
(* The numbers of one FOR loop (executeFor, executeNext): its variable, an *)
(* integer or a float, is stepped at the NEXT and compared at the FOR.     *)
(* The body may assign the variable, and leave the loop by a jump.         *)
(*                                                                         *)
(* A float is an integer here, of which all are exact up to Exact and the  *)
(* even ones beyond, and printed exactly below Shown; twice Exact is the   *)
(* infinity.                                                               *)
(***************************************************************************)
EXTENDS Integers, FiniteSets

CONSTANTS
  Integer, Float,                 \* the values of FOR's expressions, by the type of its variable
  maxForInteger, IntMax,          \* how far integers go, in a FOR and in general
  Exact, Shown

ASSUME ForLoopAssumption ==
  /\ Exact \in Nat /\ Shown \in 1 .. Exact
  /\ IntMax \in Nat /\ maxForInteger \in 1 .. IntMax - 1
  /\ Integer \subseteq - IntMax - 1 .. IntMax /\ Float \subseteq - 2 * Exact .. 2 * Exact

VARIABLES
  phase,     \* the statement that is next: "FOR", "body", "NEXT", "again" (the FOR, from its
             \* NEXT), what comes "after" the loop, or an error
  vType,     \* the variable's type, sym.vType
  value,     \* and its value
  item,      \* fsp.item: WHILE or not, the limit, the step, and the value saved at the last NEXT
  from, count, assigned   \* history: whether the body has assigned the variable; if not, the first
                          \* value, and how often the body of a TO loop was entered

IntMin        == - IntMax - 1
minForInteger == - maxForInteger

vars == <<phase, vType, value, item, from, count, assigned>>

Values == IF vType = "IVAR" THEN Integer ELSE Float

Abs(x) == IF x < 0 THEN - x ELSE x

\* The sum of floats: the nearest one, and of two the one with an even mantissa.
plus(x, y) ==
  LET sum == x + y
  IN IF Abs(sum) > 2 * Exact THEN 2 * Exact * (sum \div Abs(sum))
     ELSE IF Abs(sum) <= Exact \/ sum % 2 = 0 THEN sum
     ELSE IF (sum + 1) % 4 = 0 THEN sum + 1
     ELSE sum - 1

\* Fault variant: floats that look alike are not equal.
neverEqual(x, y) == FALSE

floatValuesApproxEqual(x, y) ==
  x = y \/ (Abs(x) >= Shown /\ Abs(y) >= Shown /\ x \div 2 = y \div 2)

-----------------------------------------------------------------------------

\* Fault variant: the loop ends at its limit.
endsAtLimit(v, to, step) == IF step > 0 THEN v >= to ELSE v <= to

checkLoopTermination(v, to, step) == IF step > 0 THEN v > to ELSE v < to

\* More bodies than any loop has values: where count stops counting.
TooMany == 2 * (IntMax + Exact) + 3

Counted(n) == IF assigned \/ item.while \/ n >= TooMany THEN n ELSE n + 1

Error(msg) == phase' = msg /\ UNCHANGED <<value, item, from, count, assigned>>

\* The FOR is reached from outside: a loop of its own, whatever there was. The condition of a
\* WHILE or UNTIL may come out either way.
executeFor(v, to, step, while) ==
  /\ phase = "FOR" /\ UNCHANGED vType
  /\ IF step = 0 THEN Error("zero STEP")
     ELSE /\ item' = [while |-> while, to |-> to, step |-> step, saved |-> <<>>]
          /\ from' = v /\ value' = v /\ assigned' = FALSE
          /\ \E ends \in (IF while THEN BOOLEAN ELSE {checkLoopTermination(v, to, step)}) :
               IF ends THEN phase' = "after" /\ count' = 0 ELSE phase' = "body" /\ count' = 1

\* From the NEXT. restoreLoopVar: the value that ended the loop is not the one that is left.
iterateFor ==
  /\ phase = "again" /\ UNCHANGED <<vType, item, from, assigned>>
  /\ \E ends \in (IF item.while THEN BOOLEAN ELSE {checkLoopTermination(value, item.to, item.step)}) :
       IF ends
       THEN /\ phase' = "after" /\ count' = count
            /\ value' = IF item.while THEN value ELSE item.saved[1]
       ELSE phase' = "body" /\ count' = Counted(count) /\ value' = value

assign(v) ==
  /\ phase = "body" /\ phase' = "NEXT" /\ value' = v /\ assigned' = TRUE /\ from' = 0 /\ count' = 0
  /\ UNCHANGED <<vType, item>>

leaveAlone ==
  /\ phase = "body" /\ phase' = "NEXT" /\ UNCHANGED <<vType, value, item, from, count, assigned>>

\* A GOTO out of the loop, and back to its FOR.
jump ==
  /\ phase \in {"body", "after"} /\ phase' = "FOR"
  /\ UNCHANGED <<vType, value, item, from, count, assigned>>

InForRange(v, step) == IF step > 0 THEN v + step <= maxForInteger ELSE v + step >= minForInteger

Steps(next) ==
  /\ phase' = "again" /\ value' = next /\ item' = [item EXCEPT !.saved = <<value>>]
  /\ UNCHANGED <<from, count, assigned>>

int16(sum) == ((sum - IntMin) % (IntMax - IntMin + 1)) + IntMin

\* incrementLoopVar
incrementInteger ==
  /\ phase = "NEXT" /\ vType = "IVAR" /\ UNCHANGED vType
  /\ IF InForRange(value, item.step)
     THEN Steps(int16(value + item.step))
     ELSE Error("FOR overflow")

incrementFloat ==
  /\ phase = "NEXT" /\ vType = "FVAR" /\ UNCHANGED vType
  /\ LET next == plus(value, item.step)
     IN IF floatValuesApproxEqual(next, value) THEN Error("infinite loop") ELSE Steps(next)

-----------------------------------------------------------------------------

Init ==
  /\ phase = "FOR" /\ vType \in {"IVAR", "FVAR"} /\ value = 0 /\ from = 0 /\ count = 0 /\ assigned = FALSE
  /\ item = [while |-> FALSE, to |-> 0, step |-> 1, saved |-> <<>>]

Iterates == iterateFor \/ leaveAlone \/ incrementInteger \/ incrementFloat

Next ==
  \/ \E v, to, step \in Values : executeFor(v, to, step, FALSE)
  \/ \E v, step \in Values : executeFor(v, v, step, TRUE)
  \/ Iterates \/ jump
  \/ \E v \in Values : assign(v)

Spec == Init /\ [][Next]_vars

\* The program runs: what comes next is executed.
FairSpec == Spec /\ WF_vars(Iterates)
=============================================================================
