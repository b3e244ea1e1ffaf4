----------------------------- MODULE ArraysProps -----------------------------
(***************************************************************************)
(* What arrays keep through MAT statements and failures.                   *)
(***************************************************************************)
EXTENDS Arrays

\* Two arrays that have a row in common, after MAT B = A, are of the same type and dimensions,
\* and have it at the same place: an element is shared with its own counterpart only.
SharedRowsAreAligned ==
  \A a, b \in DOMAIN arrays : a # b =>
    \A i \in DOMAIN arrays[a].rows, j \in DOMAIN arrays[b].rows :
      arrays[a].rows[i] = arrays[b].rows[j] /\ arrays[a].rows[i] # NilRow =>
        i = j /\ vType(a) = vType(b) /\ arrays[a].dims = arrays[b].dims

-----------------------------------------------------------------------------

\* The elements that MAT goes through, those without a subscript 0, are there.
Usable(a) ==
  LET dims == arrays[a].dims
  IN \A i \in IF Len(dims) = 1 THEN {0} ELSE 1 .. LastRow(dims), j \in 1 .. LastCol(dims) :
       Has(heap, arrays[a].rows, <<i, j>>)

AllUsable == \A a \in DOMAIN arrays : Usable(a)

\* The array is of two dimensions that differ.
Oblong(a) == Len(arrays[a].dims) = 2 /\ arrays[a].dims[1] # arrays[a].dims[2]

\* Elements get out of reach by MAT TRN only, which does not compare shapes: of an oblong array,
\* or into one of another shape.
OnlyTransposeLosesElements ==
  [][AllUsable /\ ~ AllUsable' =>
       \E a, b \in DOMAIN arrays : matTrn(a, b) /\ (Oblong(b) \/ arrays[a].dims # arrays[b].dims)]_vars

-----------------------------------------------------------------------------

\* Errors that are found before a statement does anything.
Refusals ==
  {"Matrix not dimensioned", "Matrix must be two dimensional", "Matrix must be square",
   "Matrix cannot be source and destination", "Incompatible matrix types",
   "Incompatible matrix dimensions", "Matrix and multiplier are not compatible",
   "INV does not support integer matrices", "Matrix error",
   "Attempt to change array dimensionality"}

\* A subscript is out of range before anything is stored, except in a MAT loop that overruns.
Refused == outcome' \in Refusals \/ (outcome' = "Subscript out of range" /\ ~ MatInOut)

\* A statement that is refused leaves every array, variable and the place in the data as they
\* were, so that a handler may repair and RESUME; at most it has made an array of zeroes.
RefusedChangesNothing ==
  [][Refused =>
       /\ \A a \in DOMAIN arrays :
            /\ a \in DOMAIN arrays' /\ arrays'[a] = arrays[a]
            /\ \A r \in Range(arrays[a].rows) \ {NilRow} : heap'[r] = heap[r]
       /\ UNCHANGED <<scalar, dataIndex>>]_vars

-----------------------------------------------------------------------------

\* The array has the rows that its dims promise, and each of them the elements, those with
\* subscript 0 too.
Complete(a) ==
  LET sym == arrays[a]
  IN /\ DOMAIN sym.rows = 0 .. LastRow(sym.dims)
     /\ \A r \in Range(sym.rows) : r # NilRow /\ DOMAIN heap[r] = 0 .. LastCol(sym.dims)

\* A loop of MAT over a and other operands meets a subscript up to the largest integer, which
\* it does not end at, or something that an array has lost before.
LoopFails(a, others) ==
  Overruns(arrays[a].dims) \/ \E s \in others \cup {a} : ~ Usable(s)

\* Why the interpreter may give up on a statement on one array: its MAT loop fails, MAT READ
\* meets a string, an element or row 0 has been lost, or CHANGE is given a string as long as the
\* largest integer.
ReasonsOfOne(a) ==
  /\ (\E func \in {"CON", "ZER", "IDN"} : matFill(a, func)) => LoopFails(a, {})
  /\ matPrint(a) \/ (\E v \in Values : matInput(a, v)) => ~ Usable(a)
  /\ matRead(a) => ~ Usable(a) \/ (dataIndex' # dataIndex /\ ~ Number(dataList[dataIndex']))
  /\ (\E subs \in Subscripts : fetchVar(a, subs) \/ \E v \in Values : storeVar(a, subs, v)) =>
       ~ Complete(a)
  /\ changeToArray(a) => wrap(Len(scalar.str)) = IntMax
  /\ ~ changeToString(a)

\* On two and three: the MAT loop fails on one of them, or INV, TRN or * takes apart a matrix that
\* has lost something or is not square.
ReasonsOfMore(a, b) ==
  /\ (\E mult \in Multipliers, type \in {"FVAR", "IVAR"} : matScale(a, mult, type, b)) =>
       LoopFails(a, {b})
  /\ ~ matCopy(a, b)
  /\ matInv(a, b) => ~ Complete(b)
  /\ matTrn(a, b) => Oblong(b) \/ ~ Complete(b)
  /\ \A c \in Names :
       /\ (\E sub \in BOOLEAN : matAdd(a, b, c, sub)) => LoopFails(a, {b, c})
       /\ matMul(a, b, c) => \E s \in {b, c} : Oblong(s) \/ ~ Complete(s)

\* The statements at which the interpreter may end.
MayPanic(a) ==
  \/ Mat \/ MatInOut \/ changeToArray(a)
  \/ \E subs \in Subscripts : fetchVar(a, subs) \/ \E v \in Values : storeVar(a, subs, v)

\* Where the interpreter gives up on arrays of numbers it does so at one of these statements, so
\* never at RUN, READ, RESTORE, MAT A = B, CHANGE to a string or an edit, and what that statement
\* is given is the reason, one of those above.
PanicsAreExplained ==
  [][outcome' = "panic" =>
       /\ \E a \in Names : MayPanic(a)
       /\ \A a, b \in Names : ReasonsOfOne(a) /\ ReasonsOfMore(a, b)]_vars
=============================================================================
