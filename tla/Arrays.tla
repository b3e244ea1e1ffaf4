-------------------------------- MODULE Arrays --------------------------------
(***************************************************************************)
(* Arrays and the DATA list (symtab.go, mat.go, basic.go): DIM, implicit   *)
(* arrays, elements, the MAT statements, READ, RESTORE and CHANGE.         *)
(*                                                                         *)
(* The value of an array is a slice of rows and a row is a slice of        *)
(* elements: a row has an identity, and two arrays may hold the same one.  *)
(* An array of one dimension is row 0.  Elements are small numbers; a      *)
(* float beyond FloatMax is Overflow, which stands for Inf and NaN.        *)
(*                                                                         *)
(* A statement that fails leaves what it has stored.  The symbols survive  *)
(* it, and the program's end, for a handler or for the prompt; so any      *)
(* statement may follow any other.                                         *)
(***************************************************************************)
EXTENDS Integers, Sequences, SequencesExt, FiniteSetsExt, Functions

CONSTANTS
  FloatNames, IntNames,   \* the names of arrays, by type
  RowIds,                 \* identities of rows, numbers
  maxImplicitSubscript,   \* the dimension of an array that no DIM declares
  IntWidth,               \* the bits of an integer
  FloatMax,               \* the largest float
  Programs,               \* the declarations of some programs, in order
  Bytes, LastAscii,       \* characters, and the last of them that is one byte in UTF-8
  \* Bounds of the model:
  Values, Subscripts,     \* the values stored in elements, and the lists of subscripts used
  Multipliers,            \* the factors of (k) * A
  ReadLists,              \* the lists of variables that READ names
  MaxSteps                \* the most statements

Names    == FloatNames \cup IntNames
IntMin   == - 2^(IntWidth - 1)
IntMax   == 2^(IntWidth - 1) - 1
Overflow == FloatMax + 1
NilRow   == 0

\* One dimension or two, of which none is 0.
IsDims(dims) == Len(dims) \in {1, 2} /\ \A d \in 1 .. Len(dims) : dims[d] \in 1 .. IntMax

ASSUME ArraysAssumption ==
  /\ FloatNames \cap IntNames = {} /\ RowIds \subseteq Nat \ {NilRow}
  /\ IntWidth \in Nat \ {0, 1} /\ IntMin \in Int /\ IntMax \in Nat
  /\ FloatMax \in Nat /\ IntMax <= FloatMax
  /\ Values \subseteq IntMin .. IntMax /\ maxImplicitSubscript \in 1 .. IntMax
  /\ Bytes \subseteq Nat /\ LastAscii \in Nat /\ MaxSteps \in Nat
  /\ \A decls \in Programs :
       /\ Len(decls) \in Nat
       /\ \A k \in 1 .. Len(decls) :
            IF decls[k].token = "DATA" THEN decls[k].items \in Seq(Range(decls[k].items))
            ELSE IsDims(decls[k].dims)
  /\ \A subs \in Subscripts : subs \in Seq(Int) /\ Len(subs) \in {1, 2}
  /\ \A list \in ReadLists : list \in Seq({"x", "k", "str"})

VARIABLES
  arrays,     \* g.symtabMap[1]: for each array that exists its dims and rows
  heap,       \* the contents of rows
  scalar,     \* g.symtabMap[0]: a float, an integer and a string
  dataList,   \* r.dataList
  dataIndex,  \* r.dataIndex
  outcome,    \* how the last statement ended: "ok", an error, or a Go panic
  steps

vars == <<arrays, heap, scalar, dataList, dataIndex, outcome, steps>>

-----------------------------------------------------------------------------
\* Values

vType(name) == IF name \in FloatNames THEN "FVAR" ELSE "IVAR"

wrap(n) == ((n - IntMin) % 2^IntWidth) + IntMin

\* A float result; from Overflow nothing else comes.
float(n) == IF n \in -FloatMax .. FloatMax THEN n ELSE Overflow

Plus(type, m, n) ==
  IF type = "IVAR" THEN wrap(m + n)
  ELSE IF Overflow \in {m, n} THEN Overflow ELSE float(m + n)

Times(type, m, n) ==
  IF type = "IVAR" THEN wrap(m * n)
  ELSE IF Overflow \in {m, n} THEN Overflow ELSE float(m * n)

Negative(type, n) == Times(type, -1, n)

isInt16(n) == n \in IntMin .. IntMax

\* The first of two faults, and the second if there is no first.
first ## second == IF first = "ok" THEN second ELSE first

Check(passed, error) == IF passed THEN "ok" ELSE error

-----------------------------------------------------------------------------
\* Rows

\* The value of an array of these dims has an element at p.
Has(h, rows, p) ==
  /\ p[1] \in DOMAIN rows /\ rows[p[1]] # NilRow
  /\ p[2] \in DOMAIN h[rows[p[1]]]

At(h, rows, p) == h[rows[p[1]]][p[2]]

\* Loops count with an integer: up to the largest one they do not end, and wrap.
Beyond         == <<IntMin, IntMin>>
Overruns(dims) == IntMax \in Range(dims)

\* The elements that MAT goes through, in its order: those with subscript 0 are not among
\* them.  A loop over columns that does not end never leaves row 1.
Elements(dims) ==
  LET rows == IF dims[Len(dims)] = IntMax THEN 1 ELSE dims[1]
      all  == IF Len(dims) = 1 THEN [k \in 1 .. dims[1] |-> <<0, k>>]
              ELSE [k \in 1 .. rows * dims[2] |->
                      <<((k - 1) \div dims[2]) + 1, ((k - 1) % dims[2]) + 1>>]
  IN IF Overruns(dims) THEN Append(all, Beyond) ELSE all

\* The last row and column of an array of these dims.
LastRow(dims) == IF Len(dims) = 1 THEN 0 ELSE dims[1]
LastCol(dims) == dims[Len(dims)]

RowsOf(arrs) == UNION {Range(arrs[a].rows) : a \in DOMAIN arrs}

\* n rows that no array has.
FreshRows(n, arrs) == CHOOSE f \in [1 .. n -> RowIds \ RowsOf(arrs)] : IsInjective(f)

\* Rows that no array refers to are collected.
collected(h, arrs) == [r \in RowIds |-> IF r \in RowsOf(arrs) THEN h[r] ELSE <<>>]

\* createSymbol: rows and columns from 0 to the dims, of zeroes.
created(table, name, dims) ==
  LET new == FreshRows(LastRow(dims) + 1, table.arrays)
  IN [arrays |-> [a \in DOMAIN table.arrays \cup {name} |->
                    IF a = name THEN [dims |-> dims, rows |-> [i \in 0 .. LastRow(dims) |-> new[i + 1]]]
                    ELSE table.arrays[a]],
      heap   |-> [r \in RowIds |->
                    IF r \in Range(new) THEN [j \in 0 .. LastCol(dims) |-> 0] ELSE table.heap[r]]]

Table == [arrays |-> arrays, heap |-> heap]

EmptyTable == [arrays |-> <<>>, heap |-> [r \in RowIds |-> <<>>]]

NoScalars == [x |-> 0, k |-> 0, str |-> <<>>]

-----------------------------------------------------------------------------
\* What the statements have in common

Step == steps < MaxSteps /\ steps' = steps + 1

\* A statement that stores into rows, of the arrays there are.
Stores(h, result) ==
  heap' = h /\ outcome' = result /\ UNCHANGED <<arrays, scalar, dataList, dataIndex>>

Fails(error) ==
  outcome' = error /\ UNCHANGED <<arrays, heap, scalar, dataList, dataIndex>>

lookupArray(name, mtype) ==
  IF name \notin DOMAIN arrays THEN "Matrix not dimensioned"
  ELSE LET dims == arrays[name].dims
       IN IF mtype = "2D" THEN Check(Len(dims) = 2, "Matrix must be two dimensional")
          ELSE IF mtype = "SQUARE"
            THEN Check(Len(dims) = 2 /\ dims[1] = dims[Len(dims)], "Matrix must be square")
          ELSE "ok"

checkArrayDestination(dst, src) ==
  Check(dst # src, "Matrix cannot be source and destination")

\* Fault variant: the dims are not compared.
checkArrayTypes(a, b, swapDims) == Check(vType(a) = vType(b), "Incompatible matrix types")

checkArrayCompatibility(a, b, swapDims) ==
  LET dims == arrays[b].dims
  IN Check(vType(a) = vType(b), "Incompatible matrix types")
     ## Check(arrays[a].dims = (IF swapDims THEN Reverse(dims) ELSE dims), "Incompatible matrix dimensions")

\* Fault variant: the destination of a product may have any shape.
checkNoDims(a, b, c) == "ok"

checkArrayDims(a, b, c) ==
  Check(arrays[a].dims[1] = arrays[b].dims[1] /\ arrays[a].dims[2] = arrays[c].dims[2],
        "Incompatible matrix dimensions")

\* checkArrayFloatingStatus: one row is row 0, more are not.
checkArrayFloatingStatus(h, rows) ==
  LET from == IF DOMAIN rows = {0} THEN 0 ELSE 1
  IN Check(\A i \in DOMAIN rows : i >= from /\ rows[i] # NilRow =>
             \A j \in DOMAIN h[rows[i]] : j >= 1 => h[rows[i]][j] # Overflow,
           "Floating error")

\* Elements, or variables, are gone through up to the first at which there is a fault.
GoesThrough(faults) ==
  LET faulty == {k \in DOMAIN faults : faults[k] # "ok"}
  IN IF faulty = {} THEN [passed |-> Len(faults), tried |-> Len(faults), result |-> "ok"]
     ELSE [passed |-> Min(faulty) - 1, tried |-> Min(faulty), result |-> faults[Min(faulty)]]

\* The first elements of an array with these rows get these values.
stored(h, rows, els, values) ==
  [r \in RowIds |-> [j \in DOMAIN h[r] |->
     LET here == {k \in DOMAIN values : rows[els[k][1]] = r /\ els[k][2] = j}
     IN IF here = {} THEN h[r][j] ELSE values[CHOOSE k \in here : TRUE]]]

\* Without an element of one of these arrays where a has one the interpreter gives up.
Missing(a, sources) ==
  LET els == Elements(arrays[a].dims)
  IN [k \in DOMAIN els |->
        Check(\A s \in sources \cup {a} : Has(heap, arrays[s].rows, els[k]), "panic")]

\* Element by element: those of a become Value(p).  As rows are shared at the same place, no
\* element of a source is read after it has been stored into.
ForElements(a, sources, Value(_)) ==
  LET els  == Elements(arrays[a].dims)
      gone == GoesThrough(Missing(a, sources))
  IN [heap   |-> stored(heap, arrays[a].rows, els, [k \in 1 .. gone.passed |-> Value(els[k])]),
      result |-> gone.result]

\* A MAT statement over elements, with the check of floats at its end.
Computes(a, done) ==
  Stores(done.heap,
         done.result ## IF vType(a) = "FVAR" THEN checkArrayFloatingStatus(done.heap, arrays[a].rows)
                        ELSE "ok")

-----------------------------------------------------------------------------
\* Declarations and elements

\* One statement of the program, unless an array has been found to be there already.
declaration(d, stmt) ==
  IF d.result # "ok" THEN d
  ELSE IF stmt.token = "DATA" THEN [d EXCEPT !.data = @ \o stmt.items]
  ELSE IF stmt.name \in DOMAIN d.table.arrays THEN [d EXCEPT !.result = "Duplicate DIM statement"]
  ELSE [d EXCEPT !.table = created(d.table, stmt.name, stmt.dims)]

\* processDeclarations: what the first of them have made.
DeclaredUpTo(decls) ==
  LET d[k \in 0 .. Len(decls)] ==
        IF k = 0 THEN [table |-> EmptyTable, data |-> <<>>, result |-> "ok"]
        ELSE declaration(d[k - 1], decls[k])
  IN  d

Declared(decls) == DeclaredUpTo(decls)[Len(decls)]

\* RUN: symbols and data are made anew.
executeRun(decls) ==
  LET d == Declared(decls)
  IN /\ Step
     /\ arrays' = d.table.arrays /\ heap' = d.table.heap /\ scalar' = NoScalars
     /\ dataList' = d.data /\ dataIndex' = 0 /\ outcome' = d.result

\* Every edit of the program empties the symbol table, and makes r anew.
stmtAvlTreeInsert ==
  /\ Step
  /\ arrays' = <<>> /\ heap' = EmptyTable.heap /\ scalar' = NoScalars
  /\ dataList' = <<>> /\ dataIndex' = 0 /\ outcome' = "ok"

\* lookupSymbolRef: an array with other dimensions is refused, one that is missing is made.
lookupSymbolRef(name, ndims) ==
  Check(name \notin DOMAIN arrays \/ Len(arrays[name].dims) = ndims,
        "Attempt to change array dimensionality")

withSymbol(name, ndims) ==
  IF name \in DOMAIN arrays THEN Table
  ELSE created(Table, name, [d \in 1 .. ndims |-> maxImplicitSubscript])

\* Fault variant: a subscript may be one more than the dimension.
computeSubsPastEnd(dims, subs) ==
  Check(\A d \in DOMAIN subs : subs[d] \in 0 .. dims[d] + 1, "Subscript out of range")

computeSubs(dims, subs) ==
  Check(\A d \in DOMAIN subs : subs[d] \in 0 .. dims[d], "Subscript out of range")

\* Where the element is in the rows.
place(subs) == IF Len(subs) = 1 THEN <<0, subs[1]>> ELSE subs

\* An element is stored into, or fetched: no difference until the last step.
Element(name, subs, Stored(_)) ==
  LET table == withSymbol(name, Len(subs))
      sym   == table.arrays[name]
      found == computeSubs(sym.dims, subs) ## Check(Has(table.heap, sym.rows, place(subs)), "panic")
  IN IF lookupSymbolRef(name, Len(subs)) # "ok" THEN Fails(lookupSymbolRef(name, Len(subs)))
     ELSE /\ arrays' = table.arrays
          /\ heap' = IF found = "ok"
                     THEN [table.heap EXCEPT ![sym.rows[place(subs)[1]]][place(subs)[2]] = Stored(@)]
                     ELSE table.heap
          /\ outcome' = found /\ UNCHANGED <<scalar, dataList, dataIndex>>

storeVar(name, subs, v) == Step /\ Element(name, subs, LAMBDA old : v)
fetchVar(name, subs)    == Step /\ Element(name, subs, LAMBDA old : old)

-----------------------------------------------------------------------------
\* MAT

\* initializeArray: CON, ZER and IDN.
matFill(a, func) ==
  LET bad    == lookupArray(a, IF func = "IDN" THEN "SQUARE" ELSE "ANY")
      one(p) == func = "CON" \/ (func = "IDN" /\ p[1] = p[2])
      done   == ForElements(a, {}, LAMBDA p : IF one(p) THEN 1 ELSE 0)
  IN Step /\ IF bad # "ok" THEN Fails(bad) ELSE Stores(done.heap, done.result)

\* copyMatrix copies the slice of rows, as far as both go.
copyMatrix(a, b) ==
  [i \in DOMAIN arrays[a].rows |->
     IF i \in DOMAIN arrays[b].rows THEN arrays[b].rows[i] ELSE arrays[a].rows[i]]

matCopy(a, b) ==
  LET bad  == lookupArray(a, "ANY") ## lookupArray(b, "ANY")
              ## checkArrayDestination(a, b) ## checkArrayCompatibility(a, b, FALSE)
  IN /\ Step
     /\ IF bad # "ok" THEN Fails(bad)
        ELSE /\ arrays' = [arrays EXCEPT ![a].rows = copyMatrix(a, b)]
             /\ heap' = collected(heap, arrays') /\ outcome' = "ok"
             /\ UNCHANGED <<scalar, dataList, dataIndex>>

\* addMatrices: a may be among the operands.
matAdd(a, b, c, sub) ==
  LET type  == vType(a)
      bad   == lookupArray(a, "ANY") ## lookupArray(b, "ANY") ## lookupArray(c, "ANY")
               ## checkArrayCompatibility(b, c, FALSE)
               ## checkArrayCompatibility(a, b, FALSE) ## checkArrayCompatibility(a, c, FALSE)
      sum(p) == LET m == At(heap, arrays[b].rows, p)  n == At(heap, arrays[c].rows, p)
                IN Plus(type, m, IF sub THEN Negative(type, n) ELSE n)
  IN Step /\ IF bad # "ok" THEN Fails(bad) ELSE Computes(a, ForElements(a, {b, c}, sum))

\* scalarMultiplyMatrix: a STAR, and so for arrays of two dimensions only; the factor is
\* of the type of b.
matScale(a, mult, multType, b) ==
  LET bad == lookupArray(a, "2D") ## lookupArray(b, "2D") ## checkArrayCompatibility(a, b, FALSE)
             ## Check(multType = vType(b), "Matrix and multiplier are not compatible")
      product(p) == Times(vType(a), At(heap, arrays[b].rows, p), mult)
  IN Step /\ IF bad # "ok" THEN Fails(bad) ELSE Computes(a, ForElements(a, {b}, product))

\* removeFirstRowAndCol takes the number of rows for that of columns too.
order(a) == Cardinality(DOMAIN arrays[a].rows) - 1

Strippable(a) == \A i, j \in 1 .. order(a) : Has(heap, arrays[a].rows, <<i, j>>)

Stripped(a) == [p \in (1 .. order(a)) \X (1 .. order(a)) |-> At(heap, arrays[a].rows, p)]

\* insertFirstRowAndCol: the new value of a has no row 0, and zeroes in column 0.
insertFirstRowAndCol(a, matrix, n) ==
  LET new == FreshRows(n, arrays)
  IN [rows |-> [i \in 0 .. n |-> IF i = 0 THEN NilRow ELSE new[i]],
      heap |-> [r \in RowIds |->
                  IF r \in Range(new)
                  THEN [j \in 0 .. n |-> IF j = 0 THEN 0 ELSE matrix[<<SelectInSeq(new, LAMBDA x : x = r), j>>]]
                  ELSE heap[r]]]

\* The matrix package's result becomes the value of a, unless a is of the other type: the
\* symbol has one value per type, and that of the other type is never read.
Rebuilds(a, type, matrix, n, status(_, _)) ==
  LET new  == insertFirstRowAndCol(a, matrix, n)
      arrs == [arrays EXCEPT ![a].rows = new.rows]
  IN IF vType(a) # type THEN Fails(status(new.heap, new.rows))
     ELSE /\ arrays' = arrs /\ heap' = collected(new.heap, arrs)
          /\ outcome' = status(new.heap, new.rows) /\ UNCHANGED <<scalar, dataList, dataIndex>>

Unchecked(h, rows) == "ok"

\* INV of floats: the package finds the matrix singular, or returns numbers.
matInv(a, b) ==
  LET bad == lookupArray(a, "SQUARE") ## lookupArray(b, "SQUARE")
             ## checkArrayDestination(a, b) ## checkArrayCompatibility(a, b, TRUE)
             ## Check(vType(b) = "FVAR", "INV does not support integer matrices")
             ## Check(Strippable(b), "panic")
  IN /\ Step
     /\ IF bad # "ok" THEN Fails(bad)
        ELSE \/ Fails("Matrix error")
             \/ \E v \in Values :
                  Rebuilds(a, "FVAR", [p \in (1 .. order(b)) \X (1 .. order(b)) |-> v], order(b), Unchecked)

\* TRN: neither shape nor type of the destination is looked at, and it may be the source.
matTrn(a, b) ==
  LET bad == lookupArray(a, "2D") ## lookupArray(b, "2D") ## Check(Strippable(b), "panic")
  IN /\ Step
     /\ IF bad # "ok" THEN Fails(bad)
        ELSE Rebuilds(a, vType(b), [p \in DOMAIN Stripped(b) |-> Stripped(b)[Reverse(p)]], order(b), Unchecked)

\* The product of matrices, which the package refuses for different orders.
dotProduct(type, m, n, p, len) ==
  FoldLeft(LAMBDA sum, k : Plus(type, sum, Times(type, m[<<p[1], k>>], n[<<k, p[2]>>])), 0,
           [k \in 1 .. len |-> k])

matMul(a, b, c) ==
  LET type == vType(b)
      bad  == lookupArray(a, "2D") ## lookupArray(b, "2D") ## lookupArray(c, "2D")
              ## checkArrayDestination(a, b) ## checkArrayDestination(a, c)
              ## checkArrayCompatibility(b, c, TRUE) ## checkArrayDims(a, b, c)
              ## Check(Strippable(b) /\ Strippable(c), "panic")
              ## Check(order(b) = order(c), "panic")
      product == [p \in DOMAIN Stripped(b) |-> dotProduct(type, Stripped(b), Stripped(c), p, order(b))]
  IN /\ Step
     /\ IF bad # "ok" THEN Fails(bad)
        ELSE Rebuilds(a, type, product, order(b),
                      LAMBDA h, rows : IF type = "FVAR" THEN checkArrayFloatingStatus(h, rows) ELSE "ok")

-----------------------------------------------------------------------------
\* DATA and input

Number(item) == item.type = "number"

\* Items that are read from here, and how far that many calls of readDataItem go: it moves on
\* before anyone looks at the item.
Item(k) == dataList[dataIndex + k]

readDataItem(tried) == Min({dataIndex + tried, Len(dataList)})

\* The fault of reading the k-th item into an element or variable.
ReadFault(k, fits, misfit, isFloat) ==
  Check(dataIndex + k <= Len(dataList), "Out of data")
  ## Check(fits, misfit)
  ## Check(isFloat \/ isInt16(Item(k).value), "Integer error")

\* MAT READ: a string ends in a Go panic, not in an error.
matRead(a) ==
  LET els  == Elements(arrays[a].dims)
      rows == arrays[a].rows
      gone == GoesThrough([k \in DOMAIN els |->
                ReadFault(k, Number(Item(k)), "panic", vType(a) = "FVAR")
                ## Check(els[k] # Beyond, "Subscript out of range")
                ## Check(Has(heap, rows, els[k]), "panic")])
  IN /\ Step
     /\ IF lookupArray(a, "ANY") # "ok" THEN Fails(lookupArray(a, "ANY"))
        ELSE /\ heap' = stored(heap, rows, els, [k \in 1 .. gone.passed |-> Item(k).value])
             /\ dataIndex' = readDataItem(gone.tried) /\ outcome' = gone.result
             /\ UNCHANGED <<arrays, scalar, dataList>>

\* MAT INPUT: a line per element, until one is no number, is too large, or is interrupted.
matInput(a, v) ==
  LET els  == Elements(arrays[a].dims)
      rows == arrays[a].rows
      gone(lines) == GoesThrough([k \in DOMAIN els |->
                       Check(k <= lines, "Input error")
                       ## Check(els[k] # Beyond, "Subscript out of range")
                       ## Check(Has(heap, rows, els[k]), "panic")])
  IN /\ Step
     /\ IF lookupArray(a, "ANY") # "ok" THEN Fails(lookupArray(a, "ANY"))
        ELSE \E lines \in 0 .. Len(els) :
               Stores(stored(heap, rows, els, [k \in 1 .. gone(lines).passed |-> v]), gone(lines).result)

\* MAT PRINT fetches every element.
matPrint(a) ==
  /\ Step
  /\ LET bad == lookupArray(a, "ANY")
                ## Check(\A p \in Range(Elements(arrays[a].dims)) \ {Beyond} : Has(heap, arrays[a].rows, p),
                         "panic")
                ## Check(~ Overruns(arrays[a].dims), "Subscript out of range")
     IN Fails(bad)

\* READ: the variables before the one that fails have their values.
executeRead(list) ==
  LET gone == GoesThrough([k \in DOMAIN list |->
                ReadFault(k, Number(Item(k)) <=> list[k] # "str", "Data type error", list[k] # "k")])
      read(var) == {k \in 1 .. gone.passed : list[k] = var}
  IN /\ Step
     /\ scalar' = [var \in DOMAIN scalar |->
                    IF read(var) = {} THEN scalar[var] ELSE Item(Max(read(var))).value]
     /\ dataIndex' = readDataItem(gone.tried) /\ outcome' = gone.result
     /\ UNCHANGED <<arrays, heap, dataList>>

executeRestore ==
  Step /\ dataIndex' = 0 /\ outcome' = "ok" /\ UNCHANGED <<arrays, heap, scalar, dataList>>

-----------------------------------------------------------------------------
\* CHANGE

\* The bytes of a character: beyond ASCII there are two, and three for what is no character.
Encoded(n) ==
  LET wide == Max(Bytes)
  IN IF n \in 0 .. LastAscii THEN <<n>>
     ELSE IF n \in 0 .. FloatMax THEN <<wide, wide>>
     ELSE <<wide, wide, wide>>

\* The row of a with the string in it: the length, the bytes, and what there was behind them.
\* The loop counts with the length as an integer, which wraps.
withString(row, a, str) ==
  LET n == wrap(Len(str))
  IN [j \in DOMAIN row |->
        IF j = 0 THEN IF vType(a) = "IVAR" THEN n ELSE float(Len(str))
        ELSE IF j <= n THEN str[j] ELSE row[j]]

\* Fault variant: the length is not compared with the dims first; the bytes are stored until
\* there is no element left.
changeUntilFull(a) ==
  LET str   == scalar.str
      table == withSymbol(a, 1)
      sym   == table.arrays[a]
  IN /\ Step
     /\ IF lookupSymbolRef(a, 1) # "ok" THEN Fails(lookupSymbolRef(a, 1))
        ELSE /\ arrays' = table.arrays
             /\ heap' = [table.heap EXCEPT ![sym.rows[0]] = withString(@, a, str)]
             /\ outcome' = Check(Len(str) <= sym.dims[1], "Subscript out of range")
             /\ UNCHANGED <<scalar, dataList, dataIndex>>

\* CHANGE str TO a: a length that is the largest integer is one that the loop does not end at,
\* and it then takes a byte from before the first, a Go panic.
changeToArray(a) ==
  LET n     == wrap(Len(scalar.str))
      table == withSymbol(a, 1)
      sym   == table.arrays[a]
      bad   == Check(n \in 0 .. sym.dims[1], "Subscript out of range")
  IN /\ Step
     /\ IF lookupSymbolRef(a, 1) # "ok" THEN Fails(lookupSymbolRef(a, 1))
        ELSE /\ arrays' = table.arrays
             /\ heap' = IF bad # "ok" THEN table.heap
                        ELSE [table.heap EXCEPT ![sym.rows[0]] = withString(@, a, scalar.str)]
             /\ outcome' = bad ## Check(n # IntMax, "panic")
             /\ UNCHANGED <<scalar, dataList, dataIndex>>

\* int16 of an element: of a float that is no integer of this width Go leaves the result to the
\* implementation, which takes the low bits, or those of a number that has none.
toInt16(v) == IF isInt16(v) THEN {v} ELSE IF v = Overflow THEN {0} ELSE {wrap(v), 0}

\* CHANGE a TO str: element 0 says how many of the others.
changeToString(a) ==
  LET table == withSymbol(a, 1)
      sym   == table.arrays[a]
      row   == table.heap[sym.rows[0]]
  IN /\ Step
     /\ IF lookupSymbolRef(a, 1) # "ok" THEN Fails(lookupSymbolRef(a, 1))
        ELSE \E iMax \in toInt16(row[0]) :
               LET len == Max({0, iMax})
                   bad == Check(len <= sym.dims[1] /\ len < IntMax, "Subscript out of range")
               IN /\ arrays' = table.arrays /\ heap' = table.heap /\ outcome' = bad
                  /\ scalar' = IF bad # "ok" THEN scalar
                               ELSE [scalar EXCEPT !.str = FlattenSeq([j \in 1 .. len |-> Encoded(row[j])])]
                  /\ UNCHANGED <<dataList, dataIndex>>

-----------------------------------------------------------------------------

Init ==
  /\ arrays = <<>> /\ heap = EmptyTable.heap /\ scalar = NoScalars
  /\ dataList = <<>> /\ dataIndex = 0 /\ outcome = "ok" /\ steps = 0

Mat ==
  \E a, b \in Names :
    \/ \E func \in {"CON", "ZER", "IDN"} : matFill(a, func)
    \/ matCopy(a, b) \/ matInv(a, b) \/ matTrn(a, b)
    \/ \E c \in Names : matMul(a, b, c) \/ \E sub \in BOOLEAN : matAdd(a, b, c, sub)
    \/ \E mult \in Multipliers, type \in {"FVAR", "IVAR"} : matScale(a, mult, type, b)

MatInOut == \E a \in Names : matRead(a) \/ matPrint(a) \/ \E v \in Values : matInput(a, v)

Next ==
  \/ \E decls \in Programs : executeRun(decls)
  \/ stmtAvlTreeInsert
  \/ \E a \in Names, subs \in Subscripts : fetchVar(a, subs) \/ \E v \in Values : storeVar(a, subs, v)
  \/ Mat \/ MatInOut
  \/ \E list \in ReadLists : executeRead(list)
  \/ executeRestore
  \/ \E a \in Names : changeToArray(a) \/ changeToString(a)

Spec == Init /\ [][Next]_vars
=============================================================================
