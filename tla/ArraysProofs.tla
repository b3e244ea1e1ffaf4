----------------------------- MODULE ArraysProofs -----------------------------
(***************************************************************************)
(* That arrays share rows with their like only, that a refused statement   *)
(* changes nothing, why the interpreter gives up, and that only TRN loses  *)
(* elements: for all names, dims, programs and widths, as long as memory   *)
(* does not run out.  A row that is made is no row that an array has.      *)
(*                                                                         *)
(* TInv is the inductive invariant.  Rows that are shared are aligned, and *)
(* all are counted, so that there are others (AInv); dims are positive and *)
(* rows are memory (Shaped); the data is a sequence, and the place in it   *)
(* is a natural number.  Orderly is what every statement does.             *)
(***************************************************************************)
EXTENDS ArraysProps, FiniteSetTheorems, SequenceTheorems, WellFoundedInduction, TLAPS

\* Every row in use can be told from those that are not.
RowsAreCounted(arrs) ==
  /\ IsFiniteSet(RowsOf(arrs))
  /\ \A a \in DOMAIN arrs : /\ arrs[a] = [dims |-> arrs[a].dims, rows |-> arrs[a].rows]
                            /\ \E m \in Nat : DOMAIN arrs[a].rows = 0 .. m

\* SharedRowsAreAligned of any arrays, and of an array with itself: it has a row once.
Aligned(arrs) ==
  \A a, b \in DOMAIN arrs :
    \A i \in DOMAIN arrs[a].rows, j \in DOMAIN arrs[b].rows :
      arrs[a].rows[i] = arrs[b].rows[j] /\ arrs[a].rows[i] # NilRow =>
        i = j /\ vType(a) = vType(b) /\ arrs[a].dims = arrs[b].dims

AInv(arrs) == RowsAreCounted(arrs) /\ Aligned(arrs)

-----------------------------------------------------------------------------
(* Memory.                                                                  *)

\* Every natural number is reached from 0 step by step.
LEMMA NaturalsByStep ==
  ASSUME NEW S, 0 \in S, \A n \in Nat : n \in S => n + 1 \in S
  PROVE  Nat \subseteq S
<1> DEFINE left == Nat \ S
<1>1. ASSUME left # {} PROVE FALSE
  <2>1. PICK x \in left : \A y \in left : ~ (<<y, x>> \in OpToRel(<, Nat))
    BY <1>1, WFMin, NatLessThanWellFounded
  <2>2. x \in Nat /\ x \notin S /\ x # 0
    BY <2>1
  <2>3. x - 1 \in Nat /\ x - 1 + 1 = x /\ x - 1 < x
    BY <2>2
  <2>4. x - 1 \in left
    BY <2>2, <2>3
  <2>5. <<x - 1, x>> \in Nat \X Nat /\ <<x - 1, x>>[1] = x - 1 /\ <<x - 1, x>>[2] = x
    BY <2>2, <2>3
  <2>6. <<x - 1, x>> \in OpToRel(<, Nat)
    BY <2>3, <2>5 DEF OpToRel
  <2> QED
    BY <2>1, <2>4, <2>6
<1> QED
  BY <1>1

LEMMA RangeIsFinite ==
  ASSUME NEW f, IsFiniteSet(DOMAIN f), f = [x \in DOMAIN f |-> f[x]]
  PROVE  IsFiniteSet(Range(f))
<1>1. f \in Surjection(DOMAIN f, Range(f))
  BY DEF Surjection, Range
<1> QED
  BY <1>1, FS_Surjection

\* As many rows as one likes can be had, which no array has.
LEMMA FreshRowsExist ==
  ASSUME ~ IsFiniteSet(RowIds), NEW arrs, IsFiniteSet(RowsOf(arrs)), NEW n \in Nat
  PROVE  /\ FreshRows(n, arrs) \in [1 .. n -> RowIds \ RowsOf(arrs)]
         /\ IsInjective(FreshRows(n, arrs))
<1> DEFINE T == RowIds \ RowsOf(arrs)
           S == {k \in Nat : \E f \in [1 .. k -> T] : IsInjective(f)}
<1>1. ~ IsFiniteSet(T)
  <2>1. ASSUME IsFiniteSet(T) PROVE FALSE
    <3>1. IsFiniteSet(T \cup RowsOf(arrs)) /\ RowIds \in SUBSET (T \cup RowsOf(arrs))
      BY <2>1, FS_Union
    <3> QED
      BY <3>1, FS_Subset
  <2> QED
    BY <2>1
<1> HIDE DEF T
<1>2. 0 \in S
  <2>1. <<>> \in [1 .. 0 -> T] /\ IsInjective(<<>>)
    BY DEF IsInjective
  <2> QED
    BY <2>1
<1>3. ASSUME NEW k \in Nat, k \in S PROVE k + 1 \in S
  <2>1. PICK f \in [1 .. k -> T] : IsInjective(f)
    BY <1>3
  <2>2. IsFiniteSet(1 .. k) /\ DOMAIN f = 1 .. k /\ f = [x \in DOMAIN f |-> f[x]]
    BY FS_Interval
  <2>3. IsFiniteSet(Range(f)) /\ Range(f) \subseteq T
    BY <2>2, RangeIsFinite DEF Range
  <2>4. PICK r \in T : r \notin Range(f)
    <3>1. ~ (T \subseteq Range(f))
      BY <1>1, <2>3, FS_Subset
    <3> QED
      BY <3>1
  <2> DEFINE g == [x \in 1 .. k + 1 |-> IF x = k + 1 THEN r ELSE f[x]]
  <2>5. g \in [1 .. k + 1 -> T]
    <3>1. \A x \in 1 .. k + 1 : x # k + 1 => x \in 1 .. k
      OBVIOUS
    <3> QED
      BY <3>1
  <2>6. IsInjective(g)
    <3> SUFFICES ASSUME NEW x \in 1 .. k + 1, NEW y \in 1 .. k + 1, g[x] = g[y] PROVE x = y
      BY DEF IsInjective
    <3>1. x # k + 1 => x \in 1 .. k /\ g[x] = f[x] /\ f[x] # r
      BY <2>4 DEF Range
    <3>2. y # k + 1 => y \in 1 .. k /\ g[y] = f[y] /\ f[y] # r
      BY <2>4 DEF Range
    <3>3. (x = k + 1 => g[x] = r) /\ (y = k + 1 => g[y] = r)
      OBVIOUS
    <3> HIDE DEF g
    <3>4. CASE x # k + 1 /\ y # k + 1
      BY <2>1, <3>1, <3>2, <3>4 DEF IsInjective
    <3> QED
      BY <3>1, <3>2, <3>3, <3>4
  <2> QED
    BY <2>5, <2>6
<1>4. n \in S
  <2> HIDE DEF S
  <2> QED
    BY <1>2, <1>3, NaturalsByStep
<1>5. \E f \in [1 .. n -> T] : IsInjective(f)
  BY <1>4
<1> QED
  BY <1>5 DEF FreshRows, T

-----------------------------------------------------------------------------
(* Arrays that are made.                                                    *)

\* An array gets rows 0 to n, none twice, which are nobody's or nil.
GetsRows(new, arrs, a, n) ==
  /\ DOMAIN new = DOMAIN arrs \cup {a}
  /\ \A b \in DOMAIN arrs : b # a => new[b] = arrs[b]
  /\ new[a] = [dims |-> new[a].dims, rows |-> new[a].rows]
  /\ new[a].rows = [i \in 0 .. n |-> new[a].rows[i]]
  /\ \A i \in 0 .. n : new[a].rows[i] # NilRow => new[a].rows[i] \notin RowsOf(arrs)
  /\ \A i, j \in 0 .. n : new[a].rows[i] # NilRow /\ new[a].rows[i] = new[a].rows[j] => i = j

LEMMA RowsAnew ==
  ASSUME NEW arrs, AInv(arrs), NEW new, NEW a, NEW n \in Nat,
         GetsRows(new, arrs, a, n)
  PROVE  AInv(new)
<1> USE DEF GetsRows
<1>1. DOMAIN new[a].rows = 0 .. n /\ IsFiniteSet(0 .. n)
  BY FS_Interval
<1>2. IsFiniteSet(RowsOf(arrs) \cup Range(new[a].rows))
  BY <1>1, RangeIsFinite, FS_Union DEF AInv, RowsAreCounted
<1>3. RowsOf(new) \subseteq RowsOf(arrs) \cup Range(new[a].rows)
  <2>1. ASSUME NEW b \in DOMAIN new, NEW r \in Range(new[b].rows)
        PROVE  r \in RowsOf(arrs) \cup Range(new[a].rows)
    <3>1. CASE b = a
      BY <2>1, <3>1
    <3>2. CASE b # a
      BY <2>1, <3>2 DEF RowsOf
    <3> QED
      BY <3>1, <3>2
  <2> QED
    BY <2>1 DEF RowsOf
<1>4. RowsAreCounted(new)
  <2>1. IsFiniteSet(RowsOf(new))
    BY <1>2, <1>3, FS_Subset
  <2>2. ASSUME NEW b \in DOMAIN new
        PROVE  /\ new[b] = [dims |-> new[b].dims, rows |-> new[b].rows]
               /\ \E m \in Nat : DOMAIN new[b].rows = 0 .. m
    <3>1. CASE b = a
      BY <1>1, <3>1
    <3>2. CASE b # a
      BY <3>2 DEF AInv, RowsAreCounted
    <3> QED
      BY <3>1, <3>2
  <2> QED
    BY <2>1, <2>2 DEF RowsAreCounted
<1>5. \A b \in DOMAIN new : b # a =>
        \A j \in DOMAIN new[b].rows, i \in 0 .. n :
          ~ (new[a].rows[i] = new[b].rows[j] /\ new[a].rows[i] # NilRow)
  BY DEF RowsOf, Range
<1>6. Aligned(new)
  <2> SUFFICES ASSUME NEW b \in DOMAIN new, NEW c \in DOMAIN new,
                      NEW i \in DOMAIN new[b].rows, NEW j \in DOMAIN new[c].rows,
                      new[b].rows[i] = new[c].rows[j], new[b].rows[i] # NilRow
               PROVE  i = j /\ vType(b) = vType(c) /\ new[b].dims = new[c].dims
    BY DEF Aligned
  <2>1. CASE b = a /\ c = a
    BY <1>1, <2>1
  <2>2. CASE b # a /\ c # a
    BY <2>2 DEF AInv, Aligned
  <2>3. CASE b = a /\ c # a
    BY <1>1, <1>5, <2>3
  <2>4. CASE b # a /\ c = a
    BY <1>1, <1>5, <2>4
  <2> QED
    BY <2>1, <2>2, <2>3, <2>4
<1> QED
  BY <1>4, <1>6 DEF AInv

\* createSymbol makes an array of its own rows.
LEMMA CreatedKeepsAInv ==
  ASSUME ~ IsFiniteSet(RowIds), NEW table, AInv(table.arrays), NEW name,
         name \notin DOMAIN table.arrays, NEW dims, IsDims(dims)
  PROVE  AInv(created(table, name, dims).arrays)
<1> DEFINE n    == LastRow(dims)
           rows == FreshRows(n + 1, table.arrays)
           new  == created(table, name, dims).arrays
<1>1. n \in Nat /\ n + 1 \in Nat
  BY DEF IsDims, LastRow
<1>2. rows \in [1 .. n + 1 -> RowIds \ RowsOf(table.arrays)] /\ IsInjective(rows)
  BY <1>1, FreshRowsExist DEF AInv, RowsAreCounted
<1>3. /\ DOMAIN new = DOMAIN table.arrays \cup {name}
      /\ new[name] = [dims |-> dims, rows |-> [i \in 0 .. n |-> rows[i + 1]]]
      /\ \A b \in DOMAIN table.arrays : b # name => new[b] = table.arrays[b]
  BY DEF created
<1> HIDE DEF new, rows
<1>4. new[name].rows = [i \in 0 .. n |-> rows[i + 1]] /\ new[name].dims = dims
  BY <1>3
<1>5. \A i \in 0 .. n : new[name].rows[i] \notin RowsOf(table.arrays)
  <2>1. \A i \in 0 .. n : i + 1 \in 1 .. n + 1 /\ new[name].rows[i] = rows[i + 1]
    BY <1>1, <1>4
  <2> HIDE DEF n
  <2> QED
    BY <1>2, <2>1
<1>6. \A i, j \in 0 .. n : new[name].rows[i] = new[name].rows[j] => i = j
  <2> SUFFICES ASSUME NEW i \in 0 .. n, NEW j \in 0 .. n, new[name].rows[i] = new[name].rows[j]
               PROVE  i = j
    OBVIOUS
  <2>1. /\ i + 1 \in 1 .. n + 1 /\ new[name].rows[i] = rows[i + 1]
        /\ j + 1 \in 1 .. n + 1 /\ new[name].rows[j] = rows[j + 1]
    BY <1>1, <1>4
  <2>2. i + 1 = j + 1
    <3> HIDE DEF n
    <3> QED
      BY <1>2, <2>1 DEF IsInjective
  <2> QED
    BY <1>1, <2>2
<1> HIDE DEF n
<1>7. /\ new[name] = [dims |-> new[name].dims, rows |-> new[name].rows]
      /\ new[name].rows = [i \in 0 .. n |-> new[name].rows[i]]
  BY <1>3, <1>4
<1>8. GetsRows(new, table.arrays, name, n)
  BY <1>3, <1>5, <1>6, <1>7 DEF GetsRows
<1>9. AInv(new)
  BY <1>1, <1>8, RowsAnew
<1> QED
  BY <1>9 DEF new

LEMMA NoArrays == AInv(EmptyTable.arrays) /\ AInv(<<>>)
<1>1. DOMAIN <<>> = {} /\ EmptyTable.arrays = <<>>
  BY DEF EmptyTable
<1>2. RowsOf(<<>>) = {}
  BY <1>1 DEF RowsOf
<1> QED
  BY <1>1, <1>2, FS_EmptySet DEF AInv, RowsAreCounted, Aligned

-----------------------------------------------------------------------------
(* RUN.                                                                     *)

Undeclared == [table |-> EmptyTable, data |-> <<>>, result |-> "ok"]

\* f follows the first n declarations.
Follows(f, decls, n) ==
  /\ DOMAIN f = 0 .. n /\ f = [k \in 0 .. n |-> f[k]]
  /\ f[0] = Undeclared
  /\ \A k \in 1 .. n : f[k] = declaration(f[k - 1], decls[k])

LEMMA DeclaringExists ==
  ASSUME NEW n \in Nat, NEW decls
  PROVE  \E f : Follows(f, decls, n)
<1> DEFINE S == {m \in Nat : \E f : Follows(f, decls, m)}
<1>1. 0 \in S
  <2>1. Follows([k \in 0 .. 0 |-> Undeclared], decls, 0)
    BY DEF Follows
  <2> QED
    BY <2>1
<1>2. ASSUME NEW m \in Nat, m \in S PROVE m + 1 \in S
  <2>1. PICK f : Follows(f, decls, m)
    BY <1>2
  <2> DEFINE g == [k \in 0 .. m + 1 |->
                     IF k = m + 1 THEN declaration(f[m], decls[m + 1]) ELSE f[k]]
  <2>2. DOMAIN g = 0 .. m + 1 /\ g = [k \in 0 .. m + 1 |-> g[k]] /\ g[0] = Undeclared
    <3>1. 0 # m + 1 /\ 0 \in 0 .. m + 1
      OBVIOUS
    <3> QED
      BY <2>1, <3>1 DEF Follows
  <2>3. ASSUME NEW k \in 1 .. m + 1 PROVE g[k] = declaration(g[k - 1], decls[k])
    <3>1. CASE k = m + 1
      <4>1. g[k] = declaration(f[m], decls[m + 1]) /\ k - 1 = m /\ g[m] = f[m]
        BY <3>1
      <4> HIDE DEF g
      <4> QED
        BY <3>1, <4>1
    <3>2. CASE k # m + 1
      <4>1. k \in 1 .. m /\ k - 1 \in 0 .. m /\ g[k] = f[k] /\ g[k - 1] = f[k - 1]
        BY <3>2
      <4> HIDE DEF g
      <4> QED
        BY <2>1, <4>1 DEF Follows
    <3> QED
      BY <3>1, <3>2
  <2> HIDE DEF g
  <2>4. Follows(g, decls, m + 1)
    BY <2>2, <2>3 DEF Follows
  <2> QED
    BY <2>4
<1>3. n \in S
  <2> HIDE DEF S
  <2> QED
    BY <1>1, <1>2, NaturalsByStep
<1> QED
  BY <1>3

\* The recursive definition is one that can be followed.
LEMMA DeclaringIsFollowed ==
  ASSUME NEW decls, Len(decls) \in Nat
  PROVE  Follows(DeclaredUpTo(decls), decls, Len(decls))
<1> DEFINE n == Len(decls)
           Unrolled(e) == [k \in 0 .. n |->
                             IF k = 0 THEN [table |-> EmptyTable, data |-> <<>>, result |-> "ok"]
                             ELSE declaration(e[k - 1], decls[k])]
           d == CHOOSE e : e = Unrolled(e)
<1>1. PICK f : Follows(f, decls, n)
  BY DeclaringExists
<1>2. f = Unrolled(f)
  <2>1. \A k \in 0 .. n : f[k] = Unrolled(f)[k]
    <3> TAKE k \in 0 .. n
    <3>1. CASE k = 0
      BY <1>1, <3>1 DEF Follows, Undeclared
    <3>2. CASE k # 0
      BY <1>1, <3>2 DEF Follows
    <3> QED
      BY <3>1, <3>2
  <2> QED
    BY <1>1, <2>1 DEF Follows
<1>3. d = Unrolled(d)
  BY <1>2
<1>4. DeclaredUpTo(decls) = d
  BY DEF DeclaredUpTo
<1> HIDE DEF d
<1>5. Follows(d, decls, n)
  <2>1. DOMAIN d = 0 .. n /\ d = [k \in 0 .. n |-> d[k]] /\ d[0] = Undeclared
    BY <1>3 DEF Undeclared
  <2>2. ASSUME NEW k \in 1 .. n PROVE d[k] = declaration(d[k - 1], decls[k])
    <3>1. k \in 0 .. n /\ k # 0
      OBVIOUS
    <3>2. d[k] = Unrolled(d)[k]
      BY <1>3
    <3> QED
      BY <3>1, <3>2
  <2> QED
    BY <2>1, <2>2 DEF Follows
<1> QED
  BY <1>4, <1>5

\* What declarations are gathered in.
Gathered(d) == d = [table |-> d.table, data |-> d.data, result |-> d.result]

-----------------------------------------------------------------------------
(* Rows that are shared, and rows that are replaced.                        *)

\* What is looked up is there.
LEMMA LookedUp ==
  ASSUME NEW a, NEW mtype, lookupArray(a, mtype) = "ok"
  PROVE  a \in DOMAIN arrays
BY DEF lookupArray

LEMMA OrderIsNatural ==
  ASSUME AInv(arrays), NEW b \in DOMAIN arrays
  PROVE  order(b) \in Nat
<1>1. PICK m \in Nat : DOMAIN arrays[b].rows = 0 .. m
  BY DEF AInv, RowsAreCounted
<1>2. Cardinality(0 .. m) = m + 1
  BY FS_Interval
<1> QED
  BY <1>1, <1>2 DEF order

\* The dims stay when the rows are others.
LEMMA RowsReplaced ==
  ASSUME AInv(arrays), NEW a \in DOMAIN arrays, NEW rows
  PROVE  LET new == [arrays EXCEPT ![a].rows = rows]
         IN  /\ DOMAIN new = DOMAIN arrays
             /\ \A b \in DOMAIN arrays : b # a => new[b] = arrays[b]
             /\ new[a] = [dims |-> arrays[a].dims, rows |-> rows]
<1>1. arrays[a] = [dims |-> arrays[a].dims, rows |-> arrays[a].rows]
  BY DEF AInv, RowsAreCounted
<1> QED
  BY <1>1

\* MAT A = B: the rows of b are aligned with their copies in a.
LEMMA CopyKeepsAInv ==
  ASSUME AInv(arrays), NEW a \in DOMAIN arrays, NEW b \in DOMAIN arrays,
         vType(a) = vType(b), arrays[a].dims = arrays[b].dims
  PROVE  AInv([arrays EXCEPT ![a].rows = copyMatrix(a, b)])
<1> DEFINE new == [arrays EXCEPT ![a].rows = copyMatrix(a, b)]
<1>1. /\ DOMAIN new = DOMAIN arrays
      /\ \A c \in DOMAIN arrays : c # a => new[c] = arrays[c]
      /\ new[a] = [dims |-> arrays[a].dims, rows |-> copyMatrix(a, b)]
  BY RowsReplaced
<1> HIDE DEF new
<1>2. /\ DOMAIN new[a].rows = DOMAIN arrays[a].rows
      /\ new[a].dims = arrays[a].dims
      /\ \A i \in DOMAIN arrays[a].rows :
           \/ new[a].rows[i] = arrays[a].rows[i]
           \/ i \in DOMAIN arrays[b].rows /\ new[a].rows[i] = arrays[b].rows[i]
  BY <1>1 DEF copyMatrix
\* Every row of the new arrays is an old one, at its place, of an array of the same kind.
<1>3. \A c \in DOMAIN new : \A i \in DOMAIN new[c].rows :
        \E d \in DOMAIN arrays :
          /\ i \in DOMAIN arrays[d].rows /\ new[c].rows[i] = arrays[d].rows[i]
          /\ vType(c) = vType(d) /\ new[c].dims = arrays[d].dims
  <2> TAKE c \in DOMAIN new
  <2> TAKE i \in DOMAIN new[c].rows
  <2>1. CASE c = a
    BY <1>1, <1>2, <2>1
  <2>2. CASE c # a
    BY <1>1, <2>2
  <2> QED
    BY <2>1, <2>2
<1>4. RowsAreCounted(new)
  <2>1. RowsOf(new) \subseteq RowsOf(arrays)
    BY <1>3 DEF RowsOf, Range
  <2>2. IsFiniteSet(RowsOf(new))
    BY <2>1, FS_Subset DEF AInv, RowsAreCounted
  <2>3. ASSUME NEW c \in DOMAIN new
        PROVE  /\ new[c] = [dims |-> new[c].dims, rows |-> new[c].rows]
               /\ \E m \in Nat : DOMAIN new[c].rows = 0 .. m
    <3>1. CASE c = a
      BY <1>1, <1>2, <3>1 DEF AInv, RowsAreCounted
    <3>2. CASE c # a
      BY <1>1, <3>2 DEF AInv, RowsAreCounted
    <3> QED
      BY <3>1, <3>2
  <2> QED
    BY <2>2, <2>3 DEF RowsAreCounted
<1>5. Aligned(new)
  <2> SUFFICES ASSUME NEW c \in DOMAIN new, NEW e \in DOMAIN new,
                      NEW i \in DOMAIN new[c].rows, NEW j \in DOMAIN new[e].rows,
                      new[c].rows[i] = new[e].rows[j], new[c].rows[i] # NilRow
               PROVE  i = j /\ vType(c) = vType(e) /\ new[c].dims = new[e].dims
    BY DEF Aligned
  <2>1. PICK d \in DOMAIN arrays :
               /\ i \in DOMAIN arrays[d].rows /\ new[c].rows[i] = arrays[d].rows[i]
               /\ vType(c) = vType(d) /\ new[c].dims = arrays[d].dims
    BY <1>3
  <2>2. PICK f \in DOMAIN arrays :
               /\ j \in DOMAIN arrays[f].rows /\ new[e].rows[j] = arrays[f].rows[j]
               /\ vType(e) = vType(f) /\ new[e].dims = arrays[f].dims
    BY <1>3
  <2>3. i = j /\ vType(d) = vType(f) /\ arrays[d].dims = arrays[f].dims
    <3>1. arrays[d].rows[i] = arrays[f].rows[j] /\ arrays[d].rows[i] # NilRow
      BY <2>1, <2>2
    <3>2. i \in DOMAIN arrays[d].rows /\ j \in DOMAIN arrays[f].rows
      BY <2>1, <2>2
    <3> QED
      BY <3>1, <3>2 DEF AInv, Aligned
  <2> QED
    BY <2>1, <2>2, <2>3
<1> QED
  BY <1>4, <1>5 DEF AInv, new

\* The result of the matrix package is new memory.
LEMMA RebuildKeepsAInv ==
  ASSUME ~ IsFiniteSet(RowIds), AInv(arrays), NEW a \in DOMAIN arrays, NEW matrix, NEW n \in Nat
  PROVE  AInv([arrays EXCEPT ![a].rows = insertFirstRowAndCol(a, matrix, n).rows])
<1> DEFINE rows  == insertFirstRowAndCol(a, matrix, n).rows
           fresh == FreshRows(n, arrays)
           new   == [arrays EXCEPT ![a].rows = rows]
<1>1. fresh \in [1 .. n -> RowIds \ RowsOf(arrays)] /\ IsInjective(fresh)
  BY FreshRowsExist DEF AInv, RowsAreCounted
<1>2. rows = [i \in 0 .. n |-> IF i = 0 THEN NilRow ELSE fresh[i]]
  BY DEF insertFirstRowAndCol
<1> HIDE DEF rows, fresh
<1>3. /\ DOMAIN new = DOMAIN arrays
      /\ \A c \in DOMAIN arrays : c # a => new[c] = arrays[c]
      /\ new[a] = [dims |-> arrays[a].dims, rows |-> rows]
  BY RowsReplaced
<1> HIDE DEF new
<1>4. new[a].rows = rows /\ new[a].dims = arrays[a].dims
  BY <1>3
<1>5. \A i \in 0 .. n : rows[i] # NilRow => i \in 1 .. n /\ rows[i] = fresh[i]
  BY <1>2
<1>6. \A i \in 0 .. n : rows[i] # NilRow => rows[i] \notin RowsOf(arrays)
  BY <1>1, <1>5
<1>7. \A i, j \in 0 .. n : rows[i] # NilRow /\ rows[i] = rows[j] => i = j
  BY <1>1, <1>5 DEF IsInjective
<1>8. GetsRows(new, arrays, a, n)
  BY <1>2, <1>3, <1>4, <1>6, <1>7 DEF GetsRows
<1>9. AInv(new)
  BY <1>8, RowsAnew
<1> QED
  BY <1>9 DEF new, rows

-----------------------------------------------------------------------------
(* Elements, and faults among them.                                         *)

LEMMA Multiples ==
  ASSUME NEW m \in Int, NEW n \in Int, NEW c \in Nat \ {0}, m < n
  PROVE  m * c + c <= n * c
<1> DEFINE d == n - m
<1>1. d \in Int /\ d >= 1 /\ n = m + d
  OBVIOUS
<1>2. n * c = m * c + d * c /\ m * c \in Int /\ d * c \in Int
  BY <1>1
<1>3. d * c = (d - 1) * c + c /\ (d - 1) * c >= 0
  BY <1>1
<1> QED
  BY <1>2, <1>3

\* The k-th cell, row by row, of r rows of c.
LEMMA CellIsInside ==
  ASSUME NEW r \in Nat \ {0}, NEW c \in Nat \ {0}, NEW k \in 1 .. r * c
  PROVE  ((k - 1) \div c) + 1 \in 1 .. r /\ ((k - 1) % c) + 1 \in 1 .. c
<1> DEFINE q == (k - 1) \div c
<1>1. r * c \in Nat /\ k \in Int /\ 1 <= k /\ k <= r * c
  OBVIOUS
<1>2. q \in Int /\ (k - 1) % c \in 0 .. c - 1 /\ k - 1 = c * q + ((k - 1) % c)
  BY <1>1
<1>3. c * q = q * c
  BY <1>2
<1>4. 0 * c = 0
  OBVIOUS
<1> HIDE DEF q
<1>5. ~ (q < 0)
  <2>1. q < 0 => q * c + c <= 0 * c
    BY <1>2, Multiples
  <2> QED
    BY <1>1, <1>2, <1>3, <1>4, <2>1
<1>6. q < r
  <2>1. CASE q = r
    BY <1>1, <1>2, <1>3, <2>1
  <2>2. CASE r < q
    <3>1. r * c + c <= q * c
      BY <1>2, <2>2, Multiples
    <3> QED
      BY <1>1, <1>2, <1>3, <3>1
  <2> QED
    BY <1>2, <2>1, <2>2
<1>7. q + 1 \in 1 .. r
  BY <1>2, <1>5, <1>6
<1> QED
  BY <1>2, <1>7 DEF q

\* The places of the elements without subscript 0.
FirstRow(dims) == IF Len(dims) = 1 THEN 0 ELSE 1

IsInside(dims, p) ==
  \E i \in FirstRow(dims) .. LastRow(dims), j \in 1 .. LastCol(dims) : p = <<i, j>>

\* MAT goes through such places, and to the one behind the largest integer if the dims are such.
LEMMA ElementsAreInside ==
  ASSUME NEW dims, IsDims(dims)
  PROVE  LET els == Elements(dims)
         IN  /\ Len(els) \in Nat /\ DOMAIN els = 1 .. Len(els)
             /\ \A k \in DOMAIN els : IsInside(dims, els[k]) \/ (els[k] = Beyond /\ Overruns(dims))
<1> DEFINE rows == IF dims[Len(dims)] = IntMax THEN 1 ELSE dims[1]
           all  == IF Len(dims) = 1 THEN [k \in 1 .. dims[1] |-> <<0, k>>]
                   ELSE [k \in 1 .. rows * dims[2] |->
                           <<((k - 1) \div dims[2]) + 1, ((k - 1) % dims[2]) + 1>>]
           n    == IF Len(dims) = 1 THEN dims[1] ELSE rows * dims[2]
           S    == (Int \X Int)
<1>1. IntMax \in Nat /\ IntMin \in Int
  BY ArraysAssumption
<1>2. Len(dims) \in {1, 2} /\ dims[1] \in Nat \ {0} /\ (Len(dims) = 2 => dims[2] \in Nat \ {0})
  BY <1>1 DEF IsDims
<1>3. rows \in 1 .. dims[1] /\ rows \in Nat \ {0}
  BY <1>2
<1>4. n \in Nat
  BY <1>2, <1>3
<1>5. \A k \in 1 .. n : IsInside(dims, all[k]) /\ all[k] \in S
  <2> TAKE k \in 1 .. n
  <2>1. CASE Len(dims) = 1
    BY <1>2, <2>1 DEF IsInside, FirstRow, LastRow, LastCol
  <2>2. CASE Len(dims) = 2
    <3>1. k \in 1 .. rows * dims[2]
      BY <2>2
    <3>2. all[k] = <<((k - 1) \div dims[2]) + 1, ((k - 1) % dims[2]) + 1>>
      BY <2>2, <3>1
    <3> HIDE DEF rows, all
    <3>3. ((k - 1) \div dims[2]) + 1 \in 1 .. rows /\ ((k - 1) % dims[2]) + 1 \in 1 .. dims[2]
      BY <1>2, <1>3, <2>2, <3>1, CellIsInside
    <3>4. ((k - 1) \div dims[2]) + 1 \in 1 .. dims[1]
      BY <1>2, <1>3, <3>3
    <3> QED
      BY <1>2, <2>2, <3>2, <3>3, <3>4 DEF IsInside, FirstRow, LastRow, LastCol
  <2> QED
    BY <1>2, <2>1, <2>2
<1>6. DOMAIN all = 1 .. n /\ all = [k \in 1 .. n |-> all[k]]
  BY <1>2
<1> HIDE DEF all, n
<1>7. all \in Seq(S) /\ Len(all) = n
  <2>1. all \in [1 .. n -> S]
    BY <1>5, <1>6
  <2> QED
    BY <1>4, <2>1
<1>8. Elements(dims) = IF Overruns(dims) THEN Append(all, Beyond) ELSE all
  BY DEF Elements, all
<1>9. CASE ~ Overruns(dims)
  <2>1. Elements(dims) = all
    BY <1>8, <1>9
  <2>2. DOMAIN Elements(dims) = 1 .. n /\ Len(Elements(dims)) = n
    BY <1>6, <1>7, <2>1
  <2>3. \A k \in 1 .. n : IsInside(dims, Elements(dims)[k])
    BY <1>5, <2>1
  <2> QED
    BY <1>4, <2>2, <2>3
<1>10. CASE Overruns(dims)
  <2>1. Beyond \in S
    BY <1>1 DEF Beyond
  <2>2. /\ Append(all, Beyond) \in Seq(S) /\ Len(Append(all, Beyond)) = n + 1
        /\ \A k \in 1 .. n : Append(all, Beyond)[k] = all[k]
        /\ Append(all, Beyond)[n + 1] = Beyond
    BY <1>7, <2>1, AppendProperties
  <2>3. DOMAIN Append(all, Beyond) = 1 .. n + 1
    BY <2>2, LenProperties
  <2>4. \A k \in 1 .. n + 1 : k \in 1 .. n \/ k = n + 1
    BY <1>4
  <2>5. n + 1 \in Nat
    BY <1>4
  <2> QED
    BY <1>5, <1>8, <1>10, <2>2, <2>3, <2>4, <2>5
<1> QED
  BY <1>9, <1>10

\* Min of a set of naturals is the least of its members.
LEMMA MinIsLeast ==
  ASSUME NEW S \in SUBSET Nat, S # {}
  PROVE  Min(S) \in S /\ \A y \in S : Min(S) <= y
<1>1. PICK x \in S : \A y \in S : ~ (<<y, x>> \in OpToRel(<, Nat))
  BY WFMin, NatLessThanWellFounded
<1>2. ASSUME NEW y \in S PROVE x <= y
  <2>1. <<y, x>> \in Nat \X Nat /\ <<y, x>>[1] = y /\ <<y, x>>[2] = x
    OBVIOUS
  <2>2. ~ (y < x)
    BY <1>1, <2>1, Zenon DEF OpToRel
  <2> QED
    BY <2>2
<1> QED
  BY <1>2 DEF Min

\* Elements are passed up to the first fault, which is the result.
LEMMA FirstFaultCounts ==
  ASSUME NEW faults, NEW n \in Nat, DOMAIN faults = 1 .. n, Len(faults) = n
  PROVE  LET gone == GoesThrough(faults)
         IN  \/ /\ gone.result = "ok" /\ gone.passed = n /\ gone.tried = n
                /\ \A k \in 1 .. n : faults[k] = "ok"
             \/ /\ gone.tried \in 1 .. n /\ gone.passed = gone.tried - 1
                /\ gone.result = faults[gone.tried] /\ gone.result # "ok"
                /\ \A k \in 1 .. gone.passed : faults[k] = "ok"
<1> DEFINE faulty == {k \in DOMAIN faults : faults[k] # "ok"}
           gone   == GoesThrough(faults)
<1>1. CASE faulty = {}
  BY <1>1 DEF GoesThrough
<1>2. CASE faulty # {}
  <2>1. faulty \in SUBSET Nat
    OBVIOUS
  <2>2. Min(faulty) \in faulty /\ \A y \in faulty : Min(faulty) <= y
    BY <1>2, <2>1, MinIsLeast
  <2>3. gone = [passed |-> Min(faulty) - 1, tried |-> Min(faulty), result |-> faults[Min(faulty)]]
    BY <1>2 DEF GoesThrough
  <2> DEFINE m == Min(faulty)
  <2>4. m \in 1 .. n /\ faults[m] # "ok"
    BY <2>2
  <2>5. \A k \in 1 .. m - 1 : k \in DOMAIN faults /\ k \notin faulty
    <3> TAKE k \in 1 .. m - 1
    <3>1. k \in 1 .. n /\ k < m
      BY <2>4
    <3>2. ASSUME k \in faulty PROVE FALSE
      <4>1. m <= k
        BY <2>2, <3>2
      <4> QED
        BY <2>4, <3>1, <4>1
    <3> QED
      BY <3>1, <3>2
  <2> QED
    BY <2>3, <2>4, <2>5
<1> QED
  BY <1>1, <1>2

-----------------------------------------------------------------------------
(* Rows of the right length.                                                *)

\* Rows are memory, and dims are dims.
Shaped(arrs, h) ==
  /\ DOMAIN h = RowIds
  /\ \A a \in DOMAIN arrs : /\ IsDims(arrs[a].dims)
                            /\ \A i \in DOMAIN arrs[a].rows : arrs[a].rows[i] \in RowIds \cup {NilRow}

TableInv(table) == AInv(table.arrays) /\ Shaped(table.arrays, table.heap)

\* Complete, of any table.
Whole(table, a) ==
  LET sym == table.arrays[a]
  IN /\ DOMAIN sym.rows = 0 .. LastRow(sym.dims)
     /\ \A i \in DOMAIN sym.rows :
          sym.rows[i] # NilRow /\ DOMAIN table.heap[sym.rows[i]] = 0 .. LastCol(sym.dims)

\* Every array that the one table has is in the other, with what is in it.
KeepsAll(new, table) ==
  \A a \in DOMAIN table.arrays :
    /\ a \in DOMAIN new.arrays /\ new.arrays[a] = table.arrays[a]
    /\ \A i \in DOMAIN table.arrays[a].rows :
         LET r == table.arrays[a].rows[i] IN r # NilRow => new.heap[r] = table.heap[r]

LEMMA RowIsUsed ==
  ASSUME NEW arrs, NEW a \in DOMAIN arrs, NEW i \in DOMAIN arrs[a].rows
  PROVE  arrs[a].rows[i] \in RowsOf(arrs)
BY DEF RowsOf, Range

LEMMA NilIsNoRow == NilRow \notin RowIds
BY ArraysAssumption

LEMMA DimsAreNaturals ==
  ASSUME NEW dims, IsDims(dims)
  PROVE  LastRow(dims) \in Nat /\ LastCol(dims) \in 1 .. IntMax
BY ArraysAssumption DEF IsDims, LastRow, LastCol

LEMMA CreatedIsWhole ==
  ASSUME ~ IsFiniteSet(RowIds), NEW table, TableInv(table), NEW name,
         name \notin DOMAIN table.arrays, NEW dims, IsDims(dims)
  PROVE  LET new == created(table, name, dims)
         IN  /\ TableInv(new) /\ Whole(new, name) /\ KeepsAll(new, table)
             /\ DOMAIN new.arrays = DOMAIN table.arrays \cup {name}
             /\ new.arrays[name].dims = dims
<1> DEFINE n    == LastRow(dims)
           rows == FreshRows(n + 1, table.arrays)
           new  == created(table, name, dims)
<1>1. n \in Nat /\ n + 1 \in Nat
  BY DimsAreNaturals
<1>2. rows \in [1 .. n + 1 -> RowIds \ RowsOf(table.arrays)]
  BY <1>1, FreshRowsExist DEF TableInv, AInv, RowsAreCounted
<1>3. /\ DOMAIN new.arrays = DOMAIN table.arrays \cup {name}
      /\ new.arrays[name] = [dims |-> dims, rows |-> [i \in 0 .. n |-> rows[i + 1]]]
      /\ \A b \in DOMAIN table.arrays : new.arrays[b] = table.arrays[b]
  BY DEF created
<1>4. /\ DOMAIN new.heap = RowIds
      /\ \A r \in RowIds : r \notin Range(rows) => new.heap[r] = table.heap[r]
      /\ \A r \in RowIds : r \in Range(rows) => new.heap[r] = [j \in 0 .. LastCol(dims) |-> 0]
  BY DEF created
<1>5. AInv(new.arrays)
  BY CreatedKeepsAInv DEF TableInv
<1> HIDE DEF new, rows
<1>6. /\ new.arrays[name].dims = dims /\ DOMAIN new.arrays[name].rows = 0 .. n
      /\ \A i \in 0 .. n : /\ new.arrays[name].rows[i] \in RowIds
                           /\ new.arrays[name].rows[i] \in Range(rows)
  <2>1. \A i \in 0 .. n : i + 1 \in 1 .. n + 1 /\ new.arrays[name].rows[i] = rows[i + 1]
    BY <1>1, <1>3
  <2>2. \A k \in 1 .. n + 1 : rows[k] \in RowIds /\ rows[k] \in Range(rows)
    BY <1>2 DEF Range
  <2> HIDE DEF n
  <2> QED
    BY <1>3, <2>1, <2>2
<1>7. Whole(new, name)
  <2>1. \A i \in 0 .. n : new.arrays[name].rows[i] # NilRow
    BY <1>6, NilIsNoRow
  <2>2. \A i \in 0 .. n : DOMAIN new.heap[new.arrays[name].rows[i]] = 0 .. LastCol(dims)
    BY <1>4, <1>6
  <2> QED
    BY <1>6, <2>1, <2>2 DEF Whole
<1>8. KeepsAll(new, table)
  <2> SUFFICES ASSUME NEW a \in DOMAIN table.arrays, NEW i \in DOMAIN table.arrays[a].rows,
                      table.arrays[a].rows[i] # NilRow
               PROVE  new.heap[table.arrays[a].rows[i]] = table.heap[table.arrays[a].rows[i]]
    BY <1>3 DEF KeepsAll
  <2> DEFINE r == table.arrays[a].rows[i]
  <2>1. r \in RowIds
    BY DEF TableInv, Shaped
  <2>2. r \in RowsOf(table.arrays)
    BY RowIsUsed
  <2>3. r \notin Range(rows)
    BY <1>2, <2>2 DEF Range
  <2> QED
    BY <1>4, <2>1, <2>3
<1>9. Shaped(new.arrays, new.heap)
  <2> SUFFICES ASSUME NEW a \in DOMAIN new.arrays
               PROVE  /\ IsDims(new.arrays[a].dims)
                      /\ \A i \in DOMAIN new.arrays[a].rows : new.arrays[a].rows[i] \in RowIds \cup {NilRow}
    BY <1>4 DEF Shaped
  <2>1. CASE a = name
    BY <1>6, <2>1
  <2>2. CASE a # name
    BY <1>3, <2>2 DEF TableInv, Shaped
  <2> QED
    BY <2>1, <2>2
<1> QED
  BY <1>3, <1>5, <1>6, <1>7, <1>8, <1>9 DEF TableInv, new

\* What is contained in another table is whole there.
LEMMA WholeIsKept ==
  ASSUME NEW new, NEW table, KeepsAll(new, table), NEW a \in DOMAIN table.arrays, Whole(table, a)
  PROVE  Whole(new, a)
<1> DEFINE sym == table.arrays[a]
<1>1. a \in DOMAIN new.arrays /\ new.arrays[a] = sym
  BY DEF KeepsAll
<1>2. /\ DOMAIN sym.rows = 0 .. LastRow(sym.dims)
      /\ \A i \in DOMAIN sym.rows :
           sym.rows[i] # NilRow /\ DOMAIN table.heap[sym.rows[i]] = 0 .. LastCol(sym.dims)
  BY DEF Whole
<1>3. \A i \in DOMAIN sym.rows : sym.rows[i] # NilRow => new.heap[sym.rows[i]] = table.heap[sym.rows[i]]
  BY DEF KeepsAll
<1> HIDE DEF sym
<1>4. \A i \in DOMAIN sym.rows :
        sym.rows[i] # NilRow /\ DOMAIN new.heap[sym.rows[i]] = 0 .. LastCol(sym.dims)
  BY <1>2, <1>3
<1> QED
  BY <1>1, <1>2, <1>4 DEF Whole

AllWhole(table) == \A a \in DOMAIN table.arrays : Whole(table, a)

\* Items of the data.
Counted(s) == \E S : s \in Seq(S)

\* What the declarations of a program leave behind.
DeclaredInv(d) ==
  /\ Gathered(d) /\ TableInv(d.table) /\ AllWhole(d.table)
  /\ Counted(d.data) /\ d.result \in {"ok", "Duplicate DIM statement"}

LEMMA CountedTogether ==
  ASSUME NEW s, NEW t, Counted(s), Counted(t)
  PROVE  Counted(s \o t)
<1>1. PICK S : s \in Seq(S)
  BY DEF Counted
<1>2. PICK T : t \in Seq(T)
  BY DEF Counted
<1>3. s \in Seq(S \cup T) /\ t \in Seq(S \cup T)
  BY <1>1, <1>2, SeqMonotonic
<1>4. s \o t \in Seq(S \cup T)
  BY <1>3, ConcatProperties
<1> QED
  BY <1>4 DEF Counted

LEMMA DeclarationKeepsInv ==
  ASSUME ~ IsFiniteSet(RowIds), NEW d, DeclaredInv(d), NEW stmt,
         IF stmt.token = "DATA" THEN Counted(stmt.items) ELSE IsDims(stmt.dims)
  PROVE  DeclaredInv(declaration(d, stmt))
<1> DEFINE new == created(d.table, stmt.name, stmt.dims)
<1>1. CASE d.result # "ok"
  BY <1>1 DEF declaration
<1>2. CASE d.result = "ok" /\ stmt.token = "DATA"
  <2>1. declaration(d, stmt) = [d EXCEPT !.data = @ \o stmt.items]
    BY <1>2 DEF declaration
  <2>2. Counted(d.data \o stmt.items)
    BY <1>2, CountedTogether DEF DeclaredInv
  <2> QED
    BY <2>1, <2>2 DEF DeclaredInv, Gathered
<1>3. CASE d.result = "ok" /\ stmt.token # "DATA" /\ stmt.name \in DOMAIN d.table.arrays
  <2>1. declaration(d, stmt) = [d EXCEPT !.result = "Duplicate DIM statement"]
    BY <1>3 DEF declaration
  <2> QED
    BY <2>1 DEF DeclaredInv, Gathered
<1>4. CASE d.result = "ok" /\ stmt.token # "DATA" /\ stmt.name \notin DOMAIN d.table.arrays
  <2>1. declaration(d, stmt) = [d EXCEPT !.table = new]
    BY <1>4 DEF declaration
  <2>2. TableInv(new) /\ Whole(new, stmt.name) /\ KeepsAll(new, d.table)
        /\ DOMAIN new.arrays = DOMAIN d.table.arrays \cup {stmt.name}
    BY <1>4, CreatedIsWhole DEF DeclaredInv
  <2> HIDE DEF new
  <2>3. AllWhole(new)
    BY <2>2, WholeIsKept DEF AllWhole, DeclaredInv
  <2> QED
    BY <2>1, <2>2, <2>3 DEF DeclaredInv, Gathered
<1> QED
  BY <1>1, <1>2, <1>3, <1>4

LEMMA NothingIsDeclared == DeclaredInv(Undeclared) /\ TableInv(EmptyTable)
<1>1. /\ DOMAIN EmptyTable.heap = RowIds /\ EmptyTable.arrays = <<>>
      /\ Undeclared.table = EmptyTable /\ Undeclared.data = <<>> /\ Undeclared.result = "ok"
  BY DEF EmptyTable, Undeclared
<1>2. DOMAIN <<>> = {}
  OBVIOUS
<1>3. TableInv(EmptyTable)
  BY <1>1, <1>2, NoArrays DEF TableInv, Shaped
<1>4. AllWhole(EmptyTable)
  BY <1>1, <1>2 DEF AllWhole
<1>5. Gathered(Undeclared)
  BY DEF Gathered, Undeclared
<1>6. Counted(<<>>)
  <2>1. <<>> \in Seq({})
    BY EmptySeq
  <2> QED
    BY <2>1 DEF Counted
<1> QED
  BY <1>1, <1>3, <1>4, <1>5, <1>6 DEF DeclaredInv

LEMMA DeclaredIsWhole ==
  ASSUME ~ IsFiniteSet(RowIds), NEW decls \in Programs
  PROVE  DeclaredInv(Declared(decls))
<1> DEFINE n == Len(decls)
           f == DeclaredUpTo(decls)
           S == {k \in Nat : k <= n => DeclaredInv(f[k])}
<1>1. /\ n \in Nat
      /\ \A k \in 1 .. n : IF decls[k].token = "DATA" THEN decls[k].items \in Seq(Range(decls[k].items))
                          ELSE IsDims(decls[k].dims)
  BY ArraysAssumption
<1>2. Follows(f, decls, n)
  BY <1>1, DeclaringIsFollowed
<1> HIDE DEF f
<1>3. 0 \in S
  <2>1. f[0] = Undeclared
    BY <1>2 DEF Follows
  <2> QED
    BY <2>1, NothingIsDeclared
<1>4. ASSUME NEW k \in Nat, k \in S PROVE k + 1 \in S
  <2>1. ASSUME k + 1 <= n PROVE DeclaredInv(f[k + 1])
    <3>1. k <= n /\ k + 1 \in 1 .. n /\ (k + 1) - 1 = k
      BY <1>1, <2>1
    <3>2. f[k + 1] = declaration(f[k], decls[k + 1])
      BY <1>2, <3>1 DEF Follows
    <3>3. DeclaredInv(f[k])
      BY <1>4, <3>1
    <3>4. IF decls[k + 1].token = "DATA" THEN Counted(decls[k + 1].items) ELSE IsDims(decls[k + 1].dims)
      BY <1>1, <3>1 DEF Counted
    <3> HIDE DEF n
    <3> QED
      BY <3>2, <3>3, <3>4, DeclarationKeepsInv
  <2> QED
    BY <2>1
<1>5. n \in S
  <2> HIDE DEF S
  <2> QED
    BY <1>1, <1>3, <1>4, NaturalsByStep
<1> QED
  BY <1>1, <1>5 DEF Declared, f

-----------------------------------------------------------------------------
(* MAT statements over elements.                                            *)

TInv == TableInv(Table) /\ Counted(dataList) /\ dataIndex \in Nat

\* After the step there are the arrays of this table, and their rows are as long.
LikeTable(t) ==
  /\ arrays' = t.arrays /\ DOMAIN heap' = RowIds
  /\ \A r \in RowIds : DOMAIN heap'[r] = DOMAIN t.heap[r]

\* Nothing but the outcome.
Quiet == UNCHANGED <<arrays, heap, scalar, dataList, dataIndex>>

LEMMA StoredKeepsShape ==
  ASSUME NEW h, NEW rows, NEW els, NEW values
  PROVE  LET new == stored(h, rows, els, values)
         IN  DOMAIN new = RowIds /\ \A r \in RowIds : DOMAIN new[r] = DOMAIN h[r]
BY DEF stored

LEMMA QuietIsLikeTable ==
  ASSUME TInv, Quiet
  PROVE  LikeTable(Table)
BY DEF TInv, TableInv, Shaped, Table, LikeTable, Quiet

LEMMA CompleteIsWhole ==
  ASSUME NEW a, Complete(a)
  PROVE  Whole(Table, a)
BY DEF Complete, Whole, Table, Range

\* What is promised is there.
LEMMA CompleteHas ==
  ASSUME NEW t, NEW a \in DOMAIN t.arrays, Whole(t, a), NEW i \in 0 .. LastRow(t.arrays[a].dims),
         NEW j \in 0 .. LastCol(t.arrays[a].dims)
  PROVE  Has(t.heap, t.arrays[a].rows, <<i, j>>)
BY DEF Whole, Has

LEMMA FirstToLast ==
  ASSUME NEW dims, IsDims(dims)
  PROVE  FirstRow(dims) .. LastRow(dims) = IF Len(dims) = 1 THEN {0} ELSE 1 .. LastRow(dims)
<1>1. CASE Len(dims) = 1
  BY <1>1 DEF FirstRow, LastRow
<1>2. CASE Len(dims) # 1
  BY <1>2 DEF FirstRow
<1> QED
  BY <1>1, <1>2

\* An element of an array that is usable is where MAT looks for it.
LEMMA InsideIsThere ==
  ASSUME TInv, NEW a \in DOMAIN arrays, Usable(a), NEW p, IsInside(arrays[a].dims, p)
  PROVE  Has(heap, arrays[a].rows, p)
<1>1. IsDims(arrays[a].dims)
  BY DEF TInv, TableInv, Shaped, Table
<1>2. PICK i \in FirstRow(arrays[a].dims) .. LastRow(arrays[a].dims),
           j \in 1 .. LastCol(arrays[a].dims) : p = <<i, j>>
  BY DEF IsInside
<1>3. i \in IF Len(arrays[a].dims) = 1 THEN {0} ELSE 1 .. LastRow(arrays[a].dims)
  BY <1>1, <1>2, FirstToLast
<1> QED
  BY <1>2, <1>3 DEF Usable

LEMMA ElementsOf ==
  ASSUME TInv, NEW a \in DOMAIN arrays
  PROVE  LET els == Elements(arrays[a].dims)
         IN  /\ Len(els) \in Nat /\ DOMAIN els = 1 .. Len(els)
             /\ \A k \in DOMAIN els : \/ IsInside(arrays[a].dims, els[k])
                                      \/ (els[k] = Beyond /\ Overruns(arrays[a].dims))
<1>1. IsDims(arrays[a].dims)
  BY DEF TInv, TableInv, Shaped, Table
<1> DEFINE dims == arrays[a].dims
<1>2. IsDims(dims)
  BY <1>1
<1> HIDE DEF dims
<1>3. LET els == Elements(dims)
      IN  /\ Len(els) \in Nat /\ DOMAIN els = 1 .. Len(els)
          /\ \A k \in DOMAIN els : IsInside(dims, els[k]) \/ (els[k] = Beyond /\ Overruns(dims))
  BY <1>2, ElementsAreInside
<1> QED
  BY <1>3 DEF dims

\* MAT over elements gives up only where rows are missing, or at the largest integer.
LEMMA MissingIsExplained ==
  ASSUME TInv, NEW a \in DOMAIN arrays, NEW sources \in SUBSET DOMAIN arrays,
         \A s \in sources : arrays[s].dims = arrays[a].dims
  PROVE  LET result == GoesThrough(Missing(a, sources)).result
         IN  result = "ok" \/ (result = "panic" /\ LoopFails(a, sources))
<1> DEFINE els  == Elements(arrays[a].dims)
           n    == Len(els)
           miss == Missing(a, sources)
           gone == GoesThrough(miss)
<1>1. /\ n \in Nat /\ DOMAIN els = 1 .. n
      /\ \A k \in DOMAIN els : IsInside(arrays[a].dims, els[k]) \/ Overruns(arrays[a].dims)
  BY ElementsOf
<1>2. /\ DOMAIN miss = 1 .. n
      /\ miss = [k \in 1 .. n |-> miss[k]]
      /\ \A k \in 1 .. n : \/ miss[k] = "ok"
                           \/ /\ miss[k] = "panic"
                              /\ \E s \in sources \cup {a} : ~ Has(heap, arrays[s].rows, els[k])
  BY <1>1 DEF Missing, Check
<1> HIDE DEF els, n, miss
<1>3. Len(miss) = n
  BY <1>1, <1>2
<1>4. gone.result = "ok" \/ \E k \in 1 .. n : gone.result = miss[k] /\ miss[k] # "ok"
  BY <1>1, <1>2, <1>3, FirstFaultCounts
<1>5. ASSUME NEW k \in 1 .. n, miss[k] # "ok" PROVE miss[k] = "panic" /\ LoopFails(a, sources)
  <2>1. PICK s \in sources \cup {a} : miss[k] = "panic" /\ ~ Has(heap, arrays[s].rows, els[k])
    BY <1>2, <1>5
  <2>2. s \in DOMAIN arrays /\ arrays[s].dims = arrays[a].dims
    OBVIOUS
  <2>3. Overruns(arrays[a].dims) \/ ~ Usable(s)
    BY <1>1, <2>1, <2>2, InsideIsThere
  <2> QED
    BY <2>1, <2>2, <2>3 DEF LoopFails
<1> QED
  BY <1>4, <1>5 DEF miss

\* Errors of MAT that are found before anything is stored.
LEMMA FoundFirst ==
  /\ \A a, mtype : lookupArray(a, mtype) # "panic"
  /\ \A a, b : checkArrayDestination(a, b) # "panic"
  /\ \A a, b, swap : checkArrayCompatibility(a, b, swap) # "panic"
  /\ \A a, b, c : checkArrayDims(a, b, c) # "panic"
BY DEF lookupArray, checkArrayDestination, checkArrayCompatibility, checkArrayDims, Check, ##

LEMMA CompatibleAre ==
  ASSUME NEW a, NEW b, checkArrayCompatibility(a, b, FALSE) = "ok"
  PROVE  vType(a) = vType(b) /\ arrays[a].dims = arrays[b].dims
BY DEF checkArrayCompatibility, ##, Check

\* A statement over elements changes what is in them, and fails in few ways once it has begun.
Tame ==
  /\ LikeTable(Table) /\ UNCHANGED <<scalar, dataList, dataIndex>>
  /\ Quiet \/ outcome' \in {"ok", "panic", "Floating error"}

LEMMA RefusedIsTame ==
  ASSUME TInv, NEW error, Fails(error), error # "panic"
  PROVE  Tame /\ outcome' # "panic"
<1>1. Quiet /\ outcome' = error /\ UNCHANGED <<scalar, dataList, dataIndex>>
  BY DEF Fails, Quiet
<1>2. LikeTable(Table)
  BY <1>1, QuietIsLikeTable
<1> QED
  BY <1>1, <1>2 DEF Tame

LEMMA StoredIsTame ==
  ASSUME TInv, NEW a \in DOMAIN arrays, NEW sources \in SUBSET DOMAIN arrays,
         \A s \in sources : arrays[s].dims = arrays[a].dims,
         NEW values, heap' = stored(heap, arrays[a].rows, Elements(arrays[a].dims), values),
         UNCHANGED <<arrays, scalar, dataList, dataIndex>>,
         NEW status \in {"ok", "Floating error"},
         outcome' = GoesThrough(Missing(a, sources)).result ## status
  PROVE  Tame /\ (outcome' = "panic" => LoopFails(a, sources))
<1> DEFINE result == GoesThrough(Missing(a, sources)).result
<1>1. result = "ok" \/ (result = "panic" /\ LoopFails(a, sources))
  BY MissingIsExplained
<1> HIDE DEF result
<1>2. outcome' = result ## status
  BY DEF result
<1>3. outcome' \in {"ok", "panic", "Floating error"} /\ (outcome' = "panic" => LoopFails(a, sources))
  BY <1>1, <1>2 DEF ##
<1>4. LikeTable(Table)
  <2>1. Table.arrays = arrays /\ Table.heap = heap
    BY DEF Table
  <2> DEFINE els  == Elements(arrays[a].dims)
             rows == arrays[a].rows
  <2>2. PICK new : new = stored(heap, rows, els, values) /\ heap' = new
    OBVIOUS
  <2> HIDE DEF els, rows
  <2>3. DOMAIN new = RowIds /\ \A r \in RowIds : DOMAIN new[r] = DOMAIN heap[r]
    BY ONLY <2>2 DEF stored
  <2> QED
    BY <2>1, <2>2, <2>3 DEF LikeTable
<1> QED
  BY <1>3, <1>4 DEF Tame

LEMMA StatusIsFloating ==
  ASSUME NEW h, NEW rows
  PROVE  checkArrayFloatingStatus(h, rows) \in {"ok", "Floating error"}
BY DEF checkArrayFloatingStatus, Check

LEMMA FillIsTame ==
  ASSUME TInv, NEW a, NEW func, matFill(a, func)
  PROVE  Tame /\ (outcome' = "panic" => LoopFails(a, {}))
<1> DEFINE bad    == lookupArray(a, IF func = "IDN" THEN "SQUARE" ELSE "ANY")
           els    == Elements(arrays[a].dims)
           one(p) == func = "CON" \/ (func = "IDN" /\ p[1] = p[2])
           gone   == GoesThrough(Missing(a, {}))
           values == [k \in 1 .. gone.passed |-> IF one(els[k]) THEN 1 ELSE 0]
<1>1. CASE bad # "ok"
  <2>1. Fails(bad)
    BY <1>1 DEF matFill
  <2>2. bad # "panic"
    BY FoundFirst
  <2> HIDE DEF bad
  <2> QED
    BY <2>1, <2>2, RefusedIsTame
<1>2. CASE bad = "ok"
  <2>1. a \in DOMAIN arrays
    BY <1>2, LookedUp
  <2>2. /\ heap' = stored(heap, arrays[a].rows, els, values)
        /\ outcome' = gone.result /\ UNCHANGED <<arrays, scalar, dataList, dataIndex>>
    BY <1>2 DEF matFill, Stores, ForElements
  <2> HIDE DEF values
  <2>3. gone.result = gone.result ## "ok"
    BY DEF ##
  <2> QED
    BY <2>1, <2>2, <2>3, StoredIsTame
<1> QED
  BY <1>1, <1>2

LEMMA AddIsTame ==
  ASSUME TInv, NEW a, NEW b, NEW c, NEW sub, matAdd(a, b, c, sub)
  PROVE  Tame /\ (outcome' = "panic" => LoopFails(a, {b, c}))
<1> DEFINE type   == vType(a)
           bad    == lookupArray(a, "ANY") ## lookupArray(b, "ANY") ## lookupArray(c, "ANY")
                     ## checkArrayCompatibility(b, c, FALSE)
                     ## checkArrayCompatibility(a, b, FALSE) ## checkArrayCompatibility(a, c, FALSE)
           els    == Elements(arrays[a].dims)
           sum(p) == LET m == At(heap, arrays[b].rows, p)  n == At(heap, arrays[c].rows, p)
                     IN Plus(type, m, IF sub THEN Negative(type, n) ELSE n)
           gone   == GoesThrough(Missing(a, {b, c}))
           values == [k \in 1 .. gone.passed |-> sum(els[k])]
           status == IF vType(a) = "FVAR" THEN checkArrayFloatingStatus(heap', arrays[a].rows) ELSE "ok"
<1>1. CASE bad # "ok"
  <2>1. Fails(bad)
    BY <1>1 DEF matAdd
  <2>2. bad # "panic"
    BY FoundFirst DEF ##
  <2> HIDE DEF bad
  <2> QED
    BY <2>1, <2>2, RefusedIsTame
<1>2. CASE bad = "ok"
  <2>1. /\ lookupArray(a, "ANY") = "ok" /\ lookupArray(b, "ANY") = "ok" /\ lookupArray(c, "ANY") = "ok"
        /\ checkArrayCompatibility(a, b, FALSE) = "ok" /\ checkArrayCompatibility(a, c, FALSE) = "ok"
    BY <1>2 DEF ##
  <2>2. /\ a \in DOMAIN arrays /\ {b, c} \in SUBSET DOMAIN arrays
        /\ \A s \in {b, c} : arrays[s].dims = arrays[a].dims
    BY <2>1, LookedUp, CompatibleAre
  <2>3. /\ heap' = stored(heap, arrays[a].rows, els, values)
        /\ outcome' = gone.result ## status /\ UNCHANGED <<arrays, scalar, dataList, dataIndex>>
    BY <1>2 DEF matAdd, Stores, ForElements, Computes
  <2>4. status \in {"ok", "Floating error"}
    BY StatusIsFloating
  <2> HIDE DEF values, status
  <2> QED
    BY <2>2, <2>3, <2>4, StoredIsTame
<1> QED
  BY <1>1, <1>2

LEMMA ScaleIsTame ==
  ASSUME TInv, NEW a, NEW mult, NEW multType, NEW b, matScale(a, mult, multType, b)
  PROVE  Tame /\ (outcome' = "panic" => LoopFails(a, {b}))
<1> DEFINE bad == lookupArray(a, "2D") ## lookupArray(b, "2D") ## checkArrayCompatibility(a, b, FALSE)
                  ## Check(multType = vType(b), "Matrix and multiplier are not compatible")
           els    == Elements(arrays[a].dims)
           product(p) == Times(vType(a), At(heap, arrays[b].rows, p), mult)
           gone   == GoesThrough(Missing(a, {b}))
           values == [k \in 1 .. gone.passed |-> product(els[k])]
           status == IF vType(a) = "FVAR" THEN checkArrayFloatingStatus(heap', arrays[a].rows) ELSE "ok"
<1>1. CASE bad # "ok"
  <2>1. Fails(bad)
    BY <1>1 DEF matScale
  <2>2. bad # "panic"
    BY FoundFirst DEF ##, Check
  <2> HIDE DEF bad
  <2> QED
    BY <2>1, <2>2, RefusedIsTame
<1>2. CASE bad = "ok"
  <2>1. /\ lookupArray(a, "2D") = "ok" /\ lookupArray(b, "2D") = "ok"
        /\ checkArrayCompatibility(a, b, FALSE) = "ok"
    BY <1>2 DEF ##
  <2>2. /\ a \in DOMAIN arrays /\ {b} \in SUBSET DOMAIN arrays
        /\ \A s \in {b} : arrays[s].dims = arrays[a].dims
    BY <2>1, LookedUp, CompatibleAre
  <2>3. /\ heap' = stored(heap, arrays[a].rows, els, values)
        /\ outcome' = gone.result ## status /\ UNCHANGED <<arrays, scalar, dataList, dataIndex>>
    BY <1>2 DEF matScale, Stores, ForElements, Computes
  <2>4. status \in {"ok", "Floating error"}
    BY StatusIsFloating
  <2> HIDE DEF values, status
  <2> QED
    BY <2>2, <2>3, <2>4, StoredIsTame
<1> QED
  BY <1>1, <1>2

LEMMA PrintIsTame ==
  ASSUME TInv, NEW a, matPrint(a)
  PROVE  Tame /\ (outcome' = "panic" => ~ Usable(a))
<1> DEFINE els  == Elements(arrays[a].dims)
           all  == \A p \in Range(els) \ {Beyond} : Has(heap, arrays[a].rows, p)
           over == Overruns(arrays[a].dims)
           bad  == lookupArray(a, "ANY") ## Check(all, "panic") ## Check(~ over, "Subscript out of range")
<1>1. Fails(bad)
  BY DEF matPrint
<1>2. CASE bad # "panic"
  <2> HIDE DEF bad
  <2> QED
    BY <1>1, <1>2, RefusedIsTame
<1>3. CASE bad = "panic"
  <2>1. lookupArray(a, "ANY") = "ok" /\ ~ all
    <3>1. lookupArray(a, "ANY") # "panic"
      BY FoundFirst
    <3> HIDE DEF all, over
    <3> QED
      BY <1>3, <3>1 DEF ##, Check
  <2>2. a \in DOMAIN arrays
    BY <2>1, LookedUp
  <2>3. PICK p \in Range(els) \ {Beyond} : ~ Has(heap, arrays[a].rows, p)
    BY <2>1
  <2>4. PICK k \in DOMAIN els : p = els[k]
    BY <2>3 DEF Range
  <2>5. IsInside(arrays[a].dims, p)
    BY <2>2, <2>3, <2>4, ElementsOf
  <2>6. ~ Usable(a)
    BY <2>2, <2>3, <2>5, InsideIsThere
  <2>7. Quiet /\ outcome' = "panic" /\ UNCHANGED <<scalar, dataList, dataIndex>>
    BY <1>1, <1>3 DEF Fails, Quiet
  <2>8. LikeTable(Table)
    BY <2>7, QuietIsLikeTable
  <2> QED
    BY <2>2, <2>6, <2>7, <2>8 DEF Tame
<1> QED
  BY <1>2, <1>3

\* MAT INPUT may also find its input or a subscript wrong.
Typed ==
  /\ LikeTable(Table) /\ UNCHANGED <<scalar, dataList, dataIndex>>
  /\ Quiet \/ outcome' \in {"ok", "panic", "Input error", "Subscript out of range"}

LEMMA InputIsTyped ==
  ASSUME TInv, NEW a, NEW v, matInput(a, v)
  PROVE  Typed /\ (outcome' = "panic" => ~ Usable(a))
<1> DEFINE els  == Elements(arrays[a].dims)
           rows == arrays[a].rows
           faults(lines) == [k \in DOMAIN els |-> Check(k <= lines, "Input error")
                                                ## Check(els[k] # Beyond, "Subscript out of range")
                                                ## Check(Has(heap, rows, els[k]), "panic")]
<1>1. CASE lookupArray(a, "ANY") # "ok"
  <2>1. Quiet /\ outcome' = lookupArray(a, "ANY") /\ UNCHANGED <<scalar, dataList, dataIndex>>
    BY <1>1 DEF matInput, Fails, Quiet
  <2>2. outcome' # "panic"
    BY <2>1, FoundFirst
  <2>3. LikeTable(Table)
    BY <2>1, QuietIsLikeTable
  <2> QED
    BY <2>1, <2>2, <2>3 DEF Typed
<1>2. CASE lookupArray(a, "ANY") = "ok"
  <2>1. a \in DOMAIN arrays
    BY <1>2, LookedUp
  <2>2. PICK lines \in 0 .. Len(els) :
               Stores(stored(heap, rows, els, [k \in 1 .. GoesThrough(faults(lines)).passed |-> v]),
                      GoesThrough(faults(lines)).result)
    BY <1>2 DEF matInput
  <2> DEFINE f == faults(lines)
             n == Len(els)
             values == [k \in 1 .. GoesThrough(f).passed |-> v]
  <2>3. /\ heap' = stored(heap, rows, els, values) /\ outcome' = GoesThrough(f).result
        /\ UNCHANGED <<arrays, scalar, dataList, dataIndex>>
    BY <2>2 DEF Stores
  <2>4. /\ n \in Nat /\ DOMAIN els = 1 .. n
        /\ \A k \in DOMAIN els : IsInside(arrays[a].dims, els[k]) \/ els[k] = Beyond
    BY <2>1, ElementsOf
  <2>5. DOMAIN f = 1 .. n /\ f = [k \in 1 .. n |-> f[k]]
    BY <2>4
  <2>6. \A k \in 1 .. n : \/ f[k] \in {"ok", "Input error", "Subscript out of range"}
                          \/ f[k] = "panic" /\ els[k] # Beyond /\ ~ Has(heap, rows, els[k])
    <3> TAKE k \in 1 .. n
    <3>1. f[k] = Check(k <= lines, "Input error") ## Check(els[k] # Beyond, "Subscript out of range")
                 ## Check(Has(heap, rows, els[k]), "panic")
      BY <2>4
    <3> HIDE DEF f, els, rows
    <3>2. CASE ~ (k <= lines)
      <4>1. f[k] = "Input error"
        BY <3>1, <3>2 DEF ##, Check
      <4> QED
        BY <4>1
    <3>3. CASE k <= lines /\ els[k] = Beyond
      <4>1. f[k] = "Subscript out of range"
        BY <3>1, <3>3 DEF ##, Check
      <4> QED
        BY <4>1
    <3>4. CASE k <= lines /\ els[k] # Beyond
      <4>1. f[k] = Check(Has(heap, rows, els[k]), "panic")
        BY <3>1, <3>4 DEF ##, Check
      <4> QED
        BY <3>4, <4>1 DEF Check
    <3> QED
      BY <3>2, <3>3, <3>4
  <2> HIDE DEF f, n, values
  <2>7. Len(f) = n
    BY <2>4, <2>5
  <2>8. GoesThrough(f).result = "ok" \/ \E k \in 1 .. n : GoesThrough(f).result = f[k]
    BY <2>4, <2>5, <2>7, FirstFaultCounts
  <2>9. outcome' \in {"ok", "panic", "Input error", "Subscript out of range"}
    BY <2>3, <2>6, <2>8
  <2>10. ASSUME outcome' = "panic" PROVE ~ Usable(a)
    <3>1. PICK k \in 1 .. n : els[k] # Beyond /\ ~ Has(heap, rows, els[k])
      BY <2>3, <2>6, <2>8, <2>10
    <3>2. IsInside(arrays[a].dims, els[k])
      BY <2>4, <3>1
    <3> QED
      BY <2>1, <3>1, <3>2, InsideIsThere
  <2>11. LikeTable(Table)
    <3>1. Table.arrays = arrays /\ Table.heap = heap
      BY DEF Table
    <3>2. DOMAIN heap' = RowIds /\ \A r \in RowIds : DOMAIN heap'[r] = DOMAIN heap[r]
      BY <2>3, StoredKeepsShape
    <3> QED
      BY <2>3, <3>1, <3>2 DEF LikeTable
  <2> QED
    BY <2>3, <2>9, <2>10, <2>11 DEF Typed
<1> QED
  BY <1>1, <1>2

-----------------------------------------------------------------------------
(* The place in the data.                                                   *)

LEMMA DataMovesOn ==
  ASSUME TInv, NEW tried \in Nat
  PROVE  /\ readDataItem(tried) \in Nat
         /\ dataIndex + tried <= Len(dataList) => readDataItem(tried) = dataIndex + tried
<1>1. Len(dataList) \in Nat /\ dataIndex \in Nat
  BY DEF TInv, Counted
<1> DEFINE S == {dataIndex + tried, Len(dataList)}
<1>2. S \in SUBSET Nat /\ S # {}
  BY <1>1
<1>3. Min(S) \in S /\ \A y \in S : Min(S) <= y
  <2> HIDE DEF S
  <2> QED
    BY <1>2, MinIsLeast
<1>4. dataIndex + tried <= Len(dataList) => Min(S) = dataIndex + tried
  BY <1>1, <1>3
<1> QED
  BY <1>2, <1>3, <1>4 DEF readDataItem

\* MAT READ stores into rows, moves on in the data, and ends at a string.
ReadIn ==
  /\ LikeTable(Table) /\ UNCHANGED <<scalar, dataList>> /\ dataIndex' \in Nat
  /\ Quiet \/ outcome' \in {"ok", "panic", "Out of data", "Integer error", "Subscript out of range"}

LEMMA ReadIsReadIn ==
  ASSUME TInv, NEW a, matRead(a)
  PROVE  /\ ReadIn
         /\ outcome' = "panic" =>
              ~ Usable(a) \/ (dataIndex' # dataIndex /\ ~ Number(dataList[dataIndex']))
<1> DEFINE els  == Elements(arrays[a].dims)
           rows == arrays[a].rows
           read(k) == ReadFault(k, Number(Item(k)), "panic", vType(a) = "FVAR")
           f    == [k \in DOMAIN els |-> read(k) ## Check(els[k] # Beyond, "Subscript out of range")
                                        ## Check(Has(heap, rows, els[k]), "panic")]
           gone == GoesThrough(f)
           n    == Len(els)
           values == [k \in 1 .. gone.passed |-> Item(k).value]
<1>1. CASE lookupArray(a, "ANY") # "ok"
  <2>1. Quiet /\ outcome' = lookupArray(a, "ANY") /\ UNCHANGED <<scalar, dataList, dataIndex>>
    BY <1>1 DEF matRead, Fails, Quiet
  <2>2. outcome' # "panic"
    BY <2>1, FoundFirst
  <2>3. LikeTable(Table) /\ dataIndex' \in Nat
    BY <2>1, QuietIsLikeTable DEF TInv
  <2> QED
    BY <2>1, <2>2, <2>3 DEF ReadIn
<1>2. CASE lookupArray(a, "ANY") = "ok"
  <2>1. a \in DOMAIN arrays
    BY <1>2, LookedUp
  <2>2. /\ heap' = stored(heap, rows, els, values) /\ outcome' = gone.result
        /\ dataIndex' = readDataItem(gone.tried) /\ UNCHANGED <<arrays, scalar, dataList>>
    BY <1>2 DEF matRead
  <2>3. /\ n \in Nat /\ DOMAIN els = 1 .. n
        /\ \A k \in DOMAIN els : IsInside(arrays[a].dims, els[k]) \/ els[k] = Beyond
    BY <2>1, ElementsOf
  <2>4. DOMAIN f = 1 .. n /\ f = [k \in 1 .. n |-> f[k]]
    BY <2>3
  <2>5. ASSUME NEW k \in 1 .. n
        PROVE  \/ f[k] \in {"ok", "Out of data", "Integer error", "Subscript out of range"}
               \/ /\ f[k] = "panic"
                  /\ \/ els[k] # Beyond /\ ~ Has(heap, rows, els[k])
                     \/ ~ Number(Item(k)) /\ dataIndex + k <= Len(dataList)
    <3>1. f[k] = read(k) ## Check(els[k] # Beyond, "Subscript out of range")
                 ## Check(Has(heap, rows, els[k]), "panic")
      BY <2>3
    <3>2. \/ read(k) \in {"ok", "Out of data", "Integer error"}
          \/ read(k) = "panic" /\ ~ Number(Item(k)) /\ dataIndex + k <= Len(dataList)
      <4>1. CASE ~ (dataIndex + k <= Len(dataList))
        <5>1. read(k) = "Out of data"
          BY <4>1 DEF ReadFault, ##, Check
        <5> QED
          BY <5>1
      <4>2. CASE dataIndex + k <= Len(dataList) /\ Number(Item(k))
        <5>1. read(k) = Check(vType(a) = "FVAR" \/ isInt16(Item(k).value), "Integer error")
          BY <4>2 DEF ReadFault, ##, Check
        <5> QED
          BY <5>1 DEF Check
      <4>3. CASE dataIndex + k <= Len(dataList) /\ ~ Number(Item(k))
        <5>1. read(k) = "panic"
          BY <4>3 DEF ReadFault, ##, Check
        <5> QED
          BY <4>3, <5>1
      <4> QED
        BY <4>1, <4>2, <4>3
    <3> HIDE DEF f, els, rows, read
    <3>3. CASE read(k) # "ok"
      <4>1. f[k] = read(k)
        BY <3>1, <3>3 DEF ##
      <4> QED
        BY <3>2, <3>3, <4>1
    <3>4. CASE read(k) = "ok" /\ els[k] = Beyond
      <4>1. f[k] = "Subscript out of range"
        BY <3>1, <3>4 DEF ##, Check
      <4> QED
        BY <4>1
    <3>5. CASE read(k) = "ok" /\ els[k] # Beyond
      <4>1. f[k] = Check(Has(heap, rows, els[k]), "panic")
        BY <3>1, <3>5 DEF ##, Check
      <4> QED
        BY <3>5, <4>1 DEF Check
    <3> QED
      BY <3>3, <3>4, <3>5
  <2>6. LikeTable(Table)
    <3>1. Table.arrays = arrays /\ Table.heap = heap
      BY DEF Table
    <3>2. PICK new : new = stored(heap, rows, els, values) /\ heap' = new
      BY <2>2
    <3> HIDE DEF rows, els, values
    <3>3. DOMAIN new = RowIds /\ \A r \in RowIds : DOMAIN new[r] = DOMAIN heap[r]
      BY ONLY <3>2 DEF stored
    <3> QED
      BY <2>2, <3>1, <3>2, <3>3 DEF LikeTable
  <2> HIDE DEF f, n, values
  <2>7. Len(f) = n
    BY <2>3, <2>4
  <2>8. /\ gone.tried \in Nat
        /\ gone.result = "ok" \/ (gone.tried \in 1 .. n /\ gone.result = f[gone.tried])
    <3>1. \/ gone.result = "ok" /\ gone.tried = n
          \/ gone.tried \in 1 .. n /\ gone.result = f[gone.tried]
      BY <2>3, <2>4, <2>7, FirstFaultCounts
    <3> HIDE DEF gone
    <3> QED
      BY <2>3, <3>1
  <2>9. dataIndex' \in Nat
    BY <2>2, <2>8, DataMovesOn
  <2>10. outcome' \in {"ok", "panic", "Out of data", "Integer error", "Subscript out of range"}
    BY <2>2, <2>5, <2>8
  <2>11. ASSUME outcome' = "panic"
         PROVE  ~ Usable(a) \/ (dataIndex' # dataIndex /\ ~ Number(dataList[dataIndex']))
    <3>1. PICK k \in 1 .. n : /\ k = gone.tried
                              /\ \/ els[k] # Beyond /\ ~ Has(heap, rows, els[k])
                                 \/ ~ Number(Item(k)) /\ dataIndex + k <= Len(dataList)
      BY <2>2, <2>5, <2>8, <2>11
    <3>2. CASE els[k] # Beyond /\ ~ Has(heap, rows, els[k])
      <4>1. IsInside(arrays[a].dims, els[k])
        BY <2>3, <3>2
      <4> QED
        BY <2>1, <3>2, <4>1, InsideIsThere
    <3>3. CASE ~ Number(Item(k)) /\ dataIndex + k <= Len(dataList)
      <4>1. dataIndex' = dataIndex + k /\ dataIndex \in Nat /\ k \in 1 .. n /\ n \in Nat
        BY <2>2, <2>3, <2>8, <3>1, <3>3, DataMovesOn DEF TInv
      <4>2. dataIndex' # dataIndex
        BY <4>1
      <4> QED
        BY <3>3, <4>1, <4>2 DEF Item
    <3> QED
      BY <3>1, <3>2, <3>3
  <2> QED
    BY <2>2, <2>6, <2>9, <2>10, <2>11 DEF ReadIn
<1> QED
  BY <1>1, <1>2

\* READ does not meet arrays.
LEMMA ReadIsHarmless ==
  ASSUME TInv, NEW list \in ReadLists, executeRead(list)
  PROVE  /\ UNCHANGED <<arrays, heap, dataList>> /\ dataIndex' \in Nat
         /\ outcome' \in {"ok", "Out of data", "Integer error", "Data type error"}
<1> DEFINE fits(k) == Number(Item(k)) <=> list[k] # "str"
           f       == [k \in DOMAIN list |-> ReadFault(k, fits(k), "Data type error", list[k] # "k")]
           gone    == GoesThrough(f)
           n       == Len(list)
<1>1. /\ outcome' = gone.result /\ dataIndex' = readDataItem(gone.tried)
      /\ UNCHANGED <<arrays, heap, dataList>>
  BY DEF executeRead
<1>2. n \in Nat /\ DOMAIN list = 1 .. n
  <2>1. list \in Seq({"x", "k", "str"})
    BY ArraysAssumption
  <2> QED
    BY <2>1
<1>3. DOMAIN f = 1 .. n /\ f = [k \in 1 .. n |-> f[k]]
  BY <1>2
<1>4. ASSUME NEW k \in 1 .. n PROVE f[k] \in {"ok", "Out of data", "Integer error", "Data type error"}
  <2>1. f[k] = ReadFault(k, fits(k), "Data type error", list[k] # "k")
    BY <1>2
  <2>2. CASE ~ (dataIndex + k <= Len(dataList))
    <3>1. f[k] = "Out of data"
      BY <2>1, <2>2 DEF ReadFault, ##, Check
    <3> QED
      BY <3>1
  <2>3. CASE dataIndex + k <= Len(dataList) /\ fits(k)
    <3>1. f[k] = Check(list[k] # "k" \/ isInt16(Item(k).value), "Integer error")
      BY <2>1, <2>3 DEF ReadFault, ##, Check
    <3> QED
      BY <3>1 DEF Check
  <2>4. CASE dataIndex + k <= Len(dataList) /\ ~ fits(k)
    <3>1. f[k] = "Data type error"
      BY <2>1, <2>4 DEF ReadFault, ##, Check
    <3> QED
      BY <3>1
  <2> QED
    BY <2>2, <2>3, <2>4
<1> HIDE DEF f, n
<1>5. Len(f) = n
  BY <1>2, <1>3
<1>6. gone.tried \in Nat /\ (gone.result = "ok" \/ \E k \in 1 .. n : gone.result = f[k])
  <2>1. \/ gone.result = "ok" /\ gone.tried = n
        \/ gone.tried \in 1 .. n /\ gone.result = f[gone.tried]
    BY <1>2, <1>3, <1>5, FirstFaultCounts
  <2> HIDE DEF gone
  <2> QED
    BY <1>2, <2>1
<1> QED
  BY <1>1, <1>4, <1>6, DataMovesOn

-----------------------------------------------------------------------------
(* Arrays that are looked up, and made if they are missing.                 *)

\* A table with all that there was, and with new arrays that are whole.
Extends(t) ==
  /\ TableInv(t) /\ KeepsAll(t, Table)
  /\ \A a \in DOMAIN t.arrays : a \in DOMAIN arrays \/ Whole(t, a)

LEMMA SymbolIsWhole ==
  ASSUME ~ IsFiniteSet(RowIds), TInv, NEW name, NEW n \in {1, 2}
  PROVE  LET t == withSymbol(name, n)
         IN  /\ Extends(t) /\ name \in DOMAIN t.arrays
             /\ name \in DOMAIN arrays => t = Table
             /\ name \notin DOMAIN arrays => Len(t.arrays[name].dims) = n
<1>1. Table.arrays = arrays /\ Table.heap = heap /\ TableInv(Table)
  BY DEF Table, TInv
<1>2. CASE name \in DOMAIN arrays
  <2>1. withSymbol(name, n) = Table
    BY <1>2 DEF withSymbol
  <2> QED
    BY <1>1, <1>2, <2>1 DEF Extends, KeepsAll
<1>3. CASE name \notin DOMAIN arrays
  <2> DEFINE dims == [d \in 1 .. n |-> maxImplicitSubscript]
             t    == withSymbol(name, n)
  <2>1. dims \in Seq(Nat) /\ Len(dims) = n
    BY ArraysAssumption
  <2>2. IsDims(dims)
    BY <2>1, ArraysAssumption DEF IsDims
  <2>3. t = created(Table, name, dims)
    BY <1>3 DEF withSymbol
  <2> HIDE DEF dims, t
  <2>4. /\ TableInv(t) /\ Whole(t, name) /\ KeepsAll(t, Table)
        /\ DOMAIN t.arrays = DOMAIN Table.arrays \cup {name} /\ t.arrays[name].dims = dims
    BY <1>1, <1>3, <2>2, <2>3, CreatedIsWhole
  <2>5. Extends(t)
    BY <1>1, <2>4 DEF Extends
  <2> QED
    BY <1>3, <2>1, <2>4, <2>5 DEF t
<1> QED
  BY <1>2, <1>3

\* An element of the array, or variables, may get another value.
UsesSymbol(t) ==
  /\ LikeTable(t) /\ UNCHANGED <<dataList, dataIndex>>
  /\ outcome' \in {"ok", "panic", "Subscript out of range"}
  /\ outcome' = "Subscript out of range" => heap' = t.heap /\ UNCHANGED scalar

Ignored == Quiet /\ outcome' = "Attempt to change array dimensionality"

LEMMA ElementIsUsed ==
  ASSUME ~ IsFiniteSet(RowIds), TInv, NEW a, NEW subs \in Subscripts,
         fetchVar(a, subs) \/ \E v : storeVar(a, subs, v)
  PROVE  /\ Ignored \/ UsesSymbol(withSymbol(a, Len(subs)))
         /\ outcome' = "panic" => a \in DOMAIN arrays /\ ~ Complete(a)
<1> DEFINE m     == Len(subs)
           t     == withSymbol(a, m)
           sym   == t.arrays[a]
           p     == place(subs)
           there == Has(t.heap, sym.rows, p)
           found == computeSubs(sym.dims, subs) ## Check(there, "panic")
<1>1. m \in {1, 2} /\ subs \in Seq(Int) /\ DOMAIN subs = 1 .. m
  BY ArraysAssumption
<1>2. /\ Extends(t) /\ a \in DOMAIN t.arrays
      /\ a \in DOMAIN arrays => t = Table
      /\ a \notin DOMAIN arrays => Len(t.arrays[a].dims) = m
  BY <1>1, SymbolIsWhole
<1>3. lookupSymbolRef(a, m) \in {"ok", "Attempt to change array dimensionality"}
  BY DEF lookupSymbolRef, Check
<1>4. CASE lookupSymbolRef(a, m) # "ok"
  <2>1. Fails(lookupSymbolRef(a, m))
    BY <1>4 DEF fetchVar, storeVar, Element
  <2> QED
    BY <1>3, <1>4, <2>1 DEF Ignored, Fails, Quiet
<1>5. CASE lookupSymbolRef(a, m) = "ok"
  <2>1. /\ arrays' = t.arrays /\ outcome' = found /\ UNCHANGED <<scalar, dataList, dataIndex>>
        /\ \E v : heap' = IF found = "ok" THEN [t.heap EXCEPT ![sym.rows[p[1]]][p[2]] = v] ELSE t.heap
    BY <1>5 DEF fetchVar, storeVar, Element
  <2>2. Len(sym.dims) = m
    BY <1>2, <1>5 DEF lookupSymbolRef, Check, Table
  <2>3. IsDims(sym.dims) /\ DOMAIN t.heap = RowIds
    BY <1>2 DEF Extends, TableInv, Shaped
  <2> HIDE DEF t
  <2>4. computeSubs(sym.dims, subs) \in {"ok", "Subscript out of range"}
    BY DEF computeSubs, Check
  <2> HIDE DEF sym, there, p
  <2>5. found \in {"ok", "panic", "Subscript out of range"}
        /\ (found = "panic" => computeSubs(sym.dims, subs) = "ok" /\ ~ there)
    BY <2>4 DEF ##, Check
  <2>6. ASSUME found = "panic" PROVE a \in DOMAIN arrays /\ ~ Complete(a)
    <3>1. \A d \in DOMAIN subs : subs[d] \in 0 .. sym.dims[d]
      BY <2>5, <2>6 DEF computeSubs, Check
    <3>2. p[1] \in 0 .. LastRow(sym.dims) /\ p[2] \in 0 .. LastCol(sym.dims)
      <4>1. CASE m = 1
        <5>1. p = <<0, subs[1]>> /\ LastRow(sym.dims) = 0 /\ LastCol(sym.dims) = sym.dims[1]
          BY <2>2, <4>1 DEF p, place, LastRow, LastCol
        <5>2. subs[1] \in 0 .. sym.dims[1]
          BY <1>1, <3>1, <4>1
        <5> QED
          BY <5>1, <5>2
      <4>2. CASE m = 2
        <5>1. p = subs /\ LastRow(sym.dims) = sym.dims[1] /\ LastCol(sym.dims) = sym.dims[2]
          BY <2>2, <4>2 DEF p, place, LastRow, LastCol
        <5>2. subs[1] \in 0 .. sym.dims[1] /\ subs[2] \in 0 .. sym.dims[2]
          BY <1>1, <3>1, <4>2
        <5> QED
          BY <5>1, <5>2
      <4> QED
        BY <1>1, <4>1, <4>2
    <3>3. ~ Whole(t, a)
      <4>1. ASSUME Whole(t, a) PROVE there
        BY <3>2, <4>1 DEF Whole, Has, there, sym
      <4> QED
        BY <2>5, <2>6, <4>1
    <3> QED
      BY <1>2, <3>3, CompleteIsWhole DEF Extends
  <2>7. LikeTable(t)
    <3>1. PICK v : heap' = IF found = "ok" THEN [t.heap EXCEPT ![sym.rows[p[1]]][p[2]] = v] ELSE t.heap
      BY <2>1
    <3> HIDE DEF found
    <3>2. DOMAIN heap' = RowIds /\ \A r \in RowIds : DOMAIN heap'[r] = DOMAIN t.heap[r]
      BY <2>3, <3>1
    <3> QED
      BY <2>1, <3>2 DEF LikeTable
  <2>8. outcome' = "Subscript out of range" => heap' = t.heap
    BY <2>1
  <2> HIDE DEF found
  <2> QED
    BY <2>1, <2>5, <2>6, <2>7, <2>8 DEF UsesSymbol, t
<1> QED
  BY <1>4, <1>5

LEMMA ChangeIsUsed ==
  ASSUME ~ IsFiniteSet(RowIds), TInv, NEW a, changeToArray(a) \/ changeToString(a)
  PROVE  /\ Ignored \/ UsesSymbol(withSymbol(a, 1))
         /\ outcome' = "panic" => ~ changeToString(a) /\ wrap(Len(scalar.str)) = IntMax
<1> DEFINE t     == withSymbol(a, 1)
           sym   == t.arrays[a]
<1>1. Extends(t) /\ DOMAIN t.heap = RowIds
  BY SymbolIsWhole DEF Extends, TableInv, Shaped
<1>2. lookupSymbolRef(a, 1) \in {"ok", "Attempt to change array dimensionality"}
  BY DEF lookupSymbolRef, Check
<1>3. CASE lookupSymbolRef(a, 1) # "ok"
  <2>1. Fails(lookupSymbolRef(a, 1))
    BY <1>3 DEF changeToArray, changeToString
  <2> QED
    BY <1>2, <1>3, <2>1 DEF Ignored, Fails, Quiet
<1>4. ASSUME lookupSymbolRef(a, 1) = "ok", changeToString(a)
      PROVE  UsesSymbol(t) /\ outcome' # "panic"
  <2>1. PICK iMax \in toInt16(t.heap[sym.rows[0]][0]) :
          LET len == Max({0, iMax})
              bad == Check(len <= sym.dims[1] /\ len < IntMax, "Subscript out of range")
          IN  /\ arrays' = t.arrays /\ heap' = t.heap /\ outcome' = bad
              /\ UNCHANGED <<dataList, dataIndex>> /\ (bad # "ok" => scalar' = scalar)
    BY <1>4 DEF changeToString
  <2>2. outcome' \in {"ok", "Subscript out of range"}
    BY <2>1 DEF Check
  <2> HIDE DEF t, sym
  <2>3. LikeTable(t)
    BY <1>1, <2>1 DEF LikeTable
  <2> QED
    BY <2>1, <2>2, <2>3 DEF UsesSymbol
<1>5. ASSUME lookupSymbolRef(a, 1) = "ok", changeToArray(a)
      PROVE  UsesSymbol(t) /\ (outcome' = "panic" => wrap(Len(scalar.str)) = IntMax)
  <2> DEFINE n   == wrap(Len(scalar.str))
             bad == Check(n \in 0 .. sym.dims[1], "Subscript out of range")
  <2>1. /\ arrays' = t.arrays /\ outcome' = bad ## Check(n # IntMax, "panic")
        /\ UNCHANGED <<scalar, dataList, dataIndex>>
        /\ heap' = IF bad # "ok" THEN t.heap
                   ELSE [t.heap EXCEPT ![sym.rows[0]] = withString(@, a, scalar.str)]
    BY <1>5 DEF changeToArray
  <2>2. bad \in {"ok", "Subscript out of range"}
    BY DEF Check
  <2> HIDE DEF bad, n
  <2>3. /\ outcome' \in {"ok", "panic", "Subscript out of range"}
        /\ outcome' = "Subscript out of range" => bad # "ok"
        /\ outcome' = "panic" => n = IntMax
    BY <2>1, <2>2 DEF ##, Check
  <2>4. \A row : DOMAIN withString(row, a, scalar.str) = DOMAIN row
    BY DEF withString
  <2> HIDE DEF t, sym
  <2>5. DOMAIN heap' = RowIds /\ \A r \in RowIds : DOMAIN heap'[r] = DOMAIN t.heap[r]
    BY <1>1, <2>1, <2>4
  <2>6. LikeTable(t)
    BY <2>1, <2>5 DEF LikeTable
  <2> QED
    BY <2>1, <2>3, <2>6 DEF UsesSymbol, n
<1>6. lookupSymbolRef(a, 1) = "ok" => outcome' # "panic" \/ ~ changeToString(a)
  BY <1>4
<1> QED
  BY <1>2, <1>3, <1>4, <1>5, <1>6 DEF Ignored

-----------------------------------------------------------------------------
(* Arrays that get other rows.                                              *)

\* Usable, of any table.
UsableIn(t, a) ==
  LET dims == t.arrays[a].dims
  IN \A i \in FirstRow(dims) .. LastRow(dims), j \in 1 .. LastCol(dims) :
       Has(t.heap, t.arrays[a].rows, <<i, j>>)

LEMMA UsableHere ==
  ASSUME NEW a, IsDims(arrays[a].dims)
  PROVE  Usable(a) <=> UsableIn(Table, a)
<1> DEFINE dims == arrays[a].dims
<1>1. Table.arrays = arrays /\ Table.heap = heap
  BY DEF Table
<1>2. FirstRow(dims) .. LastRow(dims) = IF Len(dims) = 1 THEN {0} ELSE 1 .. LastRow(dims)
  BY FirstToLast
<1> QED
  BY <1>1, <1>2 DEF Usable, UsableIn

LEMMA UsableThen ==
  ASSUME NEW a, IsDims(arrays'[a].dims),
         \A i \in FirstRow(arrays'[a].dims) .. LastRow(arrays'[a].dims),
            j \in 1 .. LastCol(arrays'[a].dims) : Has(heap', arrays'[a].rows, <<i, j>>)
  PROVE  Usable(a)'
<1> DEFINE dims == arrays'[a].dims
<1>1. FirstRow(dims) .. LastRow(dims) = IF Len(dims) = 1 THEN {0} ELSE 1 .. LastRow(dims)
  BY FirstToLast
<1> QED
  BY <1>1 DEF Usable

LEMMA WholeIsUsable ==
  ASSUME NEW t, NEW a, Whole(t, a), IsDims(t.arrays[a].dims)
  PROVE  UsableIn(t, a)
<1> DEFINE dims == t.arrays[a].dims
<1>1. FirstRow(dims) \in Nat /\ LastRow(dims) \in Nat /\ LastCol(dims) \in Nat
  BY DimsAreNaturals, ArraysAssumption DEF FirstRow
<1> SUFFICES ASSUME NEW i \in FirstRow(dims) .. LastRow(dims), NEW j \in 1 .. LastCol(dims)
             PROVE  Has(t.heap, t.arrays[a].rows, <<i, j>>)
  BY DEF UsableIn
<1>2. i \in 0 .. LastRow(dims) /\ j \in 0 .. LastCol(dims)
  BY <1>1
<1> QED
  BY <1>2 DEF Whole, Has

\* Arrays are usable after a step that leaves rows as long as in this table.
LEMMA LikeTableIsUsable ==
  ASSUME NEW t, TableInv(t), LikeTable(t), \A a \in DOMAIN t.arrays : UsableIn(t, a)
  PROVE  AllUsable'
<1> SUFFICES ASSUME NEW a \in DOMAIN arrays' PROVE Usable(a)'
  BY DEF AllUsable
<1>1. /\ arrays' = t.arrays /\ IsDims(arrays'[a].dims)
      /\ \A r \in RowIds : DOMAIN heap'[r] = DOMAIN t.heap[r]
  BY DEF LikeTable, TableInv, Shaped
<1> DEFINE dims == t.arrays[a].dims
           rows == t.arrays[a].rows
<1>2. ASSUME NEW i \in FirstRow(dims) .. LastRow(dims), NEW j \in 1 .. LastCol(dims)
      PROVE  Has(heap', rows, <<i, j>>)
  <2>1. Has(t.heap, rows, <<i, j>>)
    BY <1>1 DEF UsableIn
  <2>2. i \in DOMAIN rows /\ rows[i] # NilRow /\ j \in DOMAIN t.heap[rows[i]]
    BY <2>1 DEF Has
  <2>3. rows[i] \in RowIds
    BY <1>1, <2>2 DEF TableInv, Shaped
  <2> HIDE DEF rows
  <2> QED
    BY <1>1, <2>2, <2>3 DEF Has
<1> QED
  BY <1>1, <1>2, UsableThen

\* What was usable stays usable when arrays are added.
LEMMA ExtendsIsUsable ==
  ASSUME TInv, NEW t, Extends(t), AllUsable
  PROVE  \A a \in DOMAIN t.arrays : UsableIn(t, a)
<1> SUFFICES ASSUME NEW a \in DOMAIN t.arrays PROVE UsableIn(t, a)
  OBVIOUS
<1>1. IsDims(t.arrays[a].dims)
  BY DEF Extends, TableInv, Shaped
<1>2. CASE Whole(t, a)
  BY <1>1, <1>2, WholeIsUsable
<1>3. CASE a \in DOMAIN arrays
  <2>1. /\ t.arrays[a] = arrays[a]
        /\ \A i \in DOMAIN arrays[a].rows : arrays[a].rows[i] # NilRow =>
             t.heap[arrays[a].rows[i]] = heap[arrays[a].rows[i]]
    BY <1>3 DEF Extends, KeepsAll, Table
  <2>2. UsableIn(Table, a)
    BY <1>1, <1>3, <2>1, UsableHere DEF AllUsable
  <2> DEFINE dims == arrays[a].dims
             rows == arrays[a].rows
  <2>3. ASSUME NEW i \in FirstRow(dims) .. LastRow(dims), NEW j \in 1 .. LastCol(dims)
        PROVE  Has(t.heap, rows, <<i, j>>)
    <3>1. Has(heap, rows, <<i, j>>)
      BY <2>2 DEF UsableIn, Table
    <3> HIDE DEF rows
    <3> QED
      BY <2>1, <3>1 DEF Has, rows
  <2> QED
    BY <2>1, <2>3 DEF UsableIn
<1> QED
  BY <1>2, <1>3 DEF Extends

\* MAT A = B fails first, or shares the rows of b.
Copies(a, b) ==
  /\ a \in DOMAIN arrays /\ b \in DOMAIN arrays
  /\ vType(a) = vType(b) /\ arrays[a].dims = arrays[b].dims
  /\ arrays' = [arrays EXCEPT ![a].rows = copyMatrix(a, b)]
  /\ heap' = collected(heap, arrays')

LEMMA CopyCopies ==
  ASSUME NEW a, NEW b, matCopy(a, b)
  PROVE  /\ outcome' # "panic" /\ UNCHANGED <<scalar, dataList, dataIndex>>
         /\ Quiet \/ (outcome' = "ok" /\ Copies(a, b))
<1> DEFINE bad  == lookupArray(a, "ANY") ## lookupArray(b, "ANY")
                   ## checkArrayDestination(a, b) ## checkArrayCompatibility(a, b, FALSE)
<1>1. bad # "panic"
  BY FoundFirst DEF ##
<1>2. CASE bad # "ok"
  <2>1. Fails(bad)
    BY <1>2 DEF matCopy
  <2> HIDE DEF bad
  <2> QED
    BY <1>1, <2>1 DEF Fails, Quiet
<1>3. CASE bad = "ok"
  <2>1. /\ lookupArray(a, "ANY") = "ok" /\ lookupArray(b, "ANY") = "ok"
        /\ checkArrayCompatibility(a, b, FALSE) = "ok"
    BY <1>3 DEF ##
  <2>2. /\ a \in DOMAIN arrays /\ b \in DOMAIN arrays
        /\ vType(a) = vType(b) /\ arrays[a].dims = arrays[b].dims
    BY <2>1, LookedUp, CompatibleAre
  <2>3. /\ arrays' = [arrays EXCEPT ![a].rows = copyMatrix(a, b)]
        /\ heap' = collected(heap, arrays') /\ outcome' = "ok" /\ UNCHANGED <<scalar, dataList, dataIndex>>
    BY <1>3 DEF matCopy
  <2> QED
    BY <2>2, <2>3 DEF Copies
<1> QED
  BY <1>2, <1>3

LEMMA CopiesAreShaped ==
  ASSUME TInv, NEW a, NEW b, Copies(a, b)
  PROVE  AInv(arrays') /\ Shaped(arrays', heap') /\ (AllUsable => AllUsable')
<1>1. AInv(arrays) /\ Shaped(arrays, heap)
  BY DEF TInv, TableInv, Table
<1>2. /\ DOMAIN arrays' = DOMAIN arrays
      /\ \A c \in DOMAIN arrays : c # a => arrays'[c] = arrays[c]
      /\ arrays'[a] = [dims |-> arrays[a].dims, rows |-> copyMatrix(a, b)]
  BY <1>1, RowsReplaced DEF Copies
<1> DEFINE ra == arrays[a].rows
           rb == arrays[b].rows
<1>3. /\ arrays'[a].dims = arrays[a].dims /\ DOMAIN arrays'[a].rows = DOMAIN ra
      /\ \A i \in DOMAIN ra : arrays'[a].rows[i] = IF i \in DOMAIN rb THEN rb[i] ELSE ra[i]
  BY <1>2 DEF copyMatrix
<1>4. a \in DOMAIN arrays /\ b \in DOMAIN arrays /\ arrays[b].dims = arrays[a].dims
      /\ heap' = collected(heap, arrays')
  BY DEF Copies
<1>5. \A c \in DOMAIN arrays : \A i \in DOMAIN arrays[c].rows : arrays[c].rows[i] \in RowIds \cup {NilRow}
  BY <1>1 DEF Shaped
<1>6. Shaped(arrays', heap')
  <2>1. DOMAIN heap' = RowIds
    BY <1>4 DEF collected
  <2>2. ASSUME NEW c \in DOMAIN arrays'
        PROVE  /\ IsDims(arrays'[c].dims)
               /\ \A i \in DOMAIN arrays'[c].rows : arrays'[c].rows[i] \in RowIds \cup {NilRow}
    <3>1. CASE c = a
      <4>1. IsDims(arrays[a].dims)
        BY <1>1, <1>4 DEF Shaped
      <4>2. /\ \A i \in DOMAIN ra : ra[i] \in RowIds \cup {NilRow}
            /\ \A i \in DOMAIN rb : rb[i] \in RowIds \cup {NilRow}
        BY <1>4, <1>5
      <4> HIDE DEF ra, rb
      <4> QED
        BY <1>3, <3>1, <4>1, <4>2
    <3>2. CASE c # a
      BY <1>1, <1>2, <1>5, <3>2 DEF Shaped
    <3> QED
      BY <3>1, <3>2
  <2> QED
    BY <2>1, <2>2 DEF Shaped
<1>7. ASSUME AllUsable PROVE AllUsable'
  <2> SUFFICES ASSUME NEW c \in DOMAIN arrays' PROVE Usable(c)'
    BY DEF AllUsable
  <2>1. c \in DOMAIN arrays /\ arrays'[c].dims = arrays[c].dims
    BY <1>2, <1>3
  <2>2. IsDims(arrays[c].dims) /\ IsDims(arrays[a].dims)
    BY <1>1, <1>4, <2>1 DEF Shaped
  <2>3. UsableIn(Table, c) /\ UsableIn(Table, a) /\ UsableIn(Table, b)
    BY <1>4, <1>7, <2>1, <2>2, UsableHere DEF AllUsable
  <2> DEFINE dims == arrays[c].dims
             rows == arrays'[c].rows
  <2>4. ASSUME NEW i \in FirstRow(dims) .. LastRow(dims), NEW j \in 1 .. LastCol(dims)
        PROVE  Has(heap', rows, <<i, j>>)
    \* The row is one that an array had there before.
    <3>1. i \in DOMAIN rows /\ rows[i] # NilRow /\ j \in DOMAIN heap[rows[i]]
      <4>1. CASE c = a
        <5>1. Has(heap, ra, <<i, j>>) /\ Has(heap, rb, <<i, j>>)
          BY <1>4, <2>3, <4>1 DEF UsableIn, Table
        <5>2. /\ i \in DOMAIN ra /\ i \in DOMAIN rb /\ rb[i] # NilRow /\ j \in DOMAIN heap[rb[i]]
          BY <5>1 DEF Has
        <5> HIDE DEF ra, rb
        <5> QED
          BY <1>3, <4>1, <5>2
      <4>2. CASE c # a
        <5>1. rows = arrays[c].rows
          BY <1>2, <2>1, <4>2
        <5>2. Has(heap, arrays[c].rows, <<i, j>>)
          BY <2>3 DEF UsableIn, Table
        <5> QED
          BY <5>1, <5>2 DEF Has
      <4> QED
        BY <4>1, <4>2
    <3>2. rows[i] \in RowIds
      BY <1>6, <3>1 DEF Shaped
    <3>3. heap'[rows[i]] = heap[rows[i]]
      <4>1. PICK arrs : arrs = arrays'
        OBVIOUS
      <4>2. c \in DOMAIN arrs /\ i \in DOMAIN arrs[c].rows /\ arrs[c].rows[i] \in RowIds
        BY <3>1, <3>2, <4>1
      <4>3. collected(heap, arrs)[arrs[c].rows[i]] = heap[arrs[c].rows[i]]
        BY <4>2, RowIsUsed DEF collected
      <4> QED
        BY <1>4, <4>1, <4>3
    <3> HIDE DEF rows
    <3> QED
      BY <3>1, <3>3 DEF Has
  <2> QED
    BY <2>1, <2>2, <2>4, UsableThen
<1>8. AInv(arrays')
  BY <1>1, CopyKeepsAInv DEF Copies
<1> QED
  BY <1>6, <1>7, <1>8

\* The array a gets no row 0, rows 1 to n, and in each of them elements 0 to n.
Replaced(a, n) ==
  /\ DOMAIN arrays' = DOMAIN arrays /\ DOMAIN heap' = RowIds
  /\ \A c \in DOMAIN arrays : c # a =>
       /\ arrays'[c] = arrays[c]
       /\ \A i \in DOMAIN arrays[c].rows : LET r == arrays[c].rows[i] IN r # NilRow => heap'[r] = heap[r]
  /\ arrays'[a].dims = arrays[a].dims
  /\ DOMAIN arrays'[a].rows = 0 .. n /\ arrays'[a].rows[0] = NilRow
  /\ \A i \in 1 .. n : LET r == arrays'[a].rows[i] IN r \in RowIds /\ DOMAIN heap'[r] = 0 .. n

LEMMA BuildingReplaces ==
  ASSUME ~ IsFiniteSet(RowIds), TInv, NEW a \in DOMAIN arrays, NEW n \in Nat, NEW matrix,
         arrays' = [arrays EXCEPT ![a].rows = insertFirstRowAndCol(a, matrix, n).rows],
         heap' = collected(insertFirstRowAndCol(a, matrix, n).heap, arrays')
  PROVE  Replaced(a, n)
<1> DEFINE built == insertFirstRowAndCol(a, matrix, n)
           fresh == FreshRows(n, arrays)
<1>1. AInv(arrays) /\ Shaped(arrays, heap)
  BY DEF TInv, TableInv, Table
<1>2. fresh \in [1 .. n -> RowIds \ RowsOf(arrays)]
  BY <1>1, FreshRowsExist DEF AInv, RowsAreCounted
<1>3. built.rows = [i \in 0 .. n |-> IF i = 0 THEN NilRow ELSE fresh[i]]
  BY DEF insertFirstRowAndCol
<1>4. \A r \in RowIds : /\ r \in Range(fresh) => DOMAIN built.heap[r] = 0 .. n
                        /\ r \notin Range(fresh) => built.heap[r] = heap[r]
  BY DEF insertFirstRowAndCol
<1>5. arrays' = [arrays EXCEPT ![a].rows = built.rows] /\ heap' = collected(built.heap, arrays')
  OBVIOUS
<1> HIDE DEF built, fresh
<1>6. /\ DOMAIN arrays' = DOMAIN arrays
      /\ \A c \in DOMAIN arrays : c # a => arrays'[c] = arrays[c]
      /\ arrays'[a] = [dims |-> arrays[a].dims, rows |-> built.rows]
  BY <1>1, <1>5, RowsReplaced
<1>7. PICK arrs : arrs = arrays'
  OBVIOUS
<1>8. heap' = [r \in RowIds |-> IF r \in RowsOf(arrs) THEN built.heap[r] ELSE <<>>]
  BY <1>5, <1>7 DEF collected
<1>9. /\ DOMAIN arrs = DOMAIN arrays /\ a \in DOMAIN arrs
      /\ \A c \in DOMAIN arrays : c # a => arrs[c] = arrays[c]
      /\ arrs[a].dims = arrays[a].dims /\ arrs[a].rows = built.rows
  BY <1>6, <1>7
<1>10. \A i \in 1 .. n : /\ arrs[a].rows[i] = fresh[i] /\ fresh[i] \in RowIds
                         /\ fresh[i] \in Range(fresh) /\ i \in DOMAIN arrs[a].rows
  BY <1>2, <1>3, <1>9 DEF Range
<1>11. ASSUME NEW i \in 1 .. n PROVE DOMAIN heap'[arrs[a].rows[i]] = 0 .. n
  <2>1. arrs[a].rows[i] \in RowsOf(arrs)
    BY <1>9, <1>10, RowIsUsed
  <2>2. arrs[a].rows[i] \in RowIds /\ arrs[a].rows[i] \in Range(fresh)
    BY <1>10
  <2>3. heap'[arrs[a].rows[i]] = built.heap[arrs[a].rows[i]]
    BY <1>8, <2>1, <2>2
  <2>4. DOMAIN built.heap[arrs[a].rows[i]] = 0 .. n
    BY <1>4, <2>2
  <2> QED
    BY <2>3, <2>4
<1>12. ASSUME NEW c \in DOMAIN arrays, c # a, NEW i \in DOMAIN arrays[c].rows,
              arrays[c].rows[i] # NilRow
       PROVE  heap'[arrays[c].rows[i]] = heap[arrays[c].rows[i]]
  <2> DEFINE r == arrays[c].rows[i]
  <2>1. r \in RowIds
    BY <1>1, <1>12 DEF Shaped
  <2>2. r \in RowsOf(arrays)
    BY RowIsUsed
  <2>3. r \in RowsOf(arrs)
    <3>1. c \in DOMAIN arrs /\ arrs[c] = arrays[c]
      BY <1>9, <1>12
    <3> QED
      BY <3>1, RowIsUsed
  <2>4. r \notin Range(fresh)
    BY <1>2, <2>2 DEF Range
  <2> HIDE DEF r
  <2>5. heap'[r] = heap[r]
    BY <1>4, <1>8, <2>1, <2>3, <2>4
  <2> QED
    BY <2>5 DEF r
<1>13. DOMAIN arrs[a].rows = 0 .. n /\ arrs[a].rows[0] = NilRow
  BY <1>3, <1>9
<1>14. DOMAIN heap' = RowIds
  BY <1>8
<1> QED
  BY <1>6, <1>7, <1>9, <1>10, <1>11, <1>12, <1>13, <1>14 DEF Replaced

LEMMA ReplacedIsShaped ==
  ASSUME TInv, NEW a \in DOMAIN arrays, NEW n \in Nat, Replaced(a, n)
  PROVE  Shaped(arrays', heap')
<1>1. Shaped(arrays, heap)
  BY DEF TInv, TableInv, Table
<1>2. ASSUME NEW c \in DOMAIN arrays'
      PROVE  /\ IsDims(arrays'[c].dims)
             /\ \A i \in DOMAIN arrays'[c].rows : arrays'[c].rows[i] \in RowIds \cup {NilRow}
  <2>1. CASE c = a
    <3>1. IsDims(arrays'[c].dims)
      BY <1>1, <2>1 DEF Shaped, Replaced
    <3>2. \A i \in 0 .. n : i = 0 \/ i \in 1 .. n
      OBVIOUS
    <3>3. \A i \in 0 .. n : arrays'[a].rows[i] \in RowIds \cup {NilRow}
      BY <3>2 DEF Replaced
    <3>4. DOMAIN arrays'[c].rows = 0 .. n
      BY <2>1 DEF Replaced
    <3> QED
      BY <2>1, <3>1, <3>3, <3>4
  <2>2. CASE c # a
    BY <1>1, <2>2 DEF Shaped, Replaced
  <2> QED
    BY <2>1, <2>2
<1>3. DOMAIN heap' = RowIds
  BY DEF Replaced
<1> QED
  BY <1>2, <1>3 DEF Shaped

\* The dims of a promise no more than the square of n that it has got.
LEMMA ReplacedIsUsable ==
  ASSUME TInv, NEW a \in DOMAIN arrays, NEW n \in Nat, Replaced(a, n), AllUsable,
         Len(arrays[a].dims) = 2, arrays[a].dims[1] <= n, arrays[a].dims[2] <= n
  PROVE  AllUsable'
<1>1. Shaped(arrays, heap) /\ DOMAIN arrays' = DOMAIN arrays
  BY DEF TInv, TableInv, Table, Replaced
<1> SUFFICES ASSUME NEW c \in DOMAIN arrays PROVE Usable(c)'
  BY <1>1 DEF AllUsable
<1>2. IsDims(arrays[c].dims)
  BY <1>1 DEF Shaped
<1>3. CASE c = a
  <2> DEFINE dims == arrays[a].dims
  <2>1. arrays'[a].dims = dims /\ IsDims(dims)
    BY <1>2, <1>3 DEF Replaced
  <2>2. FirstRow(dims) = 1 /\ LastRow(dims) = dims[1] /\ LastCol(dims) = dims[2]
    BY DEF FirstRow, LastRow, LastCol
  <2>3. dims[1] \in Nat /\ dims[2] \in Nat
    BY <2>1, ArraysAssumption DEF IsDims
  <2>4. ASSUME NEW i \in 1 .. dims[1], NEW j \in 1 .. dims[2]
        PROVE  Has(heap', arrays'[a].rows, <<i, j>>)
    <3>1. i \in 1 .. n /\ i \in 0 .. n /\ j \in 0 .. n
      BY <2>3
    <3>2. /\ i \in DOMAIN arrays'[a].rows /\ arrays'[a].rows[i] \in RowIds
          /\ j \in DOMAIN heap'[arrays'[a].rows[i]]
      BY <3>1 DEF Replaced
    <3> QED
      BY <3>2, NilIsNoRow DEF Has
  <2> HIDE DEF dims
  <2>5. Usable(a)'
    BY <2>1, <2>2, <2>4, UsableThen
  <2> QED
    BY <1>3, <2>5
<1>4. CASE c # a
  <2>1. /\ arrays'[c] = arrays[c]
        /\ \A i \in DOMAIN arrays[c].rows : arrays[c].rows[i] # NilRow =>
             heap'[arrays[c].rows[i]] = heap[arrays[c].rows[i]]
    BY <1>4 DEF Replaced
  <2>2. UsableIn(Table, c)
    BY <1>2, UsableHere DEF AllUsable
  <2> DEFINE dims == arrays[c].dims
             rows == arrays[c].rows
  <2>3. ASSUME NEW i \in FirstRow(dims) .. LastRow(dims), NEW j \in 1 .. LastCol(dims)
        PROVE  Has(heap', rows, <<i, j>>)
    <3>1. Has(heap, rows, <<i, j>>)
      BY <2>2 DEF UsableIn, Table
    <3> HIDE DEF rows
    <3> QED
      BY <2>1, <3>1 DEF Has, rows
  <2> QED
    BY <1>2, <2>1, <2>3, UsableThen
<1> QED
  BY <1>3, <1>4

-----------------------------------------------------------------------------
(* INV, TRN and products.                                                   *)

LEMMA Dimensions ==
  ASSUME NEW a
  PROVE  /\ lookupArray(a, "2D") = "ok" => a \in DOMAIN arrays /\ Len(arrays[a].dims) = 2
         /\ lookupArray(a, "SQUARE") = "ok" =>
              /\ a \in DOMAIN arrays /\ Len(arrays[a].dims) = 2
              /\ arrays[a].dims[1] = arrays[a].dims[2]
BY DEF lookupArray, Check

\* Swapped dims.
LEMMA SwappedDims ==
  ASSUME NEW a, NEW b, checkArrayCompatibility(a, b, TRUE) = "ok", Len(arrays[b].dims) = 2
  PROVE  arrays[a].dims[1] = arrays[b].dims[2] /\ arrays[a].dims[2] = arrays[b].dims[1]
<1> DEFINE dims == arrays[b].dims
<1>1. arrays[a].dims = Reverse(dims)
  BY DEF checkArrayCompatibility, ##, Check
<1>2. Reverse(dims) = [i \in 1 .. Len(dims) |-> dims[(Len(dims) - i) + 1]]
  BY DEF Reverse
<1>3. Len(dims) = 2
  OBVIOUS
<1> HIDE DEF dims
<1>4. Reverse(dims)[1] = dims[2] /\ Reverse(dims)[2] = dims[1]
  BY <1>2, <1>3
<1> QED
  BY <1>1, <1>4 DEF dims

\* The matrix package takes what is complete and square.
LEMMA SquareIsStrippable ==
  ASSUME TInv, NEW b \in DOMAIN arrays, Len(arrays[b].dims) = 2, Complete(b), ~ Oblong(b)
  PROVE  Strippable(b) /\ order(b) = arrays[b].dims[1]
<1> DEFINE n == arrays[b].dims[1]
<1>1. IsDims(arrays[b].dims)
  BY DEF TInv, TableInv, Shaped, Table
<1>2. n \in Nat /\ arrays[b].dims[2] = n
  BY <1>1, ArraysAssumption DEF IsDims, Oblong
<1>3. LastRow(arrays[b].dims) = n /\ LastCol(arrays[b].dims) = n
  BY <1>2 DEF LastRow, LastCol
<1>4. DOMAIN arrays[b].rows = 0 .. n
  BY <1>3 DEF Complete
<1> HIDE DEF n
<1>5. order(b) = n
  <2>1. Cardinality(0 .. n) = n + 1
    BY <1>2, FS_Interval
  <2> QED
    BY <1>2, <1>4, <2>1 DEF order
<1>6. ASSUME NEW i \in 1 .. n, NEW j \in 1 .. n PROVE Has(heap, arrays[b].rows, <<i, j>>)
  <2>1. Table.arrays = arrays /\ Table.heap = heap /\ Whole(Table, b)
    BY CompleteIsWhole DEF Table
  <2>2. i \in 0 .. LastRow(Table.arrays[b].dims) /\ j \in 0 .. LastCol(Table.arrays[b].dims)
    BY <1>2, <1>3, <2>1
  <2> QED
    BY <2>1, <2>2, CompleteHas
<1> QED
  BY <1>5, <1>6 DEF Strippable, n

\* What is usable has so many rows.
LEMMA OrderReaches ==
  ASSUME TInv, AllUsable, NEW b \in DOMAIN arrays, Len(arrays[b].dims) = 2
  PROVE  order(b) \in Nat /\ arrays[b].dims[1] <= order(b)
<1> DEFINE n == arrays[b].dims[1]
<1>1. IsDims(arrays[b].dims) /\ AInv(arrays)
  BY DEF TInv, TableInv, Shaped, Table
<1>2. n \in Nat \ {0} /\ arrays[b].dims[2] \in Nat \ {0}
  BY <1>1, ArraysAssumption DEF IsDims
<1>3. PICK m \in Nat : DOMAIN arrays[b].rows = 0 .. m
  BY <1>1 DEF AInv, RowsAreCounted
<1>4. order(b) = m
  <2>1. Cardinality(0 .. m) = m + 1
    BY FS_Interval
  <2> QED
    BY <1>3, <2>1 DEF order
<1>5. Has(heap, arrays[b].rows, <<n, 1>>)
  <2>1. LastRow(arrays[b].dims) = n /\ LastCol(arrays[b].dims) = arrays[b].dims[2]
    BY DEF LastRow, LastCol
  <2>2. n \in 1 .. LastRow(arrays[b].dims) /\ 1 \in 1 .. LastCol(arrays[b].dims)
    BY <1>2, <2>1
  <2>3. Usable(b)
    BY DEF AllUsable
  <2> QED
    BY <2>2, <2>3 DEF Usable
<1>6. n \in 0 .. m
  BY <1>3, <1>5 DEF Has
<1> QED
  BY <1>4, <1>6

\* The package's result becomes a, of the order of b.
Builds(a, b) ==
  /\ UNCHANGED <<scalar, dataList, dataIndex>>
  /\ \/ Quiet
     \/ /\ a \in DOMAIN arrays /\ b \in DOMAIN arrays
        /\ Len(arrays[a].dims) = 2 /\ Len(arrays[b].dims) = 2
        /\ AInv(arrays') /\ Replaced(a, order(b)) /\ outcome' \in {"ok", "Floating error"}

\* What Rebuilds leaves, whatever the matrix is.
RebuiltAs(a, n) ==
  /\ outcome' \in {"ok", "Floating error"} /\ UNCHANGED <<scalar, dataList, dataIndex>>
  /\ \/ Quiet
     \/ \E matrix : /\ arrays' = [arrays EXCEPT ![a].rows = insertFirstRowAndCol(a, matrix, n).rows]
                    /\ heap' = collected(insertFirstRowAndCol(a, matrix, n).heap, arrays')

LEMMA RebuiltBuilds ==
  ASSUME ~ IsFiniteSet(RowIds), TInv, NEW a \in DOMAIN arrays, NEW b \in DOMAIN arrays,
         Len(arrays[a].dims) = 2, Len(arrays[b].dims) = 2, RebuiltAs(a, order(b))
  PROVE  Builds(a, b) /\ outcome' # "panic"
<1>1. AInv(arrays) /\ order(b) \in Nat
  BY OrderIsNatural DEF TInv, TableInv, Table
<1>2. ASSUME NEW matrix,
             arrays' = [arrays EXCEPT ![a].rows = insertFirstRowAndCol(a, matrix, order(b)).rows],
             heap' = collected(insertFirstRowAndCol(a, matrix, order(b)).heap, arrays')
      PROVE  AInv(arrays') /\ Replaced(a, order(b))
  <2>1. AInv([arrays EXCEPT ![a].rows = insertFirstRowAndCol(a, matrix, order(b)).rows])
    BY <1>1, RebuildKeepsAInv
  <2>2. Replaced(a, order(b))
    BY <1>1, <1>2, BuildingReplaces
  <2> QED
    BY <1>2, <2>1, <2>2
<1>3. Quiet \/ (AInv(arrays') /\ Replaced(a, order(b)))
  BY <1>2 DEF RebuiltAs
<1>4. outcome' # "panic"
  BY DEF RebuiltAs
<1> QED
  BY <1>3, <1>4 DEF Builds, RebuiltAs

\* One that fails before.
LEMMA FailingBuilds ==
  ASSUME NEW a, NEW b, NEW error, Fails(error)
  PROVE  Builds(a, b) /\ outcome' = error
BY DEF Builds, Fails, Quiet

\* The dims of the result are no larger than what is put there.
Fits(a, b) ==
  arrays[a].dims[1] = arrays[b].dims[1] /\ arrays[a].dims[2] = arrays[b].dims[1]

LEMMA InvBuilds ==
  ASSUME ~ IsFiniteSet(RowIds), TInv, NEW a, NEW b, matInv(a, b)
  PROVE  /\ Builds(a, b) /\ (Quiet \/ Fits(a, b))
         /\ outcome' = "panic" => ~ Complete(b)
<1> DEFINE first == lookupArray(a, "SQUARE") ## lookupArray(b, "SQUARE")
                    ## checkArrayDestination(a, b) ## checkArrayCompatibility(a, b, TRUE)
                    ## Check(vType(b) = "FVAR", "INV does not support integer matrices")
           bad   == first ## Check(Strippable(b), "panic")
<1>1. first # "panic"
  BY FoundFirst DEF ##, Check
<1>2. ASSUME first = "ok"
      PROVE  /\ a \in DOMAIN arrays /\ Len(arrays[a].dims) = 2
             /\ b \in DOMAIN arrays /\ Len(arrays[b].dims) = 2 /\ ~ Oblong(b)
             /\ Fits(a, b)
  <2>1. /\ lookupArray(a, "SQUARE") = "ok" /\ lookupArray(b, "SQUARE") = "ok"
        /\ checkArrayCompatibility(a, b, TRUE) = "ok"
    BY <1>2 DEF ##
  <2> HIDE DEF first
  <2>2. /\ a \in DOMAIN arrays /\ Len(arrays[a].dims) = 2
        /\ b \in DOMAIN arrays /\ Len(arrays[b].dims) = 2
        /\ arrays[b].dims[1] = arrays[b].dims[2]
    BY <2>1, Dimensions
  <2>3. arrays[a].dims[1] = arrays[b].dims[2] /\ arrays[a].dims[2] = arrays[b].dims[1]
    BY <2>1, <2>2, SwappedDims
  <2> QED
    BY <2>2, <2>3 DEF Oblong, Fits
<1>3. CASE bad # "ok"
  <2>1. Fails(bad)
    BY <1>3 DEF matInv
  <2> HIDE DEF first
  <2>2. bad = "panic" => ~ Complete(b)
    <3>1. bad = "panic" => first = "ok" /\ ~ Strippable(b)
      BY <1>1 DEF ##, Check
    <3> HIDE DEF bad
    <3> QED
      BY <1>2, <3>1, SquareIsStrippable
  <2> HIDE DEF bad
  <2> QED
    BY <2>1, <2>2, FailingBuilds DEF Fails, Quiet
<1>4. CASE bad = "ok"
  <2>1. first = "ok"
    BY <1>4 DEF ##
  <2>2. \/ Fails("Matrix error")
        \/ \E v \in Values :
             Rebuilds(a, "FVAR", [p \in (1 .. order(b)) \X (1 .. order(b)) |-> v], order(b), Unchecked)
    BY <1>4 DEF matInv
  <2> HIDE DEF first, bad
  <2>3. CASE Fails("Matrix error")
    BY <1>2, <2>1, <2>3, FailingBuilds
  <2>4. ASSUME NEW v \in Values,
               Rebuilds(a, "FVAR", [p \in (1 .. order(b)) \X (1 .. order(b)) |-> v], order(b), Unchecked)
        PROVE  RebuiltAs(a, order(b))
    <3> DEFINE matrix == [p \in (1 .. order(b)) \X (1 .. order(b)) |-> v]
    <3>1. Rebuilds(a, "FVAR", matrix, order(b), Unchecked)
      BY <2>4
    <3> HIDE DEF matrix
    <3> QED
      BY <3>1 DEF Rebuilds, RebuiltAs, Fails, Quiet, Unchecked
  <2> QED
    BY <1>2, <2>1, <2>2, <2>3, <2>4, RebuiltBuilds
<1> QED
  BY <1>3, <1>4

LEMMA TrnBuilds ==
  ASSUME ~ IsFiniteSet(RowIds), TInv, NEW a, NEW b, matTrn(a, b)
  PROVE  /\ Builds(a, b)
         /\ \/ Quiet
            \/ /\ a \in DOMAIN arrays /\ b \in DOMAIN arrays
               /\ Fits(a, b) \/ Oblong(b) \/ arrays[a].dims # arrays[b].dims
         /\ outcome' = "panic" => Oblong(b) \/ ~ Complete(b)
<1> DEFINE first  == lookupArray(a, "2D") ## lookupArray(b, "2D")
           bad    == first ## Check(Strippable(b), "panic")
           matrix == [p \in DOMAIN Stripped(b) |-> Stripped(b)[Reverse(p)]]
<1>1. first # "panic"
  BY FoundFirst DEF ##
<1>2. ASSUME first = "ok"
      PROVE  /\ a \in DOMAIN arrays /\ Len(arrays[a].dims) = 2
             /\ b \in DOMAIN arrays /\ Len(arrays[b].dims) = 2
  BY <1>2, Dimensions DEF ##
<1>3. CASE bad # "ok"
  <2>1. Fails(bad)
    BY <1>3 DEF matTrn
  <2> HIDE DEF first
  <2>2. bad = "panic" => Oblong(b) \/ ~ Complete(b)
    <3>1. bad = "panic" => first = "ok" /\ ~ Strippable(b)
      BY <1>1 DEF ##, Check
    <3> HIDE DEF bad
    <3> QED
      BY <1>2, <3>1, SquareIsStrippable
  <2> HIDE DEF bad
  <2> QED
    BY <2>1, <2>2, FailingBuilds DEF Fails, Quiet
<1>4. CASE bad = "ok"
  <2>1. first = "ok"
    BY <1>4 DEF ##
  <2>2. Rebuilds(a, vType(b), matrix, order(b), Unchecked)
    BY <1>4 DEF matTrn
  <2> HIDE DEF first, bad, matrix
  <2>3. RebuiltAs(a, order(b))
    BY <2>2 DEF Rebuilds, RebuiltAs, Fails, Quiet, Unchecked
  <2>4. Fits(a, b) \/ Oblong(b) \/ arrays[a].dims # arrays[b].dims
    BY <1>2, <2>1 DEF Fits, Oblong
  <2> QED
    BY <1>2, <2>1, <2>3, <2>4, RebuiltBuilds
<1> QED
  BY <1>3, <1>4

LEMMA MulBuilds ==
  ASSUME ~ IsFiniteSet(RowIds), TInv, NEW a, NEW b, NEW c, matMul(a, b, c)
  PROVE  /\ Builds(a, b) /\ (Quiet \/ Fits(a, b))
         /\ outcome' = "panic" => \E s \in {b, c} : Oblong(s) \/ ~ Complete(s)
<1> DEFINE type  == vType(b)
           first == lookupArray(a, "2D") ## lookupArray(b, "2D") ## lookupArray(c, "2D")
                    ## checkArrayDestination(a, b) ## checkArrayDestination(a, c)
                    ## checkArrayCompatibility(b, c, TRUE) ## checkArrayDims(a, b, c)
           bad   == first ## Check(Strippable(b) /\ Strippable(c), "panic")
                    ## Check(order(b) = order(c), "panic")
           product == [p \in DOMAIN Stripped(b) |->
                         dotProduct(type, Stripped(b), Stripped(c), p, order(b))]
           status(h, rows) == IF type = "FVAR" THEN checkArrayFloatingStatus(h, rows) ELSE "ok"
<1>1. first # "panic"
  BY FoundFirst DEF ##
<1>2. ASSUME first = "ok"
      PROVE  /\ a \in DOMAIN arrays /\ Len(arrays[a].dims) = 2
             /\ b \in DOMAIN arrays /\ Len(arrays[b].dims) = 2
             /\ c \in DOMAIN arrays /\ Len(arrays[c].dims) = 2
             /\ arrays[b].dims[1] = arrays[c].dims[2] /\ arrays[b].dims[2] = arrays[c].dims[1]
             /\ Fits(a, b)
  <2>1. /\ lookupArray(a, "2D") = "ok" /\ lookupArray(b, "2D") = "ok" /\ lookupArray(c, "2D") = "ok"
        /\ checkArrayCompatibility(b, c, TRUE) = "ok" /\ checkArrayDims(a, b, c) = "ok"
    BY <1>2 DEF ##
  <2> HIDE DEF first
  <2>2. /\ a \in DOMAIN arrays /\ Len(arrays[a].dims) = 2
        /\ b \in DOMAIN arrays /\ Len(arrays[b].dims) = 2
        /\ c \in DOMAIN arrays /\ Len(arrays[c].dims) = 2
    BY <2>1, Dimensions
  <2>3. arrays[b].dims[1] = arrays[c].dims[2] /\ arrays[b].dims[2] = arrays[c].dims[1]
    BY <2>1, <2>2, SwappedDims
  <2>4. arrays[a].dims[1] = arrays[b].dims[1] /\ arrays[a].dims[2] = arrays[c].dims[2]
    BY <2>1 DEF checkArrayDims, Check
  <2> QED
    BY <2>2, <2>3, <2>4 DEF Fits
<1>3. CASE bad # "ok"
  <2>1. Fails(bad)
    BY <1>3 DEF matMul
  <2> HIDE DEF first
  <2>2. bad = "panic" => \E s \in {b, c} : Oblong(s) \/ ~ Complete(s)
    <3>1. bad = "panic" => first = "ok" /\ ~ (Strippable(b) /\ Strippable(c) /\ order(b) = order(c))
      BY <1>1 DEF ##, Check
    <3> HIDE DEF bad
    <3> SUFFICES ASSUME bad = "panic", Complete(b), Complete(c), ~ Oblong(b), ~ Oblong(c) PROVE FALSE
      BY <1>2, <3>1
    <3>2. /\ Strippable(b) /\ order(b) = arrays[b].dims[1]
          /\ Strippable(c) /\ order(c) = arrays[c].dims[1]
      BY <1>2, <3>1, SquareIsStrippable
    <3>3. arrays[b].dims[1] = arrays[c].dims[1]
      BY <1>2, <3>1 DEF Oblong
    <3> QED
      BY <3>1, <3>2, <3>3
  <2> HIDE DEF bad
  <2> QED
    BY <2>1, <2>2, FailingBuilds DEF Fails, Quiet
<1>4. CASE bad = "ok"
  <2>1. first = "ok"
    BY <1>4 DEF ##
  <2>2. Rebuilds(a, type, product, order(b), status)
    BY <1>4 DEF matMul
  <2> HIDE DEF first, bad, product
  <2>3. RebuiltAs(a, order(b))
    <3>1. \A h, rows : status(h, rows) \in {"ok", "Floating error"}
      BY StatusIsFloating
    <3> HIDE DEF status, type
    <3> QED
      BY <2>2, <3>1 DEF Rebuilds, RebuiltAs, Fails, Quiet
  <2> QED
    BY <1>2, <2>1, <2>3, RebuiltBuilds
<1> QED
  BY <1>3, <1>4

-----------------------------------------------------------------------------
(* What every statement keeps.                                              *)

\* RefusedChangesNothing and OnlyTransposeLosesElements, of one step.
Unharmed ==
  /\ \A a \in DOMAIN arrays :
       /\ a \in DOMAIN arrays' /\ arrays'[a] = arrays[a]
       /\ \A r \in Range(arrays[a].rows) \ {NilRow} : heap'[r] = heap[r]
  /\ UNCHANGED <<scalar, dataIndex>>

Transposes ==
  \E a, b \in DOMAIN arrays : matTrn(a, b) /\ (Oblong(b) \/ arrays[a].dims # arrays[b].dims)

Orderly ==
  /\ AInv(arrays') /\ Shaped(arrays', heap') /\ Counted(dataList') /\ dataIndex' \in Nat
  /\ AllUsable => AllUsable' \/ Transposes
  /\ Refused => Unharmed

\* Ends that are no refusals.
Ends == {"ok", "panic", "Floating error", "Out of data", "Integer error", "Data type error",
         "Input error", "Duplicate DIM statement"}

LEMMA EndsAreNoRefusals ==
  /\ outcome' \in Ends => ~ Refused
  /\ outcome' \in Ends \cup {"Subscript out of range"} /\ MatInOut => ~ Refused
<1>1. \A end \in Ends \cup {"Subscript out of range"} : end \notin Refusals
  BY DEF Ends, Refusals
<1>2. \A end \in Ends : end # "Subscript out of range"
  BY DEF Ends
<1> QED
  BY <1>1, <1>2 DEF Refused

LEMMA LikeIsOrderly ==
  ASSUME TInv, LikeTable(Table), UNCHANGED dataList, dataIndex' \in Nat,
         Refused => Unharmed
  PROVE  Orderly
<1>1. TableInv(Table) /\ Table.arrays = arrays /\ Table.heap = heap
  BY DEF TInv, Table
<1>2. AInv(arrays') /\ Shaped(arrays', heap')
  BY <1>1 DEF TableInv, Shaped, LikeTable
<1>3. Counted(dataList')
  BY DEF TInv
<1>4. ASSUME AllUsable PROVE AllUsable'
  <2>1. \A a \in DOMAIN arrays : IsDims(arrays[a].dims)
    BY <1>1 DEF TableInv, Shaped
  <2>2. \A a \in DOMAIN Table.arrays : UsableIn(Table, a)
    BY <1>1, <1>4, <2>1, UsableHere DEF AllUsable
  <2> QED
    BY <1>1, <2>2, LikeTableIsUsable
<1> QED
  BY <1>2, <1>3, <1>4 DEF Orderly

LEMMA QuietIsUnharmed ==
  ASSUME Quiet
  PROVE  Unharmed
BY DEF Quiet, Unharmed

LEMMA TameIsOrderly ==
  ASSUME TInv, Tame
  PROVE  Orderly
<1>1. outcome' \in {"ok", "panic", "Floating error"} => outcome' \in Ends
  BY DEF Ends
<1>2. Refused => Unharmed
  BY <1>1, EndsAreNoRefusals, QuietIsUnharmed DEF Tame
<1>3. LikeTable(Table) /\ UNCHANGED dataList /\ dataIndex' \in Nat
  BY DEF Tame, TInv
<1> QED
  BY <1>2, <1>3, LikeIsOrderly

LEMMA InOutIsOrderly ==
  ASSUME TInv, MatInOut
  PROVE  Orderly
<1>1. ASSUME NEW a \in Names, matRead(a) PROVE Orderly
  <2>1. ReadIn
    BY <1>1, ReadIsReadIn
  <2>2. outcome' \in {"ok", "panic", "Out of data", "Integer error", "Subscript out of range"}
        => outcome' \in Ends \cup {"Subscript out of range"}
    BY DEF Ends
  <2>3. Refused => Unharmed
    BY <2>1, <2>2, EndsAreNoRefusals, QuietIsUnharmed DEF ReadIn
  <2> QED
    BY <2>1, <2>3, LikeIsOrderly DEF ReadIn
<1>2. ASSUME NEW a \in Names, matPrint(a) PROVE Orderly
  BY <1>2, PrintIsTame, TameIsOrderly
<1>3. ASSUME NEW a \in Names, NEW v \in Values, matInput(a, v) PROVE Orderly
  <2>1. Typed
    BY <1>3, InputIsTyped
  <2>2. outcome' \in {"ok", "panic", "Input error", "Subscript out of range"}
        => outcome' \in Ends \cup {"Subscript out of range"}
    BY DEF Ends
  <2>3. Refused => Unharmed
    BY <2>1, <2>2, EndsAreNoRefusals, QuietIsUnharmed DEF Typed
  <2>4. dataIndex' \in Nat /\ UNCHANGED dataList
    BY <2>1 DEF Typed, TInv
  <2> QED
    BY <2>1, <2>3, <2>4, LikeIsOrderly DEF Typed
<1> QED
  BY <1>1, <1>2, <1>3 DEF MatInOut

LEMMA BuildsIsOrderly ==
  ASSUME TInv, NEW a, NEW b, Builds(a, b),
         \/ Quiet
         \/ Fits(a, b)
         \/ Transposes
  PROVE  Orderly
<1>1. CASE Quiet
  <2>1. LikeTable(Table) /\ UNCHANGED dataList /\ dataIndex' \in Nat
    BY <1>1, QuietIsLikeTable DEF Quiet, TInv
  <2>2. Refused => Unharmed
    BY <1>1, QuietIsUnharmed
  <2> QED
    BY <2>1, <2>2, LikeIsOrderly
<1>2. CASE ~ Quiet
  <2>1. /\ a \in DOMAIN arrays /\ b \in DOMAIN arrays
        /\ Len(arrays[a].dims) = 2 /\ Len(arrays[b].dims) = 2
        /\ AInv(arrays') /\ Replaced(a, order(b)) /\ outcome' \in {"ok", "Floating error"}
    BY <1>2 DEF Builds
  <2>2. order(b) \in Nat
    BY <2>1, OrderIsNatural DEF TInv, TableInv, Table
  <2>3. Shaped(arrays', heap')
    BY <2>1, <2>2, ReplacedIsShaped
  <2>4. ASSUME AllUsable, Fits(a, b) PROVE AllUsable'
    <3>1. arrays[b].dims[1] <= order(b)
      BY <2>1, <2>4, OrderReaches
    <3>2. arrays[a].dims[1] <= order(b) /\ arrays[a].dims[2] <= order(b)
      BY <2>4, <3>1 DEF Fits
    <3> QED
      BY <2>1, <2>2, <2>4, <3>2, ReplacedIsUsable
  <2>5. outcome' \in Ends
    BY <2>1 DEF Ends
  <2>6. ~ Refused
    BY <2>5, EndsAreNoRefusals
  <2>7. Counted(dataList') /\ dataIndex' \in Nat
    BY DEF Builds, TInv
  <2> QED
    BY <1>2, <2>1, <2>3, <2>4, <2>6, <2>7 DEF Orderly
<1> QED
  BY <1>1, <1>2

LEMMA CopyIsOrderly ==
  ASSUME TInv, NEW a, NEW b, matCopy(a, b)
  PROVE  Orderly
<1>1. /\ outcome' # "panic" /\ UNCHANGED <<scalar, dataList, dataIndex>>
      /\ Quiet \/ (outcome' = "ok" /\ Copies(a, b))
  BY CopyCopies
<1>2. Counted(dataList') /\ dataIndex' \in Nat
  BY <1>1 DEF TInv
<1>3. CASE Quiet
  BY <1>1, <1>2, <1>3, QuietIsLikeTable, QuietIsUnharmed, LikeIsOrderly
<1>4. CASE outcome' = "ok" /\ Copies(a, b)
  <2>1. AInv(arrays') /\ Shaped(arrays', heap') /\ (AllUsable => AllUsable')
    BY <1>4, CopiesAreShaped
  <2>2. ~ Refused
    BY <1>4, EndsAreNoRefusals DEF Ends
  <2> QED
    BY <1>1, <1>2, <2>1, <2>2 DEF Orderly
<1> QED
  BY <1>1, <1>3, <1>4

LEMMA MatIsOrderly ==
  ASSUME ~ IsFiniteSet(RowIds), TInv, Mat
  PROVE  Orderly
<1>1. ASSUME NEW a \in Names, NEW func \in {"CON", "ZER", "IDN"}, matFill(a, func) PROVE Orderly
  BY <1>1, FillIsTame, TameIsOrderly
<1>2. ASSUME NEW a \in Names, NEW b \in Names, NEW c \in Names, NEW sub \in BOOLEAN,
             matAdd(a, b, c, sub)
      PROVE  Orderly
  BY <1>2, AddIsTame, TameIsOrderly
<1>3. ASSUME NEW a \in Names, NEW b \in Names, NEW mult \in Multipliers, NEW type \in {"FVAR", "IVAR"},
             matScale(a, mult, type, b)
      PROVE  Orderly
  BY <1>3, ScaleIsTame, TameIsOrderly
<1>4. ASSUME NEW a \in Names, NEW b \in Names, matInv(a, b) PROVE Orderly
  BY <1>4, InvBuilds, BuildsIsOrderly
<1>5. ASSUME NEW a \in Names, NEW b \in Names, matTrn(a, b) PROVE Orderly
  <2>1. /\ Builds(a, b)
        /\ Quiet \/ Fits(a, b) \/ Transposes
    BY <1>5, TrnBuilds DEF Transposes
  <2> QED
    BY <2>1, BuildsIsOrderly
<1>6. ASSUME NEW a \in Names, NEW b \in Names, NEW c \in Names, matMul(a, b, c) PROVE Orderly
  BY <1>6, MulBuilds, BuildsIsOrderly
<1> QED
  BY <1>1, <1>2, <1>3, <1>4, <1>5, <1>6, CopyIsOrderly DEF Mat

LEMMA UsedIsOrderly ==
  ASSUME TInv, NEW t, Ignored \/ (Extends(t) /\ UsesSymbol(t))
  PROVE  Orderly
<1>1. CASE Ignored
  <2>1. LikeTable(Table) /\ UNCHANGED dataList /\ dataIndex' \in Nat /\ outcome' # "panic"
    BY <1>1, QuietIsLikeTable DEF Ignored, Quiet, TInv
  <2>2. Unharmed
    BY <1>1, QuietIsUnharmed DEF Ignored
  <2> QED
    BY <2>1, <2>2, LikeIsOrderly
<1>2. CASE Extends(t) /\ UsesSymbol(t)
  <2>1. TableInv(t) /\ LikeTable(t) /\ KeepsAll(t, Table)
    BY <1>2 DEF Extends, UsesSymbol
  <2>2. AInv(arrays') /\ Shaped(arrays', heap')
    BY <2>1 DEF TableInv, Shaped, LikeTable
  <2>3. AllUsable => AllUsable'
    BY <1>2, <2>1, ExtendsIsUsable, LikeTableIsUsable
  <2>4. Counted(dataList') /\ dataIndex' \in Nat
    BY <1>2 DEF UsesSymbol, TInv
  <2>5. ASSUME Refused PROVE Unharmed
    <3>1. outcome' = "Subscript out of range"
      <4>1. outcome' \in {"ok", "panic"} => outcome' \in Ends
        BY DEF Ends
      <4> QED
        BY <1>2, <2>5, <4>1, EndsAreNoRefusals DEF UsesSymbol
    <3>2. heap' = t.heap /\ arrays' = t.arrays /\ UNCHANGED <<scalar, dataIndex>>
      BY <1>2, <2>1, <3>1 DEF UsesSymbol, LikeTable
    <3> QED
      BY <2>1, <3>2 DEF KeepsAll, Table, Unharmed, Range
  <2> QED
    BY <2>2, <2>3, <2>4, <2>5 DEF Orderly
<1> QED
  BY <1>1, <1>2

LEMMA NextIsOrderly ==
  ASSUME ~ IsFiniteSet(RowIds), TInv, Next
  PROVE  Orderly
<1>1. ASSUME NEW decls \in Programs, executeRun(decls) PROVE Orderly
  <2> DEFINE d == Declared(decls)
  <2>1. DeclaredInv(d)
    BY DeclaredIsWhole
  <2>2. /\ arrays' = d.table.arrays /\ heap' = d.table.heap
        /\ dataList' = d.data /\ dataIndex' = 0 /\ outcome' = d.result
    BY <1>1 DEF executeRun
  <2> HIDE DEF d
  <2>3. TableInv(d.table) /\ AllWhole(d.table)
    BY <2>1 DEF DeclaredInv
  <2>4. AInv(arrays') /\ Shaped(arrays', heap')
    BY <2>2, <2>3 DEF TableInv
  <2>5. Counted(dataList') /\ dataIndex' \in Nat
    BY <2>1, <2>2 DEF DeclaredInv
  <2>6. AllUsable'
    <3>1. \A a \in DOMAIN d.table.arrays : UsableIn(d.table, a)
      BY <2>3, WholeIsUsable DEF AllWhole, TableInv, Shaped
    <3>2. LikeTable(d.table)
      BY <2>2, <2>4 DEF LikeTable, Shaped
    <3> QED
      BY <2>3, <3>1, <3>2, LikeTableIsUsable
  <2>7. outcome' \in Ends /\ outcome' # "panic"
    BY <2>1, <2>2 DEF DeclaredInv, Ends
  <2> QED
    BY <2>4, <2>5, <2>6, <2>7, EndsAreNoRefusals DEF Orderly
<1>2. CASE stmtAvlTreeInsert
  <2>1. /\ arrays' = <<>> /\ heap' = EmptyTable.heap /\ outcome' = "ok"
        /\ dataList' = <<>> /\ dataIndex' = 0
    BY <1>2 DEF stmtAvlTreeInsert
  <2>2. DOMAIN arrays' = {}
    BY <2>1
  <2>3. AInv(arrays') /\ Shaped(arrays', heap')
    BY <2>1, <2>2, NoArrays DEF Shaped, EmptyTable
  <2>4. AllUsable'
    BY <2>2 DEF AllUsable
  <2>5. ~ Refused
    BY <2>1, EndsAreNoRefusals DEF Ends
  <2>6. Counted(dataList') /\ dataIndex' \in Nat
    BY <2>1 DEF Counted
  <2> QED
    BY <2>3, <2>4, <2>5, <2>6 DEF Orderly
<1>3. ASSUME NEW a \in Names, NEW subs \in Subscripts,
             fetchVar(a, subs) \/ \E v \in Values : storeVar(a, subs, v)
      PROVE  Orderly
  <2>1. Len(subs) \in {1, 2}
    BY ArraysAssumption
  <2>2. Extends(withSymbol(a, Len(subs)))
    BY <2>1, SymbolIsWhole
  <2>3. Ignored \/ UsesSymbol(withSymbol(a, Len(subs)))
    BY <1>3, ElementIsUsed
  <2> QED
    BY <2>2, <2>3, UsedIsOrderly
<1>4. ASSUME NEW a \in Names, changeToArray(a) \/ changeToString(a) PROVE Orderly
  <2>1. Extends(withSymbol(a, 1))
    BY SymbolIsWhole
  <2>2. Ignored \/ UsesSymbol(withSymbol(a, 1))
    BY <1>4, ChangeIsUsed
  <2> QED
    BY <2>1, <2>2, UsedIsOrderly
<1>5. ASSUME UNCHANGED <<arrays, heap, dataList>>, dataIndex' \in Nat,
             outcome' \in {"ok", "Out of data", "Integer error", "Data type error"}
      PROVE  Orderly
  <2>1. LikeTable(Table)
    BY <1>5 DEF LikeTable, Table, TInv, TableInv, Shaped
  <2>2. outcome' \in Ends /\ outcome' # "panic"
    BY <1>5 DEF Ends
  <2> QED
    BY <1>5, <2>1, <2>2, EndsAreNoRefusals, LikeIsOrderly
<1>6. ASSUME NEW list \in ReadLists, executeRead(list) PROVE Orderly
  BY <1>5, <1>6, ReadIsHarmless
<1>7. CASE executeRestore
  BY <1>5, <1>7 DEF executeRestore
<1> QED
  BY <1>1, <1>2, <1>3, <1>4, <1>6, <1>7, MatIsOrderly, InOutIsOrderly DEF Next

LEMMA NextKeepsTInv ==
  ASSUME ~ IsFiniteSet(RowIds), TInv, [Next]_vars
  PROVE  TInv'
<1>1. CASE Next
  BY <1>1, NextIsOrderly DEF Orderly, TInv, TableInv, Table
<1>2. CASE UNCHANGED vars
  BY <1>2 DEF vars, TInv, TableInv, Table
<1> QED
  BY <1>1, <1>2

LEMMA InitIsTInv ==
  ASSUME Init
  PROVE  TInv
<1>1. /\ TableInv(EmptyTable) /\ DeclaredInv(Undeclared) /\ EmptyTable.arrays = <<>>
      /\ Undeclared.data = <<>>
  BY NothingIsDeclared DEF EmptyTable, Undeclared
<1>2. Table.arrays = EmptyTable.arrays /\ Table.heap = EmptyTable.heap
  BY <1>1 DEF Init, Table
<1> QED
  BY <1>1, <1>2 DEF Init, TInv, TableInv, DeclaredInv

\* However declarations, elements and MAT statements follow each other, arrays that share a row
\* are of one type and one shape and have it in the same place, so that MAT B = A never makes an
\* element the counterpart of another one.  It takes rows that are not yet used: memory.
THEOREM RowsAreShared == ~ IsFiniteSet(RowIds) => (Spec => []SharedRowsAreAligned)
<1> SUFFICES ASSUME ~ IsFiniteSet(RowIds) PROVE Spec => []SharedRowsAreAligned
  OBVIOUS
<1>1. Init => TInv
  BY InitIsTInv
<1>2. TInv /\ [Next]_vars => TInv'
  BY NextKeepsTInv
<1>3. TInv => SharedRowsAreAligned
  BY DEF TInv, TableInv, Table, AInv, Aligned, SharedRowsAreAligned
<1> QED
  BY <1>1, <1>2, <1>3, PTL DEF Spec

\* A statement that ends in an error which is found at its beginning has changed no array, no
\* variable and not the place in the data, whatever the statement, the arrays and the program are.
THEOREM RefusalsChangeNothing == ~ IsFiniteSet(RowIds) => (Spec => RefusedChangesNothing)
<1> SUFFICES ASSUME ~ IsFiniteSet(RowIds) PROVE Spec => RefusedChangesNothing
  OBVIOUS
<1>1. Init => TInv
  BY InitIsTInv
<1>2. TInv /\ [Next]_vars => TInv'
  BY NextKeepsTInv
<1>3. TInv /\ [Next]_vars => [Refused =>
         /\ \A a \in DOMAIN arrays :
              /\ a \in DOMAIN arrays' /\ arrays'[a] = arrays[a]
              /\ \A r \in Range(arrays[a].rows) \ {NilRow} : heap'[r] = heap[r]
         /\ UNCHANGED <<scalar, dataIndex>>]_vars
  BY NextIsOrderly DEF Orderly, Unharmed
<1> QED
  BY <1>1, <1>2, <1>3, PTL DEF Spec, RefusedChangesNothing

\* Where the interpreter gives up, what the statement is given is the reason, for arrays of numbers
\* of any dims, integers of any width and any history of the arrays.
THEOREM PanicsHaveReasons == ~ IsFiniteSet(RowIds) => (Spec => PanicsAreExplained)
<1> SUFFICES ASSUME ~ IsFiniteSet(RowIds) PROVE Spec => PanicsAreExplained
  OBVIOUS
<1> DEFINE Reasons == /\ \E a \in Names : MayPanic(a)
                      /\ \A a, b \in Names : ReasonsOfOne(a) /\ ReasonsOfMore(a, b)
<1>1. Init => TInv
  BY InitIsTInv
<1>2. TInv /\ [Next]_vars => TInv'
  BY NextKeepsTInv
<1>3. ASSUME TInv, Next, outcome' = "panic" PROVE Reasons
  <2>1. \E a \in Names : MayPanic(a)
    <3>1. ASSUME NEW decls \in Programs, executeRun(decls) PROVE FALSE
      BY <1>3, <3>1, DeclaredIsWhole DEF executeRun, DeclaredInv
    <3>2. ~ stmtAvlTreeInsert /\ ~ executeRestore
      BY <1>3 DEF stmtAvlTreeInsert, executeRestore
    <3>3. ASSUME NEW list \in ReadLists, executeRead(list) PROVE FALSE
      BY <1>3, <3>3, ReadIsHarmless
    <3>4. ASSUME NEW a \in Names, changeToString(a) PROVE FALSE
      BY <1>3, <3>4, ChangeIsUsed
    <3>5. Mat \/ MatInOut => Names # {}
      BY DEF Mat, MatInOut
    <3> QED
      BY <1>3, <3>1, <3>2, <3>3, <3>4, <3>5 DEF Next, MayPanic
  <2>2. ASSUME NEW a \in Names PROVE ReasonsOfOne(a)
    <3>1. (\E func \in {"CON", "ZER", "IDN"} : matFill(a, func)) => LoopFails(a, {})
      BY <1>3, FillIsTame
    <3>2. matPrint(a) \/ (\E v \in Values : matInput(a, v)) => ~ Usable(a)
      BY <1>3, PrintIsTame, InputIsTyped
    <3>3. matRead(a) => ~ Usable(a) \/ (dataIndex' # dataIndex /\ ~ Number(dataList[dataIndex']))
      BY <1>3, ReadIsReadIn
    <3>4. (\E subs \in Subscripts : fetchVar(a, subs) \/ \E v \in Values : storeVar(a, subs, v)) =>
            ~ Complete(a)
      BY <1>3, ElementIsUsed
    <3>5. (changeToArray(a) => wrap(Len(scalar.str)) = IntMax) /\ ~ changeToString(a)
      BY <1>3, ChangeIsUsed
    <3> QED
      BY <3>1, <3>2, <3>3, <3>4, <3>5 DEF ReasonsOfOne
  <2>3. ASSUME NEW a \in Names, NEW b \in Names PROVE ReasonsOfMore(a, b)
    <3>1. (\E mult \in Multipliers, type \in {"FVAR", "IVAR"} : matScale(a, mult, type, b)) =>
            LoopFails(a, {b})
      BY <1>3, ScaleIsTame
    <3>2. ~ matCopy(a, b)
      BY <1>3, CopyCopies
    <3>3. matInv(a, b) => ~ Complete(b)
      BY <1>3, InvBuilds
    <3>4. matTrn(a, b) => Oblong(b) \/ ~ Complete(b)
      BY <1>3, TrnBuilds
    <3>5. ASSUME NEW c \in Names
          PROVE  /\ (\E sub \in BOOLEAN : matAdd(a, b, c, sub)) => LoopFails(a, {b, c})
                 /\ matMul(a, b, c) => \E s \in {b, c} : Oblong(s) \/ ~ Complete(s)
      <4>1. (\E sub \in BOOLEAN : matAdd(a, b, c, sub)) => LoopFails(a, {b, c})
        BY <1>3, AddIsTame
      <4>2. matMul(a, b, c) => \E s \in {b, c} : Oblong(s) \/ ~ Complete(s)
        BY <1>3, MulBuilds
      <4> QED
        BY <4>1, <4>2
    <3> QED
      BY <3>1, <3>2, <3>3, <3>4, <3>5 DEF ReasonsOfMore
  <2> QED
    BY <2>1, <2>2, <2>3
<1>4. TInv /\ [Next]_vars => [outcome' = "panic" => Reasons]_vars
  BY <1>3
<1> QED
  BY <1>1, <1>2, <1>4, PTL DEF Spec, PanicsAreExplained

\* As long as TRN is given square matrices, and destinations of their shape, every array has the
\* elements that MAT goes through.
THEOREM TransposeAloneLoses == ~ IsFiniteSet(RowIds) => (Spec => OnlyTransposeLosesElements)
<1> SUFFICES ASSUME ~ IsFiniteSet(RowIds) PROVE Spec => OnlyTransposeLosesElements
  OBVIOUS
<1>1. Init => TInv
  BY InitIsTInv
<1>2. TInv /\ [Next]_vars => TInv'
  BY NextKeepsTInv
<1>3. TInv /\ [Next]_vars => [AllUsable /\ ~ AllUsable' =>
         \E a, b \in DOMAIN arrays : matTrn(a, b) /\ (Oblong(b) \/ arrays[a].dims # arrays[b].dims)]_vars
  BY NextIsOrderly DEF Orderly, Transposes
<1> QED
  BY <1>1, <1>2, <1>3, PTL DEF Spec, OnlyTransposeLosesElements

===============================================================================
