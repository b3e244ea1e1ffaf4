---------------------------- MODULE SessionProofs ----------------------------
(***************************************************************************)
(* Proofs about the program store and the commands on programs, for every  *)
(* largest line number, every set of files, typed lines and increments.    *)
(*                                                                         *)
(* SInv is the inductive invariant: the store has its type and END is its  *)
(* last line, changes are marked, and nothing is unsaved while a file is   *)
(* being loaded (the flag that the load ends by clearing marks nothing).   *)
(* LoadInv adds where the program comes from: it is what has been read of  *)
(* its file so far, and later, until it is changed, what the whole file    *)
(* makes.  SavedIsLoaded, that the parser takes every saved program for    *)
(* what it was if its texts say what its lines are, is what lets SAVE keep *)
(* it.  That RENUMBER leaves texts at all (RewrittenIsBody) rests on each  *)
(* of its replacements being within the line: otherwise it is torn.        *)
(***************************************************************************)
EXTENDS SessionProps, FiniteSetTheorems, SequenceTheorems, TLAPS

SInv == TypeOK /\ EndIsLast /\ EditsAreNotForgotten

-----------------------------------------------------------------------------
(* Ranks of line numbers.                                                   *)

\* Program lines are finitely many, so that ranks are numbers.
LEMMA LinesAreFinite ==
  ASSUME NEW nos \in SUBSET LineNos
  PROVE  nos \in SUBSET Nat /\ IsFiniteSet(nos) /\ Cardinality(nos) \in Nat
<1>1. maxInt16 \in Nat
  BY SessionAssumption
<1>2. IsFiniteSet(LineNos)
  BY <1>1, FS_Interval DEF LineNos
<1>3. IsFiniteSet(nos)
  BY <1>2, FS_Subset
<1>4. QED
  BY <1>1, <1>3, FS_CardinalityType DEF LineNos

\* The rank of a line lies between 1 and the number of lines.
LEMMA RankBounds ==
  ASSUME NEW nos \in SUBSET LineNos, NEW n \in nos
  PROVE  Rank(nos, n) \in 1 .. Cardinality(nos)
<1> DEFINE below == {m \in nos : m <= n}
<1>1. nos \in SUBSET Nat /\ IsFiniteSet(nos) /\ Cardinality(nos) \in Nat
  BY LinesAreFinite
<1>2. IsFiniteSet(below) /\ Cardinality(below) <= Cardinality(nos)
  BY <1>1, FS_Subset
<1>3. Cardinality(below) \in Nat
  BY <1>2, FS_CardinalityType
<1>4. n \in below
  BY <1>1
<1>5. Cardinality(below) # 0
  BY <1>2, <1>4, FS_EmptySet
<1>6. QED
  BY <1>1, <1>2, <1>3, <1>5 DEF Rank

\* Ranks grow with the line numbers.
LEMMA RankGrows ==
  ASSUME NEW nos \in SUBSET LineNos, NEW m \in nos, NEW n \in nos, m < n
  PROVE  Rank(nos, m) < Rank(nos, n)
<1> DEFINE belowM == {k \in nos : k <= m}
           belowN == {k \in nos : k <= n}
<1>1. nos \in SUBSET Nat /\ IsFiniteSet(nos)
  BY LinesAreFinite
<1>2. belowM \subseteq belowN /\ n \in belowN /\ n \notin belowM
  <2>1. m \in Nat /\ n \in Nat /\ \A k \in nos : k \in Nat
    BY <1>1
  <2>2. \A k \in nos : k <= m => k <= n
    BY <2>1
  <2>3. n <= n /\ ~ n <= m
    BY <2>1
  <2>4. QED
    BY <2>2, <2>3
<1>3. IsFiniteSet(belowN)
  BY <1>1, FS_Subset
<1>4. IsFiniteSet(belowM) /\ Cardinality(belowM) <= Cardinality(belowN)
      /\ Cardinality(belowM) # Cardinality(belowN)
  BY <1>2, <1>3, FS_Subset
<1>5. Cardinality(belowM) \in Nat /\ Cardinality(belowN) \in Nat
  BY <1>3, <1>4, FS_CardinalityType
<1>6. QED
  BY <1>4, <1>5 DEF Rank

\* Ranks are in the order of the line numbers.
LEMMA RankOrder ==
  ASSUME NEW nos \in SUBSET LineNos, NEW m \in nos, NEW n \in nos
  PROVE  /\ Rank(nos, m) <= Rank(nos, n) <=> m <= n
         /\ Rank(nos, m) = Rank(nos, n) <=> m = n
<1>1. m \in Nat /\ n \in Nat /\ Cardinality(nos) \in Nat
  BY LinesAreFinite
<1>2. Rank(nos, m) \in Nat /\ Rank(nos, n) \in Nat
  BY <1>1, RankBounds
<1>3. m < n => Rank(nos, m) < Rank(nos, n)
  BY RankGrows
<1>4. n < m => Rank(nos, n) < Rank(nos, m)
  BY RankGrows
<1>5. m < n \/ m = n \/ n < m
  BY <1>1
<1> QED
  BY <1>1, <1>2, <1>3, <1>4, <1>5

\* Every number up to the number of lines is the rank of a line.
LEMMA NthIsRanked ==
  ASSUME NEW nos \in SUBSET LineNos, NEW k \in 1 .. Cardinality(nos)
  PROVE  Nth(nos, k) \in nos /\ Rank(nos, Nth(nos, k)) = k
<1> DEFINE c == Cardinality(nos)
           f == [n \in nos |-> Rank(nos, n)]
<1>1. IsFiniteSet(nos) /\ c \in Nat
  BY LinesAreFinite
<1>2. IsFiniteSet(1 .. c) /\ Cardinality(1 .. c) = c
  <2>1. IsFiniteSet(1 .. c) /\ Cardinality(1 .. c) = IF 1 > c THEN 0 ELSE c - 1 + 1
    BY <1>1, FS_Interval
  <2> QED
    BY <1>1, <2>1
<1>3. f \in Injection(nos, 1 .. c)
  <2>1. f \in [nos -> 1 .. c]
    BY RankBounds
  <2>2. \A m, n \in nos : f[m] = f[n] => m = n
    BY RankOrder
  <2> QED
    BY <2>1, <2>2 DEF Injection, IsInjective
<1>4. f \in Surjection(nos, 1 .. c)
  BY <1>1, <1>2, <1>3, FS_Injection
<1>5. \E n \in nos : Rank(nos, n) = k
  BY <1>4 DEF Surjection
<1> QED
  BY <1>5 DEF Nth

\* The line of a rank is the only one.
LEMMA NthOfRank ==
  ASSUME NEW nos \in SUBSET LineNos, NEW n \in nos
  PROVE  Nth(nos, Rank(nos, n)) = n
BY RankBounds, NthIsRanked, RankOrder

\* Numbers that grow with the line numbers leave the ranks as they are.
LEMMA GrowingKeepsRanks ==
  ASSUME NEW old \in SUBSET LineNos, NEW f \in [old -> LineNos],
         \A m, n \in old : m < n => f[m] < f[n]
  PROVE  LET new == {f[m] : m \in old}
         IN  /\ Cardinality(new) = Cardinality(old)
             /\ \A m \in old : Rank(new, f[m]) = Rank(old, m)
             /\ \A k \in 1 .. Cardinality(old) : Nth(new, k) = f[Nth(old, k)]
<1> DEFINE new == {f[m] : m \in old}
<1>1. /\ new \in SUBSET LineNos /\ LineNos \subseteq Nat /\ IsFiniteSet(old)
  <2>1. maxInt16 \in Nat
    BY SessionAssumption
  <2> QED
    BY <2>1, LinesAreFinite DEF LineNos
<1>2. \A m, n \in old : f[m] <= f[n] <=> m <= n
  <2> TAKE m, n \in old
  <2>1. m \in Nat /\ n \in Nat /\ f[m] \in Nat /\ f[n] \in Nat
    BY <1>1
  <2>2. (m < n => f[m] < f[n]) /\ (n < m => f[n] < f[m])
    OBVIOUS
  <2> QED
    BY <2>1, <2>2
<1>3. \A m, n \in old : f[m] = f[n] => m = n
  <2> TAKE m, n \in old
  <2>1. m \in Nat /\ n \in Nat /\ f[m] \in Nat /\ f[n] \in Nat
    BY <1>1
  <2>2. (f[m] <= f[n] <=> m <= n) /\ (f[n] <= f[m] <=> n <= m)
    BY <1>2
  <2> QED
    BY <2>1, <2>2
<1>4. ASSUME NEW S \in SUBSET old
      PROVE  Cardinality({f[m] : m \in S}) = Cardinality(S)
  <2> DEFINE T == {f[m] : m \in S}
             g == [m \in S |-> f[m]]
  <2>1. IsFiniteSet(S)
    BY <1>1, FS_Subset
  <2>2. g \in [S -> T] /\ (\A t \in T : \E m \in S : g[m] = t)
        /\ \A m, n \in S : g[m] = g[n] => m = n
    BY <1>3
  <2>3. g \in Injection(S, T) /\ g \in Surjection(S, T)
    <3> HIDE DEF g, T
    <3> QED
      BY <2>2 DEF Injection, IsInjective, Surjection
  <2> QED
    BY <2>1, <2>3, FS_Surjection
<1>5. ASSUME NEW m \in old PROVE Rank(new, f[m]) = Rank(old, m)
  <2> DEFINE below == {j \in old : j <= m}
  <2>1. {t \in new : t <= f[m]} = {f[j] : j \in below}
    BY <1>2
  <2>2. Cardinality({f[j] : j \in below}) = Cardinality(below)
    BY <1>4
  <2> QED
    BY <2>1, <2>2 DEF Rank
<1>6. ASSUME NEW k \in 1 .. Cardinality(old) PROVE Nth(new, k) = f[Nth(old, k)]
  <2> DEFINE n == Nth(old, k)
  <2>1. n \in old /\ Rank(old, n) = k
    BY NthIsRanked
  <2>2. f[n] \in new /\ Rank(new, f[n]) = k
    BY <1>5, <2>1
  <2> HIDE DEF n, new
  <2>3. Nth(new, Rank(new, f[n])) = f[n]
    BY <1>1, <2>2, NthOfRank
  <2> QED
    BY <2>2, <2>3 DEF n
<1>7. Cardinality(new) = Cardinality(old)
  BY <1>4
<1> QED
  BY <1>5, <1>6, <1>7

\* Every natural number is reached from 0 step by step.
LEMMA NaturalsByStep ==
  ASSUME NEW S, 0 \in S, \A n \in Nat : n \in S => n + 1 \in S
  PROVE  Nat \subseteq S
<1> DEFINE missed == Nat \ S
<1>1. ASSUME missed # {} PROVE FALSE
  <2>1. PICK x \in missed : \A y \in missed : ~ (<<y, x>> \in OpToRel(<, Nat))
    BY <1>1, WFMin, NatLessThanWellFounded
  <2>2. x \in Nat /\ x \notin S /\ x # 0
    BY <2>1
  <2>3. x - 1 \in Nat /\ x - 1 + 1 = x /\ x - 1 < x
    BY <2>2
  <2>4. x - 1 \in missed
    BY <2>2, <2>3
  <2>5. <<x - 1, x>> \in Nat \X Nat /\ <<x - 1, x>>[1] = x - 1 /\ <<x - 1, x>>[2] = x
    BY <2>2, <2>3
  <2>6. <<x - 1, x>> \in OpToRel(<, Nat)
    BY <2>3, <2>5 DEF OpToRel
  <2> QED
    BY <2>1, <2>4, <2>6
<1> QED
  BY <1>1

-----------------------------------------------------------------------------
(* The rewriting of a line.                                                 *)

LEMMA NumeralsAreTexts ==
  ASSUME NEW n \in LineNos
  PROVE  numeral(n) \in Seq(Chars) /\ Len(numeral(n)) \in Nat
<1>1. numeral(n) \in Seq(Digits)
  BY SessionAssumption
<1>2. Digits \subseteq Chars
  BY DEF Chars
<1> QED
  BY <1>1, <1>2

LEMMA ReplacedIsText ==
  ASSUME NEW text \in Seq(Chars), NEW new \in Seq(Chars),
         NEW from \in Int, NEW to \in Nat, from <= Len(text)
  PROVE  replaceSubstring(text, from, to, new) \in Seq(Chars)
<1>1. Len(text) \in Nat /\ \A i \in 1 .. Len(text) : text[i] \in Chars
  OBVIOUS
<1>2. \A i \in 1 .. from : text[i] \in Chars
  BY <1>1
<1>3. \A i \in to + 1 .. Len(text) : text[i] \in Chars
  BY <1>1
<1>4. SubSeq(text, 1, from) \in Seq(Chars)
  BY <1>2, SubSeqProperties
<1>5. SubSeq(text, to + 1, Len(text)) \in Seq(Chars)
  <2>1. to + 1 \in Int /\ Len(text) \in Int
    BY <1>1
  <2> QED
    BY <1>3, <2>1, SubSeqProperties
<1> QED
  BY <1>4, <1>5, ConcatProperties DEF replaceSubstring

\* w follows the rewriting of the first n references of a line.
Rewrites(w, b, no, new, n) ==
  /\ DOMAIN w = 0 .. n /\ w = [k \in 0 .. n |-> w[k]]
  /\ w[0] = numbered(b, no)
  /\ \A k \in 1 .. n : w[k] = nextRewritten(b, new, k, w[k - 1])

LEMMA RewritingExists ==
  ASSUME NEW n \in Nat, NEW b, NEW no, NEW new
  PROVE  \E w : Rewrites(w, b, no, new, n)
<1> DEFINE S == {m \in Nat : \E w : Rewrites(w, b, no, new, m)}
<1>1. 0 \in S
  <2>1. Rewrites([k \in 0 .. 0 |-> numbered(b, no)], b, no, new, 0)
    BY DEF Rewrites
  <2> QED
    BY <2>1
<1>2. ASSUME NEW m \in Nat, m \in S PROVE m + 1 \in S
  <2>1. PICK w : Rewrites(w, b, no, new, m)
    BY <1>2
  <2> DEFINE v == [k \in 0 .. m + 1 |->
                     IF k = m + 1 THEN nextRewritten(b, new, m + 1, w[m]) ELSE w[k]]
  <2>2. DOMAIN v = 0 .. m + 1 /\ v = [k \in 0 .. m + 1 |-> v[k]] /\ v[0] = numbered(b, no)
    <3>1. 0 # m + 1 /\ 0 \in 0 .. m + 1
      OBVIOUS
    <3> QED
      BY <2>1, <3>1 DEF Rewrites
  <2>3. ASSUME NEW k \in 1 .. m + 1 PROVE v[k] = nextRewritten(b, new, k, v[k - 1])
    <3>1. CASE k = m + 1
      <4>1. v[k] = nextRewritten(b, new, m + 1, w[m]) /\ k - 1 = m /\ v[m] = w[m]
        BY <3>1
      <4> HIDE DEF v
      <4> QED
        BY <3>1, <4>1
    <3>2. CASE k # m + 1
      <4>1. k \in 1 .. m /\ k - 1 \in 0 .. m /\ v[k] = w[k] /\ v[k - 1] = w[k - 1]
        BY <3>2
      <4> HIDE DEF v
      <4> QED
        BY <2>1, <4>1 DEF Rewrites
    <3> QED
      BY <3>1, <3>2
  <2> HIDE DEF v
  <2>4. Rewrites(v, b, no, new, m + 1)
    BY <2>2, <2>3 DEF Rewrites
  <2> QED
    BY <2>4
<1>3. n \in S
  <2> HIDE DEF S
  <2> QED
    BY <1>1, <1>2, NaturalsByStep
<1> QED
  BY <1>3

\* The recursive definition is one that can be followed.
LEMMA Rewriting ==
  ASSUME NEW b, NEW no, NEW new, Len(b.refs) \in Nat
  PROVE  Rewrites(rewriting(b, no, new), b, no, new, Len(b.refs))
<1> DEFINE n == Len(b.refs)
           Step(e) == [k \in 0 .. n |-> IF k = 0 THEN numbered(b, no)
                                        ELSE nextRewritten(b, new, k, e[k - 1])]
           w == CHOOSE e : e = Step(e)
<1>1. PICK f : Rewrites(f, b, no, new, n)
  BY RewritingExists
<1>2. f = Step(f)
  <2>1. \A k \in 0 .. n : f[k] = Step(f)[k]
    <3> TAKE k \in 0 .. n
    <3>1. CASE k = 0
      BY <1>1, <3>1 DEF Rewrites
    <3>2. CASE k # 0
      <4>1. k \in 1 .. n
        BY <3>2
      <4>2. f[k] = nextRewritten(b, new, k, f[k - 1])
        BY <1>1, <4>1 DEF Rewrites
      <4> QED
        BY <3>2, <4>2
    <3> QED
      BY <3>1, <3>2
  <2> QED
    BY <1>1, <2>1 DEF Rewrites
<1>3. w = Step(w)
  BY <1>2
<1>4. rewriting(b, no, new) = w
  BY DEF rewriting
<1> HIDE DEF w
<1>5. Rewrites(w, b, no, new, n)
  <2>1. DOMAIN w = 0 .. n /\ w = [k \in 0 .. n |-> w[k]] /\ w[0] = numbered(b, no)
    BY <1>3
  <2>2. ASSUME NEW k \in 1 .. n PROVE w[k] = nextRewritten(b, new, k, w[k - 1])
    <3>1. k \in 0 .. n /\ k # 0
      OBVIOUS
    <3>2. w[k] = Step(w)[k]
      BY <1>3
    <3> QED
      BY <3>1, <3>2
  <2> QED
    BY <2>1, <2>2 DEF Rewrites
<1> QED
  BY <1>4, <1>5

\* What a step of it yields.
Rewritten(w) == w.text \in Seq(Chars) /\ w.bias \in Int /\ w.torn \in BOOLEAN

\* One more reference leaves a text, and places within it unless the line is torn.
LEMMA NextIsRewritten ==
  ASSUME NEW b \in Bodies, NEW k \in 1 .. Len(b.refs), NEW new, new[b.refs[k]] \in LineNos,
         NEW old, Rewritten(old)
  PROVE  LET w == nextRewritten(b, new, k, old)
         IN  /\ Rewritten(w)
             /\ ~ w.torn => ~ old.torn /\ b.at[k] + old.bias \in Nat
<1> DEFINE ref  == b.refs[k]
           from == b.at[k] + old.bias
           to   == b.upto[k] + old.bias
           torn == old.torn \/ ~ ({from, to} \subseteq 0 .. Len(old.text))
           text == IF torn THEN old.text ELSE replaceSubstring(old.text, from, to, numeral(new[ref]))
           w    == nextRewritten(b, new, k, old)
<1>1. b.refs \in Seq(LineNos) /\ b.at \in Seq(Nat) /\ b.upto \in Seq(Nat)
      /\ Len(b.at) = Len(b.refs) /\ Len(b.upto) = Len(b.refs)
  BY DEF Bodies
<1>2. ref \in LineNos /\ b.at[k] \in Nat /\ b.upto[k] \in Nat
  BY <1>1, ElementOfSeq
<1>3. from \in Int /\ to \in Int /\ Len(old.text) \in Nat /\ torn \in BOOLEAN
  <2>1. old.text \in Seq(Chars) /\ old.bias \in Int /\ old.torn \in BOOLEAN
    BY DEF Rewritten
  <2>2. from \in Int /\ to \in Int
    BY <1>2, <2>1
  <2>3. Len(old.text) \in Nat
    BY <2>1
  <2> HIDE DEF from, to
  <2>4. torn \in BOOLEAN
    BY <2>1
  <2> QED
    BY <2>2, <2>3, <2>4
<1>4. w = [text |-> text, bias |-> moved(old.bias, ref, new[ref]), torn |-> torn]
  BY DEF nextRewritten
<1>5. moved(old.bias, ref, new[ref]) \in Int
  BY <1>2, NumeralsAreTexts DEF moved, Rewritten
<1>6. numeral(new[ref]) \in Seq(Chars)
  BY NumeralsAreTexts
<1> DEFINE place(x) == x \in 0 .. Len(old.text)
<1>7. ~ torn => ~ old.torn /\ place(from) /\ place(to)
  <2> HIDE DEF from, to
  <2> QED
    OBVIOUS
<1> HIDE DEF ref, from, to, torn, w
<1>8. text \in Seq(Chars)
  <2>1. CASE torn
    BY <2>1 DEF Rewritten
  <2>2. CASE ~ torn
    <3>1. old.text \in Seq(Chars) /\ from <= Len(old.text) /\ to \in Nat
      BY <1>3, <1>7, <2>2 DEF Rewritten
    <3>2. replaceSubstring(old.text, from, to, numeral(new[ref])) \in Seq(Chars)
      BY <1>3, <1>6, <3>1, ReplacedIsText
    <3> QED
      BY <2>2, <3>2
  <2> QED
    BY <2>1, <2>2
<1> HIDE DEF text
<1>9. Rewritten(w)
  BY <1>3, <1>4, <1>5, <1>8 DEF Rewritten
<1>10. ~ w.torn => ~ old.torn /\ from \in Nat
  BY <1>3, <1>4, <1>7
<1> QED
  BY <1>9, <1>10 DEF w, from

\* A line that is not torn stays a line: the text behind each step is a text, and the places
\* of the references are in it.
LEMMA RewrittenIsBody ==
  ASSUME NEW b \in Bodies, NEW no \in LineNos, NEW new,
         \A i \in DOMAIN b.refs : new[b.refs[i]] \in LineNos,
         ~ rewriting(b, no, new)[Len(b.refs)].torn
  PROVE  LET r == rewritten(b, no, new)
         IN  /\ r \in Bodies /\ r.end = b.end
             /\ r.refs = [i \in DOMAIN b.refs |-> new[b.refs[i]]]
<1> DEFINE n == Len(b.refs)
           w == rewriting(b, no, new)
           r == rewritten(b, no, new)
<1>1. n \in Nat /\ DOMAIN b.refs = 1 .. n /\ b.refs \in Seq(LineNos) /\ b.at \in Seq(Nat)
      /\ b.numEnd \in Nat /\ b.text \in Seq(Chars)
      /\ Len(b.at) = n /\ Len(b.upto) = n
  BY DEF Bodies
<1>2. numeral(no) \in Seq(Chars) /\ Len(numeral(no)) \in Nat
  BY NumeralsAreTexts
<1>3. Rewrites(w, b, no, new, n)
  BY <1>1, Rewriting
<1>4. ~ w[n].torn
  OBVIOUS
<1> HIDE DEF w, n
<1>5. Rewritten(w[0])
  <2>1. Len(b.text) \in Nat
    BY <1>1
  <2>2. replaceSubstring(b.text, 0, b.numEnd, numeral(no)) \in Seq(Chars)
    BY <1>1, <1>2, <2>1, ReplacedIsText
  <2> DEFINE text == replaceSubstring(b.text, 0, b.numEnd, numeral(no))
             bias == Len(numeral(no)) - b.numEnd
  <2>3. bias \in Int
    BY <1>1, <1>2
  <2>4. w[0] = [text |-> text, bias |-> bias, torn |-> FALSE]
    BY <1>3 DEF Rewrites, numbered
  <2> HIDE DEF text, bias
  <2> QED
    BY <2>2, <2>3, <2>4 DEF Rewritten, text
<1>6. ASSUME NEW k \in 1 .. n, Rewritten(w[k - 1])
      PROVE  Rewritten(w[k]) /\ (~ w[k].torn => ~ w[k - 1].torn /\ b.at[k] + w[k - 1].bias \in Nat)
  <2>1. w[k] = nextRewritten(b, new, k, w[k - 1])
    BY <1>3 DEF Rewrites
  <2>2. new[b.refs[k]] \in LineNos
    BY <1>1
  <2> QED
    BY <1>6, <2>1, <2>2, NextIsRewritten DEF n
<1>7. \A k \in 0 .. n : Rewritten(w[k])
  <2> DEFINE S == {k \in Nat : k <= n => Rewritten(w[k])}
  <2>1. 0 \in S
    BY <1>5
  <2>2. ASSUME NEW k \in Nat, k \in S PROVE k + 1 \in S
    <3>1. ASSUME k + 1 <= n PROVE Rewritten(w[k + 1])
      <4>1. k + 1 \in 1 .. n /\ k <= n /\ k + 1 - 1 = k
        BY <1>1, <3>1
      <4>2. Rewritten(w[k + 1 - 1])
        BY <2>2, <4>1
      <4> QED
        BY <1>6, <4>1, <4>2
    <3> QED
      BY <3>1
  <2> HIDE DEF S
  <2>3. Nat \subseteq S
    BY <2>1, <2>2, NaturalsByStep
  <2> QED
    BY <1>1, <2>3 DEF S
<1>8. \A k \in 0 .. n : ~ w[k].torn
  <2> DEFINE S == {j \in Nat : j <= n => ~ w[n - j].torn}
  <2>1. 0 \in S
    BY <1>1, <1>4
  <2>2. ASSUME NEW j \in Nat, j \in S PROVE j + 1 \in S
    <3>1. ASSUME j + 1 <= n PROVE ~ w[n - (j + 1)].torn
      <4> DEFINE k == n - j
      <4>1. k \in 1 .. n /\ k - 1 \in 0 .. n /\ k - 1 = n - (j + 1) /\ j <= n
        BY <1>1, <3>1
      <4>2. ~ w[k].torn
        BY <2>2, <4>1
      <4> HIDE DEF k
      <4>3. ~ w[k - 1].torn
        BY <1>6, <1>7, <4>1, <4>2
      <4> QED
        BY <4>1, <4>3
    <3> QED
      BY <3>1
  <2> HIDE DEF S
  <2>3. Nat \subseteq S
    BY <2>1, <2>2, NaturalsByStep
  <2> TAKE k \in 0 .. n
  <2>4. n - k \in Nat /\ n - k <= n /\ n - (n - k) = k
    BY <1>1
  <2> QED
    BY <2>3, <2>4 DEF S
<1>9. \A k \in 1 .. n : b.at[k] + w[k - 1].bias \in Nat
  <2> TAKE k \in 1 .. n
  <2>1. k - 1 \in 0 .. n /\ k \in 0 .. n
    BY <1>1
  <2> QED
    BY <1>6, <1>7, <1>8, <2>1
<1> DEFINE at    == [k \in DOMAIN b.refs |-> b.at[k] + w[k - 1].bias]
           refs  == [k \in DOMAIN b.refs |-> new[b.refs[k]]]
           upto  == [k \in DOMAIN b.refs |-> b.at[k] + w[k - 1].bias + Len(numeral(new[b.refs[k]]))]
<1>10. at \in Seq(Nat) /\ Len(at) = n
  <2>1. at \in [1 .. n -> Nat]
    BY <1>1, <1>9
  <2> HIDE DEF at
  <2> QED
    BY <1>1, <2>1
<1>11. refs \in Seq(LineNos) /\ Len(refs) = n
  <2>1. refs \in [1 .. n -> LineNos]
    BY <1>1
  <2> HIDE DEF refs
  <2> QED
    BY <1>1, <2>1
<1>12. upto \in Seq(Nat) /\ Len(upto) = n
  <2>1. \A k \in 1 .. n : b.at[k] + w[k - 1].bias + Len(numeral(new[b.refs[k]])) \in Nat
    <3> TAKE k \in 1 .. n
    <3>1. Len(numeral(new[b.refs[k]])) \in Nat
      BY <1>1, NumeralsAreTexts
    <3> QED
      BY <1>9, <3>1
  <2>2. upto \in [1 .. n -> Nat]
    BY <1>1, <2>1
  <2> HIDE DEF upto
  <2> QED
    BY <1>1, <2>2
<1>13. w[n].text \in Seq(Chars)
  BY <1>1, <1>7 DEF Rewritten
<1>14. r = [b EXCEPT !.refs = refs, !.text = w[n].text, !.numEnd = Len(numeral(no)),
                     !.at = at, !.upto = upto]
  BY DEF rewritten, w, n
<1> HIDE DEF at, refs, upto, r
<1>15. r.end = b.end /\ r.refs = refs /\ r \in Bodies
  <2>1. b \in [end : {"first", "later", "none"}, refs : Seq(LineNos),
               text : Seq(Chars), numEnd : Nat, at : Seq(Nat), upto : Seq(Nat)]
    BY DEF Bodies
  <2>2. r.end = b.end /\ r.refs = refs /\ r.at = at /\ r.upto = upto
    BY <1>14, <2>1
  <2>3. r \in [end : {"first", "later", "none"}, refs : Seq(LineNos),
               text : Seq(Chars), numEnd : Nat, at : Seq(Nat), upto : Seq(Nat)]
    BY <1>2, <1>10, <1>11, <1>12, <1>13, <1>14, <2>1
  <2>4. Len(r.at) = Len(r.refs) /\ Len(r.upto) = Len(r.refs)
    BY <1>10, <1>11, <1>12, <2>2
  <2> QED
    BY <2>2, <2>3, <2>4 DEF Bodies
<1> QED
  BY <1>15 DEF r, refs

-----------------------------------------------------------------------------
(* The operations on the store.                                             *)

\* Deleting lines keeps g.endStmtNo right.
LEMMA RemovedIsGood ==
  ASSUME NEW s, StoreType(s), EndsAtEnd(s), NEW nos
  PROVE  StoreType(removed(s, nos)) /\ EndsAtEnd(removed(s, nos))
BY DEF StoreType, EndsAtEnd, removed, Restrict, LineNos

\* So does entering any line, of the file or from the keyboard.
LEMMA EnteredIsGood ==
  ASSUME NEW s, StoreType(s), EndsAtEnd(s), NEW t
  PROVE  StoreType(entered(s, t)) /\ EndsAtEnd(entered(s, t))
<1>1. CASE t \notin Text
  BY <1>1 DEF entered
<1>2. CASE t \in Text /\ (t.del \/ ~ accepted(s, t))
  BY <1>2, RemovedIsGood DEF entered
<1>3. CASE t \in Text /\ ~ t.del /\ accepted(s, t)
  <2> DEFINE old == removed(s, {t.no})
             new == inserted(s, t)
  <2>1. StoreType(old) /\ EndsAtEnd(old)
    BY RemovedIsGood
  <2>2. t.no \in LineNos /\ t.body \in Bodies
    BY <1>3 DEF Text
  <2>3. /\ DOMAIN new.lines = DOMAIN old.lines \cup {t.no}
        /\ \A n \in DOMAIN old.lines \cup {t.no} :
             new.lines[n] = IF n = t.no THEN t.body ELSE old.lines[n]
        /\ new.end = IF t.body.end = "first" THEN t.no ELSE old.end
    BY DEF inserted
  <2>4. StoreType(new)
    BY <2>1, <2>2, <2>3 DEF StoreType
  <2>5. t.no \notin DOMAIN old.lines /\ DOMAIN old.lines \subseteq DOMAIN s.lines
        /\ (old.end # 0 => old.end = s.end)
        /\ (s.end \in DOMAIN s.lines /\ s.end = t.no => old.end = 0)
    BY DEF removed, Restrict
  <2>6. maxInt16 \in Nat
    BY SessionAssumption
  <2> HIDE DEF old, new
  <2>7. ASSUME t.body.end = "first" PROVE EndsAtEnd(new)
    <3>1. new.end = t.no /\ t.no # 0
      BY <2>2, <2>3, <2>6, <2>7 DEF LineNos
    <3>2. \A n \in DOMAIN s.lines : n <= t.no
      BY <1>3, <2>2, <2>6, <2>7 DEF accepted, EndsAtEnd, StoreType, LineNos
    <3>3. old.end = 0
      BY <1>3, <2>2, <2>5, <2>6, <2>7, <3>1 DEF accepted, EndsAtEnd, StoreType, LineNos
    <3>4. \A n \in DOMAIN old.lines : old.lines[n].end # "first"
      BY <2>1, <2>6, <3>3 DEF EndsAtEnd, StoreType, LineNos
    <3>5. QED
      BY <2>2, <2>3, <2>5, <2>6, <2>7, <3>1, <3>2, <3>4 DEF EndsAtEnd, LineNos
  <2>8. ASSUME t.body.end # "first" PROVE EndsAtEnd(new)
    <3>1. new.end = old.end /\ old.end # t.no
      BY <2>1, <2>2, <2>3, <2>5, <2>6, <2>8 DEF EndsAtEnd, LineNos
    <3>2. old.end # 0 => t.no <= old.end
      BY <1>3, <2>5 DEF accepted
    <3>3. QED
      BY <2>1, <2>3, <2>5, <2>8, <3>1, <3>2 DEF EndsAtEnd
  <2>9. QED
    BY <1>3, <2>4, <2>7, <2>8 DEF entered, new
<1>4. QED
  BY <1>1, <1>2, <1>3

\* RENUMBER numbers the lines of any program within the range and in their order. It makes
\* all of them, or those before one, each with its references renumbered.
LEMMA RenumberedLines ==
  ASSUME NEW s, StoreType(s), NEW inc \in LineNos, fits(s.lines, inc), refsExist(s.lines)
  PROVE  LET nos   == DOMAIN s.lines
             new   == newNumbers(s.lines, inc)
             made  == rewritable(s.lines, inc)
             lines == renumbered(s.lines, inc)
         IN  /\ new \in [nos -> LineNos]
             /\ \A m, n \in nos : m < n => new[m] < new[n]
             /\ made \subseteq nos
             /\ DOMAIN lines = {new[m] : m \in made}
             /\ \A m \in made :
                  LET b == s.lines[m]
                      r == lines[new[m]]
                  IN  /\ r \in Bodies /\ r.end = b.end
                      /\ r.refs = [i \in DOMAIN b.refs |-> new[b.refs[i]]]
<1> DEFINE nos == DOMAIN s.lines
           new == newNumbers(s.lines, inc)
           made == rewritable(s.lines, inc)
           old(n) == CHOOSE m \in nos : new[m] = n
           lines == renumbered(s.lines, inc)
<1>1. nos \in SUBSET LineNos /\ maxInt16 \in Nat /\ inc \in Nat \ {0}
  BY SessionAssumption DEF StoreType, LineNos
<1>2. Cardinality(nos) \in Nat
  BY <1>1, LinesAreFinite
<1>3. \A m \in nos : Rank(nos, m) \in 1 .. Cardinality(nos)
  BY <1>1, RankBounds
<1>4. DOMAIN new = nos /\ new = [m \in nos |-> new[m]] /\ \A m \in nos : new[m] = inc * Rank(nos, m)
  BY DEF newNumbers
<1> HIDE DEF new
<1>5. ASSUME NEW m \in nos PROVE new[m] \in LineNos
  <2> DEFINE r == Rank(nos, m)
             c == Cardinality(nos)
  <2>1. r \in Nat /\ 1 <= r /\ r <= c
    BY <1>2, <1>3
  <2>2. inc * c <= maxInt16
    BY DEF fits
  <2> HIDE DEF r, c
  <2>3. inc * r \in Nat /\ 1 <= inc * r
    BY <1>1, <2>1
  <2>4. inc * r <= inc * c
    BY <1>1, <1>2, <2>1 DEF c
  <2>5. inc * r \in LineNos
    BY <1>1, <1>2, <2>2, <2>3, <2>4 DEF LineNos, c
  <2>6. QED
    BY <1>4, <2>5 DEF r
<1>6. ASSUME NEW m \in nos, NEW n \in nos, m < n PROVE new[m] < new[n]
  <2> DEFINE r == Rank(nos, m)
             q == Rank(nos, n)
  <2>1. r < q
    BY <1>1, <1>6, RankGrows
  <2>2. r \in Nat /\ q \in Nat
    BY <1>2, <1>3
  <2> HIDE DEF r, q
  <2>3. inc * r < inc * q
    BY <1>1, <2>1, <2>2
  <2>4. QED
    BY <1>4, <2>3 DEF r, q
<1>7. ASSUME NEW m \in nos PROVE old(new[m]) = m
  <2>1. old(new[m]) \in nos /\ new[old(new[m])] = new[m]
    OBVIOUS
  <2>2. \A k \in nos : k # m => new[k] # new[m]
    <3>1. nos \in SUBSET Nat /\ \A k \in nos : new[k] \in Nat
      BY <1>1, <1>5, LinesAreFinite DEF LineNos
    <3>2. \A k \in nos : k < m \/ k = m \/ m < k
      BY <3>1
    <3>3. \A k \in nos : (k < m => new[k] < new[m]) /\ (m < k => new[m] < new[k])
      BY <1>6
    <3>4. QED
      BY <3>1, <3>2, <3>3
  <2>3. QED
    BY <2>1, <2>2
<1>8. made \subseteq nos /\ \A m \in made : ~ rewriting(s.lines[m], new[m], new)[Len(s.lines[m].refs)].torn
  <2>1. nos \in SUBSET Nat
    BY <1>1, LinesAreFinite
  <2>2. \A m \in nos : m <= m
    BY <2>1
  <2> QED
    BY <2>2 DEF rewritable, new
<1>9. /\ DOMAIN lines = {new[m] : m \in made}
      /\ \A m \in made : lines[new[m]] = rewritten(s.lines[m], new[m], new)
  <2>1. DOMAIN lines = {new[m] : m \in made}
        /\ \A n \in {new[m] : m \in made} : lines[n] = rewritten(s.lines[old(n)], n, new)
    BY DEF renumbered, new
  <2> HIDE DEF old, lines, made
  <2>2. QED
    BY <1>7, <1>8, <2>1
<1>10. ASSUME NEW m \in made
       PROVE  LET b == s.lines[m]
                  r == lines[new[m]]
              IN  /\ r \in Bodies /\ r.end = b.end
                  /\ r.refs = [i \in DOMAIN b.refs |-> new[b.refs[i]]]
  <2> DEFINE b == s.lines[m]
  <2>1. m \in nos /\ b \in Bodies /\ Range(b.refs) \subseteq nos
    BY <1>8 DEF StoreType, refsExist
  <2>2. new[m] \in LineNos /\ \A i \in DOMAIN b.refs : new[b.refs[i]] \in LineNos
    BY <1>5, <2>1 DEF Range
  <2>3. ~ rewriting(b, new[m], new)[Len(b.refs)].torn /\ lines[new[m]] = rewritten(b, new[m], new)
    BY <1>8, <1>9
  <2> HIDE DEF b, lines, nos, made
  <2> QED
    BY <2>1, <2>2, <2>3, RewrittenIsBody DEF b
<1>11. new \in [nos -> LineNos]
  BY <1>4, <1>5
<1> HIDE DEF lines, made
<1> QED
  BY <1>6, <1>8, <1>9, <1>10, <1>11 DEF lines, made, new

\* So END stays the last line, and no two lines get the same number.
LEMMA RenumberedIsGood ==
  ASSUME NEW s, StoreType(s), EndsAtEnd(s), NEW inc \in LineNos,
         fits(s.lines, inc), refsExist(s.lines)
  PROVE  LET new == renumbered(s.lines, inc)
             t   == [lines |-> new, end |-> endOf(new)]
         IN  StoreType(t) /\ EndsAtEnd(t)
<1> DEFINE nos == DOMAIN s.lines
           new == newNumbers(s.lines, inc)
           made == rewritable(s.lines, inc)
           lines == renumbered(s.lines, inc)
           firsts == {n \in DOMAIN lines : lines[n].end = "first"}
           t == [lines |-> lines, end |-> endOf(lines)]
<1>1. nos \in SUBSET LineNos /\ maxInt16 \in Nat /\ inc \in Nat \ {0}
  BY SessionAssumption DEF StoreType, LineNos
<1>2. made \subseteq nos
  BY RenumberedLines
<1>4. \A m \in nos : new[m] \in LineNos
  BY RenumberedLines
<1>5. \A m, n \in nos : m < n => new[m] < new[n]
  BY RenumberedLines
<1>7. DOMAIN lines = {new[m] : m \in made}
  BY RenumberedLines
<1>8. \A m \in made : lines[new[m]] \in Bodies /\ lines[new[m]].end = s.lines[m].end
  BY RenumberedLines
<1> HIDE DEF new, lines, made
<1>9. \A n \in DOMAIN lines : n \in LineNos /\ lines[n] \in Bodies
  BY <1>2, <1>4, <1>7, <1>8
<1>3. \A m \in made : lines[new[m]].end = "first" <=> m = s.end
  BY <1>2, <1>8 DEF EndsAtEnd
<1>10. CASE s.end \notin made
  <2>1. \A n \in DOMAIN lines : lines[n].end # "first"
    BY <1>3, <1>7, <1>10
  <2>2. {0} \cup firsts = {0}
    BY <2>1
  <2>3. endOf(lines) = 0
    BY <2>2 DEF endOf, Max
  <2>4. QED
    BY <1>1, <1>9, <2>1, <2>3 DEF StoreType, EndsAtEnd, LineNos, lines
<1>11. CASE s.end \in made
  <2>1. s.end \in nos
    BY <1>2, <1>11
  <2>3. firsts = {new[s.end]}
    BY <1>3, <1>7, <1>11
  <2>4. new[s.end] \in LineNos
    BY <1>4, <2>1
  <2>5. endOf(lines) = new[s.end]
    <3>1. \A x \in {0, new[s.end]} : (\A y \in {0, new[s.end]} : x >= y) <=> x = new[s.end]
      BY <1>1, <2>4 DEF LineNos
    <3>2. {0} \cup firsts = {0, new[s.end]}
      BY <2>3
    <3>3. QED
      BY <3>1, <3>2 DEF endOf, Max
  <2>6. \A m \in nos : new[m] <= new[s.end]
    <3>1. \A m \in nos : m <= s.end /\ m \in Nat /\ s.end \in Nat
      BY <1>1, <2>1, LinesAreFinite DEF EndsAtEnd, LineNos
    <3>2. \A m \in nos : new[m] \in Nat
      BY <1>1, <1>4 DEF LineNos
    <3>3. QED
      BY <1>5, <2>1, <3>1, <3>2
  <2>7. \A n \in DOMAIN lines : lines[n].end = "first" <=> n = new[s.end]
    BY <2>3
  <2>8. new[s.end] \in DOMAIN lines /\ \A n \in DOMAIN lines : n <= new[s.end]
    BY <1>2, <1>7, <1>11, <2>6
  <2>9. StoreType(t) /\ EndsAtEnd(t)
    BY <1>9, <2>4, <2>5, <2>7, <2>8 DEF StoreType, EndsAtEnd
  <2>10. QED
    BY <2>9 DEF lines
<1>12. QED
  BY <1>10, <1>11

\* The program is the same: its lines, in their order, end alike and go to the same lines.
LEMMA RenumberedIsSame ==
  ASSUME NEW s, StoreType(s), NEW inc \in LineNos, fits(s.lines, inc), refsExist(s.lines),
         rewritable(s.lines, inc) = DOMAIN s.lines
  PROVE  SameProgram(s.lines, renumbered(s.lines, inc))
<1> DEFINE nos == DOMAIN s.lines
           new == newNumbers(s.lines, inc)
           lines == renumbered(s.lines, inc)
<1>1. /\ new \in [nos -> LineNos] /\ (\A m, n \in nos : m < n => new[m] < new[n])
      /\ DOMAIN lines = {new[m] : m \in nos}
      /\ \A m \in nos : /\ lines[new[m]].end = s.lines[m].end
                        /\ lines[new[m]].refs = [i \in DOMAIN s.lines[m].refs |-> new[s.lines[m].refs[i]]]
  <2> DEFINE made == rewritable(s.lines, inc)
  <2>1. new \in [nos -> LineNos] /\ \A m, n \in nos : m < n => new[m] < new[n]
    BY RenumberedLines
  <2>2. DOMAIN lines = {new[m] : m \in made}
    BY RenumberedLines
  <2>3. \A m \in made : /\ lines[new[m]].end = s.lines[m].end
                        /\ lines[new[m]].refs = [i \in DOMAIN s.lines[m].refs |-> new[s.lines[m].refs[i]]]
    BY RenumberedLines
  <2>4. made = nos
    OBVIOUS
  <2> HIDE DEF new, lines, made, nos
  <2> QED
    BY <2>1, <2>2, <2>3, <2>4
<1>2. nos \in SUBSET LineNos
  BY DEF StoreType
<1> HIDE DEF new, lines
<1>3. /\ Cardinality(DOMAIN lines) = Cardinality(nos)
      /\ \A m \in nos : Rank(DOMAIN lines, new[m]) = Rank(nos, m)
      /\ \A k \in 1 .. Cardinality(nos) : Nth(DOMAIN lines, k) = new[Nth(nos, k)]
  <2> DEFINE image == {new[m] : m \in nos}
  <2>1. /\ Cardinality(image) = Cardinality(nos)
        /\ \A m \in nos : Rank(image, new[m]) = Rank(nos, m)
        /\ \A k \in 1 .. Cardinality(nos) : Nth(image, k) = new[Nth(nos, k)]
    BY <1>1, <1>2, GrowingKeepsRanks
  <2> HIDE DEF image, nos
  <2>2. DOMAIN lines = image
    BY <1>1 DEF image, nos
  <2> QED
    BY <2>1, <2>2
<1>4. ASSUME NEW k \in 1 .. Cardinality(nos)
      PROVE  LET a == s.lines[Nth(nos, k)]
                 b == lines[Nth(DOMAIN lines, k)]
             IN  /\ a.end = b.end /\ Len(a.refs) = Len(b.refs)
                 /\ \A i \in DOMAIN a.refs :
                      /\ b.refs[i] \in DOMAIN lines
                      /\ Rank(nos, a.refs[i]) = Rank(DOMAIN lines, b.refs[i])
  <2> DEFINE n == Nth(nos, k)
             a == s.lines[n]
             b == lines[Nth(DOMAIN lines, k)]
  <2>1. n \in nos
    BY <1>2, NthIsRanked
  <2>2. a \in Bodies /\ Range(a.refs) \subseteq nos
    BY <2>1 DEF StoreType, refsExist
  <2>3. b = lines[new[n]]
    BY <1>3
  <2>4. a.end = b.end /\ b.refs = [i \in DOMAIN a.refs |-> new[a.refs[i]]]
    BY <1>1, <2>1, <2>3
  <2> HIDE DEF n, a, b
  <2>5. a.refs \in Seq(LineNos)
    BY <2>2 DEF Bodies
  <2>6. Len(a.refs) = Len(b.refs)
    BY <2>4, <2>5
  <2>7. \A i \in DOMAIN a.refs : a.refs[i] \in nos /\ b.refs[i] = new[a.refs[i]]
    BY <2>2, <2>4 DEF Range
  <2>8. \A i \in DOMAIN a.refs : /\ b.refs[i] \in DOMAIN lines
                                 /\ Rank(nos, a.refs[i]) = Rank(DOMAIN lines, b.refs[i])
    BY <1>1, <1>3, <2>7
  <2> QED
    BY <2>4, <2>6, <2>8 DEF n, a, b
<1>5. SameProgram(s.lines, lines)
  BY <1>3, <1>4 DEF SameProgram
<1> QED
  BY <1>5 DEF lines

-----------------------------------------------------------------------------
(* The invariant.                                                           *)

\* The flags are Boolean values after a line has been entered.
LEMMA FlagsAreBoolean ==
  ASSUME NEW s, NEW t
  PROVE  touches(s, t) \in BOOLEAN /\ closesFile(s, t) \in BOOLEAN
BY DEF touches, closesFile

\* The empty program has END where it belongs.
LEMMA EmptyIsGood == StoreType(Empty) /\ EndsAtEnd(Empty)
BY DEF StoreType, EndsAtEnd, Empty

\* What a question may be agreed to.
LEMMA QuestionsAreConsents ==
  ASSUME NEW f
  PROVE  /\ {} \in Consents /\ checkModified \in Consents /\ checkOverwrite(f) \in Consents
         /\ checkModified \cup checkOverwrite(f) \in Consents
BY DEF Consents, checkModified, checkOverwrite

\* The initial state satisfies the invariant.
LEMMA InitSInv == Init => SInv
<1> SUFFICES ASSUME Init PROVE SInv
  OBVIOUS
<1>1. StoreType(store) /\ EndsAtEnd(store)
  BY EmptyIsGood DEF Init
<1>2. last.cmd \in Cmds /\ last.consent \in Consents
  BY DEF Init, Cmds, Consents
<1>3. QED
  BY <1>1, <1>2 DEF Init, SInv, TypeOK, EndIsLast, EditsAreNotForgotten

\* A command that was refused, or failed early, changes nothing.
LEMMA NothingKeepsSInv ==
  ASSUME SInv, UnchangedButLast, NEW c \in Cmds, Done(c, {})
  PROVE  SInv'
BY DEF SInv, TypeOK, EndIsLast, EditsAreNotForgotten, UnchangedButLast, Done, Consents

\* So does a question that was not answered with yes.
LEMMA RefusedKeepsSInv ==
  ASSUME SInv, NEW questions, Refused(questions)
  PROVE  SInv'
BY NothingKeepsSInv DEF Refused, Cmds

\* RENUMBER is refused, or it makes all lines or those before one that is torn.
LEMMA RenumberSteps ==
  ASSUME NEW inc, executeRenumber(inc)
  PROVE  \/ UnchangedButLast /\ Done("refused", {})
         \/ LET lines == store.lines
                new   == renumbered(lines, inc)
                made  == rewritable(lines, inc) # {}
            IN  /\ AtPrompt /\ UNCHANGED <<programFilename, loading, rest, disk, alive>>
                /\ fits(lines, inc) /\ refsExist(lines)
                /\ store' = [lines |-> new, end |-> endOf(new)]
                /\ modified' = (modified \/ made) /\ unsaved' = (unsaved \/ made)
                /\ \/ /\ rewritable(lines, inc) = DOMAIN lines /\ DOMAIN lines # {}
                      /\ origin' = origin /\ Done("renumber", {})
                   \/ origin' = NoName /\ Done("panic", {})
<1> DEFINE lines == store.lines
           done  == /\ fits(lines, inc) /\ refsExist(lines)
                    /\ \E m \in DOMAIN lines : newNumbers(lines, inc)[m] # m
<1>1. CASE ~ done
  BY <1>1 DEF executeRenumber
<1>2. CASE done
  <2>1. DOMAIN lines # {}
    BY <1>2
  <2>2. CASE rewritable(lines, inc) = DOMAIN lines
    BY <1>2, <2>1, <2>2 DEF executeRenumber
  <2>3. CASE rewritable(lines, inc) # DOMAIN lines
    BY <1>2, <2>3 DEF executeRenumber
  <2> QED
    BY <2>2, <2>3
<1> QED
  BY <1>1, <1>2

\* The commands that edit lines.
LEMMA EditingKeepsSInv ==
  ASSUME SInv,
         \/ \E text \in Typed : TypeLine(text)
         \/ \E from, to \in LineNos : executeDelete(from, to)
         \/ \E inc \in Increments : executeRenumber(inc)
  PROVE  SInv'
<1>1. StoreType(store) /\ EndsAtEnd(store)
  BY DEF SInv, TypeOK, EndIsLast
<1>2. ASSUME NEW text \in Typed, TypeLine(text) PROVE SInv'
  <2>1. StoreType(store') /\ EndsAtEnd(store')
    BY <1>1, <1>2, EnteredIsGood DEF TypeLine
  <2>2. modified' \in BOOLEAN /\ unsaved' \in BOOLEAN
        /\ (unsaved' => modified') /\ ~ loading' /\ alive'
    BY <1>2, FlagsAreBoolean DEF TypeLine, AtPrompt, SInv, TypeOK, EditsAreNotForgotten
  <2>3. QED
    BY <1>2, <2>1, <2>2
    DEF TypeLine, Done, SInv, TypeOK, EndIsLast, EditsAreNotForgotten, Cmds, Consents
<1>3. ASSUME NEW from \in LineNos, NEW to \in LineNos, executeDelete(from, to) PROVE SInv'
  <2>1. StoreType(store') /\ EndsAtEnd(store')
    BY <1>1, <1>3, RemovedIsGood DEF executeDelete
  <2>2. modified' \in BOOLEAN /\ unsaved' \in BOOLEAN
        /\ (unsaved' => modified') /\ ~ loading' /\ alive'
    BY <1>3 DEF executeDelete, AtPrompt, SInv, TypeOK, EditsAreNotForgotten
  <2>3. QED
    BY <1>3, <2>1, <2>2
    DEF executeDelete, Done, SInv, TypeOK, EndIsLast, EditsAreNotForgotten, Cmds, Consents
<1>4. ASSUME NEW inc \in Increments, executeRenumber(inc) PROVE SInv'
  <2> DEFINE lines == store.lines
             new   == renumbered(lines, inc)
             made  == rewritable(lines, inc) # {}
  <2>1. inc \in LineNos
    BY SessionAssumption
  <2>2. CASE UnchangedButLast /\ Done("refused", {})
    BY <2>2, NothingKeepsSInv DEF Cmds
  <2>3. CASE ~ (UnchangedButLast /\ Done("refused", {}))
    <3>1. /\ fits(lines, inc) /\ refsExist(lines)
          /\ store' = [lines |-> new, end |-> endOf(new)]
      BY <1>4, <2>3, RenumberSteps
    <3>2. StoreType(store') /\ EndsAtEnd(store')
      BY <1>1, <2>1, <3>1, RenumberedIsGood
    <3>3. /\ modified' = (modified \/ made) /\ unsaved' = (unsaved \/ made) /\ ~ loading /\ alive
          /\ origin' \in {origin, NoName} /\ UNCHANGED <<programFilename, loading, alive>>
          /\ Done("renumber", {}) \/ Done("panic", {})
      BY <1>4, <2>3, RenumberSteps DEF AtPrompt
    <3> HIDE DEF made
    <3>4. /\ modified' \in BOOLEAN /\ unsaved' \in BOOLEAN /\ loading' \in BOOLEAN /\ alive' \in BOOLEAN
          /\ unsaved' => alive' /\ modified' /\ ~ loading'
      BY <3>3 DEF SInv, TypeOK, EditsAreNotForgotten, made
    <3>5. last'.cmd \in Cmds /\ last'.consent \in Consents
      <4>1. last'.cmd \in {"renumber", "panic"} /\ last'.consent = {}
        BY <3>3 DEF Done
      <4> QED
        BY <4>1 DEF Cmds, Consents
    <3>6. programFilename' \in Names \cup {NoName} /\ origin' \in Names \cup {NoName}
      BY <3>3 DEF SInv, TypeOK
    <3>7. QED
      BY <3>2, <3>4, <3>5, <3>6 DEF SInv, TypeOK, EndIsLast, EditsAreNotForgotten
  <2>4. QED
    BY <2>2, <2>3
<1>5. QED
  BY <1>2, <1>3, <1>4

\* A SAVE either succeeds, or leaves the flags alone.
LEMMA SaveOutcomes ==
  ASSUME NEW name, NEW text, NEW yes, saveTo(name, text, yes)
  PROVE  \/ /\ modified' = FALSE /\ unsaved' = FALSE /\ origin' = name
            /\ last' = [cmd |-> "save", consent |-> yes]
         \/ /\ modified' = modified /\ unsaved' = unsaved /\ origin' \in {origin, NoName}
            /\ last' = [cmd |-> "failed", consent |-> yes]
<1>1. CASE UNCHANGED <<modified, unsaved>>
           /\ origin' = (IF origin = name THEN NoName ELSE origin) /\ Done("failed", yes)
  BY <1>1 DEF Done
<1>2. CASE modified' = FALSE /\ unsaved' = FALSE /\ origin' = name /\ Done("save", yes)
  BY <1>2 DEF Done
<1>3. QED
  BY <1>1, <1>2 DEF saveTo

\* SAVE and NEW.
LEMMA SavingKeepsSInv ==
  ASSUME SInv, NEW name \in Names \cup {NoName}, executeSave(name) \/ executeNew(name)
  PROVE  SInv'
<1>1. CASE executeSave(name)
  <2> DEFINE target == IF name = NoName THEN programFilename ELSE name
             questions == IF name = NoName THEN {} ELSE checkOverwrite(name)
             text == saveProgram(store.lines)
  <2>1. target \in Names \cup {NoName} /\ questions \in Consents
    BY QuestionsAreConsents DEF SInv, TypeOK
  <2>2. CASE UnchangedButLast /\ Done("failed", {})
    BY <2>2, NothingKeepsSInv DEF Cmds
  <2>3. CASE Refused(questions)
    BY <2>3, RefusedKeepsSInv
  <2>4. CASE /\ target # NoName /\ saveTo(target, text, questions)
             /\ programFilename' = IF last'.cmd = "save" THEN target ELSE programFilename
             /\ UNCHANGED <<store, loading, rest, alive>>
    <3> HIDE DEF target, questions, text
    <3>1. \/ /\ modified' = FALSE /\ unsaved' = FALSE /\ origin' = target
             /\ last' = [cmd |-> "save", consent |-> questions]
          \/ /\ modified' = modified /\ unsaved' = unsaved /\ origin' \in {origin, NoName}
             /\ last' = [cmd |-> "failed", consent |-> questions]
      BY <2>4, SaveOutcomes
    <3>2. /\ modified' \in BOOLEAN /\ unsaved' \in BOOLEAN
          /\ (unsaved' => alive' /\ modified' /\ ~ loading')
      <4>1. loading' = loading /\ alive' = alive
        BY <2>4
      <4>2. CASE modified' = FALSE /\ unsaved' = FALSE
        BY <4>2
      <4>3. CASE modified' = modified /\ unsaved' = unsaved
        BY <4>1, <4>3 DEF SInv, TypeOK, EditsAreNotForgotten
      <4>4. QED
        BY <3>1, <4>2, <4>3
    <3>3. origin' \in Names \cup {NoName} /\ last'.cmd \in Cmds /\ last'.consent \in Consents
      <4>1. origin' \in {target, origin, NoName}
        BY <3>1
      <4>2. last'.cmd \in {"save", "failed"} /\ last'.consent = questions
        BY <3>1
      <4>3. QED
        BY <2>1, <4>1, <4>2 DEF SInv, TypeOK, Cmds
    <3>4. programFilename' \in Names \cup {NoName}
      BY <2>1, <2>4 DEF SInv, TypeOK
    <3>5. QED
      BY <2>4, <3>2, <3>3, <3>4 DEF SInv, TypeOK, EndIsLast, EditsAreNotForgotten
  <2>5. QED
    BY <1>1, <2>2, <2>3, <2>4 DEF executeSave
<1>2. CASE executeNew(name)
  <2> DEFINE questions == checkModified \cup (IF name = NoName THEN {} ELSE checkOverwrite(name))
  <2>1. questions \in Consents
    BY QuestionsAreConsents DEF Consents
  <2> HIDE DEF questions
  <2>2. CASE Refused(questions)
    BY <2>2, RefusedKeepsSInv
  <2>3. CASE ~ Refused(questions)
    <3>1. /\ store' = Empty /\ modified' = FALSE /\ unsaved' = FALSE
          /\ programFilename' = name /\ origin' \in {name, NoName}
          /\ UNCHANGED <<loading, rest, alive>> /\ Done("new", questions)
      BY <1>2, <2>3 DEF executeNew, questions
    <3>2. QED
      BY <2>1, <3>1, EmptyIsGood
      DEF Done, SInv, TypeOK, EndIsLast, EditsAreNotForgotten, Cmds
  <2>4. QED
    BY <2>2, <2>3
<1>3. QED
  BY <1>1, <1>2

\* The program is replaced by the lines of a file still to be read.
LEMMA OpenOldKeepsSInv ==
  ASSUME SInv, NEW name \in Names, NEW d, openOld(name, d),
         alive' \in BOOLEAN, NEW c \in Cmds, NEW yes \in Consents, Done(c, yes)
  PROVE  SInv'
BY EmptyIsGood
DEF openOld, Done, SInv, TypeOK, EndIsLast, EditsAreNotForgotten

\* The memory of the process is gone.
LEMMA ExitKeepsSInv ==
  ASSUME SInv, NEW c \in Cmds, NEW yes \in Consents, Exit(c, yes)
  PROVE  SInv'
BY EmptyIsGood
DEF Exit, Done, SInv, TypeOK, EndIsLast, EditsAreNotForgotten

\* OLD, EDIT, BYE and RELOAD.
LEMMA LeavingKeepsSInv ==
  ASSUME SInv,
         \/ \E name \in Names : executeOld(name)
         \/ executeEdit \/ executeBye \/ executeReload
  PROVE  SInv'
<1>1. /\ "old" \in Cmds /\ "edit" \in Cmds /\ "bye" \in Cmds /\ "reload" \in Cmds
      /\ {} \in Consents /\ checkModified \in Consents
  BY QuestionsAreConsents DEF Cmds
<1>2. ASSUME NEW name \in Names, executeOld(name) PROVE SInv'
  BY <1>1, <1>2, RefusedKeepsSInv, OpenOldKeepsSInv DEF executeOld, SInv, TypeOK
<1>3. CASE executeEdit
  <2>1. programFilename \in Names
    BY <1>3 DEF executeEdit, SInv, TypeOK
  <2>2. CASE Refused(checkModified)
    BY <2>2, RefusedKeepsSInv
  <2>3. CASE /\ origin' = IF origin = programFilename THEN NoName ELSE origin
             /\ UNCHANGED <<store, modified, programFilename, loading, rest, alive, unsaved>>
             /\ Done("edit", {})
    BY <1>1, <2>3 DEF Done, SInv, TypeOK, EndIsLast, EditsAreNotForgotten
  <2>4. ASSUME NEW d, openOld(programFilename, d), UNCHANGED alive,
               Done("edit", checkModified)
        PROVE  SInv'
    BY <1>1, <2>1, <2>4, OpenOldKeepsSInv DEF SInv, TypeOK
  <2>5. QED
    BY <1>3, <2>2, <2>3, <2>4 DEF executeEdit
<1>4. CASE executeBye
  BY <1>1, <1>4, RefusedKeepsSInv, ExitKeepsSInv DEF executeBye
<1>5. CASE executeReload
  <2>1. CASE Refused(checkModified)
    BY <2>1, RefusedKeepsSInv
  <2>2. CASE Exit("bye", checkModified)
    BY <1>1, <2>2, ExitKeepsSInv
  <2>3. CASE ~ Refused(checkModified) /\ ~ Exit("bye", checkModified)
    <3>1. /\ UNCHANGED alive /\ Done("reload", checkModified) /\ store' = Empty
          /\ unsaved' = FALSE /\ modified' = FALSE /\ loading' \in {TRUE, loading}
          /\ origin' \in {programFilename, NoName}
          /\ programFilename' \in {programFilename, NoName}
      BY <1>5, <2>3 DEF executeReload
    <3>2. QED
      BY <1>1, <3>1, EmptyIsGood
      DEF Done, SInv, TypeOK, EndIsLast, EditsAreNotForgotten
  <2>4. QED
    BY <2>1, <2>2, <2>3
<1>6. QED
  BY <1>2, <1>3, <1>4, <1>5

\* Starting, dying, and reading a line of a file.
LEMMA LoadingKeepsSInv ==
  ASSUME SInv, Quit \/ Start \/ ReadLine \/ EndOfFile \/ ReadError
  PROVE  SInv'
<1>1. "sigquit" \in Cmds /\ "start" \in Cmds /\ "load" \in Cmds /\ {} \in Consents
  BY DEF Cmds, Consents
<1>2. CASE Quit
  BY <1>1, <1>2, ExitKeepsSInv DEF Quit
<1>3. CASE Start
  <2>1. CASE UNCHANGED <<store, modified, programFilename, loading, rest, disk, unsaved, origin>>
    BY <1>1, <1>3, <2>1
    DEF Start, Done, SInv, TypeOK, EndIsLast, EditsAreNotForgotten
  <2>2. CASE \E name \in Names : openOld(name, disk)
    BY <1>1, <1>3, <2>2, OpenOldKeepsSInv DEF Start
  <2>3. QED
    BY <1>3, <2>1, <2>2 DEF Start
<1>4. CASE ReadLine
  <2>1. StoreType(store') /\ EndsAtEnd(store')
    BY <1>4, EnteredIsGood DEF ReadLine, SInv, TypeOK, EndIsLast
  <2>2. loading' \in BOOLEAN /\ modified' \in BOOLEAN /\ unsaved' = unsaved /\ ~ unsaved
    BY <1>4, FlagsAreBoolean
    DEF ReadLine, closeProgramFile, SInv, TypeOK, EditsAreNotForgotten
  <2>3. QED
    BY <1>1, <1>4, <2>1, <2>2
    DEF ReadLine, Done, SInv, TypeOK, EndIsLast, EditsAreNotForgotten
<1>5. CASE EndOfFile \/ ReadError
  <2>1. /\ loading' = FALSE /\ modified' = FALSE /\ ~ unsaved
        /\ UNCHANGED <<store, programFilename, alive, unsaved>>
        /\ origin' \in {origin, NoName} /\ Done("load", {})
    BY <1>5 DEF EndOfFile, ReadError, closeProgramFile, SInv, EditsAreNotForgotten
  <2>2. QED
    BY <1>1, <2>1 DEF Done, SInv, TypeOK, EndIsLast, EditsAreNotForgotten
<1>6. QED
  BY <1>2, <1>3, <1>4, <1>5

\* Every step keeps the invariant.
LEMMA NextSInv == SInv /\ [Next]_vars => SInv'
<1> SUFFICES ASSUME SInv, [Next]_vars PROVE SInv'
  OBVIOUS
<1>1. CASE UNCHANGED vars
  BY <1>1 DEF vars, SInv, TypeOK, EndIsLast, EditsAreNotForgotten
<1>2. CASE Command
  BY <1>2, EditingKeepsSInv, SavingKeepsSInv, LeavingKeepsSInv DEF Command
<1>3. CASE Quit \/ Start \/ ReadLine \/ EndOfFile \/ ReadError
  BY <1>3, LoadingKeepsSInv
<1>4. QED
  BY <1>1, <1>2, <1>3 DEF Next

\* The invariant holds of every reachable state.
THEOREM StoreIsSound == Spec => []SInv
BY InitSInv, NextSInv, PTL DEF Spec

\* Types: line numbers stay in range whatever RENUMBER is asked for.
THEOREM SessionTypes == Spec => []TypeOK
<1>1. SInv => TypeOK
  BY DEF SInv
<1>2. QED
  BY <1>1, StoreIsSound, PTL

\* g.endStmtNo always is the number of the last line, which END heads, or there is no
\* such line.
THEOREM EndStaysLast == Spec => []EndIsLast
<1>1. SInv => EndIsLast
  BY DEF SInv
<1>2. QED
  BY <1>1, StoreIsSound, PTL

\* The user's changes stay marked until they are saved, dropped with his consent, or lost
\* with the process.
THEOREM EditsStayMarked == Spec => []EditsAreNotForgotten
<1>1. SInv => EditsAreNotForgotten
  BY DEF SInv
<1>2. QED
  BY <1>1, StoreIsSound, PTL

-----------------------------------------------------------------------------
(* What a step may do.                                                      *)

\* Unsaved changes leave the memory by SAVE, by consent, or by SIGQUIT.
THEOREM ChangesAreDroppedByConsent == Spec => NothingDiscardedUnasked
<1> DEFINE Kept == unsaved /\ ~ unsaved' =>
                     last'.cmd \in {"save", "sigquit"} \/ "discard" \in last'.consent
<1>1. SInv /\ [Next]_vars => [Kept]_vars
  <2> SUFFICES ASSUME SInv, Next, unsaved, ~ unsaved'
               PROVE  last'.cmd \in {"save", "sigquit"} \/ "discard" \in last'.consent
    OBVIOUS
  <2>1. modified /\ ~ loading /\ checkModified = {"discard"}
    BY DEF SInv, EditsAreNotForgotten, checkModified
  <2>2. ~ UnchangedButLast /\ \A q : ~ Refused(q)
    BY DEF UnchangedButLast, Refused
  <2>3. CASE \/ \E text \in Typed : TypeLine(text)
             \/ \E from, to \in LineNos : executeDelete(from, to)
             \/ \E inc \in Increments : executeRenumber(inc)
    BY <2>2, <2>3, RenumberSteps DEF TypeLine, executeDelete
  <2>4. ASSUME NEW name \in Names \cup {NoName}, executeSave(name)
        PROVE  last'.cmd = "save"
    <3>1. PICK f, text, yes : saveTo(f, text, yes)
      BY <2>2, <2>4 DEF executeSave
    <3>2. last' = [cmd |-> "save", consent |-> yes]
      BY <3>1, SaveOutcomes
    <3>3. QED
      BY <3>2
  <2>5. ASSUME NEW name \in Names \cup {NoName}, executeNew(name)
        PROVE  "discard" \in last'.consent
    BY <2>1, <2>2, <2>5 DEF executeNew, Done
  <2>6. CASE \E name \in Names : executeOld(name)
    BY <2>1, <2>2, <2>6 DEF executeOld, Done
  <2>7. CASE executeEdit \/ executeBye \/ executeReload
    <3>1. CASE executeEdit
      <4>1. CASE UNCHANGED <<store, modified, programFilename, loading, rest, alive, unsaved>>
        BY <4>1
      <4>2. CASE Done("edit", checkModified)
        BY <2>1, <4>2 DEF Done
      <4>3. QED
        BY <2>2, <3>1, <4>1, <4>2 DEF executeEdit
    <3>2. CASE executeBye \/ executeReload
      <4>1. CASE Exit("bye", checkModified)
        BY <2>1, <4>1 DEF Exit, Done
      <4>2. CASE Done("reload", checkModified)
        BY <2>1, <4>2 DEF Done
      <4>3. QED
        BY <2>2, <3>2, <4>1, <4>2 DEF executeBye, executeReload
    <3>3. QED
      BY <2>7, <3>1, <3>2
  <2>8. CASE Quit
    BY <2>8 DEF Quit, Exit, Done
  <2>9. CASE Start
    BY <2>9 DEF Start, SInv, EditsAreNotForgotten
  <2>10. CASE ReadLine \/ EndOfFile \/ ReadError
    BY <2>1, <2>10 DEF ReadLine, EndOfFile, ReadError
  <2>11. QED
    BY <2>3, <2>4, <2>5, <2>6, <2>7, <2>8, <2>9, <2>10 DEF Next, Command
<1>2. QED
  BY <1>1, StoreIsSound, PTL DEF Spec, NothingDiscardedUnasked

\* What entitles a step to write a file: there is none yet, or the user agreed, or it is
\* the program's own file and the step a SAVE or an EDIT.
Entitled(name) ==
  \/ disk[name] = Absent
  \/ "overwrite" \in last'.consent
  \/ name = programFilename /\ last'.cmd \in {"save", "failed", "edit"}

Writes(name) == Entitled(name) /\ \E text : disk' = [disk EXCEPT ![name] = text]

\* A step writes one file at most, and one that it is entitled to write.
LEMMA DiskSteps ==
  ASSUME SInv, Next
  PROVE  UNCHANGED disk \/ \E name \in Names : Writes(name)
<1>1. \A q : Refused(q) => UNCHANGED disk
  BY DEF Refused, UnchangedButLast
<1>2. UnchangedButLast => UNCHANGED disk
  BY DEF UnchangedButLast
<1>3. CASE \/ \E text \in Typed : TypeLine(text)
           \/ \E from, to \in LineNos : executeDelete(from, to)
           \/ \E inc \in Increments : executeRenumber(inc)
  BY <1>2, <1>3, RenumberSteps DEF TypeLine, executeDelete
<1>4. ASSUME NEW operand \in Names \cup {NoName}, executeSave(operand)
      PROVE  UNCHANGED disk \/ \E name \in Names : Writes(name)
  <2> DEFINE target == IF operand = NoName THEN programFilename ELSE operand
             questions == IF operand = NoName THEN {} ELSE checkOverwrite(operand)
             text == saveProgram(store.lines)
  <2>1. CASE UNCHANGED disk
    BY <2>1
  <2>2. CASE target # NoName /\ saveTo(target, text, questions)
    <3>1. target \in Names
      BY <2>2 DEF SInv, TypeOK
    <3>2. PICK new : disk' = [disk EXCEPT ![target] = new]
      BY <2>2 DEF saveTo
    <3>3. last'.cmd \in {"save", "failed"} /\ last'.consent = questions
      <4> HIDE DEF target, text, questions
      <4>1. \/ last' = [cmd |-> "save", consent |-> questions]
            \/ last' = [cmd |-> "failed", consent |-> questions]
        BY <2>2, SaveOutcomes
      <4>2. QED
        BY <4>1
    <3>4. Entitled(target)
      BY <3>3 DEF Entitled, checkOverwrite
    <3>5. QED
      BY <3>1, <3>2, <3>4 DEF Writes
  <2>3. QED
    BY <1>1, <1>2, <1>4, <2>1, <2>2 DEF executeSave
<1>5. ASSUME NEW name \in Names \cup {NoName}, executeNew(name)
      PROVE  UNCHANGED disk \/ \E f \in Names : Writes(f)
  <2> DEFINE questions == checkModified \cup (IF name = NoName THEN {} ELSE checkOverwrite(name))
  <2>1. CASE UNCHANGED disk
    BY <2>1
  <2>2. CASE name # NoName /\ disk' = [disk EXCEPT ![name] = <<>>] /\ Done("new", questions)
    <3>1. disk[name] = Absent \/ "overwrite" \in last'.consent
      BY <2>2 DEF Done, checkOverwrite
    <3>2. QED
      BY <2>2, <3>1 DEF Writes, Entitled
  <2>3. QED
    BY <1>1, <1>5, <2>1, <2>2 DEF executeNew
<1>6. CASE \E name \in Names : executeOld(name)
  BY <1>1, <1>6 DEF executeOld, openOld
<1>7. CASE executeEdit
  <2>1. programFilename \in Names
    BY <1>7 DEF executeEdit, SInv, TypeOK
  <2>2. CASE Refused(checkModified)
    BY <1>1, <2>2
  <2>3. CASE ~ Refused(checkModified)
    <3>1. PICK text : disk' = [disk EXCEPT ![programFilename] = text]
      BY <1>7, <2>3 DEF executeEdit, openOld
    <3>2. last'.cmd = "edit"
      <4>1. Done("edit", {}) \/ Done("edit", checkModified)
        BY <1>7, <2>3 DEF executeEdit
      <4>2. QED
        BY <4>1 DEF Done
    <3>3. QED
      BY <2>1, <3>1, <3>2 DEF Writes, Entitled
  <2>4. QED
    BY <2>2, <2>3
<1>8. CASE executeBye \/ executeReload
  BY <1>1, <1>8 DEF executeBye, executeReload, Exit
<1>9. CASE Quit \/ Start \/ ReadLine \/ EndOfFile \/ ReadError
  BY <1>9 DEF Quit, Exit, Start, openOld, ReadLine, EndOfFile, ReadError
<1>10. QED
  BY <1>3, <1>4, <1>5, <1>6, <1>7, <1>8, <1>9 DEF Next, Command

\* No command writes over a file that the user has not agreed to lose.
THEOREM FilesAreOverwrittenByConsent == Spec => OverwriteNeedsConsent
<1> DEFINE DiskType == DOMAIN disk = Names
           Kept == \A f \in Names :
                     disk[f] # Absent /\ disk'[f] # disk[f] =>
                       \/ "overwrite" \in last'.consent
                       \/ f = programFilename /\ last'.cmd \in {"save", "failed", "edit"}
<1>1. Init => DiskType
  BY DEF Init
<1>2. SInv /\ DiskType /\ [Next]_vars => DiskType'
  <2>1. CASE UNCHANGED vars
    BY <2>1 DEF vars
  <2>2. CASE SInv /\ DiskType /\ Next
    BY <2>2, DiskSteps DEF Writes
  <2>3. QED
    BY <2>1, <2>2
<1>3. SInv /\ DiskType /\ [Next]_vars => [Kept]_vars
  <2> SUFFICES ASSUME SInv, DiskType, Next, NEW f \in Names,
                      disk[f] # Absent, disk'[f] # disk[f]
               PROVE  \/ "overwrite" \in last'.consent
                      \/ f = programFilename /\ last'.cmd \in {"save", "failed", "edit"}
    OBVIOUS
  <2>1. PICK name \in Names : Writes(name)
    BY DiskSteps
  <2>2. f = name
    BY <2>1 DEF Writes
  <2>3. QED
    BY <2>1, <2>2 DEF Writes, Entitled
<1>4. QED
  BY <1>1, <1>2, <1>3, StoreIsSound, PTL DEF Spec, OverwriteNeedsConsent

\* RENUMBER gives the lines other numbers and every reference with them, for every program and
\* every increment that it accepts.
THEOREM TargetsAreKept == Spec => RenumberKeepsTargets
<1> DEFINE Kept == last'.cmd = "renumber" => SameProgram(store.lines, store'.lines)
<1>1. SInv /\ [Next]_vars => [Kept]_vars
  <2> SUFFICES ASSUME SInv, Next, last'.cmd = "renumber"
               PROVE  SameProgram(store.lines, store'.lines)
    OBVIOUS
  <2>1. \A c, yes : Done(c, yes) => c = "renumber"
    BY DEF Done
  <2>2. ~ Done("refused", {}) /\ ~ Done("line", {}) /\ ~ Done("failed", {}) /\ ~ Done("load", {})
        /\ ~ Done("start", {}) /\ \A q : ~ Refused(q)
    BY <2>1 DEF Refused
  <2>3. \A yes : /\ ~ Done("save", yes) /\ ~ Done("panic", yes) /\ ~ Done("failed", yes) /\ ~ Done("new", yes)
                 /\ ~ Done("old", yes) /\ ~ Done("edit", yes) /\ ~ Done("reload", yes)
                 /\ ~ Exit("bye", yes) /\ ~ Exit("sigquit", yes)
    BY <2>1 DEF Exit
  <2>4. PICK inc \in Increments : executeRenumber(inc)
    <3>1. ~ (\E text \in Typed : TypeLine(text)) /\ ~ (\E from, to \in LineNos : executeDelete(from, to))
      BY <2>2 DEF TypeLine, executeDelete
    <3>2. \A name : ~ executeSave(name) /\ ~ executeNew(name) /\ ~ executeOld(name)
      BY <2>2, <2>3 DEF executeSave, saveTo, executeNew, executeOld
    <3>3. ~ executeEdit /\ ~ executeBye /\ ~ executeReload
      BY <2>2, <2>3 DEF executeEdit, executeBye, executeReload
    <3>4. ~ Quit /\ ~ Start /\ ~ ReadLine /\ ~ EndOfFile /\ ~ ReadError
      BY <2>2, <2>3 DEF Quit, Start, ReadLine, EndOfFile, ReadError
    <3> QED
      BY <3>1, <3>2, <3>3, <3>4 DEF Next, Command
  <2>5. /\ fits(store.lines, inc) /\ refsExist(store.lines)
        /\ store'.lines = renumbered(store.lines, inc)
        /\ rewritable(store.lines, inc) = DOMAIN store.lines
    BY <2>2, <2>3, <2>4, RenumberSteps
  <2>6. inc \in LineNos /\ StoreType(store)
    BY SessionAssumption DEF SInv, TypeOK
  <2> QED
    BY <2>5, <2>6, RenumberedIsSame
<1> QED
  BY <1>1, StoreIsSound, PTL DEF Spec, RenumberKeepsTargets

-----------------------------------------------------------------------------
(* Loading what has been saved.                                             *)

NothingLoaded == [store |-> Empty, closed |-> FALSE]

\* f follows the loading of the first n lines.
Follows(f, text, n) ==
  /\ DOMAIN f = 0 .. n /\ f = [k \in 0 .. n |-> f[k]]
  /\ f[0] = NothingLoaded
  /\ \A k \in 1 .. n : f[k] = loadedLine(f[k - 1], parse(text[k]))

LEMMA LoadingExists ==
  ASSUME NEW n \in Nat, NEW text
  PROVE  \E f : Follows(f, text, n)
<1> DEFINE S == {m \in Nat : \E f : Follows(f, text, m)}
<1>1. 0 \in S
  <2>1. Follows([k \in 0 .. 0 |-> NothingLoaded], text, 0)
    BY DEF Follows
  <2> QED
    BY <2>1
<1>2. ASSUME NEW m \in Nat, m \in S PROVE m + 1 \in S
  <2>1. PICK f : Follows(f, text, m)
    BY <1>2
  <2> DEFINE g == [k \in 0 .. m + 1 |->
                     IF k = m + 1 THEN loadedLine(f[m], parse(text[m + 1])) ELSE f[k]]
  <2>2. DOMAIN g = 0 .. m + 1 /\ g = [k \in 0 .. m + 1 |-> g[k]] /\ g[0] = NothingLoaded
    <3>1. 0 # m + 1 /\ 0 \in 0 .. m + 1
      OBVIOUS
    <3> QED
      BY <2>1, <3>1 DEF Follows
  <2>3. ASSUME NEW k \in 1 .. m + 1 PROVE g[k] = loadedLine(g[k - 1], parse(text[k]))
    <3>1. CASE k = m + 1
      <4>1. g[k] = loadedLine(f[m], parse(text[m + 1])) /\ k - 1 = m /\ g[m] = f[m]
        BY <3>1
      <4> HIDE DEF g
      <4> QED
        BY <3>1, <4>1
    <3>2. CASE k # m + 1
      <4>1. k \in 1 .. m /\ k - 1 \in 0 .. m /\ g[k] = f[k] /\ g[k - 1] = f[k - 1]
        BY <3>2
      <4> HIDE DEF g
      <4> QED
        BY <2>1, <4>1 DEF Follows
    <3> QED
      BY <3>1, <3>2
  <2> HIDE DEF g
  <2>4. Follows(g, text, m + 1)
    BY <2>2, <2>3 DEF Follows
  <2> QED
    BY <2>4
<1>3. n \in S
  <2> HIDE DEF S
  <2> QED
    BY <1>1, <1>2, NaturalsByStep
<1> QED
  BY <1>3

\* The recursive definition is one that can be followed.
LEMMA LoadedUpTo ==
  ASSUME NEW text, Len(text) \in Nat
  PROVE  Follows(loadedUpTo(text), text, Len(text))
<1> DEFINE n == Len(text)
           Step(e) == [k \in 0 .. n |-> IF k = 0 THEN [store |-> Empty, closed |-> FALSE]
                                        ELSE loadedLine(e[k - 1], parse(text[k]))]
           load == CHOOSE e : e = Step(e)
<1>1. PICK f : Follows(f, text, n)
  BY LoadingExists
<1>2. f = Step(f)
  <2>1. \A k \in 0 .. n : f[k] = Step(f)[k]
    <3> TAKE k \in 0 .. n
    <3>1. CASE k = 0
      BY <1>1, <3>1 DEF Follows, NothingLoaded
    <3>2. CASE k # 0
      BY <1>1, <3>2 DEF Follows
    <3> QED
      BY <3>1, <3>2
  <2> QED
    BY <1>1, <2>1 DEF Follows
<1>3. load = Step(load)
  BY <1>2
<1>4. loadedUpTo(text) = load
  BY DEF loadedUpTo
<1> HIDE DEF load
<1>5. Follows(load, text, n)
  <2>1. DOMAIN load = 0 .. n /\ load = [k \in 0 .. n |-> load[k]] /\ load[0] = NothingLoaded
    BY <1>3 DEF NothingLoaded
  <2>2. ASSUME NEW k \in 1 .. n PROVE load[k] = loadedLine(load[k - 1], parse(text[k]))
    <3>1. k \in 0 .. n /\ k # 0
      OBVIOUS
    <3>2. load[k] = Step(load)[k]
      BY <1>3
    <3> QED
      BY <3>1, <3>2
  <2> QED
    BY <2>1, <2>2 DEF Follows
<1> QED
  BY <1>4, <1>5

\* One line more.
LEMMA NextLoaded ==
  ASSUME NEW f, NEW text, NEW n \in Nat, Follows(f, text, n), NEW k \in Nat, k < n
  PROVE  f[k + 1] = loadedLine(f[k], parse(text[k + 1]))
<1> DEFINE i == k + 1
<1>1. i \in 1 .. n /\ i - 1 = k
  OBVIOUS
<1> HIDE DEF i
<1>2. f[i] = loadedLine(f[i - 1], parse(text[i]))
  BY <1>1 DEF Follows
<1>3. f[i] = loadedLine(f[k], parse(text[i]))
  BY <1>1, <1>2
<1> QED
  BY <1>3 DEF i

\* Behind the line that closes the file nothing is loaded.
LEMMA ClosedStays ==
  ASSUME NEW f, NEW text, NEW n \in Nat, Follows(f, text, n), NEW k \in 0 .. n, f[k].closed
  PROVE  f[n] = f[k]
<1> DEFINE S == {j \in Nat : k + j <= n => f[k + j] = f[k]}
<1>1. 0 \in S
  OBVIOUS
<1>2. ASSUME NEW j \in Nat, j \in S PROVE j + 1 \in S
  <2>1. ASSUME k + (j + 1) <= n PROVE f[k + (j + 1)] = f[k]
    <3> DEFINE i == k + (j + 1)
    <3>1. i \in 1 .. n /\ i - 1 = k + j /\ k + j <= n
      BY <2>1
    <3>2. f[i - 1] = f[k]
      BY <1>2, <3>1
    <3> HIDE DEF i
    <3>3. f[i] = loadedLine(f[i - 1], parse(text[i]))
      BY <3>1 DEF Follows
    <3>4. f[i] = f[k]
      BY <3>2, <3>3 DEF loadedLine
    <3> QED
      BY <3>4 DEF i
  <2> QED
    BY <2>1
<1>3. n - k \in S
  <2>1. n - k \in Nat
    OBVIOUS
  <2> HIDE DEF S
  <2> QED
    BY <1>1, <1>2, <2>1, NaturalsByStep
<1>4. k + (n - k) = n
  OBVIOUS
<1> QED
  BY <1>3, <1>4

\* What a store is made of.
Shaped(s) ==
  s = [lines |-> s.lines, end |-> s.end] /\ s.lines = [n \in DOMAIN s.lines |-> s.lines[n]]

\* The first k lines of a program, with its END if it is among them.
FirstLines(s, k) ==
  [lines |-> Restrict(s.lines, {n \in DOMAIN s.lines : Rank(DOMAIN s.lines, n) <= k}),
   end   |-> IF k = Cardinality(DOMAIN s.lines) THEN s.end ELSE 0]

LEMMA AllLines ==
  ASSUME NEW s, StoreType(s), EndsAtEnd(s)
  PROVE  /\ Alike(Empty, FirstLines(s, 0))
         /\ \A p : Alike(p, FirstLines(s, Cardinality(DOMAIN s.lines))) => Alike(s, p)
<1> DEFINE nos == DOMAIN s.lines
           c   == Cardinality(nos)
<1>1. nos \in SUBSET LineNos /\ IsFiniteSet(nos) /\ c \in Nat
  BY LinesAreFinite DEF StoreType
<1>2. \A n \in nos : Rank(nos, n) \in 1 .. c
  BY <1>1, RankBounds
<1>3. {n \in nos : Rank(nos, n) <= 0} = {} /\ {n \in nos : Rank(nos, n) <= c} = nos
  BY <1>1, <1>2
<1>4. c = 0 => s.end = 0
  BY <1>1, FS_EmptySet DEF EndsAtEnd
<1>5. FirstLines(s, 0) = [lines |-> Restrict(s.lines, {}), end |-> 0]
  <2>1. (IF 0 = c THEN s.end ELSE 0) = 0
    BY <1>4
  <2> QED
    BY <1>3, <2>1 DEF FirstLines
<1>6. FirstLines(s, c) = [lines |-> Restrict(s.lines, nos), end |-> s.end]
  BY <1>3 DEF FirstLines
<1>7. /\ DOMAIN Restrict(s.lines, {}) = {} /\ DOMAIN Restrict(s.lines, nos) = nos
      /\ \A n \in nos : Restrict(s.lines, nos)[n] = s.lines[n]
  BY DEF Restrict
<1>8. Alike(Empty, FirstLines(s, 0))
  <2>1. Empty.end = 0 /\ DOMAIN Empty.lines = {}
    BY DEF Empty
  <2> QED
    BY <1>5, <1>7, <2>1 DEF Alike
<1>9. ASSUME NEW p, Alike(p, FirstLines(s, c)) PROVE Alike(s, p)
  BY <1>6, <1>7, <1>9 DEF Alike
<1> QED
  BY <1>8, <1>9

\* The parser accepts the next line that SAVE wrote, and closes the file at the last one only.
LEMMA NextLineIsAccepted ==
  ASSUME NEW s, StoreType(s), EndsAtEnd(s), NEW k \in Nat, k < Cardinality(DOMAIN s.lines),
         NEW p, Alike(p, FirstLines(s, k)), NEW t \in Text, ~ t.del,
         t.no = Nth(DOMAIN s.lines, k + 1),
         t.body.end = s.lines[t.no].end, t.body.refs = s.lines[t.no].refs
  PROVE  /\ Alike(entered(p, t), FirstLines(s, k + 1))
         /\ k + 1 < Cardinality(DOMAIN s.lines) => ~ closesFile(p, t)
<1> DEFINE nos   == DOMAIN s.lines
           c     == Cardinality(nos)
           m     == t.no
           first == {n \in nos : Rank(nos, n) <= k}
           next  == {n \in nos : Rank(nos, n) <= k + 1}
<1>1. nos \in SUBSET LineNos /\ c \in Nat /\ k + 1 \in 1 .. c /\ maxInt16 \in Nat
  BY LinesAreFinite, SessionAssumption DEF StoreType
<1>3. m \in nos /\ Rank(nos, m) = k + 1
  BY <1>1, NthIsRanked
<1>4. m \in LineNos /\ m # 0 /\ m \in Nat
  BY <1>1, <1>3 DEF LineNos
<1>6. \A n \in nos : Rank(nos, n) \in Nat
  BY <1>1, RankBounds
<1>7. next = first \cup {m} /\ m \notin first /\ first \subseteq nos
  <2> HIDE DEF m
  <2>1. \A n \in nos : Rank(nos, n) = k + 1 => n = m
    BY <1>1, <1>3, RankOrder
  <2>2. \A n \in nos : Rank(nos, n) <= k + 1 <=> Rank(nos, n) <= k \/ Rank(nos, n) = k + 1
    BY <1>6
  <2> QED
    BY <1>3, <2>1, <2>2
<1>8. \A n \in first : n <= m
  <2>1. \A n \in nos : Rank(nos, n) <= k => Rank(nos, n) <= k + 1
    BY <1>6
  <2> QED
    BY <1>1, <1>3, <2>1, RankOrder
<1>9. /\ DOMAIN p.lines = first /\ p.end = 0
      /\ \A n \in first : p.lines[n].end = s.lines[n].end /\ p.lines[n].refs = s.lines[n].refs
  <2>1. /\ DOMAIN FirstLines(s, k).lines = first /\ FirstLines(s, k).end = 0
        /\ \A n \in first : FirstLines(s, k).lines[n] = s.lines[n]
    BY <1>1 DEF FirstLines, Restrict
  <2> QED
    BY <2>1 DEF Alike
<1>10. IF t.body.end = "first" THEN k + 1 = c /\ m = s.end ELSE k + 1 = c => s.end = 0
  <2>1. s.lines[m].end = "first" <=> m = s.end
    BY <1>3 DEF EndsAtEnd
  <2>2. s.end # 0 => s.end \in nos /\ m <= s.end
    BY <1>3 DEF EndsAtEnd
  <2> HIDE DEF m
  <2>3. ASSUME s.end # 0, k + 1 = c PROVE m = s.end
    <3>1. Rank(nos, s.end) \in 1 .. c /\ s.end \in nos
      BY <1>1, <2>2, <2>3, RankBounds
    <3>2. Rank(nos, m) <= Rank(nos, s.end)
      BY <1>1, <1>3, <2>2, <2>3, <3>1, RankOrder
    <3>3. Rank(nos, m) = Rank(nos, s.end)
      BY <1>1, <1>3, <2>3, <3>1, <3>2
    <3> QED
      BY <1>1, <1>3, <3>1, <3>3, RankOrder
  <2>4. ASSUME m = s.end PROVE k + 1 = c
    <3>1. c \in 1 .. c
      BY <1>1
    <3>2. Nth(nos, c) \in nos /\ Rank(nos, Nth(nos, c)) = c
      BY <1>1, <3>1, NthIsRanked
    <3>3. Nth(nos, c) <= m
      BY <1>4, <2>4, <3>2 DEF EndsAtEnd
    <3>4. c <= k + 1
      BY <1>1, <1>3, <3>2, <3>3, RankOrder
    <3> QED
      BY <1>1, <3>4
  <2> QED
    BY <2>1, <2>3, <2>4 DEF m
<1> HIDE DEF first, next
<1>11. accepted(p, t)
  BY <1>8, <1>9 DEF accepted
<1>12. LET old == removed(p, {m})
       IN  DOMAIN old.lines = first /\ old.end = 0 /\ \A n \in first : old.lines[n] = p.lines[n]
  <2>1. first \ {m} = first
    BY <1>7
  <2> QED
    BY <1>9, <2>1 DEF removed, Restrict
<1>13. LET new == inserted(p, t)
       IN  /\ DOMAIN new.lines = next
           /\ new.end = IF t.body.end = "first" THEN m ELSE 0
           /\ new.lines[m] = t.body /\ \A n \in first : new.lines[n] = p.lines[n]
  BY <1>7, <1>12 DEF inserted
<1>14. LET q == FirstLines(s, k + 1)
       IN  /\ DOMAIN q.lines = next /\ q.end = IF k + 1 = c THEN s.end ELSE 0
           /\ \A n \in next : q.lines[n] = s.lines[n]
  BY DEF FirstLines, Restrict, next
<1>15. (IF t.body.end = "first" THEN m ELSE 0) = IF k + 1 = c THEN s.end ELSE 0
  BY <1>10
<1>16. entered(p, t) = inserted(p, t)
  BY <1>11 DEF entered
<1>17. Alike(inserted(p, t), FirstLines(s, k + 1))
  <2> DEFINE new == inserted(p, t)
             q   == FirstLines(s, k + 1)
  <2>1. new.end = q.end /\ DOMAIN new.lines = next /\ DOMAIN q.lines = next
    BY <1>13, <1>14, <1>15
  <2>2. ASSUME NEW n \in next
        PROVE  new.lines[n].end = q.lines[n].end /\ new.lines[n].refs = q.lines[n].refs
    <3>1. q.lines[n] = s.lines[n]
      BY <1>14
    <3>2. CASE n = m
      BY <1>13, <3>1, <3>2
    <3>3. CASE n \in first
      BY <1>9, <1>13, <3>1, <3>3
    <3> QED
      BY <1>7, <3>2, <3>3
  <2> QED
    BY <2>1, <2>2 DEF Alike
<1>18. k + 1 < c => ~ closesFile(p, t)
  <2>1. k + 1 < c => k + 1 # c
    BY <1>1
  <2>2. inserted(p, t).end = IF k + 1 = c THEN s.end ELSE 0
    BY <1>13, <1>15
  <2> QED
    BY <2>1, <2>2 DEF closesFile
<1> QED
  BY <1>16, <1>17, <1>18

\* What a file holds that exists.
Files == Seq(Seq(Chars))

\* SAVE writes the text of each line, in order.
LEMMA SavedIsFile ==
  ASSUME NEW s, StoreType(s)
  PROVE  LET file == saveProgram(s.lines)
             nos  == DOMAIN s.lines
         IN  /\ file \in Files /\ Len(file) = Cardinality(nos)
             /\ \A k \in 1 .. Cardinality(nos) : file[k] = s.lines[Nth(nos, k)].text
<1> DEFINE nos  == DOMAIN s.lines
           c    == Cardinality(nos)
           file == saveProgram(s.lines)
<1>1. nos \in SUBSET LineNos /\ c \in Nat
  BY LinesAreFinite DEF StoreType
<1>2. \A k \in 1 .. c : s.lines[Nth(nos, k)].text \in Seq(Chars)
  <2> TAKE k \in 1 .. c
  <2>1. Nth(nos, k) \in nos
    BY <1>1, NthIsRanked
  <2> QED
    BY <2>1 DEF StoreType, Bodies
<1>3. file = [k \in 1 .. c |-> s.lines[Nth(nos, k)].text]
  BY DEF saveProgram
<1> HIDE DEF file, c, nos
<1>4. file \in [1 .. c -> Seq(Chars)] /\ \A k \in 1 .. c : file[k] = s.lines[Nth(nos, k)].text
  BY <1>2, <1>3
<1>5. file \in Files /\ Len(file) = c
  BY <1>1, <1>4 DEF Files
<1> QED
  BY <1>4, <1>5 DEF file, c, nos

\* SAVE and OLD: a program whose texts say what its lines are is read back as it was.
LEMMA SavedIsLoaded ==
  ASSUME NEW s, StoreType(s), EndsAtEnd(s),
         \A n \in DOMAIN s.lines : ReadsBack(n, s.lines[n])
  PROVE  Alike(s, loadedFrom(saveProgram(s.lines)))
<1> DEFINE nos  == DOMAIN s.lines
           c    == Cardinality(nos)
           text == saveProgram(s.lines)
           f    == loadedUpTo(text)
<1>1. nos \in SUBSET LineNos /\ c \in Nat
  BY LinesAreFinite DEF StoreType
<1>2. Len(text) = c /\ \A k \in 1 .. c : text[k] = s.lines[Nth(nos, k)].text
  BY SavedIsFile
<1>3. Follows(f, text, c)
  BY <1>1, <1>2, LoadedUpTo
<1> DEFINE S == {k \in Nat : k <= c => Alike(f[k].store, FirstLines(s, k)) /\ (k < c => ~ f[k].closed)}
<1> HIDE DEF f, text
<1>4. 0 \in S
  BY <1>3, AllLines DEF Follows, NothingLoaded
<1>5. ASSUME NEW k \in Nat, k \in S PROVE k + 1 \in S
  <2>1. ASSUME k + 1 <= c
        PROVE  Alike(f[k + 1].store, FirstLines(s, k + 1)) /\ (k + 1 < c => ~ f[k + 1].closed)
    <3> DEFINE m == Nth(nos, k + 1)
               t == parse(text[k + 1])
    <3>1. k <= c /\ k < c /\ k + 1 \in 1 .. c /\ k + 1 - 1 = k
      BY <1>1, <2>1
    <3>2. f[k + 1] = loadedLine(f[k], t)
      BY <1>1, <1>3, <3>1, NextLoaded
    <3>3. Alike(f[k].store, FirstLines(s, k)) /\ ~ f[k].closed
      BY <1>5, <3>1
    <3>4. m \in nos /\ t = parse(s.lines[m].text)
      BY <1>1, <1>2, <3>1, NthIsRanked
    <3>5. /\ t \in Text /\ ~ t.del /\ t.no = m
          /\ t.body.end = s.lines[m].end /\ t.body.refs = s.lines[m].refs
      BY <3>4 DEF ReadsBack
    <3> HIDE DEF t
    <3>6. /\ Alike(entered(f[k].store, t), FirstLines(s, k + 1))
          /\ k + 1 < c => ~ closesFile(f[k].store, t)
      BY <3>1, <3>3, <3>5, NextLineIsAccepted
    <3>7. f[k + 1].store = entered(f[k].store, t) /\ (f[k + 1].closed <=> closesFile(f[k].store, t))
      BY <3>2, <3>3 DEF loadedLine
    <3> QED
      BY <3>6, <3>7
  <2> QED
    BY <2>1
<1>6. c \in S
  <2> HIDE DEF S
  <2> QED
    BY <1>1, <1>4, <1>5, NaturalsByStep
<1>7. Alike(f[c].store, FirstLines(s, c))
  BY <1>1, <1>6
<1>8. loadedFrom(text) = f[c].store
  BY <1>2 DEF loadedFrom, f
<1> QED
  BY <1>7, <1>8, AllLines DEF text

\* s is what the lines of text make of the empty program up to those in r, with the file open.
ReadInto(text, r, s) ==
  \E k \in 0 .. Len(text) :
    /\ r = SubSeq(text, k + 1, Len(text))
    /\ loadedUpTo(text)[k].store = s /\ ~ loadedUpTo(text)[k].closed

LEMMA ReadStarts ==
  ASSUME NEW text \in Files
  PROVE  ReadInto(text, text, Empty)
<1>1. Len(text) \in Nat /\ 0 \in 0 .. Len(text) /\ SubSeq(text, 0 + 1, Len(text)) = text
  BY SubSeqFull DEF Files
<1>2. loadedUpTo(text)[0] = NothingLoaded
  BY <1>1, LoadedUpTo DEF Follows
<1> QED
  BY <1>1, <1>2 DEF ReadInto, NothingLoaded

LEMMA ReadEnds ==
  ASSUME NEW text \in Files, NEW s, ReadInto(text, <<>>, s)
  PROVE  loadedFrom(text) = s
<1>1. PICK k \in 0 .. Len(text) : /\ <<>> = SubSeq(text, k + 1, Len(text))
                                  /\ loadedUpTo(text)[k].store = s
  BY DEF ReadInto
<1>2. Len(text) \in Nat
  BY DEF Files
<1>3. ASSUME k < Len(text) PROVE FALSE
  <2>1. k + 1 \in Int /\ Len(text) \in Int /\ k + 1 <= Len(text)
        /\ (\A i \in k + 1 .. Len(text) : text[i] \in Seq(Chars))
    BY <1>2, <1>3 DEF Files
  <2>2. Len(SubSeq(text, k + 1, Len(text))) = Len(text) - (k + 1) + 1
    BY <2>1, SubSeqProperties
  <2> DEFINE r == SubSeq(text, k + 1, Len(text))
  <2>3. r = <<>>
    BY <1>1
  <2> HIDE DEF r
  <2>4. Len(r) = 0
    BY <2>3
  <2>5. Len(r) = Len(text) - (k + 1) + 1
    BY <2>2 DEF r
  <2> QED
    BY <1>2, <1>3, <2>4, <2>5
<1>4. k = Len(text)
  BY <1>2, <1>3
<1> QED
  BY <1>1, <1>4 DEF loadedFrom

LEMMA ReadGoesOn ==
  ASSUME NEW text \in Files, NEW r, NEW s, ReadInto(text, r, s), r # <<>>
  PROVE  LET t == parse(Head(r))
         IN  /\ closesFile(s, t) => loadedFrom(text) = entered(s, t)
             /\ ~ closesFile(s, t) => ReadInto(text, Tail(r), entered(s, t))
<1> DEFINE f == loadedUpTo(text)
           n == Len(text)
           t == parse(Head(r))
<1>1. PICK k \in 0 .. n : /\ r = SubSeq(text, k + 1, n)
                          /\ f[k].store = s /\ ~ f[k].closed
  BY DEF ReadInto
<1>2. n \in Nat
  BY DEF Files
<1>3. k + 1 \in 1 .. n /\ k \in Nat /\ k < n /\ k + 1 \in 0 .. n /\ n \in k + 1 .. n
  <2>1. k # n
    BY <1>1, <1>2, SubSeqEmpty
  <2> QED
    BY <1>2, <2>1
<1>4. Head(r) = text[k + 1] /\ Tail(r) = SubSeq(text, (k + 1) + 1, n)
  BY <1>1, <1>3, HeadTailOfSubSeq DEF Files
<1>5. Follows(f, text, n)
  BY <1>2, LoadedUpTo
<1>6. f[k + 1] = loadedLine(f[k], parse(text[k + 1]))
  BY <1>2, <1>3, <1>5, NextLoaded
<1>7. f[k + 1].store = entered(s, t) /\ (f[k + 1].closed <=> closesFile(s, t))
  BY <1>1, <1>4, <1>6 DEF loadedLine
<1>8. ASSUME closesFile(s, t) PROVE f[n] = f[k + 1]
  BY <1>2, <1>3, <1>5, <1>7, <1>8, ClosedStays
<1>9. closesFile(s, t) => loadedFrom(text) = entered(s, t)
  BY <1>7, <1>8 DEF loadedFrom
<1>10. ASSUME ~ closesFile(s, t) PROVE ReadInto(text, Tail(r), entered(s, t))
  BY <1>3, <1>4, <1>7, <1>10 DEF ReadInto
<1> QED
  BY <1>9, <1>10

\* Entering and removing lines makes stores, and leaves alone what it does not touch.
LEMMA Untouched ==
  ASSUME NEW s, Shaped(s), NEW t, NEW nos
  PROVE  /\ Shaped(Empty) /\ Shaped(removed(s, nos)) /\ Shaped(entered(s, t))
         /\ DOMAIN s.lines \cap nos = {} => removed(s, nos) = s
         /\ ~ touches(s, t) => entered(s, t) = s
<1>1. Shaped(Empty)
  BY DEF Shaped, Empty
<1>2. ASSUME NEW m PROVE Shaped(removed(s, m))
  BY DEF Shaped, removed, Restrict
<1>3. Shaped(inserted(s, t))
  BY DEF Shaped, inserted
<1>4. ASSUME NEW m, DOMAIN s.lines \cap m = {} PROVE removed(s, m) = s
  <2>1. DOMAIN s.lines \ m = DOMAIN s.lines
    BY <1>4
  <2>2. Restrict(s.lines, DOMAIN s.lines) = s.lines
    BY DEF Restrict, Shaped
  <2>3. removed(s, m) = [lines |-> s.lines, end |-> s.end]
    BY <1>4, <2>1, <2>2 DEF removed
  <2> QED
    BY <2>3 DEF Shaped
<1>5. Shaped(entered(s, t))
  BY <1>2, <1>3 DEF entered
<1>6. ASSUME ~ touches(s, t) PROVE entered(s, t) = s
  <2>1. CASE t \notin Text
    BY <2>1 DEF entered
  <2>2. CASE t \in Text /\ t.del
    <3>1. DOMAIN s.lines \cap {t.no} = {}
      BY <1>6, <2>2 DEF touches
    <3> QED
      BY <1>4, <2>2, <3>1 DEF entered
  <2>3. CASE t \in Text /\ ~ t.del
    BY <1>6, <2>3 DEF entered, touches
  <2> QED
    BY <2>1, <2>2, <2>3
<1> QED
  BY <1>1, <1>2, <1>4, <1>5, <1>6

-----------------------------------------------------------------------------
(* The program and the file it came from.                                   *)

FilesAreSound(d) == DOMAIN d = Names /\ \A f \in Names : d[f] \in Files \cup {Absent}

\* While a file is open, the program is what has been read of it.
FileIsRead ==
  loading /\ origin # NoName =>
    disk[origin] # Absent /\ ReadInto(disk[origin], rest, store)

\* The lines of a file make a program like s, unless a text of s says something else.
Makes(file, s) ==
  Alike(s, loadedFrom(file)) \/ \E n \in DOMAIN s.lines : ~ ReadsBack(n, s.lines[n])

\* Afterwards, until it is changed, it is what the whole file makes.
FileIsKept ==
  ~ loading /\ ~ modified /\ origin # NoName =>
    disk[origin] # Absent /\ Makes(disk[origin], store)

LoadInv == FilesAreSound(disk) /\ Shaped(store) /\ FileIsRead /\ FileIsKept

LEMMA InitLoadInv == Init => LoadInv
<1> SUFFICES ASSUME Init PROVE LoadInv
  OBVIOUS
<1>1. FilesAreSound(disk)
  BY DEF Init, FilesAreSound
<1>2. Shaped(store)
  <2>1. store = Empty
    BY DEF Init
  <2>2. Shaped(Empty)
    BY DEF Shaped, Empty
  <2> QED
    BY <2>1, <2>2
<1>3. FileIsRead /\ FileIsKept
  BY DEF Init, FileIsRead, FileIsKept
<1> QED
  BY <1>1, <1>2, <1>3 DEF LoadInv

LEMMA FilesStaySound ==
  ASSUME FilesAreSound(disk), NEW name \in Names, NEW text \in Files,
         NEW d, d = [disk EXCEPT ![name] = text]
  PROVE  FilesAreSound(d) /\ d[name] = text /\ \A f \in Names : f # name => d[f] = disk[f]
BY DEF FilesAreSound

LEMMA FilesExist ==
  /\ Absent \notin Files /\ <<>> \in Files /\ NoName \notin Names
  /\ \A text \in Edited : text \in Files
BY SessionAssumption DEF Files

\* Nothing that matters here changes.
LEMMA NothingKeepsLoadInv ==
  ASSUME LoadInv, UNCHANGED <<store, modified, loading, rest, disk, origin>>
  PROVE  LoadInv'
BY DEF LoadInv, FilesAreSound, FileIsRead, FileIsKept, Shaped

LEMMA RefusedKeepsLoadInv ==
  ASSUME LoadInv, NEW questions, Refused(questions) \/ UnchangedButLast
  PROVE  LoadInv'
BY NothingKeepsLoadInv DEF Refused, UnchangedButLast

\* With no file of its own the program need not be in one.
LEMMA NoOriginKeepsLoadInv ==
  ASSUME FilesAreSound(disk'), Shaped(store'), origin' = NoName
  PROVE  LoadInv'
BY DEF LoadInv, FileIsRead, FileIsKept

\* A change of the program is marked.
LEMMA EditingKeepsLoadInv ==
  ASSUME LoadInv, TypeOK,
         \/ \E text \in Typed : TypeLine(text)
         \/ \E from, to \in LineNos : executeDelete(from, to)
         \/ \E inc \in Increments : executeRenumber(inc)
  PROVE  LoadInv'
<1>1. ASSUME AtPrompt, UNCHANGED <<loading, disk, origin>>, Shaped(store'),
             ~ modified' => ~ modified /\ store' = store
      PROVE  LoadInv'
  BY <1>1 DEF AtPrompt, LoadInv, FilesAreSound, FileIsRead, FileIsKept
<1>2. Shaped(store)
  BY DEF LoadInv
<1>3. ASSUME NEW text \in Typed, TypeLine(text) PROVE LoadInv'
  <2> DEFINE t == parse(text)
  <2>1. AtPrompt /\ UNCHANGED <<loading, disk, origin>> /\ Shaped(store')
    BY <1>2, <1>3, Untouched DEF TypeLine
  <2>2. modified' = (modified \/ touches(store, t)) /\ store' = entered(store, t)
    BY <1>3 DEF TypeLine
  <2> HIDE DEF t
  <2>3. ~ touches(store, t) => entered(store, t) = store
    BY <1>2, Untouched
  <2> QED
    BY <1>1, <2>1, <2>2, <2>3
<1>4. ASSUME NEW from \in LineNos, NEW to \in LineNos, executeDelete(from, to) PROVE LoadInv'
  <2> DEFINE nos == (from .. to) \cap DOMAIN store.lines
  <2>1. /\ AtPrompt /\ UNCHANGED <<loading, disk, origin>>
        /\ modified' = (modified \/ nos # {}) /\ store' = removed(store, nos)
    BY <1>4 DEF executeDelete
  <2>2. nos = {} => DOMAIN store.lines \cap nos = {}
    OBVIOUS
  <2> HIDE DEF nos
  <2>3. Shaped(store') /\ (nos = {} => store' = store)
    BY <1>2, <2>1, <2>2, Untouched
  <2> QED
    BY <1>1, <2>1, <2>3
<1>5. ASSUME NEW inc \in Increments, executeRenumber(inc) PROVE LoadInv'
  <2>1. CASE UnchangedButLast
    BY <2>1, NothingKeepsLoadInv DEF UnchangedButLast
  <2>2. CASE ~ UnchangedButLast
    <3>1. /\ AtPrompt /\ UNCHANGED <<loading, disk>>
          /\ store' = [lines |-> renumbered(store.lines, inc),
                       end |-> endOf(renumbered(store.lines, inc))]
      BY <1>5, <2>2, RenumberSteps
    <3>2. Shaped(store')
      BY <3>1 DEF Shaped, renumbered
    <3>3. (modified' = TRUE /\ origin' = origin) \/ origin' = NoName
      BY <1>5, <2>2, RenumberSteps
    <3>4. CASE modified' = TRUE /\ origin' = origin
      BY <1>1, <3>1, <3>2, <3>4
    <3>5. CASE origin' = NoName
      <4>1. FilesAreSound(disk')
        BY <3>1 DEF LoadInv, FilesAreSound
      <4> QED
        BY <3>2, <3>5, <4>1, NoOriginKeepsLoadInv
    <3> QED
      BY <3>3, <3>4, <3>5
  <2> QED
    BY <2>1, <2>2
<1> QED
  BY <1>3, <1>4, <1>5

\* Another file is written, or this one, which is then none of the program's any more.
LEMMA WritingKeepsLoadInv ==
  ASSUME LoadInv, TypeOK, AtPrompt, NEW name \in Names, NEW text \in Files,
         disk' = [disk EXCEPT ![name] = text],
         origin' = (IF origin = name THEN NoName ELSE origin),
         UNCHANGED <<store, modified, loading>>
  PROVE  LoadInv'
<1> DEFINE d == [disk EXCEPT ![name] = text]
<1>1. FilesAreSound(disk') /\ \A f \in Names : f # name => disk'[f] = disk[f]
  <2>1. FilesAreSound(disk) /\ disk' = d /\ d = [disk EXCEPT ![name] = text]
    BY DEF LoadInv
  <2> HIDE DEF d
  <2>2. FilesAreSound(d) /\ \A f \in Names : f # name => d[f] = disk[f]
    BY <2>1 DEF FilesAreSound
  <2> QED
    BY <2>1, <2>2
<1>2. origin' # NoName => origin' = origin /\ origin \in Names /\ origin # name
  BY DEF TypeOK
<1>3. ~ loading' /\ ~ loading
  BY DEF AtPrompt
<1> QED
  BY <1>1, <1>2, <1>3 DEF LoadInv, FileIsRead, FileIsKept

\* SAVE writes what OLD reads.
LEMMA SavingKeepsLoadInv ==
  ASSUME LoadInv, SInv, NEW operand \in Names \cup {NoName}, executeSave(operand)
  PROVE  LoadInv'
<1> DEFINE name == IF operand = NoName THEN programFilename ELSE operand
           yes  == IF operand = NoName THEN {} ELSE checkOverwrite(operand)
           text == saveProgram(store.lines)
<1>1. text \in Files /\ Makes(text, store)
  <2>1. StoreType(store) /\ EndsAtEnd(store)
    BY DEF SInv, TypeOK, EndIsLast
  <2> QED
    BY <2>1, SavedIsFile, SavedIsLoaded DEF Makes
<1>2. text \in Files /\ \A k \in 0 .. Len(text) : SubSeq(text, 1, k) \in Files
  <2>1. text \in Files
    BY <1>1
  <2> HIDE DEF text
  <2>2. ASSUME NEW k \in 0 .. Len(text) PROVE SubSeq(text, 1, k) \in Files
    <3>1. 1 \in Int /\ k \in Int /\ \A i \in 1 .. k : text[i] \in Seq(Chars)
      BY <2>1 DEF Files
    <3> QED
      BY <3>1, SubSeqProperties DEF Files
  <2> QED
    BY <2>1, <2>2
<1>3. CASE Refused(yes) \/ UnchangedButLast
  BY <1>3, RefusedKeepsLoadInv
<1>4. CASE name # NoName /\ saveTo(name, text, yes) /\ AtPrompt /\ UNCHANGED <<store, loading>>
  <2> HIDE DEF text, yes
  <2>1. name \in Names /\ ~ loading
    BY <1>4 DEF SInv, TypeOK, AtPrompt
  <2> HIDE DEF name
  <2>2. CASE disk' = [disk EXCEPT ![name] = text] /\ modified' = FALSE /\ origin' = name
    <3>1. FilesAreSound(disk') /\ disk'[name] = text
      BY <1>2, <2>1, <2>2, FilesStaySound DEF LoadInv
    <3>2. disk'[name] # Absent
      BY <1>2, <3>1, FilesExist
    <3> QED
      BY <1>1, <1>4, <2>1, <2>2, <3>1, <3>2 DEF LoadInv, FileIsRead, FileIsKept
  <2>3. CASE /\ \E k \in 0 .. Len(text) : disk' = [disk EXCEPT ![name] = SubSeq(text, 1, k)]
             /\ UNCHANGED modified /\ origin' = IF origin = name THEN NoName ELSE origin
    <3>1. PICK k \in 0 .. Len(text) : disk' = [disk EXCEPT ![name] = SubSeq(text, 1, k)]
      BY <2>3
    <3>2. SubSeq(text, 1, k) \in Files
      BY <1>2
    <3> QED
      BY <1>4, <2>1, <2>3, <3>1, <3>2, WritingKeepsLoadInv DEF SInv
  <2> QED
    BY <1>4, <2>2, <2>3 DEF saveTo
<1> QED
  BY <1>3, <1>4 DEF executeSave

\* NEW leaves an empty file, which is the empty program.
LEMMA NewKeepsLoadInv ==
  ASSUME LoadInv, NEW name \in Names \cup {NoName}, executeNew(name)
  PROVE  LoadInv'
<1> DEFINE questions == checkModified \cup (IF name = NoName THEN {} ELSE checkOverwrite(name))
<1>1. CASE Refused(questions)
  BY <1>1, RefusedKeepsLoadInv
<1>2. CASE ~ Refused(questions)
  <2>1. /\ store' = Empty /\ modified' = FALSE /\ ~ loading /\ UNCHANGED loading
        /\ \/ name # NoName /\ disk' = [disk EXCEPT ![name] = <<>>] /\ origin' = name
           \/ UNCHANGED disk /\ origin' = NoName
    BY <1>2 DEF executeNew, AtPrompt
  <2>2. Shaped(store')
    BY <2>1 DEF Shaped, Empty
  <2>3. CASE name # NoName /\ disk' = [disk EXCEPT ![name] = <<>>] /\ origin' = name
    <3>1. FilesAreSound(disk') /\ disk'[name] = <<>> /\ <<>> # Absent /\ <<>> \in Files
      BY <2>3, FilesExist, FilesStaySound DEF LoadInv
    <3>2. Makes(<<>>, Empty)
      <4>1. loadedFrom(<<>>) = Empty
        BY <3>1, ReadStarts, ReadEnds
      <4> QED
        BY <4>1 DEF Makes, Alike
    <3> QED
      BY <2>1, <2>2, <2>3, <3>1, <3>2 DEF LoadInv, FileIsRead, FileIsKept
  <2>4. CASE UNCHANGED disk /\ origin' = NoName
    BY <2>1, <2>2, <2>4 DEF LoadInv, FileIsRead, FileIsKept, FilesAreSound
  <2> QED
    BY <2>1, <2>3, <2>4
<1> QED
  BY <1>1, <1>2

\* A file that is opened has all its lines to come.
LEMMA OpenedIsRead ==
  ASSUME NEW name \in Names, FilesAreSound(disk'), disk'[name] # Absent,
         store' = Empty, loading' = TRUE, rest' = disk'[name], origin' = name
  PROVE  LoadInv'
<1>1. disk'[name] \in Files
  BY DEF FilesAreSound
<1>2. ReadInto(disk'[name], disk'[name], Empty)
  BY <1>1, ReadStarts
<1>3. Shaped(Empty)
  BY DEF Shaped, Empty
<1> QED
  BY <1>2, <1>3 DEF LoadInv, FileIsRead, FileIsKept

LEMMA OpenOldKeepsLoadInv ==
  ASSUME NEW name \in Names, FilesAreSound(disk'), openOld(name, disk')
  PROVE  LoadInv'
<1>1. Shaped(Empty) /\ store' = Empty
  BY DEF Shaped, Empty, openOld
<1>2. CASE /\ disk'[name] # Absent /\ loading' = TRUE /\ rest' = disk'[name] /\ origin' = name
  BY <1>1, <1>2, OpenedIsRead
<1>3. CASE origin' = NoName
  BY <1>1, <1>3, NoOriginKeepsLoadInv
<1> QED
  BY <1>2, <1>3 DEF openOld

LEMMA OpeningKeepsLoadInv ==
  ASSUME LoadInv, TypeOK, (\E name \in Names : executeOld(name)) \/ executeEdit
  PROVE  LoadInv'
<1>1. CASE \E name \in Names : executeOld(name)
  <2>1. PICK name \in Names : executeOld(name)
    BY <1>1
  <2>2. CASE openOld(name, disk)
    <3>1. disk' = disk
      BY <2>2 DEF openOld
    <3>2. FilesAreSound(disk') /\ openOld(name, disk')
      BY <2>2, <3>1 DEF LoadInv
    <3> QED
      BY <3>2, OpenOldKeepsLoadInv
  <2> QED
    BY <2>1, <2>2, RefusedKeepsLoadInv DEF executeOld
<1>2. CASE executeEdit
  <2>1. programFilename \in Names /\ AtPrompt
    BY <1>2 DEF executeEdit, TypeOK
  <2>2. CASE Refused(checkModified)
    BY <2>2, RefusedKeepsLoadInv
  <2>3. CASE ~ Refused(checkModified)
    <3> DEFINE d(text) == [disk EXCEPT ![programFilename] = text]
    <3>1. PICK text \in Edited :
            \/ /\ disk' = d(text)
               /\ origin' = IF origin = programFilename THEN NoName ELSE origin
               /\ UNCHANGED <<store, modified, programFilename, loading, rest, alive, unsaved>>
            \/ openOld(programFilename, d(text))
      BY <1>2, <2>3 DEF executeEdit
    <3>2. text \in Files /\ disk' = d(text)
      BY <3>1, FilesExist DEF openOld
    <3>3. FilesAreSound(disk')
      BY <2>1, <3>2 DEF LoadInv, FilesAreSound
    <3>4. CASE openOld(programFilename, d(text))
      <4>1. openOld(programFilename, disk')
        BY <3>2, <3>4
      <4> QED
        BY <2>1, <3>3, <4>1, OpenOldKeepsLoadInv
    <3>5. CASE /\ origin' = IF origin = programFilename THEN NoName ELSE origin
               /\ UNCHANGED <<store, modified, programFilename, loading, rest, alive, unsaved>>
      BY <2>1, <3>2, <3>5, WritingKeepsLoadInv
    <3> QED
      BY <3>1, <3>4, <3>5
  <2> QED
    BY <2>2, <2>3
<1> QED
  BY <1>1, <1>2

LEMMA ExitKeepsLoadInv ==
  ASSUME LoadInv, NEW cmd, NEW consent, Exit(cmd, consent)
  PROVE  LoadInv'
<1>1. Shaped(Empty) /\ store' = Empty /\ disk' = disk /\ origin' = NoName
  BY DEF Shaped, Empty, Exit
<1>2. FilesAreSound(disk')
  BY <1>1 DEF LoadInv
<1> QED
  BY <1>1, <1>2, NoOriginKeepsLoadInv

LEMMA LeavingKeepsLoadInv ==
  ASSUME LoadInv, TypeOK, executeBye \/ executeReload \/ Quit \/ Start
  PROVE  LoadInv'
<1>1. CASE executeBye \/ Quit
  BY <1>1, RefusedKeepsLoadInv, ExitKeepsLoadInv DEF executeBye, Quit
<1>2. CASE executeReload
  <2>1. CASE Refused(checkModified) \/ Exit("bye", checkModified)
    BY <2>1, RefusedKeepsLoadInv, ExitKeepsLoadInv
  <2>2. CASE ~ (Refused(checkModified) \/ Exit("bye", checkModified))
    <3>1. /\ programFilename # NoName /\ store' = Empty /\ disk' = disk
          /\ \/ /\ disk[programFilename] # Absent /\ loading' = TRUE
                /\ rest' = disk[programFilename] /\ origin' = programFilename
             \/ origin' = NoName
      BY <1>2, <2>2 DEF executeReload
    <3>2. programFilename \in Names /\ FilesAreSound(disk') /\ Shaped(Empty)
      BY <3>1 DEF TypeOK, LoadInv, Shaped, Empty
    <3>3. CASE origin' = NoName
      BY <3>1, <3>2, <3>3, NoOriginKeepsLoadInv
    <3>4. CASE origin' # NoName
      BY <3>1, <3>2, <3>4, OpenedIsRead
    <3> QED
      BY <3>3, <3>4
  <2> QED
    BY <2>1, <2>2
<1>3. CASE Start
  <2>1. CASE UNCHANGED <<store, modified, programFilename, loading, rest, disk, unsaved, origin>>
    BY <2>1, NothingKeepsLoadInv
  <2>2. CASE \E name \in Names : openOld(name, disk)
    <3>1. PICK name \in Names : openOld(name, disk)
      BY <2>2
    <3>2. disk' = disk
      BY <3>1 DEF openOld
    <3>3. FilesAreSound(disk') /\ openOld(name, disk')
      BY <3>1, <3>2 DEF LoadInv
    <3> QED
      BY <3>3, OpenOldKeepsLoadInv
  <2> QED
    BY <1>3, <2>1, <2>2 DEF Start
<1> QED
  BY <1>1, <1>2, <1>3

LEMMA ReadingKeepsLoadInv ==
  ASSUME LoadInv, TypeOK, ReadLine \/ EndOfFile \/ ReadError
  PROVE  LoadInv'
<1>1. loading /\ disk' = disk /\ FilesAreSound(disk')
  BY DEF ReadLine, EndOfFile, ReadError, LoadInv
<1>2. CASE origin' = NoName
  <2>1. Shaped(store')
    <3>1. Shaped(store) /\ \A t : Shaped(entered(store, t))
      BY Untouched DEF LoadInv
    <3> QED
      BY <3>1 DEF ReadLine, EndOfFile, ReadError
  <2> QED
    BY <1>1, <1>2, <2>1, NoOriginKeepsLoadInv
<1>3. CASE origin' # NoName
  <2> DEFINE text == disk[origin]
  <2>1. origin' = origin /\ origin \in Names /\ ~ ReadError
    BY <1>3 DEF ReadLine, EndOfFile, ReadError, TypeOK
  <2>2. text \in Files /\ text # Absent /\ ReadInto(text, rest, store) /\ Shaped(store)
    BY <1>1, <1>3, <2>1 DEF LoadInv, FileIsRead, FilesAreSound
  <2>3. disk'[origin'] = text
    BY <1>1, <2>1
  <2> HIDE DEF text
  <2>4. CASE EndOfFile
    <3>1. Makes(text, store)
      <4>1. loadedFrom(text) = store
        BY <2>2, <2>4, ReadEnds DEF EndOfFile
      <4> QED
        BY <4>1 DEF Makes, Alike
    <3>2. loading' = FALSE /\ store' = store
      BY <2>4 DEF EndOfFile, closeProgramFile
    <3> QED
      BY <1>1, <2>2, <2>3, <3>1, <3>2 DEF LoadInv, FileIsRead, FileIsKept
  <2>5. CASE ReadLine
    <3> DEFINE t == parse(Head(rest))
    <3>1. rest # <<>> /\ store' = entered(store, t)
      BY <2>5 DEF ReadLine
    <3>2. Shaped(store')
      BY <2>2, <3>1, Untouched
    <3>3. /\ closesFile(store, t) => Makes(text, entered(store, t))
          /\ ~ closesFile(store, t) => ReadInto(text, Tail(rest), entered(store, t))
      <4>1. /\ closesFile(store, t) => loadedFrom(text) = entered(store, t)
            /\ ~ closesFile(store, t) => ReadInto(text, Tail(rest), entered(store, t))
        BY <2>2, <3>1, ReadGoesOn
      <4> HIDE DEF t
      <4>2. \A q : Alike(q, q)
        BY DEF Alike
      <4> QED
        BY <4>1, <4>2 DEF Makes
    <3>4. /\ closesFile(store, t) => loading' = FALSE
          /\ ~ closesFile(store, t) => loading' = loading /\ rest' = Tail(rest)
      BY <2>5 DEF ReadLine, closeProgramFile
    <3> HIDE DEF t
    <3>5. CASE closesFile(store, t)
      BY <1>1, <2>2, <2>3, <3>1, <3>2, <3>3, <3>4, <3>5 DEF LoadInv, FileIsRead, FileIsKept
    <3>6. CASE ~ closesFile(store, t)
      BY <1>1, <2>2, <2>3, <3>1, <3>2, <3>3, <3>4, <3>6 DEF LoadInv, FileIsRead, FileIsKept
    <3> QED
      BY <3>5, <3>6
  <2> QED
    BY <2>1, <2>4, <2>5
<1> QED
  BY <1>2, <1>3

\* The program is the one its file holds, for every sequence of commands and every failure:
\* what SAVE writes of a program the parser reads as that program, and nothing comes between,
\* as long as the text of each line, which RENUMBER may have garbled, says what the line is.
THEOREM SavedIsReloadable == Spec => []UnmodifiedMeansReloadable
<1>1. SInv /\ LoadInv /\ [Next]_vars => LoadInv'
  <2> SUFFICES ASSUME SInv, LoadInv, [Next]_vars PROVE LoadInv'
    OBVIOUS
  <2>1. TypeOK
    BY DEF SInv
  <2>2. CASE UNCHANGED vars
    BY <2>2, NothingKeepsLoadInv DEF vars
  <2>3. CASE \/ \E text \in Typed : TypeLine(text)
             \/ \E from, to \in LineNos : executeDelete(from, to)
             \/ \E inc \in Increments : executeRenumber(inc)
    BY <2>1, <2>3, EditingKeepsLoadInv
  <2>4. CASE \E name \in Names \cup {NoName} : executeSave(name) \/ executeNew(name)
    BY <2>4, SavingKeepsLoadInv, NewKeepsLoadInv
  <2>5. CASE (\E name \in Names : executeOld(name)) \/ executeEdit
    BY <2>1, <2>5, OpeningKeepsLoadInv
  <2>6. CASE executeBye \/ executeReload \/ Quit \/ Start
    BY <2>1, <2>6, LeavingKeepsLoadInv
  <2>7. CASE ReadLine \/ EndOfFile \/ ReadError
    BY <2>1, <2>7, ReadingKeepsLoadInv
  <2> QED
    BY <2>2, <2>3, <2>4, <2>5, <2>6, <2>7 DEF Next, Command
<1>2. LoadInv => UnmodifiedMeansReloadable
  BY DEF LoadInv, FileIsKept, Makes, UnmodifiedMeansReloadable
<1> QED
  BY <1>1, <1>2, InitLoadInv, StoreIsSound, PTL DEF Spec

=============================================================================
