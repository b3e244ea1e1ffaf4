----------------------------- MODULE ForLoopProofs -----------------------------
(***************************************************************************)
(* EveryValueOnce, for integers and floats of every width.                 *)
(*                                                                         *)
(* While the body leaves the variable alone it has, in body number k, the  *)
(* value from + (k - 1) * step, in exact arithmetic: an integer does not   *)
(* wrap, a float is not rounded.  The invariant says so, and says of each  *)
(* of these values whether it ends the loop; the values that do not are    *)
(* then counted.                                                           *)
(***************************************************************************)
EXTENDS ForLoopProps, Sequences, FiniteSetTheorems, TLAPS

Numbers == IF vType = "IVAR" THEN IntMin .. IntMax ELSE Int

Phases == {"FOR", "body", "NEXT", "again", "after", "zero STEP"} \cup Overrun

Types ==
  /\ phase \in Phases /\ vType \in {"IVAR", "FVAR"} /\ assigned \in BOOLEAN /\ count \in Nat
  /\ value \in Numbers /\ from \in Numbers
  /\ item \in [while : BOOLEAN, to : Numbers, step : Int \ {0}, saved : Seq(Numbers)]
  /\ phase = "again" => Len(item.saved) = 1

\* The variable after k steps.
Term(k) == from + k * item.step

Ends(v) == checkLoopTermination(v, item.to, item.step)

\* The loop can reach its limit, and step over it, without rounding.
Representable == vType = "FVAR" => {from, item.to + item.step} \subseteq - Exact .. Exact

InBody == count >= 1 /\ value = Term(count - 1) /\ ~ Ends(value)

Stepped ==
  count >= 1 /\ value = Term(count) /\ item.saved[1] = Term(count - 1) /\ ~ Ends(item.saved[1])

Left == IF Ends(from) THEN count = 0 /\ value = from ELSE InBody /\ Ends(Term(count))

Stuck == IF vType = "IVAR" THEN value + item.step \notin minForInteger .. maxForInteger
         ELSE Abs(value) >= Shown

IInv ==
  /\ Types
  /\ AsWritten /\ Representable =>
       /\ phase \in {"body", "NEXT"} => InBody
       /\ phase = "again" => Stepped
       /\ phase = "after" => Left
       /\ phase \in Overrun => InBody /\ Stuck
-----------------------------------------------------------------------------
\* Arithmetic

LEMMA Multiples ==
  ASSUME NEW s \in Int, NEW k \in Nat
  PROVE  /\ k * s \in Int
         /\ k >= 1 => k * s = (k - 1) * s + s
         /\ s > 0 => k * s >= k
         /\ s < 0 => k * s <= - k
OBVIOUS

\* An integer in range is what it wraps to, and nothing wraps to any other.
LEMMA Int16 ==
  ASSUME NEW n \in Int
  PROVE  int16(n) \in IntMin .. IntMax /\ (n \in IntMin .. IntMax => int16(n) = n)
<1>1. IntMax \in Nat
  BY ForLoopAssumption
<1> QED
  BY <1>1 DEF int16, IntMin

\* A sum of floats is exact in the exact range.
LEMMA PlusExact ==
  ASSUME NEW m \in Int, NEW n \in Int
  PROVE  plus(m, n) \in Int /\ (m + n \in - Exact .. Exact => plus(m, n) = m + n)
<1> DEFINE sum == m + n
<1>1. Exact \in Nat /\ sum \in Int /\ Abs(sum) \in Nat
  BY ForLoopAssumption DEF Abs
<1>2. CASE Abs(sum) > 2 * Exact
  <2>1. Abs(sum) > 0 /\ sum \div Abs(sum) \in Int
    BY <1>1, <1>2
  <2>2. ~ (sum \in - Exact .. Exact)
    BY <1>1, <1>2 DEF Abs
  <2>3. plus(m, n) = 2 * Exact * (sum \div Abs(sum))
    BY <1>2 DEF plus
  <2> HIDE DEF sum
  <2>4. 2 * Exact * (sum \div Abs(sum)) \in Int
    BY <1>1, <2>1
  <2> QED
    BY <2>2, <2>3, <2>4 DEF sum
<1>3. CASE ~ (Abs(sum) > 2 * Exact)
  <2>1. plus(m, n) \in {sum, sum + 1, sum - 1}
    BY <1>3 DEF plus
  <2>2. sum \in - Exact .. Exact => Abs(sum) <= Exact
    BY <1>1 DEF Abs
  <2>3. Abs(sum) <= Exact => plus(m, n) = sum
    BY <1>3 DEF plus
  <2> QED
    BY <1>1, <2>1, <2>2, <2>3
<1> QED
  BY <1>2, <1>3
-----------------------------------------------------------------------------
\* The invariant

LEMMA Start == Init => IInv
<1> SUFFICES ASSUME Init PROVE IInv
  OBVIOUS
<1>1. IntMax \in Nat
  BY ForLoopAssumption
<1>2. Numbers \subseteq Int /\ 0 \in Numbers
  BY <1>1 DEF Numbers, IntMin
<1>3. item \in [while : BOOLEAN, to : Numbers, step : Int \ {0}, saved : Seq(Numbers)]
  BY <1>2 DEF Init
<1>4. Types
  BY <1>2, <1>3 DEF Init, Types, Phases
<1> QED
  BY <1>4 DEF Init, IInv, AsWritten

\* What FOR's expressions give is a number of the variable's type.
LEMMA ValuesAreNumbers ==
  ASSUME vType \in {"IVAR", "FVAR"}
  PROVE  Values \subseteq Numbers /\ Numbers \subseteq Int
<1>1. IntMax \in Nat /\ Exact \in Nat
  BY ForLoopAssumption
<1> QED
  BY <1>1, ForLoopAssumption DEF Values, Numbers, IntMin

\* The values before the one that ends the loop, and that one, are not rounded.
LEMMA TermInReach ==
  ASSUME Types, Representable, vType = "FVAR", NEW n \in Nat, n >= 1, ~ Ends(Term(n - 1))
  PROVE  Term(n) \in - Exact .. Exact
<1> DEFINE s == item.step
           m == n * s
           l == (n - 1) * s
<1>1. s \in Int /\ s # 0 /\ from \in Int /\ item.to \in Int
  BY DEF Types, Numbers
<1>2. Exact \in Nat /\ from \in - Exact .. Exact /\ item.to + s \in - Exact .. Exact
  BY ForLoopAssumption DEF Representable
<1>3. m \in Int /\ l \in Int /\ m = l + s /\ (s > 0 => m >= n) /\ (s < 0 => m <= - n)
  BY <1>1, Multiples
<1>4. Term(n) = from + m /\ Term(n - 1) = from + l
  BY DEF Term
<1>5. IF s > 0 THEN ~ (from + l > item.to) ELSE ~ (from + l < item.to)
  BY <1>4 DEF Ends, checkLoopTermination
<1> HIDE DEF s, m, l
<1> QED
  BY <1>1, <1>2, <1>3, <1>4, <1>5

LEMMA StepsOfTerm ==
  ASSUME Types, NEW n \in Nat, n >= 1
  PROVE  Term(n) = Term(n - 1) + item.step /\ Term(n) \in Int /\ Term(n - 1) \in Int /\ Term(0) = from
<1>1. item.step \in Int /\ from \in Int
  <2>1. IntMax \in Nat
    BY ForLoopAssumption
  <2> QED
    BY <2>1 DEF Types, Numbers, IntMin
<1>2. n * item.step \in Int /\ n * item.step = (n - 1) * item.step + item.step
  BY <1>1, Multiples
<1>3. n - 1 \in Nat /\ (n - 1) * item.step \in Int
  BY <1>1, Multiples
<1>4. 0 * item.step = 0
  BY <1>1
<1> QED
  BY <1>1, <1>2, <1>3, <1>4 DEF Term

\* A loop has fewer values than count can count.
LEMMA FewTerms ==
  ASSUME Types, Representable, NEW n \in Nat, n >= 1, ~ Ends(Term(n - 1))
  PROVE  n < TooMany
<1> DEFINE s == item.step
           l == (n - 1) * s
<1>1. IntMax \in Nat /\ Exact \in Nat
  BY ForLoopAssumption
<1>2. s \in Int /\ s # 0 /\ from \in Int /\ item.to \in Int
  BY <1>1 DEF Types, Numbers, IntMin
<1>3. n - 1 \in Nat /\ l \in Int /\ (s > 0 => l >= n - 1) /\ (s < 0 => l <= - (n - 1))
  BY <1>2, Multiples
<1>4. IF s > 0 THEN ~ (from + l > item.to) ELSE ~ (from + l < item.to)
  BY DEF Ends, checkLoopTermination, Term
<1>5. CASE vType = "IVAR"
  <2>1. from \in - IntMax - 1 .. IntMax /\ item.to \in - IntMax - 1 .. IntMax
    BY <1>5 DEF Types, Numbers, IntMin
  <2> HIDE DEF s, l
  <2> QED
    BY <1>1, <1>2, <1>3, <1>4, <2>1 DEF TooMany
<1>6. CASE vType = "FVAR"
  <2>1. from \in - Exact .. Exact /\ item.to + s \in - Exact .. Exact
    BY <1>6 DEF Representable
  <2> HIDE DEF s, l
  <2> QED
    BY <1>1, <1>2, <1>3, <1>4, <2>1 DEF TooMany
<1> QED
  BY <1>5, <1>6 DEF Types

\* The FOR is reached from outside.
LEMMA ForStep ==
  ASSUME IInv, NEW v \in Values, NEW to \in Values, NEW step \in Values, NEW while \in BOOLEAN,
         executeFor(v, to, step, while)
  PROVE  IInv'
<1>1. vType' = vType /\ vType \in {"IVAR", "FVAR"} /\ Types
  BY DEF IInv, Types, executeFor
<1>2. v \in Numbers /\ to \in Numbers /\ Numbers' = Numbers /\ v \in Int /\ to \in Int /\ step \in Int
  BY <1>1, ValuesAreNumbers DEF Numbers
<1>3. CASE step = 0
  <2>1. phase' = "zero STEP" /\ UNCHANGED <<value, item, from, count, assigned>>
    BY <1>3 DEF executeFor, Error
  <2>2. Types'
    BY <1>1, <1>2, <2>1 DEF Types, Phases
  <2> QED
    BY <2>1, <2>2 DEF IInv, Overrun
<1>4. CASE step # 0
  <2>1. /\ item' = [while |-> while, to |-> to, step |-> step, saved |-> <<>>]
        /\ from' = v /\ value' = v /\ assigned' = FALSE
    BY <1>4 DEF executeFor
  <2>2. \/ phase' = "after" /\ count' = 0 /\ (while \/ checkLoopTermination(v, to, step))
        \/ phase' = "body" /\ count' = 1 /\ (while \/ ~ checkLoopTermination(v, to, step))
    BY <1>4 DEF executeFor
  <2>3. item' \in [while : BOOLEAN, to : Numbers', step : Int \ {0}, saved : Seq(Numbers')]
    BY <1>2, <1>4, <2>1
  <2>4. Types'
    <3>1. phase' \in Phases /\ phase' # "again" /\ count' \in Nat
      <4>1. phase' \in {"after", "body"} /\ count' \in {0, 1}
        BY <2>2, Zenon
      <4>2. count' \in Nat
        BY <4>1
      <4>3. phase' \in Phases /\ phase' # "again"
        BY <4>1, Zenon DEF Phases
      <4> QED
        BY <4>2, <4>3
    <3>2. vType' \in {"IVAR", "FVAR"} /\ assigned' \in BOOLEAN /\ value' \in Numbers' /\ from' \in Numbers'
      BY <1>1, <1>2, <2>1
    <3> QED
      BY <2>3, <3>1, <3>2 DEF Types
  <2>5. item'.while = while /\ item'.to = to /\ item'.step = step
    BY <2>1
  <2>6. v + 0 * step = v
    BY <1>2
  <2>7. ASSUME ~ while, phase' = "body" PROVE InBody'
    BY <2>1, <2>2, <2>5, <2>6, <2>7 DEF InBody, Term, Ends
  <2>8. ASSUME ~ while, phase' = "after" PROVE Left'
    BY <2>1, <2>2, <2>5, <2>8 DEF Left, Ends
  <2> QED
    BY <2>2, <2>4, <2>5, <2>7, <2>8 DEF IInv, AsWritten, Overrun
<1> QED
  BY <1>3, <1>4

\* From the NEXT: the value of the variable is the next one, or the loop ends and it becomes the
\* last one again.
LEMMA IterateStep == IInv /\ iterateFor => IInv'
<1> SUFFICES ASSUME IInv, iterateFor PROVE IInv'
  OBVIOUS
<1>1. Types /\ phase = "again" /\ UNCHANGED <<vType, item, from, assigned>>
  BY DEF IInv, iterateFor
<1>2. Numbers' = Numbers /\ item.saved[1] \in Numbers
  BY <1>1 DEF Numbers, Types
<1>3. \/ /\ phase' = "after" /\ count' = count
         /\ item.while \/ Ends(value)
         /\ value' = IF item.while THEN value ELSE item.saved[1]
      \/ /\ phase' = "body" /\ count' = Counted(count) /\ value' = value
         /\ item.while \/ ~ Ends(value)
  BY DEF iterateFor, Ends
<1>4. Types'
  <2>1. item' \in [while : BOOLEAN, to : Numbers', step : Int \ {0}, saved : Seq(Numbers')]
    BY <1>1, <1>2 DEF Types
  <2>2. phase' \in Phases /\ phase' # "again"
    BY <1>3 DEF Phases
  <2>3. count' \in Nat
    BY <1>1, <1>3 DEF Types, Counted
  <2>4. value' \in Numbers' /\ from' \in Numbers'
    BY <1>1, <1>2, <1>3 DEF Types
  <2> QED
    BY <1>1, <2>1, <2>2, <2>3, <2>4 DEF Types
<1>5. ASSUME AsWritten', Representable' PROVE (phase' = "body" => InBody') /\ (phase' = "after" => Left')
  <2>1. ~ item.while /\ ~ assigned /\ Stepped
    BY <1>1, <1>5 DEF IInv, AsWritten, Representable
  <2>2. count \in Nat /\ count >= 1 /\ value = Term(count) /\ item.saved[1] = Term(count - 1)
        /\ ~ Ends(Term(count - 1))
    BY <1>1, <2>1 DEF Stepped, Types
  <2>3. \A n : Term(n)' = from + n * item.step
    BY <1>1 DEF Term
  <2>4. CASE phase' = "body"
    <3>1. count' = count + 1 /\ count' - 1 = count /\ ~ Ends(value) /\ value' = value
      <4>1. Representable
        BY <1>1, <1>5 DEF Representable
      <4>2. count < TooMany
        BY <1>1, <2>2, <4>1, FewTerms
      <4>3. TooMany \in Int
        BY ForLoopAssumption DEF TooMany
      <4> QED
        BY <1>3, <2>1, <2>2, <2>4, <4>2, <4>3 DEF Counted
    <3> QED
      BY <1>1, <2>2, <2>4, <3>1 DEF InBody, Term, Ends
  <2>5. CASE phase' = "after"
    <3>1. count' = count /\ Ends(value) /\ value' = item.saved[1]
      BY <1>3, <2>1, <2>5
    <3>2. ~ Ends(from)
      <4>1. item.step \in Int \ {0} /\ item.to \in Int /\ from \in Int
        <5>1. Numbers \subseteq Int
          BY <1>1, ValuesAreNumbers DEF Types
        <5> QED
          BY <1>1, <5>1 DEF Types
      <4>2. /\ (count - 1) * item.step \in Int
            /\ item.step > 0 => (count - 1) * item.step >= 0
            /\ item.step < 0 => (count - 1) * item.step <= 0
        <5>1. count - 1 \in Nat
          BY <2>2
        <5>2. \A s \in Int, k \in Nat : k * s \in Int /\ (s > 0 => k * s >= k) /\ (s < 0 => k * s <= - k)
          BY Multiples
        <5> QED
          BY <4>1, <5>1, <5>2
      <4> DEFINE m == (count - 1) * item.step
      <4>3. ~ checkLoopTermination(from + m, item.to, item.step)
        BY <2>2 DEF Ends, Term
      <4> HIDE DEF m
      <4> QED
        BY <4>1, <4>2, <4>3 DEF Ends, checkLoopTermination, m
    <3> QED
      BY <1>1, <2>2, <2>5, <3>1, <3>2 DEF Left, InBody, Term, Ends
  <2> QED
    BY <2>4, <2>5
<1> QED
  BY <1>3, <1>4, <1>5 DEF IInv, Overrun

\* The body leaves the variable alone, or assigns it, or is left.
LEMMA BodyStep ==
  ASSUME IInv, \/ leaveAlone
               \/ jump
               \/ \E v \in Values : assign(v)
  PROVE  IInv'
<1>1. Types /\ vType' = vType /\ item' = item
  BY DEF IInv, leaveAlone, jump, assign
<1>2. Numbers' = Numbers /\ 0 \in Numbers /\ Values \subseteq Numbers
  <2>1. IntMax \in Nat
    BY ForLoopAssumption
  <2> QED
    BY <1>1, <2>1, ValuesAreNumbers DEF Numbers, IntMin, Types
<1>3. Types'
  <2>1. phase' \in {"NEXT", "FOR"}
    BY DEF leaveAlone, jump, assign
  <2>2. phase' \in Phases /\ phase' # "again"
    BY <2>1, Zenon DEF Phases
  <2>3. value' \in Numbers /\ from' \in Numbers /\ count' \in Nat
    BY <1>1, <1>2 DEF leaveAlone, jump, assign, Types
  <2>4. assigned' \in BOOLEAN
    BY <1>1, Zenon DEF leaveAlone, jump, assign, Types
  <2> QED
    BY <1>1, <1>2, <2>2, <2>3, <2>4 DEF Types
<1>4. CASE leaveAlone
  <2>1. phase = "body" /\ phase' = "NEXT" /\ UNCHANGED <<vType, value, item, from, count, assigned>>
    BY <1>4 DEF leaveAlone
  <2>2. ASSUME AsWritten', Representable' PROVE InBody'
    <3>1. InBody
      BY <2>1, <2>2 DEF IInv, AsWritten, Representable
    <3> QED
      BY <2>1, <3>1 DEF InBody, Term, Ends
  <2> QED
    BY <1>3, <2>1, <2>2 DEF IInv, Overrun
<1>5. CASE jump
  BY <1>3, <1>5 DEF IInv, jump, AsWritten
<1>6. CASE \E v \in Values : assign(v)
  BY <1>3, <1>6 DEF IInv, assign, AsWritten
<1> QED
  BY <1>4, <1>5, <1>6

\* The variable is stepped: what comes next is no more than a step beyond the limit, and an
\* integer that has room is not wrapped, a float that is exact not rounded.
LEMMA Advances ==
  ASSUME IInv, phase = "NEXT", NEW next \in Numbers, Steps(next), vType' = vType,
         AsWritten /\ Representable /\ InBody => next = value + item.step
  PROVE  IInv'
<1>1. Types /\ phase' = "again" /\ value' = next /\ item' = [item EXCEPT !.saved = <<value>>]
      /\ UNCHANGED <<vType, from, count, assigned>>
  BY DEF IInv, Steps
<1>2. /\ item'.step = item.step /\ item'.to = item.to /\ item'.while = item.while
      /\ item'.saved = <<value>> /\ item'.saved[1] = value
  BY <1>1 DEF Types
<1>3. Numbers' = Numbers
  BY <1>1 DEF Numbers
<1>4. Types'
  <2>1. phase' \in Phases
    BY <1>1, Zenon DEF Phases
  <2>2. item' \in [while : BOOLEAN, to : Numbers', step : Int \ {0}, saved : Seq(Numbers')]
    <3>1. value \in Numbers /\ <<value>> \in Seq(Numbers)
      BY <1>1 DEF Types
    <3> QED
      BY <1>1, <1>3, <3>1 DEF Types
  <2>3. Len(item'.saved) = 1
    BY <1>2
  <2> QED
    BY <1>1, <1>3, <2>1, <2>2, <2>3 DEF Types
<1>5. ASSUME AsWritten', Representable' PROVE Stepped'
  <2>1. AsWritten /\ Representable
    BY <1>1, <1>2, <1>5 DEF AsWritten, Representable
  <2>2. InBody
    BY <2>1 DEF IInv
  <2>3. next = value + item.step
    BY <2>1, <2>2
  <2>4. count \in Nat /\ count >= 1 /\ value = Term(count - 1) /\ ~ Ends(value)
    BY <1>1, <2>2 DEF InBody, Types
  <2>5. next = Term(count)
    BY <1>1, <2>3, <2>4, StepsOfTerm
  <2>6. Term(count)' = Term(count) /\ Term(count - 1)' = Term(count - 1)
    BY <1>1, <1>2 DEF Term
  <2>7. Ends(value)' <=> Ends(next)
    BY <1>1, <1>2 DEF Ends
  <2> QED
    BY <1>1, <1>2, <2>4, <2>5 DEF Stepped, Term, Ends
<1> QED
  BY <1>1, <1>4, <1>5 DEF IInv, Overrun

LEMMA IntegerStep == IInv /\ incrementInteger => IInv'
<1> SUFFICES ASSUME IInv, incrementInteger PROVE IInv'
  OBVIOUS
<1>1. Types /\ phase = "NEXT" /\ vType = "IVAR" /\ vType' = vType
  BY DEF IInv, incrementInteger
<1>2. /\ IntMax \in Nat /\ maxForInteger \in 1 .. IntMax - 1
      /\ Numbers = IntMin .. IntMax /\ value \in IntMin .. IntMax
      /\ item.step \in Int /\ item.step # 0 /\ value + item.step \in Int
  BY <1>1, ForLoopAssumption DEF Numbers, Types, IntMin
<1>3. CASE InForRange(value, item.step)
  <2>1. value + item.step \in IntMin .. IntMax
    BY <1>2, <1>3 DEF InForRange, IntMin, minForInteger
  <2>2. int16(value + item.step) \in Numbers /\ int16(value + item.step) = value + item.step
    BY <1>2, <2>1, Int16
  <2> QED
    BY <1>1, <1>3, <2>2, Advances DEF incrementInteger
<1>4. CASE ~ InForRange(value, item.step)
  <2>1. phase' = "FOR overflow" /\ UNCHANGED <<value, item, from, count, assigned>>
    BY <1>4 DEF incrementInteger, Error
  <2>2. Types'
    <3>1. phase' \in Phases /\ phase' # "again"
      BY <2>1, Zenon DEF Phases, Overrun
    <3>2. Numbers' = Numbers
      BY <1>1 DEF Numbers
    <3> QED
      BY <1>1, <2>1, <3>1, <3>2 DEF Types
  <2>3. value + item.step \notin minForInteger .. maxForInteger
    BY <1>2, <1>4 DEF InForRange, minForInteger
  <2>4. ASSUME AsWritten', Representable' PROVE InBody' /\ Stuck'
    <3>1. InBody
      BY <1>1, <2>1, <2>4 DEF IInv, AsWritten, Representable
    <3> QED
      BY <1>1, <2>1, <2>3, <3>1 DEF InBody, Term, Ends, Stuck
  <2> QED
    BY <2>1, <2>2, <2>4 DEF IInv
<1> QED
  BY <1>3, <1>4

LEMMA FloatStep == IInv /\ incrementFloat => IInv'
<1> SUFFICES ASSUME IInv, incrementFloat PROVE IInv'
  OBVIOUS
<1> DEFINE next == plus(value, item.step)
<1>1. Types /\ phase = "NEXT" /\ vType = "FVAR" /\ vType' = vType
  BY DEF IInv, incrementFloat
<1>2. /\ Numbers = Int /\ value \in Int /\ item.step \in Int /\ item.step # 0
      /\ value + item.step \in Int /\ next \in Numbers
  <2>1. Numbers = Int
    BY <1>1 DEF Numbers
  <2>2. value \in Int /\ item.step \in Int /\ item.step # 0
    BY <1>1, <2>1 DEF Types
  <2>3. next \in Int
    BY <2>2, PlusExact
  <2> HIDE DEF next
  <2> QED
    BY <2>1, <2>2, <2>3
<1>3. ASSUME AsWritten, Representable, InBody PROVE next = value + item.step
  <2>1. count \in Nat /\ count >= 1 /\ value = Term(count - 1) /\ ~ Ends(Term(count - 1))
    BY <1>1, <1>3 DEF InBody, Types
  <2>2. Term(count) \in - Exact .. Exact
    BY <1>1, <1>3, <2>1, TermInReach
  <2>3. Term(count) = value + item.step
    BY <1>1, <2>1, StepsOfTerm
  <2> QED
    BY <1>2, <2>2, <2>3, PlusExact
<1>4. CASE ~ floatValuesApproxEqual(next, value)
  <2>1. Steps(next)
    BY <1>4 DEF incrementFloat
  <2> HIDE DEF next
  <2> QED
    BY <1>1, <1>2, <1>3, <2>1, Advances
<1>5. CASE floatValuesApproxEqual(next, value)
  <2>1. phase' = "infinite loop" /\ UNCHANGED <<value, item, from, count, assigned>>
    BY <1>5 DEF incrementFloat, Error
  <2>2. Types'
    <3>1. phase' \in Phases /\ phase' # "again"
      BY <2>1, Zenon DEF Phases, Overrun
    <3>2. Numbers' = Numbers
      BY <1>1 DEF Numbers
    <3> QED
      BY <1>1, <2>1, <3>1, <3>2 DEF Types
  <2>3. ASSUME AsWritten', Representable' PROVE InBody' /\ Stuck'
    <3>1. AsWritten /\ Representable
      BY <1>1, <2>1, <2>3 DEF AsWritten, Representable
    <3>2. InBody
      BY <1>1, <3>1 DEF IInv
    <3>3. next # value
      BY <1>2, <1>3, <3>1, <3>2
    <3>4. Abs(value) >= Shown
      BY <1>5, <3>3 DEF floatValuesApproxEqual
    <3> QED
      BY <1>1, <2>1, <3>2, <3>4 DEF InBody, Term, Ends, Stuck
  <2> QED
    BY <2>1, <2>2, <2>3 DEF IInv
<1> QED
  BY <1>4, <1>5

\* The variable has the values that are written, and no other.
THEOREM LoopFollowsItsValues == Spec => []IInv
<1>1. IInv /\ UNCHANGED vars => IInv'
  <2> SUFFICES ASSUME IInv, UNCHANGED vars PROVE IInv'
    OBVIOUS
  <2>1. phase' = phase /\ vType' = vType /\ value' = value /\ item' = item /\ from' = from
        /\ count' = count /\ assigned' = assigned
    BY DEF vars
  <2> QED
    BY <2>1 DEF IInv, Types, Numbers, AsWritten, Representable, InBody, Stepped, Left, Stuck, Term, Ends
<1>2. IInv /\ Next => IInv'
  <2> SUFFICES ASSUME IInv, Next PROVE IInv'
    OBVIOUS
  <2>1. CASE \E v, to, step \in Values : executeFor(v, to, step, FALSE)
    BY <2>1, ForStep
  <2>2. CASE \E v, step \in Values : executeFor(v, v, step, TRUE)
    BY <2>2, ForStep
  <2>3. CASE Iterates
    BY <2>3, IterateStep, BodyStep, IntegerStep, FloatStep DEF Iterates
  <2>4. CASE jump \/ \E v \in Values : assign(v)
    BY <2>4, BodyStep
  <2> QED
    BY <2>1, <2>2, <2>3, <2>4 DEF Next
<1> QED
  BY Start, <1>1, <1>2, PTL DEF Spec
-----------------------------------------------------------------------------
\* Counting the values

LEMMA Scaled ==
  ASSUME NEW a \in Int, NEW b \in Int, NEW s \in Int, a < b
  PROVE  (s > 0 => a * s + s <= b * s) /\ (s < 0 => a * s + s >= b * s)
<1> DEFINE d == b - a
<1>1. d \in Int /\ d >= 1 /\ b = a + d
  OBVIOUS
<1>2. b * s = a * s + d * s /\ a * s \in Int /\ d * s \in Int
  BY <1>1
<1>3. (s > 0 => d * s >= s) /\ (s < 0 => d * s <= s)
  <2>1. d * s = (d - 1) * s + s /\ d - 1 \in Nat
    BY <1>1
  <2>2. (s > 0 => (d - 1) * s >= d - 1) /\ (s < 0 => (d - 1) * s <= - (d - 1)) /\ (d - 1) * s \in Int
    BY <2>1, Multiples
  <2> QED
    BY <1>1, <2>1, <2>2
<1> QED
  BY <1>2, <1>3

LEMMA Remainder ==
  ASSUME NEW n \in Int, NEW d \in Nat \ {0}
  PROVE  (n \div d) \in Int /\ n % d \in 0 .. d - 1 /\ n = (n \div d) * d + (n % d)
<1>1. (n \div d) \in Int /\ n % d \in 0 .. d - 1 /\ n = d * (n \div d) + (n % d)
  OBVIOUS
<1> DEFINE q == n \div d
<1>2. d * q = q * d
  BY <1>1
<1> QED
  BY <1>1, <1>2

LEMMA MultiplesDivide ==
  ASSUME NEW k \in Int, NEW d \in Nat \ {0}
  PROVE  (k * d) % d = 0
<1> DEFINE n == k * d
           q == n \div d
           r == n % d
<1>1. n \in Int /\ q \in Int /\ r \in 0 .. d - 1 /\ n = q * d + r
  <2>1. n \in Int
    OBVIOUS
  <2> HIDE DEF n
  <2> QED
    BY <2>1, Remainder
<1>2. CASE k = q
  BY <1>1, <1>2
<1>3. CASE k < q
  <2>1. k * d + d <= q * d
    BY <1>1, <1>3, Scaled
  <2> QED
    BY <1>1, <2>1
<1>4. CASE k > q
  <2>1. q * d + d <= k * d
    BY <1>1, <1>4, Scaled
  <2> QED
    BY <1>1, <2>1
<1> QED
  BY <1>1, <1>2, <1>3, <1>4

\* The written values are those that the variable has before the one that ends the loop.
LEMMA WrittenValues ==
  ASSUME Types, Representable, NEW n \in Nat, n >= 1, ~ Ends(Term(n - 1)), Ends(Term(n))
  PROVE  Written = {Term(k - 1) : k \in 1 .. n}
<1> DEFINE s == item.step
           d == Abs(s)
           to == item.to
           reach == IF vType = "IVAR" THEN IntMin .. IntMax ELSE - Exact .. Exact
<1>1. s \in Int /\ s # 0 /\ from \in Int /\ to \in Int /\ reach \subseteq Int
  <2>1. IntMax \in Nat /\ Exact \in Nat /\ Numbers \subseteq Int
    BY ForLoopAssumption, ValuesAreNumbers DEF Types
  <2>2. s \in Int /\ s # 0 /\ from \in Numbers /\ to \in Numbers
    BY DEF Types
  <2>3. reach \subseteq Int
    BY <2>1 DEF IntMin
  <2> QED
    BY <2>1, <2>2, <2>3
<1>2. d \in Nat \ {0} /\ (s > 0 => d = s) /\ (s < 0 => d = - s)
  BY <1>1 DEF Abs
<1>3. \A k \in Int : k * s \in Int /\ Term(k) = from + k * s
  BY <1>1 DEF Term
<1>4. /\ s > 0 => from + (n - 1) * s <= to /\ from + n * s > to
      /\ s < 0 => from + (n - 1) * s >= to /\ from + n * s < to
  <2>1. Term(n - 1) = from + (n - 1) * s /\ Term(n) = from + n * s
    BY <1>3
  <2>2. ~ checkLoopTermination(Term(n - 1), to, s) /\ checkLoopTermination(Term(n), to, s)
    BY DEF Ends
  <2>3. (n - 1) * s \in Int /\ n * s \in Int
    BY <1>3
  <2> HIDE DEF s, to
  <2> QED
    BY <1>1, <2>1, <2>2, <2>3 DEF checkLoopTermination
<1>5. \A v : v \in Written <=>
               /\ v \in reach /\ (v - from) % d = 0
               /\ IF s > 0 THEN from <= v /\ v <= to ELSE to <= v /\ v <= from
  BY DEF Written
<1>6. \A v \in Int : (IF s > 0 THEN from <= v /\ v <= to ELSE to <= v /\ v <= from) => v \in reach
  <2>1. CASE vType = "IVAR"
    <3>1. from \in IntMin .. IntMax /\ to \in IntMin .. IntMax /\ IntMax \in Int /\ IntMin \in Int
      BY <2>1, ForLoopAssumption DEF Types, Numbers, IntMin
    <3> QED
      BY <1>1, <2>1, <3>1
  <2>2. CASE vType = "FVAR"
    <3>1. from \in - Exact .. Exact /\ to + s \in - Exact .. Exact /\ Exact \in Nat
      BY <2>2, ForLoopAssumption DEF Representable
    <3>2. reach = - Exact .. Exact
      BY <2>2
    <3> HIDE DEF s, to, reach
    <3> QED
      BY <1>1, <3>1, <3>2
  <2> QED
    BY <2>1, <2>2 DEF Types
<1> HIDE DEF s, d, to, reach
<1>7. ASSUME NEW k \in 1 .. n PROVE Term(k - 1) \in Written
  <2> DEFINE j == k - 1
  <2>1. j \in Int /\ n - 1 \in Int /\ j >= 0 /\ j <= n - 1
    OBVIOUS
  <2>2. j * s \in Int /\ (n - 1) * s \in Int /\ Term(j) = from + j * s /\ Term(j) \in Int
    BY <1>1, <1>3, <2>1
  <2>3. (s > 0 => j * s >= 0) /\ (s < 0 => j * s <= 0)
    BY <1>1, <2>1, <2>2, Multiples
  <2>4. (s > 0 => j * s <= (n - 1) * s) /\ (s < 0 => j * s >= (n - 1) * s)
    <3>1. CASE j = n - 1
      BY <2>2, <3>1
    <3>2. CASE j < n - 1
      BY <1>1, <2>1, <2>2, <3>2, Scaled
    <3> QED
      BY <2>1, <3>1, <3>2
  <2>5. IF s > 0 THEN from <= Term(j) /\ Term(j) <= to ELSE to <= Term(j) /\ Term(j) <= from
    BY <1>1, <1>4, <2>2, <2>3, <2>4
  <2>6. (Term(j) - from) % d = 0
    <3>1. CASE s > 0
      <4>1. Term(j) - from = j * d
        BY <1>1, <1>2, <2>2, <3>1
      <4> QED
        BY <1>2, <2>1, <4>1, MultiplesDivide
    <3>2. CASE s < 0
      <4>1. Term(j) - from = (- j) * d
        BY <1>1, <1>2, <2>1, <2>2, <3>2
      <4>2. - j \in Int
        BY <2>1
      <4> QED
        BY <1>2, <4>1, <4>2, MultiplesDivide
    <3> QED
      BY <1>1, <3>1, <3>2
  <2> QED
    BY <1>5, <1>6, <2>2, <2>5, <2>6
<1>8. ASSUME NEW v \in Written PROVE \E k \in 1 .. n : v = Term(k - 1)
  <2> DEFINE q == (v - from) \div d
             j == IF s > 0 THEN q ELSE - q
  <2>1. v \in Int /\ (v - from) % d = 0
        /\ (s > 0 => from <= v /\ v <= to) /\ (s < 0 => to <= v /\ v <= from)
    <3>1. /\ v \in reach /\ (v - from) % d = 0
          /\ IF s > 0 THEN from <= v /\ v <= to ELSE to <= v /\ v <= from
      BY <1>5
    <3> QED
      BY <1>1, <3>1
  <2>2. q \in Int /\ v - from = q * d
    <3> DEFINE w == v - from
    <3>1. w \in Int /\ w % d = 0
      BY <1>1, <2>1
    <3> HIDE DEF w
    <3>2. (w \div d) \in Int /\ w = (w \div d) * d + (w % d)
      BY <1>2, <3>1, Remainder
    <3>3. w = (w \div d) * d
      BY <1>2, <3>1, <3>2
    <3> QED
      BY <3>2, <3>3 DEF w
  <2> HIDE DEF q
  <2>3. j \in Int /\ j * s \in Int /\ v = from + j * s
    <3>1. CASE s > 0
      BY <1>1, <1>2, <2>1, <2>2, <3>1
    <3>2. CASE s < 0
      <4>1. j = - q /\ d = - s
        BY <1>1, <1>2, <3>2
      <4>2. q * d = (- q) * s
        BY <1>1, <2>2, <4>1
      <4> QED
        BY <1>1, <2>1, <2>2, <4>1, <4>2
    <3> QED
      BY <1>1, <3>1, <3>2
  <2> HIDE DEF j
  <2>4. j >= 0
    <3>1. ASSUME j < 0 PROVE FALSE
      <4>1. (s > 0 => j * s + s <= 0) /\ (s < 0 => j * s + s >= 0)
        <5>1. 0 * s = 0
          BY <1>1
        <5> QED
          BY <1>1, <2>3, <3>1, <5>1, Scaled
      <4> QED
        BY <1>1, <2>1, <2>3, <4>1
    <3> QED
      BY <2>3, <3>1
  <2>5. j < n
    <3>1. ASSUME n <= j PROVE FALSE
      <4>1. (s > 0 => n * s <= j * s) /\ (s < 0 => n * s >= j * s)
        <5>1. CASE j = n
          BY <2>3, <5>1
        <5>2. CASE n < j
          BY <1>1, <1>3, <2>3, <5>2, Scaled
        <5> QED
          BY <2>3, <3>1, <5>1, <5>2
      <4>2. n * s \in Int
        BY <1>3
      <4> QED
        BY <1>1, <1>4, <2>1, <2>3, <4>1, <4>2
    <3> QED
      BY <2>3, <3>1
  <2> DEFINE k == j + 1
  <2>6. k \in 1 .. n /\ k - 1 = j
    BY <2>3, <2>4, <2>5
  <2>7. v = Term(k - 1)
    <3>1. v = Term(j)
      BY <1>3, <2>3
    <3> HIDE DEF k
    <3> QED
      BY <2>6, <3>1
  <2> HIDE DEF k
  <2> QED
    BY <2>6, <2>7
<1> QED
  BY <1>7, <1>8

LEMMA WrittenCount ==
  ASSUME Types, Representable, NEW n \in Nat, n >= 1, ~ Ends(Term(n - 1)), Ends(Term(n))
  PROVE  Cardinality(Written) = n
<1> DEFINE f == [k \in 1 .. n |-> Term(k - 1)]
<1>1. Written = {Term(k - 1) : k \in 1 .. n}
  BY WrittenValues
<1>2. \A j, k \in 1 .. n : f[j] = f[k] => j = k
  <2>1. from \in Int /\ item.step \in Int /\ item.step # 0
    <3>1. Numbers \subseteq Int
      BY ValuesAreNumbers DEF Types
    <3> QED
      BY <3>1 DEF Types
  <2>2. ASSUME NEW j \in 1 .. n, NEW k \in 1 .. n, j < k PROVE f[j] # f[k]
    <3> DEFINE s == item.step
               x == (j - 1) * s
               y == (k - 1) * s
    <3>1. f[j] = from + x /\ f[k] = from + y
      BY DEF Term
    <3>2. j - 1 \in Int /\ k - 1 \in Int /\ j - 1 < k - 1
      BY <2>2
    <3>3. (s > 0 => x + s <= y) /\ (s < 0 => x + s >= y) /\ x \in Int /\ y \in Int
      BY <2>1, <3>2, Scaled
    <3> HIDE DEF f, x, y
    <3> QED
      BY <2>1, <3>1, <3>3
  <2> QED
    BY <2>2
<1>3. f \in Bijection(1 .. n, Written)
  <2>1. f \in [1 .. n -> Written]
    BY <1>1
  <2>2. \A v \in Written : \E k \in 1 .. n : f[k] = v
    BY <1>1
  <2> QED
    BY <1>2, <2>1, <2>2 DEF Bijection, Injection, Surjection, IsInjective
<1>4. ExistsBijection(1 .. n, Written)
  BY <1>3 DEF ExistsBijection
<1> QED
  BY <1>4, FS_CountingElements

\* A TO loop that leaves its variable alone executes its body once for each value, and leaves the
\* last one in the variable; if it ends with an error it has missed those only that come after an
\* integer next to the last two, or a float too large to be printed exactly.
THEOREM BodyForEveryValue == Spec => []EveryValueOnce
<1>1. IInv => EveryValueOnce
  <2> SUFFICES ASSUME IInv, AsWritten, Representable
               PROVE  /\ phase = "after" => count = Cardinality(Written) /\ value = LastWritten
                      /\ phase \in Overrun =>
                           /\ value = from + (count - 1) * item.step
                           /\ IF vType = "IVAR" THEN value + item.step \notin minForInteger .. maxForInteger
                              ELSE Abs(value) >= Shown
    BY DEF EveryValueOnce, Representable
  <2>1. Types
    BY DEF IInv
  <2>2. ASSUME phase \in Overrun
        PROVE  /\ value = from + (count - 1) * item.step
               /\ IF vType = "IVAR" THEN value + item.step \notin minForInteger .. maxForInteger
                  ELSE Abs(value) >= Shown
    <3>1. InBody /\ Stuck
      BY <2>2 DEF IInv
    <3> QED
      BY <3>1 DEF InBody, Stuck, Term
  <2>3. ASSUME phase = "after" PROVE count = Cardinality(Written) /\ value = LastWritten
    <3>1. Left
      BY <2>3 DEF IInv
    <3>2. CASE Ends(from)
      <4>1. count = 0 /\ value = from
        BY <3>1, <3>2 DEF Left
      <4>2. Written = {}
        <5>1. from \in Int /\ item.to \in Int /\ item.step \in Int /\ item.step # 0
          <6>1. Numbers \subseteq Int
            BY <2>1, ValuesAreNumbers DEF Types
          <6> QED
            BY <2>1, <6>1 DEF Types
        <5>2. IF item.step > 0 THEN from > item.to ELSE from < item.to
          BY <3>2 DEF Ends, checkLoopTermination
        <5>3. IntMax \in Nat /\ Exact \in Nat
          BY ForLoopAssumption
        <5>4. ASSUME NEW v \in Written PROVE FALSE
          <6>1. v \in Int
            BY <5>3 DEF Written, IntMin
          <6>2. IF item.step > 0 THEN from <= v /\ v <= item.to ELSE item.to <= v /\ v <= from
            BY DEF Written
          <6> QED
            BY <5>1, <5>2, <6>1, <6>2
        <5> QED
          BY <5>4
      <4>3. Cardinality(Written) = 0
        BY <4>2, FS_EmptySet
      <4> QED
        BY <4>1, <4>2, <4>3 DEF LastWritten
    <3>3. CASE ~ Ends(from)
      <4>1. count \in Nat /\ count >= 1 /\ value = Term(count - 1) /\ ~ Ends(Term(count - 1)) /\ Ends(Term(count))
        BY <2>1, <3>1, <3>3 DEF Left, InBody, Types
      <4>2. Cardinality(Written) = count
        BY <2>1, <4>1, WrittenCount
      <4>3. Written # {}
        <5>1. ASSUME Written = {} PROVE FALSE
          <6>1. Cardinality(Written) = 0
            BY <5>1, FS_EmptySet
          <6> QED
            BY <4>1, <4>2, <6>1
        <5> QED
          BY <5>1
      <4> QED
        BY <4>1, <4>2, <4>3 DEF LastWritten, Term
    <3> QED
      BY <3>2, <3>3
  <2> QED
    BY <2>2, <2>3
<1> QED
  BY LoopFollowsItsValues, <1>1, PTL
=============================================================================
