---------------------------- MODULE PrintUsingProofs ----------------------------
(***************************************************************************)
(* PRINT USING, for every format and every list of operands.               *)
(*                                                                         *)
(* The interpreter gives up while it parses only behind a number that the  *)
(* format ends with; and in a plain format, whatever is parsed, the tokens *)
(* cover what has been passed over, column by column.                      *)
(***************************************************************************)
EXTENDS PrintUsingProps, FiniteSetTheorems, TLAPS

Field ==
  [kind : {"numeric"}, left : Nat, right : Nat, dollar : BOOLEAN, fillchar : BOOLEAN,
   trailingMinus : BOOLEAN, doComma : BOOLEAN, exponential : BOOLEAN]

Token == [kind : {"char"}] \cup [kind : {"string"}, len : Nat] \cup Field

Types ==
  /\ buf \in Seq(STRING) /\ ~ Contains(buf, "end")
  /\ idx \in 1 .. Len(buf) + 1 /\ info \in Field /\ tokens \in Seq(Token)
  /\ tokIdx \in Nat

\* What is printed first is printed after the whole format has been parsed.
NothingYet == phase \in {"parse", "right"} => piece = NoPiece

\* No sign, comma, fill or exponent.
Simple(field) ==
  /\ ~ field.dollar /\ ~ field.fillchar /\ ~ field.trailingMinus /\ ~ field.doComma
  /\ ~ field.exponential

\* The tokens have the columns up to this one.
Covered(column) == ColumnsOf(tokens) = column

\* A plain format is not entered in the middle of a number.
BetweenNumbers(i) ==
  /\ At(i - 1) = "#" => At(i) \notin {"#", "."}
  /\ At(i - 1) = "." => At(i - 2) # "#"

BehindPoint(i) == At(i - 2) = "#" /\ At(i - 1) = "." /\ At(i) = "#"

KeepsColumns ==
  Plain =>
    /\ Simple(info) /\ \A k \in DOMAIN tokens : tokens[k].kind = "numeric" => Simple(tokens[k])
    /\ phase = "parse" => BetweenNumbers(idx) /\ Covered(idx - 1)
    /\ phase = "right" => BehindPoint(idx) /\ Covered(idx - 2 - info.left)
    /\ phase = "print" => Covered(Len(buf))
    /\ piece.kind = "fits" => piece.len = Width(piece.tok)

IInv == Types /\ NothingYet /\ UsingPanicsAreExplained /\ KeepsColumns
-----------------------------------------------------------------------------
\* Sequences of characters

LEMMA SmallestIsMember ==
  ASSUME NEW S \in SUBSET Nat, S # {}
  PROVE  Min(S) \in S /\ \A n \in S : Min(S) <= n
<1>1. PICK x \in S : \A y \in S : ~ (<<y, x>> \in OpToRel(<, Nat))
  BY WFMin, NatLessThanWellFounded
<1>2. ASSUME NEW y \in S PROVE x <= y
  <2>1. ~ (y < x)
    <3>1. <<y, x>> \in Nat \X Nat /\ <<y, x>>[1] = y /\ <<y, x>>[2] = x
      OBVIOUS
    <3> QED
      BY <1>1, <3>1, Zenon DEF OpToRel
  <2> QED
    BY <2>1
<1> QED
  BY <1>2 DEF Min

\* prtuGetseq takes what there is of these characters, and stops at another.
LEMMA GetseqIsRun ==
  ASSUME buf \in Seq(STRING), NEW i \in 1 .. Len(buf) + 1, NEW chars
  PROVE  LET seq == Getseq(i, chars)
         IN /\ seq \in Seq(STRING) /\ Len(seq) \in 0 .. Len(buf) + 1 - i
            /\ \A k \in 1 .. Len(seq) : seq[k] = buf[i + k - 1] /\ seq[k] \in chars
            /\ i + Len(seq) <= Len(buf) => buf[i + Len(seq)] \notin chars
<1> DEFINE rest == SubSeq(buf, i, Len(buf))
           hits == {k \in 1 .. Len(rest) : rest[k] \notin chars}
           stop == SelectInSeq(rest, LAMBDA ch : ch \notin chars)
           seq  == Getseq(i, chars)
<1>1. /\ rest \in Seq(STRING) /\ Len(rest) = Len(buf) + 1 - i
      /\ \A k \in 1 .. Len(rest) : rest[k] = buf[i + k - 1]
  OBVIOUS
<1>2. stop = IF hits # {} THEN Min(hits) ELSE 0
  BY DEF SelectInSeq
<1>3. seq = IF stop = 0 THEN rest ELSE SubSeq(rest, 1, stop - 1)
  BY DEF Getseq
<1> HIDE DEF rest, stop, seq
<1>4. CASE hits = {}
  <2>1. seq = rest
    BY <1>2, <1>3, <1>4
  <2> QED
    BY <1>1, <1>4, <2>1 DEF seq
<1>5. CASE hits # {}
  <2>1. stop = Min(hits) /\ hits \in SUBSET Nat
    BY <1>2, <1>5
  <2>2. stop \in hits /\ \A k \in hits : stop <= k
    BY <1>5, <2>1, SmallestIsMember
  <2>3. stop \in 1 .. Len(rest) /\ rest[stop] \notin chars /\ Len(rest) \in Nat
    BY <1>1, <2>2
  <2>4. \A k \in 1 .. stop - 1 : k \in 1 .. Len(rest) /\ rest[k] \in chars
    BY <2>2, <2>3
  <2>5. seq = SubSeq(rest, 1, stop - 1)
    BY <1>3, <2>3
  <2>6. seq \in Seq(STRING) /\ Len(seq) = stop - 1 /\ \A k \in 1 .. stop - 1 : seq[k] = rest[k]
    BY <1>1, <2>3, <2>5
  <2>7. rest[stop] = buf[i + stop - 1]
    BY <1>1, <2>3
  <2> HIDE DEF hits
  <2> QED
    BY <1>1, <2>3, <2>4, <2>6, <2>7 DEF seq
<1> QED
  BY <1>4, <1>5

LEMMA DigitsAreCounted ==
  ASSUME NEW seq \in Seq(STRING)
  PROVE  Digits(seq) \in Nat /\ ((\A k \in 1 .. Len(seq) : seq[k] = "#") => Digits(seq) = Len(seq))
<1> DEFINE marks == {k \in DOMAIN seq : seq[k] = "#"}
<1>1. DOMAIN seq = 1 .. Len(seq) /\ Len(seq) \in Nat
  OBVIOUS
<1>2. IsFiniteSet(1 .. Len(seq)) /\ Cardinality(1 .. Len(seq)) = Len(seq)
  BY <1>1, FS_Interval
<1>3. IsFiniteSet(marks) /\ Cardinality(marks) \in Nat
  BY <1>1, <1>2, FS_Subset, FS_CardinalityType
<1>4. (\A k \in 1 .. Len(seq) : seq[k] = "#") => marks = 1 .. Len(seq)
  BY <1>1
<1> QED
  BY <1>2, <1>3, <1>4 DEF Digits
-----------------------------------------------------------------------------
\* Columns

LEMMA NaturalsByStep ==
  ASSUME NEW S, 0 \in S, \A n \in Nat : n \in S => n + 1 \in S
  PROVE  Nat \subseteq S
<1> DEFINE rest == Nat \ S
<1>1. ASSUME rest # {} PROVE FALSE
  <2>1. Min(rest) \in rest /\ \A n \in rest : Min(rest) <= n
    BY <1>1, SmallestIsMember
  <2> DEFINE m == Min(rest)
  <2>2. m \in Nat /\ m \notin S
    BY <2>1
  <2>3. m - 1 \in Nat /\ m - 1 + 1 = m
    BY <2>2
  <2>4. m - 1 \in rest
    BY <2>2, <2>3
  <2> HIDE DEF m
  <2> QED
    BY <2>1, <2>2, <2>4 DEF m
<1> QED
  BY <1>1

\* f adds up the first n of these widths.
Adds(f, widths, n) ==
  f \in [0 .. n -> Int] /\ f[0] = 0 /\ \A k \in 1 .. n : f[k] = f[k - 1] + widths[k]

LEMMA SumsExist ==
  ASSUME NEW n \in Nat, NEW widths \in [1 .. n -> Int]
  PROVE  \E f : Adds(f, widths, n)
<1> DEFINE S == {m \in Nat : m <= n => \E f : Adds(f, widths, m)}
<1>1. 0 \in S
  <2>1. Adds([k \in 0 .. 0 |-> 0], widths, 0)
    BY DEF Adds
  <2> QED
    BY <2>1
<1>2. ASSUME NEW m \in Nat, m \in S PROVE m + 1 \in S
  <2>1. ASSUME m + 1 <= n PROVE \E f : Adds(f, widths, m + 1)
    <3>1. PICK f : Adds(f, widths, m)
      BY <1>2, <2>1
    <3> DEFINE g == [k \in 0 .. m + 1 |-> IF k = m + 1 THEN f[m] + widths[m + 1] ELSE f[k]]
    <3>2. f \in [0 .. m -> Int] /\ f[0] = 0 /\ (\A k \in 1 .. m : f[k] = f[k - 1] + widths[k])
      BY <3>1 DEF Adds
    <3>3. m + 1 \in 1 .. n /\ widths[m + 1] \in Int /\ f[m] \in Int
      BY <2>1, <3>2
    <3>4. g \in [0 .. m + 1 -> Int] /\ g[0] = 0
      BY <3>2, <3>3
    <3>5. ASSUME NEW k \in 1 .. m + 1 PROVE g[k] = g[k - 1] + widths[k]
      <4>1. CASE k = m + 1
        <5>1. g[k] = f[m] + widths[m + 1] /\ k - 1 = m /\ g[m] = f[m]
          BY <4>1
        <5> HIDE DEF g
        <5> QED
          BY <4>1, <5>1
      <4>2. CASE k # m + 1
        <5>1. k \in 1 .. m /\ k - 1 \in 0 .. m /\ g[k] = f[k] /\ g[k - 1] = f[k - 1]
          BY <4>2
        <5> HIDE DEF g
        <5> QED
          BY <3>2, <5>1
      <4> QED
        BY <4>1, <4>2
    <3>6. Adds(g, widths, m + 1)
      BY <3>4, <3>5 DEF Adds
    <3> QED
      BY <3>6
  <2> QED
    BY <2>1
<1>3. n \in S
  <2> HIDE DEF S
  <2> QED
    BY <1>1, <1>2, NaturalsByStep
<1> QED
  BY <1>3

LEMMA SumsAgree ==
  ASSUME NEW m \in Nat, NEW n \in Nat, m <= n, NEW f, NEW g, NEW v, NEW w,
         Adds(f, v, m), Adds(g, w, n), \A k \in 1 .. m : v[k] = w[k]
  PROVE  f[m] = g[m]
<1> DEFINE S == {k \in Nat : k <= m => f[k] = g[k]}
<1>1. 0 \in S
  BY DEF Adds
<1>2. ASSUME NEW k \in Nat, k \in S PROVE k + 1 \in S
  <2>1. ASSUME k + 1 <= m PROVE f[k + 1] = g[k + 1]
    <3>1. k + 1 \in 1 .. m /\ k + 1 \in 1 .. n /\ k + 1 - 1 = k
      BY <2>1
    <3>2. f[k + 1] = f[k + 1 - 1] + v[k + 1] /\ g[k + 1] = g[k + 1 - 1] + w[k + 1]
      BY <3>1 DEF Adds
    <3>3. f[k] = g[k] /\ v[k + 1] = w[k + 1]
      BY <1>2, <2>1, <3>1
    <3> QED
      BY <3>1, <3>2, <3>3
  <2> QED
    BY <2>1
<1>3. m \in S
  <2> HIDE DEF S
  <2> QED
    BY <1>1, <1>2, NaturalsByStep
<1> QED
  BY <1>3

LEMMA ColumnsType ==
  ASSUME NEW tok \in Token
  PROVE  Columns(tok) \in Nat
BY DEF Token, Columns, Width, Doubled, Fraction, Field

Widths(toks) == [k \in 1 .. Len(toks) |-> Columns(toks[k])]

LEMMA ColumnsAreAdded ==
  ASSUME NEW toks \in Seq(Token)
  PROVE  \E f : Adds(f, Widths(toks), Len(toks)) /\ ColumnsOf(toks) = f[Len(toks)]
<1> DEFINE n == Len(toks)
           Step(e) == [k \in 0 .. n |-> IF k = 0 THEN 0 ELSE e[k - 1] + Columns(toks[k])]
           ends == CHOOSE e : e = Step(e)
<1>1. n \in Nat /\ \A k \in 1 .. n : toks[k] \in Token
  OBVIOUS
<1>2. \A k \in 1 .. n : Columns(toks[k]) \in Nat
  BY <1>1, ColumnsType
<1>3. Widths(toks) \in [1 .. n -> Int]
  BY <1>2 DEF Widths
<1>4. PICK f : Adds(f, Widths(toks), n)
  BY <1>1, <1>3, SumsExist
<1>5. f = Step(f)
  <2>1. f \in [0 .. n -> Int] /\ f[0] = 0 /\ \A k \in 1 .. n : f[k] = f[k - 1] + Columns(toks[k])
    BY <1>1, <1>4 DEF Adds, Widths
  <2>2. ASSUME NEW k \in 0 .. n PROVE f[k] = Step(f)[k]
    <3>1. CASE k = 0
      BY <2>1, <3>1
    <3>2. CASE k # 0
      BY <1>1, <2>1, <3>2
    <3> QED
      BY <3>1, <3>2
  <2> QED
    BY <2>1, <2>2
<1>6. ends = Step(ends)
  <2> HIDE DEF Step
  <2> QED
    BY <1>5
<1>7. Adds(ends, Widths(toks), n)
  <2>1. \A k \in 0 .. n : ends[k] = IF k = 0 THEN 0 ELSE ends[k - 1] + Columns(toks[k])
    <3> HIDE DEF ends
    <3> QED
      BY <1>6
  <2> HIDE DEF ends
  <2> DEFINE S == {m \in Nat : m <= n => ends[m] \in Int}
  <2>2. 0 \in S
    BY <1>1, <2>1
  <2>3. ASSUME NEW m \in Nat, m \in S PROVE m + 1 \in S
    <3>1. ASSUME m + 1 <= n PROVE ends[m + 1] \in Int
      <4>1. m + 1 \in 0 .. n /\ m + 1 \in 1 .. n /\ m + 1 # 0 /\ m + 1 - 1 = m
        BY <1>1, <3>1
      <4>2. ends[m + 1] = ends[m] + Columns(toks[m + 1])
        BY <2>1, <4>1
      <4>3. ends[m] \in Int /\ Columns(toks[m + 1]) \in Int
        BY <1>2, <2>3, <3>1, <4>1
      <4> QED
        BY <4>2, <4>3
    <3> QED
      BY <3>1
  <2>4. Nat \subseteq S
    <3> HIDE DEF S
    <3> QED
      BY <2>2, <2>3, NaturalsByStep
  <2>5. ends \in [0 .. n -> Int]
    <3>1. \A k \in 0 .. n : ends[k] \in Int
      BY <2>4
    <3>2. ends = [k \in 0 .. n |-> ends[k]]
      BY <1>6, <2>1
    <3> QED
      BY <3>1, <3>2
  <2> QED
    BY <1>1, <2>1, <2>5 DEF Adds, Widths
<1>8. ColumnsOf(toks) = ends[n]
  BY DEF ColumnsOf
<1> HIDE DEF ends
<1> QED
  BY <1>7, <1>8

LEMMA ColumnsGrow ==
  ASSUME NEW toks \in Seq(Token), NEW tok \in Token
  PROVE  ColumnsOf(Append(toks, tok)) = ColumnsOf(toks) + Columns(tok) /\ ColumnsOf(toks) \in Int
<1> DEFINE more == Append(toks, tok)
           n    == Len(toks)
<1>1. /\ more \in Seq(Token) /\ n \in Nat /\ Len(more) = n + 1
      /\ more[n + 1] = tok /\ \A k \in 1 .. n : more[k] = toks[k]
  OBVIOUS
<1>2. PICK f : Adds(f, Widths(toks), n) /\ ColumnsOf(toks) = f[n]
  BY ColumnsAreAdded
<1>3. PICK g : Adds(g, Widths(more), n + 1) /\ ColumnsOf(more) = g[n + 1]
  BY <1>1, ColumnsAreAdded
<1> HIDE DEF more, n
<1>4. f[n] = g[n]
  <2>1. \A k \in 1 .. n : Widths(toks)[k] = Widths(more)[k]
    BY <1>1 DEF Widths, n
  <2> QED
    BY <1>1, <1>2, <1>3, <2>1, SumsAgree
<1>5. g[n + 1] = g[n] + Columns(tok)
  <2> DEFINE m == n + 1
  <2>1. m \in 1 .. m /\ m - 1 = n
    BY <1>1
  <2>2. Widths(more)[m] = Columns(tok)
    BY <1>1, <2>1 DEF Widths
  <2>3. Adds(g, Widths(more), m)
    BY <1>3
  <2> HIDE DEF m
  <2>4. g[m] = g[m - 1] + Widths(more)[m]
    BY <2>1, <2>3 DEF Adds
  <2>5. g[m] = g[n] + Columns(tok)
    BY <2>1, <2>2, <2>4
  <2> QED
    BY <2>5 DEF m
<1>6. f[n] \in Int
  BY <1>1, <1>2 DEF Adds
<1> QED
  BY <1>2, <1>3, <1>4, <1>5, <1>6 DEF more

LEMMA NoColumns == ColumnsOf(<<>>) = 0
<1>1. <<>> \in Seq(Token) /\ Len(<<>>) = 0
  OBVIOUS
<1>2. PICK f : Adds(f, Widths(<<>>), 0) /\ ColumnsOf(<<>>) = f[0]
  BY <1>1, ColumnsAreAdded
<1> QED
  BY <1>2 DEF Adds
-----------------------------------------------------------------------------
\* Parsing

LEMMA Start == Init => IInv
<1> SUFFICES ASSUME Init PROVE IInv
  OBVIOUS
<1>1. Types
  <2>1. buf \in Seq(STRING) /\ ~ Contains(buf, "end")
    BY PrintUsingAssumption DEF Init
  <2>2. info \in Field /\ tokens \in Seq(Token)
    BY DEF Init, Field, NoField
  <2> QED
    BY <2>1, <2>2 DEF Init, Types
<1>2. Simple(info) /\ Covered(idx - 1)
  BY NoColumns DEF Init, Simple, NoField, Covered
<1>3. BetweenNumbers(idx)
  <2>1. At(0) = "end"
    BY <1>1 DEF At, Types
  <2> QED
    BY <2>1 DEF Init, BetweenNumbers
<1> QED
  BY <1>1, <1>2, <1>3 DEF Init, IInv, NothingYet, UsingPanicsAreExplained, KeepsColumns, NoPiece

LEMMA PlainFormat ==
  ASSUME buf' = buf
  PROVE  Plain' <=> Plain
BY DEF Plain, Run, At

\* A step of the parser that stops with an error, that is explained if it is a panic.
LEMMA ParserFails ==
  ASSUME IInv, phase \in {"parse", "right"}, UNCHANGED <<buf, filling>>, NEW how, Fails(how),
         how \in {"Format error", "panic"},
         how = "panic" => \E k \in DOMAIN buf :
           buf[k] = "#" /\ \A j \in k .. Len(buf) : buf[j] \in {"#", ",", "-", "^"}
  PROVE  IInv'
<1>1. /\ buf' = buf /\ idx' = idx /\ info' = info /\ tokens' = tokens /\ tokIdx' = tokIdx /\ piece' = piece
      /\ phase' = how /\ piece = NoPiece
  BY DEF IInv, NothingYet, Fails, filling
<1>2. Types'
  BY <1>1 DEF IInv, Types
<1>3. UsingPanicsAreExplained'
  BY <1>1 DEF UsingPanicsAreExplained
<1>4. KeepsColumns'
  <2>1. Plain' <=> Plain
    BY <1>1, PlainFormat
  <2>2. piece' = NoPiece /\ piece'.kind # "fits"
    BY <1>1 DEF NoPiece
  <2> QED
    BY <1>1, <2>1, <2>2 DEF IInv, KeepsColumns
<1> QED
  BY <1>1, <1>2, <1>3, <1>4 DEF IInv, NothingYet

\* A step of the parser that saves a token, and goes on behind it.
LEMMA ParserSaves ==
  ASSUME IInv, phase \in {"parse", "right"}, UNCHANGED <<buf, filling>>,
         NEW tok \in Token, NEW i \in 1 .. Len(buf) + 1, Save(tok, i), info' \in Field,
         Plain => /\ Simple(info') /\ (tok.kind = "numeric" => Simple(tok)) /\ BetweenNumbers(i)
                  /\ ColumnsOf(tokens) + Columns(tok) = i - 1
  PROVE  IInv'
<1>1. /\ buf' = buf /\ idx' = i /\ tokens' = Append(tokens, tok) /\ tokIdx' = tokIdx /\ piece' = piece
      /\ phase' = "parse" /\ piece = NoPiece /\ Types
  BY DEF IInv, NothingYet, Save, filling
<1>2. Types'
  BY <1>1 DEF Types
<1>3. KeepsColumns'
  <2>1. Plain' <=> Plain
    BY <1>1, PlainFormat
  <2>2. piece' = NoPiece /\ piece'.kind # "fits"
    BY <1>1 DEF NoPiece
  <2>3. ASSUME Plain PROVE Covered(idx - 1)'
    <3>1. ColumnsOf(tokens') = ColumnsOf(tokens) + Columns(tok)
      BY <1>1, ColumnsGrow DEF Types
    <3> QED
      BY <1>1, <2>3, <3>1 DEF Covered
  <2>4. ASSUME Plain PROVE \A k \in DOMAIN tokens' : tokens'[k].kind = "numeric" => Simple(tokens'[k])
    <3>1. \A k \in DOMAIN tokens : tokens[k].kind = "numeric" => Simple(tokens[k])
      BY <2>4 DEF IInv, KeepsColumns
    <3>2. tok.kind = "numeric" => Simple(tok)
      BY <2>4
    <3>3. \A k \in DOMAIN tokens' : (k \in DOMAIN tokens /\ tokens'[k] = tokens[k]) \/ tokens'[k] = tok
      BY <1>1 DEF Types
    <3> QED
      BY <3>1, <3>2, <3>3
  <2>5. ASSUME Plain PROVE BetweenNumbers(idx)' /\ Simple(info)'
    BY <1>1, <2>5 DEF BetweenNumbers, At, Simple
  <2> QED
    BY <1>1, <2>1, <2>2, <2>3, <2>4, <2>5 DEF KeepsColumns
<1> QED
  BY <1>1, <1>2, <1>3 DEF IInv, NothingYet, UsingPanicsAreExplained

LEMMA PeekIsAt ==
  ASSUME Types, NEW i \in Nat, i >= 1
  PROVE  /\ Peekch(i) = At(i) /\ (At(i) # "end" => i \in 1 .. Len(buf) /\ At(i) = buf[i])
         /\ At(i) = "end" => i > Len(buf)
BY DEF Types, Peekch, At, Contains

\* In a plain format there is no such character.
LEMMA PlainCharacters ==
  ASSUME Types, Plain, NEW i \in Nat, i >= 1
  PROVE  At(i) \notin {"$", "*", ",", "-", "^"}
BY DEF Plain, At

LEMMA CharacterStep == IInv /\ charField => IInv'
<1> SUFFICES ASSUME IInv, charField PROVE IInv'
  OBVIOUS
<1>1. /\ Types /\ phase = "parse" /\ UNCHANGED <<buf, filling>> /\ info' = info
      /\ Peekch(idx) \notin {"#", "end"} /\ Save(prtuChar, idx + 1)
  BY DEF IInv, charField, Parse
<1>2. idx \in 1 .. Len(buf) /\ At(idx) = Peekch(idx) /\ idx + 1 \in 1 .. Len(buf) + 1
  BY <1>1, PeekIsAt DEF Types
<1>3. prtuChar \in Token /\ prtuChar.kind # "numeric" /\ Columns(prtuChar) = 1
  BY DEF prtuChar, Token, Columns
<1>4. ASSUME Plain
      PROVE  Simple(info') /\ BetweenNumbers(idx + 1) /\ ColumnsOf(tokens) + Columns(prtuChar) = idx + 1 - 1
  <2>1. Simple(info) /\ BetweenNumbers(idx) /\ ColumnsOf(tokens) = idx - 1
    BY <1>1, <1>4 DEF IInv, KeepsColumns, Covered
  <2>2. idx + 1 - 1 = idx /\ idx + 1 - 2 = idx - 1
    BY <1>2
  <2>3. BetweenNumbers(idx + 1)
    BY <1>1, <1>2, <2>1, <2>2 DEF BetweenNumbers
  <2> QED
    BY <1>1, <1>2, <1>3, <2>1, <2>3
<1>5. info' \in Field
  BY <1>1 DEF Types
<1> QED
  BY <1>1, <1>2, <1>3, <1>4, <1>5, ParserSaves

LEMMA FirstCharacterStep == IInv /\ firstChar => IInv'
<1> SUFFICES ASSUME IInv, firstChar PROVE IInv'
  OBVIOUS
<1> DEFINE tok == prtuString(1)
<1>1. /\ Types /\ phase = "parse" /\ UNCHANGED <<buf, filling>> /\ info' = info
      /\ Peekch(idx) = "!" /\ Save(tok, idx + 1)
  BY DEF IInv, firstChar, Parse
<1>2. idx \in 1 .. Len(buf) /\ At(idx) = "!" /\ idx + 1 \in 1 .. Len(buf) + 1
  BY <1>1, PeekIsAt DEF Types
<1>3. tok \in Token /\ tok.kind # "numeric" /\ Columns(tok) = 1
  BY DEF prtuString, Token, Columns
<1> HIDE DEF tok
<1>4. ASSUME Plain
      PROVE  Simple(info') /\ BetweenNumbers(idx + 1) /\ ColumnsOf(tokens) + Columns(tok) = idx + 1 - 1
  <2>1. Simple(info) /\ ColumnsOf(tokens) = idx - 1
    BY <1>1, <1>4 DEF IInv, KeepsColumns, Covered
  <2>2. idx + 1 - 1 = idx
    BY <1>2
  <2>3. BetweenNumbers(idx + 1)
    BY <1>2, <2>2 DEF BetweenNumbers
  <2> QED
    BY <1>1, <1>2, <1>3, <2>1, <2>3
<1>5. info' \in Field
  BY <1>1 DEF Types
<1> QED
  BY <1>1, <1>2, <1>3, <1>4, <1>5, ParserSaves

\* A string field goes from one backslash to the other.
LEMMA StringFieldStep == IInv /\ stringField => IInv'
<1> SUFFICES ASSUME IInv, stringField PROVE IInv'
  OBVIOUS
<1>1. Types /\ phase = "parse" /\ UNCHANGED <<buf, filling>> /\ Peekch(idx) = "\\"
  BY DEF IInv, stringField, Parse
<1>2. CASE Peekch(Closing) # "\\"
  <2>1. Fails("Format error")
    BY <1>2 DEF stringField
  <2> QED
    BY <1>1, <2>1, ParserFails
<1>3. CASE Peekch(Closing) = "\\"
  <2> DEFINE n   == Closing - idx + 1
             tok == prtuString(n)
  <2>1. Save(tok, Closing + 1) /\ info' = info
    BY <1>3 DEF stringField
  <2>2. idx \in 1 .. Len(buf) /\ idx + 1 \in 1 .. Len(buf) + 1
    BY <1>1, PeekIsAt DEF Types
  <2>3. Closing \in Nat /\ Closing >= idx + 1
    <3> DEFINE i == idx + 1
    <3>1. i \in 1 .. Len(buf) + 1 /\ buf \in Seq(STRING) /\ Len(buf) \in Nat
      BY <1>1, <2>2 DEF Types
    <3> HIDE DEF i
    <3> DEFINE blanks == Len(Getseq(i, {" "}))
    <3>2. blanks \in 0 .. Len(buf) + 1 - i
      BY <3>1, GetseqIsRun, Zenon
    <3>3. Closing = i + blanks
      BY DEF Closing, i
    <3> HIDE DEF blanks
    <3>4. Closing \in Nat /\ Closing >= i
      BY <3>1, <3>2, <3>3
    <3> QED
      BY <3>4 DEF i
  <2>4. Closing \in 1 .. Len(buf) /\ At(Closing) = "\\" /\ Closing + 1 \in 1 .. Len(buf) + 1
    BY <1>1, <1>3, <2>2, <2>3, PeekIsAt
  <2>5. n \in Nat
    BY <2>2, <2>3
  <2>6. tok \in Token /\ tok.kind # "numeric" /\ Columns(tok) = n
    BY <2>5 DEF prtuString, Token, Columns
  <2> HIDE DEF tok
  <2>7. ASSUME Plain
        PROVE  Simple(info') /\ BetweenNumbers(Closing + 1) /\ ColumnsOf(tokens) + Columns(tok) = Closing + 1 - 1
    <3>1. Simple(info) /\ ColumnsOf(tokens) = idx - 1
      BY <1>1, <2>7 DEF IInv, KeepsColumns, Covered
    <3>2. Closing + 1 - 1 = Closing
      BY <2>3
    <3>3. BetweenNumbers(Closing + 1)
      BY <2>4, <3>2 DEF BetweenNumbers
    <3> QED
      BY <2>1, <2>2, <2>3, <2>6, <3>1, <3>3
  <2>8. info' \in Field
    BY <1>1, <2>1 DEF Types
  <2> QED
    BY <1>1, <2>1, <2>4, <2>6, <2>7, <2>8, ParserSaves
<1> QED
  BY <1>2, <1>3
-----------------------------------------------------------------------------
\* Numeric fields

LEMMA DoubledStep ==
  ASSUME IInv, NEW ch \in {"$", "*"}, NEW flag \in {"dollar", "fillchar"}, doubled(ch, flag)
  PROVE  IInv'
<1>1. Types /\ phase = "parse" /\ UNCHANGED <<buf, filling>> /\ Peekch(idx) = ch
  BY DEF IInv, doubled, Parse
<1>2. idx \in 1 .. Len(buf) /\ At(idx) = ch /\ idx + 1 \in 1 .. Len(buf) + 1
  BY <1>1, PeekIsAt DEF Types
<1>3. ~ Plain
  <2> SUFFICES ASSUME Plain PROVE FALSE
    OBVIOUS
  <2>1. idx \in Nat /\ idx >= 1
    BY <1>2
  <2>2. At(idx) \notin {"$", "*", ",", "-", "^"}
    BY <1>1, <2>1, PlainCharacters
  <2> QED
    BY <1>2, <2>2
<1>4. CASE Peekch(idx + 1) = ch
  <2>1. idx' = idx + 2 /\ info' = [info EXCEPT ![flag] = TRUE] /\ UNCHANGED <<tokens, phase>>
    BY <1>4 DEF doubled
  <2>2. idx + 2 \in 1 .. Len(buf) + 1
    <3>1. idx + 1 \in 1 .. Len(buf)
      BY <1>1, <1>2, <1>4, PeekIsAt
    <3> QED
      BY <1>2, <3>1
  <2>3. info' \in Field
    BY <1>1, <2>1 DEF Types, Field
  <2>4. Types'
    BY <1>1, <2>1, <2>2, <2>3 DEF Types, filling
  <2>5. NothingYet' /\ UsingPanicsAreExplained'
    BY <1>1, <2>1 DEF IInv, NothingYet, UsingPanicsAreExplained, filling
  <2>6. ~ Plain'
    BY <1>1, <1>3 DEF Plain, Run, At
  <2> QED
    BY <2>4, <2>5, <2>6 DEF IInv, KeepsColumns
<1>5. CASE Peekch(idx + 1) # ch
  <2>1. Save(prtuChar, idx + 1) /\ info' \in Field
    BY <1>1, <1>5 DEF doubled, Types
  <2>2. prtuChar \in Token
    BY DEF prtuChar, Token
  <2> QED
    BY <1>1, <1>2, <1>3, <2>1, <2>2, ParserSaves
<1> QED
  BY <1>4, <1>5

\* What prtuGetseq passes over, and what comes then.
LEMMA PassedOver ==
  ASSUME Types, NEW i \in 1 .. Len(buf) + 1, NEW chars, "end" \notin chars,
         NEW n, n = Len(Getseq(i, chars))
  PROVE  /\ n \in Nat /\ i + n \in 1 .. Len(buf) + 1 /\ (At(i) \in chars => n >= 1)
         /\ \A j \in i .. i + n - 1 : j \in 1 .. Len(buf) /\ buf[j] \in chars
         /\ At(i + n) \notin chars
<1> DEFINE seq == Getseq(i, chars)
<1>1. /\ Len(seq) \in 0 .. Len(buf) + 1 - i
      /\ \A k \in 1 .. Len(seq) : seq[k] = buf[i + k - 1] /\ seq[k] \in chars
      /\ i + Len(seq) <= Len(buf) => buf[i + Len(seq)] \notin chars
  BY GetseqIsRun, Zenon DEF Types
<1>2. n = Len(seq) /\ Len(buf) \in Nat /\ DOMAIN buf = 1 .. Len(buf)
  BY DEF Types
<1> HIDE DEF seq
<1>3. n \in Nat /\ i + n \in 1 .. Len(buf) + 1
  BY <1>1, <1>2
<1>4. ASSUME NEW j \in i .. i + n - 1 PROVE j \in 1 .. Len(buf) /\ buf[j] \in chars
  <2> DEFINE k == j - i + 1
  <2>1. k \in 1 .. Len(seq) /\ i + k - 1 = j
    BY <1>2, <1>3
  <2> HIDE DEF k
  <2>2. seq[k] = buf[i + k - 1] /\ seq[k] \in chars
    BY <1>1, <2>1
  <2> QED
    BY <1>2, <1>3, <2>1, <2>2
<1>5. At(i + n) \notin chars
  BY <1>1, <1>2, <1>3 DEF At
<1>6. At(i) \in chars => n >= 1
  <2>1. n = 0 => i + n = i
    OBVIOUS
  <2> QED
    BY <1>3, <1>5, <2>1
<1> QED
  BY <1>3, <1>4, <1>5, <1>6

LEMMA SidedField ==
  ASSUME Types, NEW i \in 1 .. Len(buf) + 1, NEW side \in {"left", "right"}
  PROVE  Sided(side, Getseq(i, DigitChars)) \in Field
<1> DEFINE seq == Getseq(i, DigitChars)
<1>1. seq \in Seq(STRING)
  BY GetseqIsRun, Zenon DEF Types
<1> HIDE DEF seq
<1>2. Digits(seq) \in Nat
  BY <1>1, DigitsAreCounted
<1>3. Contains(seq, ",") \in BOOLEAN
  BY DEF Contains
<1>4. Sided(side, seq) \in Field
  BY <1>2, <1>3 DEF Sided, Types, Field
<1> QED
  BY <1>4 DEF seq

LEMMA SuffixEnds ==
  ASSUME Types, NEW field \in Field, NEW i \in 1 .. Len(buf) + 1, NEW end, end = Suffix(field, i)
  PROVE  /\ end.field \in Field /\ end.idx \in i .. Len(buf) + 1
         /\ \A j \in i .. end.idx - 1 : j \in 1 .. Len(buf) /\ buf[j] \in {"-", "^"}
         /\ Plain => end.field = field /\ end.idx = i
<1> DEFINE carets == Len(Getseq(i, {"^"}))
<1>1. /\ carets \in Nat /\ i + carets \in 1 .. Len(buf) + 1
      /\ \A j \in i .. i + carets - 1 : j \in 1 .. Len(buf) /\ buf[j] \in {"^"}
  BY PassedOver
<1>2. Peekch(i) = At(i) /\ (At(i) # "end" => i \in 1 .. Len(buf) /\ At(i) = buf[i]) /\ Len(buf) \in Nat
  BY PeekIsAt DEF Types
<1> HIDE DEF carets
<1>3. CASE Peekch(i) = "-"
  <2>1. end = [field |-> [field EXCEPT !.trailingMinus = TRUE], idx |-> i + 1, ok |-> TRUE]
    BY <1>3 DEF Suffix
  <2>2. ~ Plain
    <3> SUFFICES ASSUME Plain PROVE FALSE
      OBVIOUS
    <3>1. i \in Nat /\ i >= 1
      BY <1>2
    <3>2. At(i) \notin {"$", "*", ",", "-", "^"}
      BY <3>1, PlainCharacters
    <3> QED
      BY <1>2, <1>3, <3>2
  <2>3. end.field \in Field
    <3>1. [field EXCEPT !.trailingMinus = TRUE] \in Field
      BY DEF Field
    <3> QED
      BY <2>1, <3>1
  <2> QED
    BY <1>2, <1>3, <2>1, <2>2, <2>3
<1>4. CASE Peekch(i) = "^"
  <2>1. end = [field |-> [field EXCEPT !.exponential = TRUE], idx |-> i + carets, ok |-> carets \in 4 .. 5]
    BY <1>4 DEF Suffix, carets
  <2>2. ~ Plain
    <3> SUFFICES ASSUME Plain PROVE FALSE
      OBVIOUS
    <3>1. i \in Nat /\ i >= 1
      BY <1>2
    <3>2. At(i) \notin {"$", "*", ",", "-", "^"}
      BY <3>1, PlainCharacters
    <3> QED
      BY <1>2, <1>4, <3>2
  <2>3. end.field \in Field /\ end.idx = i + carets
    <3>1. [field EXCEPT !.exponential = TRUE] \in Field
      BY DEF Field
    <3> QED
      BY <2>1, <3>1
  <2> QED
    BY <1>1, <1>2, <2>2, <2>3
<1>5. CASE Peekch(i) \notin {"-", "^"}
  <2>1. end = [field |-> field, idx |-> i, ok |-> TRUE]
    BY <1>5 DEF Suffix
  <2> QED
    BY <1>2, <2>1
<1> QED
  BY <1>3, <1>4, <1>5

\* The digits on one side of the point in a plain format.
LEMMA PlainRun ==
  ASSUME Types, Plain, NEW i \in 1 .. Len(buf), buf[i] = "#", At(i - 1) # "#",
         NEW seq, seq = Getseq(i, DigitChars), NEW n, n = Len(seq)
  PROVE  /\ n \in Nat \ {0} /\ Digits(seq) = n /\ ~ Contains(seq, ",")
         /\ At(i + n - 1) = "#" /\ At(i + n) # "#"
         /\ \/ At(i + n) = "." /\ At(i - 1) # "."
            \/ At(i + n) # "." /\ At(i - 1) = "." /\ At(i - 2) = "#"
<1>1. Len(buf) \in Nat /\ DOMAIN buf = 1 .. Len(buf) /\ buf \in Seq(STRING)
  BY DEF Types
<1>2. i \in 1 .. Len(buf) + 1 /\ At(i) = "#"
  BY <1>1 DEF At
<1>3. /\ n \in Nat /\ i + n \in 1 .. Len(buf) + 1 /\ (At(i) \in DigitChars => n >= 1)
      /\ \A j \in i .. i + n - 1 : j \in 1 .. Len(buf) /\ buf[j] \in DigitChars
      /\ At(i + n) \notin DigitChars
  <2>1. "end" \notin DigitChars
    BY DEF DigitChars
  <2> QED
    BY <1>2, <2>1, PassedOver
<1>4. n >= 1 /\ At(i + n) # "#"
  <2>1. "#" \in DigitChars
    BY DEF DigitChars
  <2> QED
    BY <1>2, <1>3, <2>1
<1>5. \A j \in i .. i + n - 1 : buf[j] = "#"
  <2> TAKE j \in i .. i + n - 1
  <2>1. j \in 1 .. Len(buf) /\ buf[j] \in DigitChars
    BY <1>3
  <2>2. j \in Nat /\ j >= 1 /\ At(j) = buf[j]
    BY <1>1, <2>1 DEF At
  <2>3. At(j) # ","
    BY <2>2, PlainCharacters
  <2> QED
    BY <2>1, <2>2, <2>3, Zenon DEF DigitChars
<1>6. seq \in Seq(STRING) /\ \A k \in 1 .. Len(seq) : seq[k] = buf[i + k - 1]
  <2> DEFINE same == Getseq(i, DigitChars)
  <2>1. /\ same \in Seq(STRING) /\ Len(same) \in 0 .. Len(buf) + 1 - i
        /\ \A k \in 1 .. Len(same) : same[k] = buf[i + k - 1] /\ same[k] \in DigitChars
        /\ i + Len(same) <= Len(buf) => buf[i + Len(same)] \notin DigitChars
    BY <1>1, <1>2, GetseqIsRun, Zenon
  <2> HIDE DEF same
  <2>2. seq = same
    BY DEF same
  <2> QED
    BY <2>1, <2>2
<1>7. \A k \in 1 .. n : seq[k] = "#"
  <2> TAKE k \in 1 .. n
  <2> DEFINE j == i + k - 1
  <2>1. j \in i .. i + n - 1
    BY <1>1, <1>3
  <2>2. seq[k] = buf[j]
    BY <1>6
  <2> HIDE DEF j
  <2> QED
    BY <1>5, <2>1, <2>2
<1>8. Digits(seq) = n
  BY <1>6, <1>7, DigitsAreCounted
<1>9. ~ Contains(seq, ",")
  BY <1>7 DEF Contains
<1> DEFINE j == i + n - 1
<1>10. j \in i .. Len(buf) /\ j + 1 = i + n /\ i \in DOMAIN buf /\ j \in i .. i + n - 1
  BY <1>1, <1>3, <1>4
<1>11. \A k \in i .. j : buf[k] = "#"
  BY <1>5
<1> HIDE DEF j
<1>12. Run(i, j)
  BY <1>4, <1>10, <1>11 DEF Run
<1>13. \/ At(j + 1) = "." /\ At(i - 1) # "."
       \/ At(j + 1) # "." /\ At(i - 1) = "." /\ At(i - 2) = "#"
  BY <1>10, <1>12 DEF Plain
<1>14. At(j) = "#"
  <2>1. j \in DOMAIN buf /\ buf[j] = "#"
    BY <1>1, <1>10, <1>5
  <2> QED
    BY <2>1 DEF At
<1>15. At(i + n - 1) = "#"
  BY <1>14 DEF j
<1>16. \/ At(i + n) = "." /\ At(i - 1) # "."
       \/ At(i + n) # "." /\ At(i - 1) = "." /\ At(i - 2) = "#"
  BY <1>10, <1>13
<1>17. n \in Nat \ {0}
  BY <1>3, <1>4
<1> QED
  BY <1>4, <1>8, <1>9, <1>15, <1>16, <1>17, Zenon

\* The digits after the point are next.
LEMMA EntersRight ==
  ASSUME IInv, phase = "parse", UNCHANGED <<buf, filling>>,
         NEW i \in 1 .. Len(buf), Peekch(i + 1) = "#", NEW field \in Field, NEW toks \in Seq(Token),
         phase' = "right", idx' = i + 1, info' = field, tokens' = toks,
         Plain => /\ Simple(field) /\ toks = tokens /\ At(i) = "." /\ At(i - 1) = "#"
                  /\ ColumnsOf(tokens) = i - 1 - field.left
  PROVE  IInv'
<1>1. Types /\ piece = NoPiece /\ buf' = buf /\ piece' = piece /\ tokIdx' = tokIdx
  BY DEF IInv, NothingYet, filling
<1>2. Types'
  <2>1. i + 1 \in 1 .. Len(buf) + 1
    BY <1>1 DEF Types
  <2> QED
    BY <1>1, <2>1 DEF Types
<1>3. Plain' <=> Plain
  BY <1>1, PlainFormat
<1>4. ASSUME Plain PROVE BehindPoint(idx)' /\ Covered(idx - 2 - info.left)'
  <2> DEFINE next == i + 1
  <2>1. next - 1 = i /\ next - 2 = i - 1 /\ next \in Nat /\ next >= 1 /\ Peekch(next) = "#"
    OBVIOUS
  <2> HIDE DEF next
  <2>2. At(next) = "#"
    BY <1>1, <2>1, PeekIsAt
  <2>3. BehindPoint(next)
    BY <1>4, <2>1, <2>2 DEF BehindPoint
  <2>4. idx' = next /\ BehindPoint(idx)'
    BY <1>1, <2>3 DEF BehindPoint, At, next
  <2>5. Covered(idx - 2 - info.left)'
    BY <1>4, <2>1, <2>4 DEF Covered
  <2> QED
    BY <2>4, <2>5
<1>5. KeepsColumns'
  <2>1. piece'.kind # "fits"
    BY <1>1 DEF NoPiece
  <2>2. ASSUME Plain PROVE Simple(info)' /\ \A k \in DOMAIN tokens' : tokens'[k].kind = "numeric" => Simple(tokens'[k])
    BY <2>2 DEF IInv, KeepsColumns, Simple
  <2> QED
    BY <1>3, <1>4, <2>1, <2>2 DEF KeepsColumns
<1> QED
  BY <1>1, <1>2, <1>5 DEF IInv, NothingYet, UsingPanicsAreExplained

LEMMA LeftDigitsStep == IInv /\ leftDigits => IInv'
<1> SUFFICES ASSUME IInv, leftDigits PROVE IInv'
  OBVIOUS
<1> DEFINE seq   == Getseq(idx, DigitChars)
           n     == Len(seq)
           at    == idx + n
           field == Sided("left", seq)
           end   == Suffix(field, at)
           after == end.idx
<1>1. Types /\ phase = "parse" /\ UNCHANGED <<buf, filling>> /\ Peekch(idx) = "#"
  BY DEF IInv, leftDigits, Parse
<1>2. /\ idx \in 1 .. Len(buf) /\ idx \in 1 .. Len(buf) + 1 /\ buf[idx] = "#" /\ At(idx) = "#"
      /\ Len(buf) \in Nat /\ DOMAIN buf = 1 .. Len(buf)
  BY <1>1, PeekIsAt DEF Types
<1>3. \/ Peekch(at) = "." /\ PassOver(at, field, tokens)
      \/ Peekch(at) # "." /\ Allowed(end) /\ PassOver(after, end.field, Append(tokens, end.field))
      \/ Peekch(at) # "." /\ Fails("Format error")
  BY DEF leftDigits
<1>4. seq = Getseq(idx, DigitChars) /\ n = Len(seq) /\ at = idx + n /\ field = Sided("left", seq)
  OBVIOUS
<1>5. end = Suffix(field, at) /\ after = end.idx
  OBVIOUS
<1> HIDE DEF seq, n, at, field, end, after
<1>6. /\ n \in Nat /\ at \in 1 .. Len(buf) + 1
      /\ \A j \in idx .. at - 1 : j \in 1 .. Len(buf) /\ buf[j] \in DigitChars
  <2>1. "end" \notin DigitChars
    BY DEF DigitChars
  <2>2. /\ n \in Nat /\ idx + n \in 1 .. Len(buf) + 1
        /\ \A j \in idx .. idx + n - 1 : j \in 1 .. Len(buf) /\ buf[j] \in DigitChars
    BY <1>1, <1>2, <1>4, <2>1, PassedOver
  <2>3. idx + n = at
    BY <1>4
  <2> HIDE DEF at
  <2>4. at \in 1 .. Len(buf) + 1 /\ \A j \in idx .. at - 1 : j \in 1 .. Len(buf) /\ buf[j] \in DigitChars
    BY <1>2, <2>2, <2>3
  <2> QED
    BY <2>2, <2>4
<1>7. field \in Field
  BY <1>1, <1>2, <1>4, SidedField
<1>8. end.field \in Field /\ after \in at .. Len(buf) + 1
  BY <1>1, <1>5, <1>6, <1>7, SuffixEnds
<1>9. \A j \in at .. after - 1 : j \in 1 .. Len(buf) /\ buf[j] \in {"-", "^"}
  BY <1>1, <1>5, <1>6, <1>7, SuffixEnds
<1>10. ASSUME Plain
       PROVE  /\ Simple(info) /\ ColumnsOf(tokens) = idx - 1
              /\ Digits(seq) = n /\ ~ Contains(seq, ",")
              /\ At(at) = "." /\ At(at - 1) = "#"
  <2>1. Simple(info) /\ BetweenNumbers(idx) /\ ColumnsOf(tokens) = idx - 1
    BY <1>1, <1>10 DEF IInv, KeepsColumns, Covered
  <2>2. At(idx - 1) # "#" /\ ~ (At(idx - 1) = "." /\ At(idx - 2) = "#")
    BY <1>2, <2>1 DEF BetweenNumbers
  <2>3. /\ Digits(seq) = n /\ ~ Contains(seq, ",")
        /\ At(idx + n - 1) = "#"
        /\ \/ At(idx + n) = "." /\ At(idx - 1) # "."
           \/ At(idx + n) # "." /\ At(idx - 1) = "." /\ At(idx - 2) = "#"
    BY <1>1, <1>2, <1>4, <1>10, <2>2, PlainRun
  <2>4. at = idx + n
    BY <1>4
  <2> HIDE DEF at
  <2>5. At(idx + n) = "." /\ At(idx + n - 1) = "#"
    BY <2>2, <2>3
  <2>6. At(at) = "." /\ At(at - 1) = "#"
    BY <1>2, <1>6, <2>4, <2>5
  <2> QED
    BY <2>1, <2>3, <2>6, Zenon
<1>11. CASE Peekch(at) = "." /\ PassOver(at, field, tokens)
  <2>1. at \in Nat /\ at >= 1 /\ at <= Len(buf) + 1
    BY <1>2, <1>6
  <2>2. at \in 1 .. Len(buf)
    BY <1>1, <1>11, <2>1, PeekIsAt
  <2>5. at <= Len(buf) /\ ~ (at > Len(buf))
    BY <1>2, <2>2
  <2>3. CASE Peekch(at + 1) # "#"
    <3>1. Fails("Format error")
      BY <1>11, <2>3, <2>5, Zenon DEF PassOver
    <3> QED
      BY <1>1, <3>1, ParserFails
  <2>4. CASE Peekch(at + 1) = "#"
    <3>1. phase' = "right" /\ idx' = at + 1 /\ info' = field /\ tokens' = tokens
      BY <1>11, <2>5, <2>4, Zenon DEF PassOver
    <3>2. ASSUME Plain PROVE Simple(field) /\ ColumnsOf(tokens) = at - 1 - field.left
      <4>1. field = [info EXCEPT !.left = n, !.doComma = FALSE]
        <5>1. Contains(seq, ",") = FALSE
          BY <1>10, <3>2 DEF Contains
        <5>2. field = [info EXCEPT !.left = Digits(seq), !.doComma = Contains(seq, ",")]
          BY <1>4 DEF Sided
        <5>3. Digits(seq) = n
          BY <1>10, <3>2
        <5> QED
          BY <5>1, <5>2, <5>3
      <4>2. info \in Field /\ Simple(info)
        BY <1>1, <1>10, <3>2 DEF Types
      <4>3. field.left = n
        BY <4>1, <4>2 DEF Field
      <4>4. Simple(field)
        BY <4>1, <4>2 DEF Field, Simple
      <4>5. idx - 1 = at - 1 - n
        BY <1>2, <1>4, <1>6
      <4>6. ColumnsOf(tokens) = idx - 1
        BY <1>10, <3>2
      <4> QED
        BY <4>3, <4>4, <4>5, <4>6
    <3>3. tokens \in Seq(Token)
      BY <1>1 DEF Types
    <3> QED
      BY <1>1, <1>7, <1>10, <2>2, <2>4, <3>1, <3>2, <3>3, EntersRight
  <2> QED
    BY <2>3, <2>4
<1>12. CASE Peekch(at) # "." /\ Allowed(end) /\ PassOver(after, end.field, Append(tokens, end.field))
  <2>1. ~ Plain
    <3> SUFFICES ASSUME Plain PROVE FALSE
      OBVIOUS
    <3>1. at \in Nat /\ at >= 1
      BY <1>2, <1>6
    <3>2. Peekch(at) = At(at)
      BY <1>1, <3>1, PeekIsAt
    <3> QED
      BY <1>10, <1>12, <3>2
  <2>2. after \in Nat /\ at \in Nat /\ after >= at /\ at >= 1 /\ after <= Len(buf) + 1
    BY <1>2, <1>6, <1>8
  <2>6. after > Len(buf) <=> ~ (after <= Len(buf))
    BY <1>2, <2>2
  <2>3. CASE after > Len(buf)
    <3>1. Fails("panic")
      BY <1>12, <2>6, <2>3, Zenon DEF PassOver
    <3>2. \A j \in idx .. Len(buf) : buf[j] \in {"#", ",", "-", "^"}
      <4> TAKE j \in idx .. Len(buf)
      <4>1. j \in idx .. at - 1 \/ j \in at .. after - 1
        BY <1>2, <2>2, <2>3
      <4>2. buf[j] \in DigitChars \/ buf[j] \in {"-", "^"}
        BY <1>6, <1>9, <4>1
      <4> QED
        BY <4>2, Zenon DEF DigitChars
    <3>3. \E k \in DOMAIN buf : buf[k] = "#" /\ \A j \in k .. Len(buf) : buf[j] \in {"#", ",", "-", "^"}
      BY <1>2, <3>2
    <3> QED
      BY <1>1, <3>1, <3>3, ParserFails
  <2>4. CASE after <= Len(buf) /\ Peekch(after + 1) # "#"
    <3>1. Fails("Format error")
      BY <1>12, <2>6, <2>4, Zenon DEF PassOver
    <3> QED
      BY <1>1, <3>1, ParserFails
  <2>5. CASE after <= Len(buf) /\ Peekch(after + 1) = "#"
    <3>1. phase' = "right" /\ idx' = after + 1 /\ info' = end.field /\ tokens' = Append(tokens, end.field)
      BY <1>12, <2>6, <2>5, Zenon DEF PassOver
    <3>2. after \in 1 .. Len(buf)
      BY <1>2, <2>2, <2>5
    <3>3. Append(tokens, end.field) \in Seq(Token)
      <4>1. end.field \in Token
        BY <1>8 DEF Token
      <4>2. tokens \in Seq(Token)
        BY <1>1 DEF Types
      <4> QED
        BY <4>1, <4>2
    <3> QED
      BY <1>1, <1>8, <2>1, <2>5, <3>1, <3>2, <3>3, EntersRight
  <2> QED
    BY <1>2, <2>2, <2>3, <2>4, <2>5
<1>13. CASE Fails("Format error")
  BY <1>1, <1>13, ParserFails
<1> QED
  BY <1>3, <1>11, <1>12, <1>13

LEMMA RightDigitsStep == IInv /\ rightDigits => IInv'
<1> SUFFICES ASSUME IInv, rightDigits PROVE IInv'
  OBVIOUS
<1> DEFINE seq   == Getseq(idx, DigitChars)
           n     == Len(seq)
           at    == idx + n
           field == Sided("right", seq)
           end   == Suffix(field, at)
<1>1. Types /\ phase = "right" /\ UNCHANGED <<buf, filling>>
  BY DEF IInv, rightDigits
<1>2. idx \in 1 .. Len(buf) + 1 /\ Len(buf) \in Nat /\ DOMAIN buf = 1 .. Len(buf)
  BY <1>1 DEF Types
<1>3. (info' = end.field /\ Save(end.field, end.idx)) \/ Fails("Format error")
  BY DEF rightDigits
<1>4. seq = Getseq(idx, DigitChars) /\ n = Len(seq) /\ at = idx + n /\ field = Sided("right", seq)
  OBVIOUS
<1>5. end = Suffix(field, at)
  OBVIOUS
<1> HIDE DEF seq, n, at, field, end
<1>6. n \in Nat /\ at \in 1 .. Len(buf) + 1
  <2>1. "end" \notin DigitChars
    BY DEF DigitChars
  <2>2. n \in Nat /\ idx + n \in 1 .. Len(buf) + 1
    BY <1>1, <1>2, <1>4, <2>1, PassedOver
  <2> QED
    BY <1>4, <2>2
<1>7. field \in Field
  BY <1>1, <1>2, <1>4, SidedField
<1>8. end.field \in Field /\ end.idx \in at .. Len(buf) + 1 /\ (Plain => end.field = field /\ end.idx = at)
  BY <1>1, <1>5, <1>6, <1>7, SuffixEnds
<1>9. ASSUME Plain
      PROVE  Simple(field) /\ BetweenNumbers(at) /\ ColumnsOf(tokens) + Columns(field) = at - 1
  <2>1. Simple(info) /\ BehindPoint(idx) /\ ColumnsOf(tokens) = idx - 2 - info.left
    BY <1>1, <1>9 DEF IInv, KeepsColumns, Covered
  <2>2. At(idx) = "#" /\ At(idx - 1) = "."
    BY <2>1 DEF BehindPoint
  <2>3. idx \in 1 .. Len(buf) /\ buf[idx] = "#"
    BY <1>2, <2>2 DEF At
  <2>4. /\ n \in Nat \ {0} /\ Digits(seq) = n /\ ~ Contains(seq, ",")
        /\ At(idx + n - 1) = "#" /\ At(idx + n) # "#" /\ At(idx + n) # "."
    BY <1>1, <1>4, <1>9, <2>2, <2>3, PlainRun
  <2>0. at = idx + n /\ idx \in Int /\ n \in Int /\ n > 0
    <3>1. n \in Nat \ {0}
      BY <2>4, Zenon
    <3> QED
      BY <1>2, <1>4, <1>6, <3>1
  <2>5. At(at - 1) = "#" /\ At(at) # "#" /\ At(at) # "."
    <3>1. At(idx + n - 1) = "#" /\ At(idx + n) # "#" /\ At(idx + n) # "."
      BY <2>4
    <3> HIDE DEF at
    <3> QED
      BY <2>0, <3>1
  <2>6. BetweenNumbers(at)
    BY <2>5 DEF BetweenNumbers
  <2>7. field = [info EXCEPT !.right = n, !.doComma = FALSE]
    <3>1. Contains(seq, ",") = FALSE
      BY <2>4 DEF Contains
    <3>2. field = [info EXCEPT !.right = Digits(seq), !.doComma = Contains(seq, ",")]
      BY <1>4 DEF Sided
    <3> QED
      BY <2>4, <3>1, <3>2
  <2>8. info \in Field
    BY <1>1 DEF Types
  <2>9. Simple(field) /\ field.left = info.left /\ field.right = n /\ field.kind = "numeric"
    BY <2>1, <2>7, <2>8 DEF Field, Simple
  <2>10. Columns(field) = field.left + 1 + n
    <3>1. Columns(field) = Width(field)
      BY <2>9 DEF Columns
    <3>2. Doubled(field) = 0 /\ ~ field.exponential
      BY <2>9 DEF Simple, Doubled
    <3>3. Fraction(field) = 1 + n
      BY <2>0, <2>9, <3>2 DEF Fraction
    <3>4. field.left \in Nat
      BY <1>7 DEF Field
    <3> QED
      BY <2>0, <3>1, <3>2, <3>3, <3>4 DEF Width
  <2>11. info.left \in Nat
    BY <2>8 DEF Field
  <2>12. ColumnsOf(tokens) + Columns(field) = at - 1
    <3>1. ColumnsOf(tokens) = idx - 2 - info.left /\ field.left = info.left
      BY <2>1, <2>9
    <3> HIDE DEF at, field
    <3> QED
      BY <2>0, <2>10, <2>11, <3>1
  <2> QED
    BY <2>6, <2>9, <2>12
<1>10. CASE info' = end.field /\ Save(end.field, end.idx)
  <2>1. end.idx \in 1 .. Len(buf) + 1
    BY <1>2, <1>6, <1>8
  <2>2. end.field \in Token
    BY <1>8 DEF Token
  <2> DEFINE tok == end.field
             i   == end.idx
  <2>3. tok \in Token /\ i \in 1 .. Len(buf) + 1 /\ Save(tok, i) /\ info' \in Field /\ info' = tok
    BY <1>8, <1>10, <2>1, <2>2
  <2>4. Plain => /\ Simple(info') /\ (tok.kind = "numeric" => Simple(tok)) /\ BetweenNumbers(i)
                 /\ ColumnsOf(tokens) + Columns(tok) = i - 1
    BY <1>8, <1>9, <2>3
  <2> HIDE DEF tok, i
  <2> QED
    BY <1>1, <2>3, <2>4, ParserSaves
<1>11. CASE Fails("Format error")
  BY <1>1, <1>11, ParserFails
<1> QED
  BY <1>3, <1>10, <1>11

LEMMA ParseEndsStep == IInv /\ parseEnds => IInv'
<1> SUFFICES ASSUME IInv, parseEnds PROVE IInv'
  OBVIOUS
<1>1. /\ Types /\ phase = "parse" /\ phase' = "print" /\ buf' = buf /\ idx' = idx /\ info' = info
      /\ tokens' = tokens /\ tokIdx' = tokIdx /\ piece' = piece /\ piece = NoPiece /\ Peekch(idx) = "end"
  BY DEF IInv, NothingYet, parseEnds, Parse, filling
<1>2. idx - 1 = Len(buf)
  <2>1. idx \in 1 .. Len(buf) + 1 /\ Len(buf) \in Nat
    BY <1>1 DEF Types
  <2>2. idx > Len(buf)
    BY <1>1, <2>1, PeekIsAt
  <2> QED
    BY <2>1, <2>2
<1>3. Types'
  BY <1>1 DEF Types
<1>4. KeepsColumns'
  <2>1. Plain' <=> Plain
    BY <1>1, PlainFormat
  <2>2. piece'.kind # "fits"
    BY <1>1 DEF NoPiece
  <2>3. ASSUME Plain
        PROVE  /\ Covered(Len(buf))' /\ Simple(info)'
               /\ \A k \in DOMAIN tokens' : tokens'[k].kind = "numeric" => Simple(tokens'[k])
    <3>1. /\ Covered(idx - 1) /\ Simple(info)
          /\ \A k \in DOMAIN tokens : tokens[k].kind = "numeric" => Simple(tokens[k])
      BY <1>1, <2>3 DEF IInv, KeepsColumns
    <3> QED
      BY <1>1, <1>2, <3>1 DEF Covered, Simple
  <2> QED
    BY <1>1, <2>1, <2>2, <2>3 DEF KeepsColumns
<1> QED
  BY <1>1, <1>3, <1>4 DEF IInv, NothingYet, UsingPanicsAreExplained
-----------------------------------------------------------------------------
\* Printing

\* A step that fills a field, or stops.
LEMMA PrinterSteps ==
  ASSUME IInv, phase = "print", UNCHANGED parsed, tokIdx' \in Nat,
         phase' \notin {"parse", "right"},
         phase' = "panic" => piece' # NoPiece /\ WholeLen(piece'.tok, piece'.op) > MaxDigits,
         Plain => (piece'.kind = "fits" => piece'.len = Width(piece'.tok))
  PROVE  IInv'
<1>1. /\ Types /\ buf' = buf /\ idx' = idx /\ info' = info /\ tokens' = tokens
      /\ phase' # "parse" /\ phase' # "right"
  BY DEF IInv, parsed
<1>2. Types'
  BY <1>1 DEF Types
<1>3. KeepsColumns'
  <2>1. Plain' <=> Plain
    BY <1>1, PlainFormat
  <2>2. ASSUME Plain
        PROVE  /\ Covered(Len(buf))' /\ Simple(info)'
               /\ \A k \in DOMAIN tokens' : tokens'[k].kind = "numeric" => Simple(tokens'[k])
    <3>1. /\ Covered(Len(buf)) /\ Simple(info)
          /\ \A k \in DOMAIN tokens : tokens[k].kind = "numeric" => Simple(tokens[k])
      BY <2>2 DEF IInv, KeepsColumns
    <3> QED
      BY <1>1, <3>1 DEF Covered, Simple
  <2> QED
    BY <1>1, <2>1, <2>2 DEF KeepsColumns
<1>4. UsingPanicsAreExplained'
  BY DEF UsingPanicsAreExplained, NoPiece, WholeLen
<1> QED
  BY <1>1, <1>2, <1>3, <1>4 DEF IInv, NothingYet

\* A number comes out as one of these: if it does not fit the float, it has too many digits; and
\* if it fits a simple field, it takes the field's columns.
LEMMA NumberComes ==
  ASSUME NEW tok \in Field, NEW op, op.digits \in Nat
  PROVE  /\ Comes(tok, op) \in {"Format error", "over", "panic", "fits"}
         /\ Comes(tok, op) = "panic" => WholeLen(tok, op) > MaxDigits
         /\ Simple(tok) => printedLen(tok, op) = Width(tok)
<1>1. Comes(tok, op) \in {"Format error", "over", "panic", "fits"}
  BY DEF Comes
<1>2. Comes(tok, op) = "panic" => WholeLen(tok, op) > MaxDigits
  BY DEF Comes
<1>3. ASSUME Simple(tok) PROVE printedLen(tok, op) = Width(tok)
  <2>1. Doubled(tok) = 0 /\ Commas(tok, op) = 0
    BY <1>3 DEF Simple, Doubled, Commas
  <2>2. WholeLen(tok, op) \in Int /\ Fraction(tok) \in Int /\ tok.left \in Int
    BY DEF WholeLen, Fraction, Field
  <2>3. Fill(tok, op) = tok.left - WholeLen(tok, op)
    BY <2>1, <2>2 DEF Fill
  <2> QED
    BY <2>1, <2>2, <2>3 DEF printedLen, Width
<1> QED
  BY <1>1, <1>2, <1>3

LEMMA FillingSteps ==
  ASSUME IInv,
         \/ cycle \/ character \/ printLine
         \/ \E op \in Operands : stringPiece(op) \/ numericPiece(op)
  PROVE  IInv'
<1>1. Types /\ tokIdx \in Nat /\ tokIdx + 1 \in Nat
  BY DEF IInv, Types
<1>2. CASE cycle
  <2>1. /\ phase = "print" /\ UNCHANGED parsed /\ piece' = NoPiece
        /\ (phase' = "print" \/ phase' = "Format error") /\ (tokIdx' = 0 \/ tokIdx' = tokIdx)
    BY <1>2 DEF cycle, Filling, Stops
  <2>2. piece'.kind # "fits"
    BY <2>1 DEF NoPiece
  <2>3. tokIdx' \in Nat
    <3>1. tokIdx' = 0 \/ tokIdx' = tokIdx
      BY <2>1, Zenon
    <3> QED
      BY <1>1, <3>1
  <2>4. phase' # "parse" /\ phase' # "right" /\ phase' # "panic"
    BY <2>1
  <2> QED
    BY <2>1, <2>2, <2>3, <2>4, PrinterSteps
<1>3. CASE character
  <2>1. phase = "print" /\ UNCHANGED parsed /\ piece' = NoPiece /\ phase' = "print" /\ tokIdx' = tokIdx + 1
    BY <1>3 DEF character, NextField, Filling
  <2>2. piece'.kind # "fits"
    BY <2>1 DEF NoPiece
  <2> QED
    BY <1>1, <2>1, <2>2, PrinterSteps
<1>4. CASE printLine
  <2>1. phase = "print" /\ UNCHANGED parsed /\ piece' = piece /\ phase' = "done" /\ tokIdx' = tokIdx
    BY <1>4 DEF printLine, Filling
  <2>2. Plain => (piece'.kind = "fits" => piece'.len = Width(piece'.tok))
    BY <2>1 DEF IInv, KeepsColumns
  <2> QED
    BY <1>1, <2>1, <2>2, PrinterSteps
<1>5. ASSUME NEW op \in Operands, stringPiece(op) PROVE IInv'
  <2>1. /\ phase = "print" /\ UNCHANGED parsed /\ (piece' = NoPiece \/ piece' = [kind |-> "string", len |-> Tok.len])
        /\ (phase' = "print" \/ phase' = "String operand expected") /\ (tokIdx' = tokIdx \/ tokIdx' = tokIdx + 1)
    BY <1>5 DEF stringPiece, NextField, Filling, Stops, Takes
  <2>2. piece'.kind # "fits"
    <3>1. CASE piece' = NoPiece
      BY <3>1 DEF NoPiece
    <3>2. CASE piece' = [kind |-> "string", len |-> Tok.len]
      BY <3>2
    <3> QED
      BY <2>1, <3>1, <3>2
  <2>3. tokIdx' \in Nat
    BY <1>1, <2>1
  <2>4. phase' # "parse" /\ phase' # "right" /\ phase' # "panic"
    BY <2>1
  <2> QED
    BY <2>1, <2>2, <2>3, <2>4, PrinterSteps
<1>6. ASSUME NEW op \in Operands, numericPiece(op) PROVE IInv'
  <2>1. phase = "print" /\ UNCHANGED parsed /\ tokIdx < Len(tokens) /\ Tok.kind = "numeric"
    BY <1>6 DEF numericPiece, NextField, Filling
  <2>2. CASE op.type = "string"
    <3>1. piece' = NoPiece /\ phase' = "Numeric operand expected" /\ tokIdx' = tokIdx
      BY <1>6, <2>2 DEF numericPiece, Stops
    <3>2. piece'.kind # "fits"
      BY <3>1 DEF NoPiece
    <3> QED
      BY <1>1, <2>1, <3>1, <3>2, PrinterSteps
  <2>3. CASE op.type # "string"
    <3> DEFINE tok  == Tok
               came == Comes(tok, op)
               k    == tokIdx + 1
    <3>1. /\ piece' = [kind |-> came, tok |-> tok, op |-> op, len |-> printedLen(tok, op)]
          /\ phase' \in {"print", came} /\ tokIdx' \in {tokIdx, tokIdx + 1}
          /\ came \in {"over", "fits"} => phase' = "print"
      BY <1>6, <2>1, <2>3 DEF numericPiece, Takes, Stops
    <3>2. k \in DOMAIN tokens /\ tok = tokens[k] /\ tokens[k] \in Token
      BY <1>1, <2>1 DEF Types, Tok
    <3>3. tok.kind = "numeric"
      BY <2>1
    <3> HIDE DEF tok, k
    <3>4. tok \in Field
      BY <3>2, <3>3 DEF Token
    <3>5. op.digits \in Nat
      BY <2>3, PrintUsingAssumption
    <3>6. /\ came \in {"Format error", "over", "panic", "fits"}
          /\ came = "panic" => WholeLen(tok, op) > MaxDigits
          /\ Simple(tok) => printedLen(tok, op) = Width(tok)
      BY <3>4, <3>5, NumberComes
    <3>7. Plain => Simple(tok)
      BY <3>2, <3>3 DEF IInv, KeepsColumns
    <3> HIDE DEF came
    <3>8. piece'.kind = came /\ piece'.tok = tok /\ piece'.op = op /\ piece'.len = printedLen(tok, op)
      BY <3>1
    <3>9. piece' # NoPiece
      <4>1. came # "none" /\ NoPiece.kind = "none"
        BY <3>6 DEF NoPiece
      <4> QED
        BY <3>8, <4>1
    <3> QED
      BY <1>1, <2>1, <3>1, <3>6, <3>7, <3>8, <3>9, PrinterSteps
  <2> QED
    BY <2>2, <2>3
<1> QED
  BY <1>2, <1>3, <1>4, <1>5, <1>6

LEMMA StepKeepsInvariant == IInv /\ [Next]_vars => IInv'
<1> SUFFICES ASSUME IInv, [Next]_vars PROVE IInv'
  OBVIOUS
<1>1. CASE charField \/ firstChar \/ stringField \/ leftDigits \/ rightDigits \/ parseEnds
  BY <1>1, CharacterStep, FirstCharacterStep, StringFieldStep, LeftDigitsStep, RightDigitsStep, ParseEndsStep
<1>2. CASE doubled("$", "dollar") \/ doubled("*", "fillchar")
  BY <1>2, DoubledStep
<1>3. CASE cycle \/ character \/ printLine \/ \E op \in Operands : stringPiece(op) \/ numericPiece(op)
  BY <1>3, FillingSteps
<1>4. CASE UNCHANGED vars
  <2>1. Types' /\ NothingYet'
    BY <1>4 DEF vars, parsed, filling, IInv, Types, NothingYet
  <2>2. UsingPanicsAreExplained'
    BY <1>4 DEF vars, parsed, filling, IInv, UsingPanicsAreExplained, WholeLen
  <2>3. KeepsColumns'
    BY <1>4 DEF vars, parsed, filling, IInv, KeepsColumns, Plain, Run, At, BetweenNumbers, BehindPoint, Covered, Simple
  <2> QED
    BY <2>1, <2>2, <2>3 DEF IInv
<1> QED
  BY <1>1, <1>2, <1>3, <1>4 DEF Next

\* In every state the tokens cover, column by column, what has been parsed of a plain format.
THEOREM UsingKeepsItsInvariant == Spec => []IInv
<1> QED
  BY Start, StepKeepsInvariant, PTL DEF Spec

\* For every format and all operands, the interpreter gives up on PRINT USING only where a number
\* without a point ends the format, or has all the digits of a float.
THEOREM PanicsAreExplained == Spec => []UsingPanicsAreExplained
<1>1. IInv => UsingPanicsAreExplained
  BY DEF IInv
<1> QED
  BY <1>1, UsingKeepsItsInvariant, PTL

\* For every format in which every number has digits on both sides of its point, and no sign,
\* comma, fill or exponent, the tokens have the columns of the format, and every number that fits
\* those of its field.
THEOREM ColumnsAreKept == Spec => []PlainFormatsKeepColumns
<1>1. IInv => PlainFormatsKeepColumns
  BY DEF IInv, KeepsColumns, PlainFormatsKeepColumns, Covered
<1> QED
  BY <1>1, UsingKeepsItsInvariant, PTL
=============================================================================
