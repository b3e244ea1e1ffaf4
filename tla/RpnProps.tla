------------------------------- MODULE RpnProps -------------------------------
(***************************************************************************)
(* What the expression processor relies on: token lists of which every     *)
(* operator finds its operands on the stack, and those of the right kind.  *)
(* A list says what that stack is before it runs: an item of it is the     *)
(* token that was pushed, or the kind of what an operator left.            *)
(***************************************************************************)
EXTENDS Rpn

SymbolsAreShaped ==
  /\ \A s \in Scalars \cup DOMAIN Dims : s.tok \in Variables
  /\ \A s \in DOMAIN Dims : Len(Dims[s]) \in {1, 2} /\ \A k \in 1 .. Len(Dims[s]) : Dims[s][k] \in Nat

ASSUME SymbolAssumption == SymbolsAreShaped

Elements1(s) == {<<s, <<j>>>> : j \in 0 .. Dims[s][1]}
Elements2(s) == {<<s, <<j, k>>>> : j \in 0 .. Dims[s][1], k \in 0 .. Dims[s][2]}

Cells == {<<s, <<>>>> : s \in Scalars}
  \cup UNION {IF Len(Dims[s]) = 1 THEN Elements1(s) ELSE Elements2(s) : s \in DOMAIN Dims}

Integers16 == {Integer(n) : n \in minInt16 .. maxInt16}
Floats     == {Float(d) : d \in -floatMax .. floatMax}
WildFloats == Floats \cup {Float(d) : d \in {Inf, -Inf, NaN}}
Strings    == {String(n) : n \in 0 .. maxStringLen}
Data       == Integers16 \cup WildFloats \cup Strings

\* What a cell holds, by the type of its symbol, and an argument, which need not be finite.
ValuesOf(s)    == CASE s.tok = "IVAR" -> Integers16 [] s.tok = "FVAR" -> Floats [] OTHER -> Strings
ArgumentsOf(s) == CASE s.tok = "IVAR" -> Integers16 [] s.tok = "FVAR" -> WildFloats [] OTHER -> Strings

IsMemory(m) == m = [c \in Cells |-> m[c]] /\ \A c \in Cells : m[c] \in ValuesOf(c[1])
IsFrame(a)  == DOMAIN a \subseteq Scalars /\ \A s \in DOMAIN a : a[s] \in ArgumentsOf(s)

-----------------------------------------------------------------------------
(* The stack that a token list builds.                                      *)

\* What an operator leaves: a finite number, any, or a string.
Finite == [tok |-> "FINITE", data |-> 0]
Wild   == [tok |-> "WILD", data |-> 0]
AString   == [tok |-> "TEXT", data |-> 0]

IsNumber(k) == k.tok \in {"FINITE", "WILD", "INTEGER", "FLOAT"} \/ (k \in Scalars /\ k.tok # "SVAR")
IsText(k)   == k.tok \in {"TEXT", "STRING"} \/ (k \in Scalars /\ k.tok = "SVAR")
IsWild(k)   == k = Wild \/ k \in DOMAIN args

Numbers(ks) == \A k \in DOMAIN ks : IsNumber(ks[k])
Texts(ks)   == \A k \in DOMAIN ks : IsText(ks[k])

Upper(shape, n) == [k \in 1 .. n |-> shape[Len(shape) - n + k]]
Lower(shape, n) == SubSeq(shape, 1, Len(shape) - n)

Subscripting == {"SUBSCR1", "SUBSCR2"}
Arity(op)    == IF op \in UnaryOps \cup {"SUBSCR1"} THEN 1 ELSE 2
Top(shape)   == shape[Len(shape)]

\* Only a product is not looked at when it is out of range, nor is what a sign, ABS or SQR
\* makes of one.
Left(op, operands) ==
  IF op = "CONCAT" THEN AString
  ELSE IF op = "STAR" \/ (op \in {"UNEG", "ABS", "SQR"} /\ IsWild(operands[1])) THEN Wild
  ELSE Finite

\* The stack after a token.
After(shape, token, target) ==
  LET n == Arity(token.tok) IN
  CASE token.tok \in Operators -> Append(Lower(shape, n), Left(token.tok, Upper(shape, n)))
    [] token.tok \in Subscripting ->
         IF target THEN Lower(shape, n)
         ELSE Append(Lower(shape, n + 1),
                     IF Top(Lower(shape, n)).tok = "SVAR" THEN AString ELSE Finite)
    [] token.tok = "NCALL" -> Append(Lower(shape, Top(Lower(shape, 1)).data + 2), Finite)
    [] OTHER -> Append(shape, token)

\* The operators between strings take nothing else, and == both: it is not replaced.
Suits(op, operands) ==
  \/ op \in StringTests \cup {"CONCAT", "LEN", "APPROX"} /\ Texts(operands)
  \/ op \notin StringTests \cup {"CONCAT", "LEN"} /\ Numbers(operands)

\* The token finds what it needs.
Fits(shape, token, target) ==
  LET n == Arity(token.tok) IN
  \/ token \in Integers16 \cup Floats \cup Strings \cup Scalars \cup DOMAIN Dims
  \/ token.tok \in Functions
  \/ /\ token.tok \in Operators /\ n <= Len(shape)
     /\ Suits(token.tok, Upper(shape, n))
  \/ /\ token.tok \in Subscripting /\ n < Len(shape) /\ Numbers(Upper(shape, n))
     /\ target \/ Top(Lower(shape, n)) \in DOMAIN Dims
  \/ /\ token.tok = "NCALL" /\ Len(shape) >= 2 /\ Top(shape).tok \in Functions
     /\ LET count == Top(Lower(shape, 1))
        IN  /\ count.tok = "INTEGER" /\ count.data \in 0 .. Len(shape) - 2
            /\ \A k \in 1 .. count.data :
                 LET operand == Upper(shape, count.data + 2)[k] IN IsNumber(operand) \/ IsText(operand)

\* IsTarget of the token k of side d.
Targets(c, d, k) == d = "lhs" /\ k >= Len(c.lhs) - 1

\* The stack before each token of a list, and after the last.
Shapes(c, d) ==
  LET shape[k \in 0 .. Len(c[d])] ==
        IF k = 0 THEN <<>> ELSE After(shape[k - 1], c[d][k], Targets(c, d, k))
  IN  shape
Final(c, d) == Shapes(c, d)[Len(c[d])]

\* The subscripts of the left side are left in lhsRetVal by the tokens before k.
Aims(c, k) == \E j \in 1 .. k - 1 : c.lhs[j].tok \in Subscripting /\ Targets(c, "lhs", j)

Sound(c) ==
  /\ \A d \in {"lhs", "rhs"} : Len(c[d]) \in Nat /\ \A k \in 1 .. Len(c[d]) : Fits(Shapes(c, d)[k - 1], c[d][k], Targets(c, d, k))
  /\ Len(Final(c, "lhs")) = 1 /\ Len(Final(c, "rhs")) = 1
  /\ Final(c, "lhs")[1] \in IF Aims(c, Len(c.lhs) + 1) THEN DOMAIN Dims ELSE Scalars
  /\ IF Final(c, "lhs")[1].tok = "SVAR" THEN Texts(Final(c, "rhs")) ELSE Numbers(Final(c, "rhs"))

-----------------------------------------------------------------------------

\* An item is what the list says.
Is(item, k) ==
  CASE k = Finite -> item \in Integers16 \cup Floats
    [] k = Wild   -> item \in Integers16 \cup WildFloats
    [] k = AString   -> item \in Strings
    [] OTHER      -> item = k

StackIsTyped ==
  LET shape == Shapes(code, side)[idx - 1]
  IN  Len(stack) = Len(shape) /\ stack = [k \in 1 .. Len(shape) |-> stack[k]]
        /\ \A k \in 1 .. Len(shape) : Is(stack[k], shape[k])

\* The place to store to is one that may be, but for the range of its subscripts.
PlaceIsTyped ==
  /\ lval = [sym |-> lval.sym, subs |-> lval.subs]
  /\ IF Aims(code, IF side = "lhs" THEN idx ELSE Len(code.lhs) + 1)
     THEN /\ Len(lval.subs) \in {1, 2} /\ lval.subs = [k \in 1 .. Len(lval.subs) |-> lval.subs[k]]
          /\ \A k \in 1 .. Len(lval.subs) : lval.subs[k] \in Int
     ELSE lval.subs = <<>>
  /\ side = "rhs" => lval.sym = Final(code, "lhs")[1] /\ Modifiable(lval.sym, lval.subs)

\* Every variable has its type; in particular the stack is what the token lists say, each cell
\* holds a value of the type of its symbol, integers within Width bits, and no cell ever holds
\* an Inf or a NaN, although a product may be one: what is stored is checked.
TypeOK ==
  /\ Sound(code) /\ side \in {"lhs", "rhs"} /\ idx \in 1 .. Len(code[side]) + 1
  /\ StackIsTyped /\ PlaceIsTyped /\ IsMemory(mem) /\ IsFrame(args)
  /\ handler \in BOOLEAN /\ printed \in Nat
  /\ out \in {"", "done", "fault", "error", "fatal"}

\* An expression the parser accepts does not take the interpreter to fatalError, whatever the
\* variables hold: but for == between strings, which requireCompatibleOperands passes on as an
\* operator on numbers.
OnlyApproxIsFatal ==
  out = "fatal" =>
    /\ idx <= Len(code[side]) /\ Op = "APPROX"
    /\ \A k \in {1, 2} : Popped(2)[k].tok = "STRING"

-----------------------------------------------------------------------------

\* A call of a user function runs statements: it leaves a memory as it should be, and returns what
\* one of them has stored, a number.
KeepsTypes(f, v, m) ==
  LET called == Body(f, v, m)
  IN  /\ f.tok \in Functions /\ IsMemory(m)
      /\ Len(v) \in Nat /\ v = [k \in 1 .. Len(v) |-> v[k]] /\ \A k \in 1 .. Len(v) : v[k] \in Data
      /\ Len(called.types) = Len(v) /\ \A k \in 1 .. Len(v) : BaseType(v[k]) = called.types[k]
      => IsMemory(called.mem) /\ called.val \in Integers16 \cup Floats

\* The statement, of any sound code, from any memory.
RpnInit == Start(code) /\ Sound(code) /\ IsMemory(mem) /\ IsFrame(args) /\ handler \in BOOLEAN

RpnSpec == RpnInit /\ [][Process]_rpnVars
=============================================================================
