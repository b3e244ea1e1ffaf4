-------------------------------- MODULE Rpn ---------------------------------
(***************************************************************************)
(* The expression processor running one LET statement: executeLet          *)
(* evaluates the list of tokens of the left side for the place to store    *)
(* to, that of the right side for the value, and stores it.                *)
(*                                                                         *)
(* Integers have Width bits, as int16 has 16.  A float64 is a number of    *)
(* units of 1/unit, rounded to the nearest, up to floatMax, or one of Inf, *)
(* -Inf and NaN.  A string is a run of one character, given by its length. *)
(* A variable is its type and a number.                                    *)
(***************************************************************************)
EXTENDS Integers, Sequences, SequencesExt

CONSTANTS
  Width, unit, floatMax, maxStringLen,
  Dims,            \* the arrays: the last subscripts of each, by symbol
  Scalars,         \* the simple variables
  Body(_, _, _)    \* what a call of a user function with these arguments does to the memory

\* (The powers of two are spelled out: no prover knows them.)
ASSUME WidthAssumption ==
  /\ Width \in Nat /\ Width > 1 /\ unit \in Nat \ {0}
  /\ 2 ^ Width = 2 * 2 ^ (Width - 1) /\ \A k \in 0 .. Width : 2 ^ k \in Nat \ {0}
  /\ floatMax \in Nat /\ floatMax >= unit * 2 ^ (Width - 1)
  /\ maxStringLen \in Nat /\ maxStringLen < 2 ^ (Width - 1)

VARIABLES
  code,      \* the token lists of the two sides
  side,      \* the one being evaluated
  idx,       \* the token about to be processed
  stack,     \* state.stack: literals, and symbols not read yet
  lval,      \* lhsRetVal: where to store
  mem,       \* the symbol table: the value of each cell, a symbol with its subscripts
  args,      \* paramMap of the active user function
  handler,   \* an ON ERROR handler is armed
  printed,   \* arithmetic faults reported and survived
  out        \* "" while the statement runs, then how it ended

rpnVars == <<code, side, idx, stack, lval, mem, args, handler, printed, out>>

Literals  == {"INTEGER", "FLOAT", "STRING"}
Variables == {"FVAR", "IVAR", "SVAR"}
Functions == {"FNFVAR"}

Integer(n) == [tok |-> "INTEGER", data |-> n]
Float(d)   == [tok |-> "FLOAT", data |-> d]
String(n)  == [tok |-> "STRING", data |-> n]

isInt(v)    == v.tok = "INTEGER"
Numeric(v)  == v.tok \in {"INTEGER", "FLOAT"}
BaseType(v) == CASE v.tok \in {"INTEGER", "IVAR"} -> "INTEGER"
                 [] v.tok \in {"FLOAT", "FVAR"}   -> "FLOAT"
                 [] OTHER                         -> "STRING"

-----------------------------------------------------------------------------
(* Numbers.                                                                 *)

minInt16   == -(2 ^ (Width - 1))
maxInt16   == 2 ^ (Width - 1) - 1
int16(n)   == Integer(((n - minInt16) % 2 ^ Width) + minInt16)
boolToInt16(b) == Integer(IF b THEN -1 ELSE 0)

\* The bits of a number in two's complement, and the number of a set of bits.
Bits(n)     == {k \in 0 .. Width - 1 : (n \div 2 ^ k) % 2 = 1}
FromBits(S) ==
  LET sum[k \in 0 .. Width] ==
        IF k = 0 THEN 0 ELSE sum[k - 1] + (IF k - 1 \in S THEN 2 ^ (k - 1) ELSE 0)
  IN  int16(sum[Width])

Inf == floatMax + 1
NaN == floatMax + 2
floatingError(d) == d \in {Inf, -Inf, NaN}
Negative(d)      == IF d = NaN THEN NaN ELSE -d

\* Go's integer division, and division rounded to the nearest, to an even one if two are.
Magnitude(n)   == IF n < 0 THEN -n ELSE n
Quotient(a, b) == LET q == Magnitude(a) \div Magnitude(b) IN IF (a < 0) = (b < 0) THEN q ELSE -q
Nearest(a, b) ==
  LET n == IF b < 0 THEN -a ELSE a
      d == IF b < 0 THEN -b ELSE b
      q == n \div d
  IN  IF 2 * (n % d) > d \/ (2 * (n % d) = d /\ q % 2 = 1) THEN q + 1 ELSE q
Rounded(d)     == IF d > floatMax THEN Inf ELSE IF d < -floatMax THEN -Inf ELSE d
SignedInf(a, b) == IF (a < 0) = (b < 0) THEN Inf ELSE -Inf

FloatPlus(a, b) ==
  IF NaN \in {a, b} \/ (floatingError(a) /\ b = -a) THEN NaN
  ELSE IF floatingError(a) THEN a
  ELSE IF floatingError(b) THEN b
  ELSE Rounded(a + b)
FloatStar(a, b) ==
  IF NaN \in {a, b} \/ (0 \in {a, b} /\ \E d \in {a, b} : floatingError(d)) THEN NaN
  ELSE IF \E d \in {a, b} : floatingError(d) THEN SignedInf(a, b)
  ELSE Rounded(Nearest(a * b, unit))
FloatSlash(a, b) ==
  IF NaN \in {a, b} \/ (floatingError(a) /\ floatingError(b)) THEN NaN
  ELSE IF floatingError(b) THEN 0
  ELSE IF floatingError(a) THEN SignedInf(a, b)
  ELSE Rounded(Nearest(a * unit, b))

\* rpnPopFloat and rpnPopInt16, the second for numbers that floatToInt16 accepts.
asFloat(v) == IF isInt(v) THEN unit * v.data ELSE v.data
fits16(v)  ==
  /\ Numeric(v)
  /\ isInt(v) \/ (~ floatingError(v.data) /\ v.data \in unit * minInt16 .. unit * maxInt16)
asInt16(v) == IF isInt(v) THEN v.data ELSE Quotient(v.data, unit)

-----------------------------------------------------------------------------
(* Operators, applied to the values of their operands.                      *)

Push(v)  == [kind |-> "push", val |-> v]
Arith(v) == [kind |-> "arith", val |-> v]       \* arithFault, with the zero it pushes
Error    == [kind |-> "error", val |-> Integer(0)]
Fatal    == [kind |-> "fatal", val |-> Integer(0)]

\* checkFloatingStatus
checkFloatingStatus(d) == IF floatingError(d) THEN Arith(Float(0)) ELSE Push(Float(d))

\* Fault variant: a quotient of integers is a float.
floatQuotients(op, a, b) ==
  CASE op = "PLUS"  -> Push(int16(a + b))
    [] op = "MINUS" -> Push(int16(a - b))
    [] op = "STAR"  -> Push(int16(a * b))
    [] op = "SLASH" -> IF b = 0 THEN Arith(Integer(0)) ELSE Push(Float(Nearest(a * unit, b)))

IntArithmetic(op, a, b) ==
  CASE op = "PLUS"  -> Push(int16(a + b))
    [] op = "MINUS" -> Push(int16(a - b))
    [] op = "STAR"  -> Push(int16(a * b))
    [] op = "SLASH" -> IF b = 0 THEN Arith(Integer(0)) ELSE Push(int16(Quotient(a, b)))

FloatArithmetic(op, a, b) ==
  CASE op = "PLUS"  -> checkFloatingStatus(FloatPlus(a, b))
    [] op = "MINUS" -> checkFloatingStatus(FloatPlus(a, Negative(b)))
    [] op = "STAR"  -> Push(Float(FloatStar(a, b)))
    [] op = "SLASH" -> IF b = 0 THEN Arith(Float(0)) ELSE checkFloatingStatus(FloatSlash(a, b))

\* Comparisons of numbers; of strings, by their STR operators.
Compares(op, a, b, ordered) ==
  CASE op \in {"EQ", "APPROX", "STREQ"} -> ordered /\ a = b
    [] op \in {"NE", "STRNE"}           -> ~ ordered \/ a # b
    [] op \in {"LT", "STRLT"}           -> ordered /\ a < b
    [] op \in {"GE", "STRGE"}           -> ordered /\ a >= b

Logic(op, a, b) ==
  CASE op = "AND" -> FromBits(Bits(a) \cap Bits(b))
    [] op = "OR"  -> FromBits(Bits(a) \cup Bits(b))
    [] op = "XOR" -> FromBits((Bits(a) \cup Bits(b)) \ (Bits(a) \cap Bits(b)))
    [] op = "EQV" -> boolToInt16((a # 0) = (b # 0))
    [] op = "IMP" -> boolToInt16(a # 0 => b # 0)

ArithmeticOps == {"PLUS", "MINUS", "STAR", "SLASH"}
NumberTests   == {"EQ", "NE", "LT", "GE", "APPROX"}
StringTests   == {"STREQ", "STRNE", "STRLT", "STRGE"}
LogicOps      == {"AND", "OR", "XOR", "EQV", "IMP"}
BinaryOps     == ArithmeticOps \cup NumberTests \cup StringTests \cup LogicOps \cup {"CONCAT"}
UnaryOps      == {"UNEG", "ABS", "NOT", "SQR", "LEN"}
Operators     == BinaryOps \cup UnaryOps

Binary(op, a, b) ==
  CASE op \in ArithmeticOps \cup NumberTests ->     \* rpnPopTwoNumbers
         IF ~ (Numeric(a) /\ Numeric(b)) THEN Fatal
         ELSE LET ints == isInt(a) /\ isInt(b)
                  x == IF ints THEN a.data ELSE asFloat(a)
                  y == IF ints THEN b.data ELSE asFloat(b)
              IN  IF op \in NumberTests
                  THEN Push(boolToInt16(Compares(op, x, y, ints \/ NaN \notin {x, y})))
                  ELSE IF ints THEN IntArithmetic(op, x, y) ELSE FloatArithmetic(op, x, y)
    [] op \in LogicOps ->                           \* rpnPopInt16, rpnPopBool
         IF ~ (Numeric(a) /\ Numeric(b)) THEN Fatal
         ELSE IF fits16(a) /\ fits16(b) THEN Push(Logic(op, asInt16(a), asInt16(b))) ELSE Error
    [] OTHER ->                                     \* rpnPopString, rpnPushString
         IF ~ (a.tok = "STRING" /\ b.tok = "STRING") THEN Fatal
         ELSE IF op \in StringTests THEN Push(boolToInt16(Compares(op, a.data, b.data, TRUE)))
         ELSE IF a.data + b.data <= maxStringLen THEN Push(String(a.data + b.data)) ELSE Error

\* The square root of a, in units, to the nearest.
Root(a) == IF floatingError(a) THEN a
           ELSE CHOOSE d \in 0 .. floatMax :
                  /\ 4 * a * unit < (2 * d + 1) * (2 * d + 1)
                  /\ d = 0 \/ 4 * a * unit >= (2 * d - 1) * (2 * d - 1)

Unary(op, a) ==
  IF (op = "LEN") # (a.tok = "STRING") THEN Fatal
  ELSE
  CASE op = "LEN"  -> Push(Integer(a.data))
    [] op = "UNEG" -> Push(IF isInt(a) THEN int16(-a.data) ELSE Float(Negative(a.data)))
    [] op = "ABS"  -> IF isInt(a)
                      THEN IF a.data = minInt16 THEN Error ELSE Push(Integer(Magnitude(a.data)))
                      ELSE Push(Float(Magnitude(a.data)))
    [] op = "NOT"  -> IF fits16(a) THEN Push(boolToInt16(asInt16(a) = 0)) ELSE Error
    [] op = "SQR"  -> IF asFloat(a) < 0 THEN Arith(Float(0)) ELSE Push(Float(Root(asFloat(a))))

Apply(op, v) == IF op \in UnaryOps THEN Unary(op, v[1]) ELSE Binary(op, v[1], v[2])

-----------------------------------------------------------------------------
(* The symbol table and the stack.                                          *)

\* rpnPopValue: a literal is its own value; a symbol is read when it is popped, the
\* argument of the active function before the variable.
Value(item, m) ==
  IF item.tok \notin Variables THEN item
  ELSE IF item \in DOMAIN args THEN args[item]
  ELSE m[<<item, <<>>>>]

\* lookupSymbolRef lets a symbol with subscripts pass that is no parameter and has as many
\* dimensions; computeSubs, cells that exist.
Modifiable(sym, subs) ==
  /\ sym \notin DOMAIN args
  /\ subs # <<>> => Len(Dims[sym]) = Len(subs)
InRange(sym, subs) == \A k \in DOMAIN subs : subs[k] \in 0 .. Dims[sym][k]

\* Fault variant: the operands in the order in which they come off the stack.
poppedBackwards(n) == [k \in 1 .. n |-> Value(stack[Len(stack) + 1 - k], mem)]

\* The items below the topmost n, and the values of those.
Below(n)  == SubSeq(stack, 1, Len(stack) - n)
Popped(n) == [k \in 1 .. n |-> Value(stack[Len(stack) - n + k], mem)]

-----------------------------------------------------------------------------
(* Processing the token lists.                                              *)

\* evaluateRpnExpr starts with an empty stack.
Start(c) ==
  /\ code = c /\ side = "lhs" /\ idx = 1 /\ stack = <<>>
  /\ lval = [sym |-> Integer(0), subs |-> <<>>]
  /\ printed = 0 /\ out = ""

Op      == code[side][idx].tok
Running == out = "" /\ idx <= Len(code[side])

\* What an operator that leaves result does to the stack below its operands.  An
\* arithmetic fault ends the statement only if a handler is armed.
Leaves(rest, result) ==
  CASE result.kind = "push"  -> /\ stack' = Append(rest, result.val) /\ idx' = idx + 1
                                /\ UNCHANGED <<printed, out>>
    [] result.kind = "arith" -> /\ stack' = Append(rest, result.val) /\ idx' = idx + 1
                                /\ printed' = IF handler THEN printed ELSE printed + 1
                                /\ out' = IF handler THEN "fault" ELSE ""
    [] OTHER                 -> out' = result.kind /\ UNCHANGED <<stack, idx, printed>>

PushOperand ==
  /\ Running /\ Op \in Literals \cup Variables \cup Functions
  /\ Leaves(stack, Push(code[side][idx]))
  /\ UNCHANGED <<code, side, lval, mem, args, handler>>

Operate ==
  /\ Running /\ Op \in Operators
  /\ LET n == IF Op \in UnaryOps THEN 1 ELSE 2
     IN  IF Len(stack) < n THEN Leaves(stack, Fatal)
         ELSE Leaves(Below(n), Apply(Op, Popped(n)))
  /\ UNCHANGED <<code, side, lval, mem, args, handler>>

\* The subscripts that SUBSCR1 or SUBSCR2 takes from the stack, if they are numbers in range.
Subscripts == Popped(IF Op = "SUBSCR2" THEN 2 ELSE 1)
GoodSubs   == \A k \in DOMAIN Subscripts : fits16(Subscripts[k])
Subs       == [k \in DOMAIN Subscripts |-> asInt16(Subscripts[k])]

\* The test for the subscript of the left side itself, which is left for the end.
IsTarget == side = "lhs" /\ idx >= Len(code.lhs) - 1

\* SUBSCR1, SUBSCR2: the element itself.
Subscript ==
  /\ Running /\ Op \in {"SUBSCR1", "SUBSCR2"} /\ ~ IsTarget
  /\ LET rest == Below(Len(Subscripts))
         sym  == Last(rest)
     IN  IF GoodSubs /\ Modifiable(sym, Subs) /\ InRange(sym, Subs)
         THEN Leaves(Front(rest), Push(mem[<<sym, Subs>>]))
         ELSE Leaves(stack, Error)
  /\ UNCHANGED <<code, side, lval, mem, args, handler>>

SubscriptTarget ==
  /\ Running /\ Op \in {"SUBSCR1", "SUBSCR2"} /\ IsTarget
  /\ IF GoodSubs
     THEN /\ lval' = [lval EXCEPT !.subs = Subs]
          /\ stack' = Below(Len(Subscripts)) /\ idx' = idx + 1 /\ UNCHANGED <<printed, out>>
     ELSE Leaves(stack, Error) /\ UNCHANGED lval
  /\ UNCHANGED <<code, side, mem, args, handler>>

\* NCALL: the function on top, the number of its arguments below it, and those.
CallFunction ==
  /\ Running /\ Op = "NCALL"
  /\ LET n      == stack[Len(stack) - 1].data
         actual == SubSeq(Popped(n + 2), 1, n)
         called == Body(Last(stack), actual, mem)
     IN  IF Len(called.types) = n /\ \A k \in 1 .. n : BaseType(actual[k]) = called.types[k]
         THEN Leaves(Below(n + 2), Push(called.val)) /\ mem' = called.mem
         ELSE Leaves(stack, Error) /\ UNCHANGED mem
  /\ UNCHANGED <<code, side, lval, args, handler>>

\* The left side ends with the symbol; the right side follows on an empty stack.
EndOfLhs ==
  /\ out = "" /\ side = "lhs" /\ idx > Len(code.lhs)
  /\ IF Len(stack) # 1 \/ stack[1].tok \notin Variables
     THEN out' = "fatal" /\ UNCHANGED <<side, idx, stack, lval>>
     ELSE IF Modifiable(stack[1], lval.subs)
     THEN /\ side' = "rhs" /\ idx' = 1 /\ stack' = <<>>
          /\ lval' = [lval EXCEPT !.sym = stack[1]] /\ UNCHANGED out
     ELSE out' = "error" /\ UNCHANGED <<side, idx, stack, lval>>
  /\ UNCHANGED <<code, mem, args, handler, printed>>

\* Fault variant: the check of the range is missing.
storesAnything(sym, v) == TRUE

\* processLhs: the value as one of the type of the symbol.
Storable(sym, v) == sym.tok = "IVAR" => fits16(v)
Converted(sym, v) ==
  CASE sym.tok = "IVAR" -> Integer(asInt16(v))
    [] sym.tok = "FVAR" -> Float(asFloat(v))
    [] OTHER            -> v

\* The right side ends with the value, which is checked once more, and stored.
EndOfRhs ==
  /\ out = "" /\ side = "rhs" /\ idx > Len(code.rhs)
  /\ IF Len(stack) # 1
     THEN out' = "fatal" /\ UNCHANGED <<mem, printed>>
     ELSE LET top == Popped(1)[1]
              bad == top.tok = "FLOAT" /\ floatingError(top.data)
              v   == IF bad THEN Float(0) ELSE top
          IN  IF bad /\ handler THEN out' = "fault" /\ UNCHANGED <<mem, printed>>
              ELSE /\ printed' = IF bad THEN printed + 1 ELSE printed
                   /\ IF Storable(lval.sym, v) /\ InRange(lval.sym, lval.subs)
                      THEN /\ mem' = [mem EXCEPT ![<<lval.sym, lval.subs>>] = Converted(lval.sym, v)]
                           /\ out' = "done"
                      ELSE out' = "error" /\ UNCHANGED mem
  /\ UNCHANGED <<code, side, idx, stack, lval, args, handler>>

Process ==
  \/ PushOperand \/ Operate \/ Subscript \/ SubscriptTarget \/ CallFunction
  \/ EndOfLhs \/ EndOfRhs
=============================================================================
