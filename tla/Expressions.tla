----------------------------- MODULE Expressions -----------------------------
(***************************************************************************)
(* Expression trees as the parser builds and checks them, their            *)
(* compilation into token lists, and the LET statement that Rpn runs on    *)
(* them.                                                                   *)
(***************************************************************************)
EXTENDS Rpn

CONSTANTS
  Lets,       \* the statements: a tree for the left side and one for the right
  Memories,   \* what the variables may hold at first
  Frames      \* the arguments of the active function: none, or some

VARIABLE let  \* the statement as parsed, and the memory it started with

Node(tok, operands) == [tok |-> tok, data |-> 0, operands |-> operands]
Leaf(token)         == [tok |-> token.tok, data |-> token.data, operands |-> <<>>]

-----------------------------------------------------------------------------
(* The parser.                                                              *)

stringOps == {"STRING", "SVAR", "CONCAT"}
isString(t) == (IF t.tok = "SUBSCR" THEN t.operands[1].tok ELSE t.tok) \in stringOps

\* Fault variant: < is forgotten.
morphWithoutLess(op, t) ==
  IF ~ isString(t) THEN op
  ELSE CASE op = "PLUS" -> "CONCAT" [] op = "EQ" -> "STREQ" [] op = "NE" -> "STRNE"
         [] op = "GE" -> "STRGE" [] OTHER -> op

\* requireCompatibleOperands: the operator, or what it becomes between strings.
morph(op, t) ==
  IF ~ isString(t) THEN op
  ELSE CASE op = "PLUS" -> "CONCAT" [] op = "EQ" -> "STREQ" [] op = "NE" -> "STRNE"
         [] op = "LT" -> "STRLT" [] op = "GE" -> "STRGE" [] OTHER -> op

IntegerOps == {"INTEGER", "IVAR", "LEN", "NOT"} \cup NumberTests \cup StringTests \cup LogicOps

\* The type the parser takes a numeric tree for.  (It gives up on a call with arguments.)
RECURSIVE expressionType(_)
expressionType(t) ==
  IF t.tok \in IntegerOps THEN "INTEGER"
  ELSE IF t.tok \in {"FLOAT", "FVAR", "FNFVAR"} \/ Len(t.operands) < 2 THEN "FLOAT"
  ELSE IF \A k \in DOMAIN t.operands : expressionType(t.operands[k]) = "INTEGER"
  THEN "INTEGER" ELSE "FLOAT"

\* What the grammar's actions require of the operands of an operator.
accepts(op, u) ==
  CASE op \in LogicOps -> \A k \in DOMAIN u : expressionType(u[k]) = "INTEGER"
    [] op = "NOT"      -> expressionType(u[1]) = "INTEGER"
    [] op \in {"PLUS"} \cup NumberTests -> isString(u[1]) = isString(u[2])
    [] op = "LEN"      -> isString(u[1])
    [] OTHER           -> \A k \in DOMAIN u : ~ isString(u[k])

Parsed(op, u) == Node(morph(op, u[1]), u)

RECURSIVE Mentions(_, _)
Mentions(ops, t) == t.tok \in ops \/ \E k \in DOMAIN t.operands : Mentions(ops, t.operands[k])

\* While parsingUneg is up, from a minus sign to the end of the next operand of one, the
\* integers read are negated (and the sign remains).  The number of arguments is not read.
RECURSIVE negated(_)
negated(t) ==
  LET isCount(k) == t.tok = "NCALL" /\ k = Len(t.operands) - 1
      isDown(k)  == \E j \in 1 .. k - 1 : Mentions({"UNEG"}, t.operands[j])
  IN  CASE t.tok = "INTEGER" -> [t EXCEPT !.data = -@]
        [] t.tok = "UNEG"    -> t
        [] OTHER             -> [t EXCEPT !.operands = [k \in DOMAIN @ |->
                                   IF isCount(k) \/ isDown(k) THEN @[k] ELSE negated(@[k])]]
RECURSIVE signed(_)
signed(t) ==
  LET u == [k \in DOMAIN t.operands |-> signed(t.operands[k])]
  IN  [t EXCEPT !.operands = IF t.tok = "UNEG" THEN <<negated(u[1])>> ELSE u]

\* A call carries its arguments, their number and the function; an array, its subscripts.
Call(f, u)    == Node("NCALL", u \o <<Leaf(Integer(Len(u))), Leaf(f)>>)
Element(a, u) == Node("SUBSCR", <<Leaf(a), IF Len(u) = 1 THEN u[1] ELSE Node("INTPAIR", u)>>)

\* createRpnExprInternal: the operands in order, then the operator.
RECURSIVE createRpn(_)
createRpn(t) ==
  LET below == FlattenSeq([k \in DOMAIN t.operands |-> createRpn(t.operands[k])])
      token(tok) == [tok |-> tok, data |-> t.data]
  IN  IF t.tok # "SUBSCR" THEN Append(below, token(t.tok))
      ELSE IF Last(below).tok = "INTPAIR" THEN Append(Front(below), token("SUBSCR2"))
      ELSE Append(below, token("SUBSCR1"))

-----------------------------------------------------------------------------
(* The statement.                                                           *)

Init ==
  /\ mem \in Memories /\ args \in Frames /\ handler \in BOOLEAN
  /\ \E l \in Lets : let = [lhs |-> signed(l.lhs), rhs |-> signed(l.rhs), mem |-> mem]
  /\ Start([lhs |-> createRpn(let.lhs), rhs |-> createRpn(let.rhs)])

Spec == Init /\ [][Process /\ UNCHANGED let]_<<rpnVars, let>>

-----------------------------------------------------------------------------
(***************************************************************************)
(* What a tree means, without a stack: an operator applies to the values   *)
(* that its operands have when all of them have been evaluated, from left  *)
(* to right.  A state is the item a tree gives, a literal or a symbol, and *)
(* what its evaluation does to the memory, the reports and the statement.  *)
(***************************************************************************)
With(s, item)  == [s EXCEPT !.item = item]
Ended(s, how)  == [s EXCEPT !.out = how]
Given(s, r) ==
  CASE r.kind = "push"  -> With(s, r.val)
    [] r.kind = "arith" -> IF handler THEN Ended(s, "fault")
                           ELSE [With(s, r.val) EXCEPT !.printed = @ + 1]
    [] OTHER            -> Ended(s, r.kind)

\* The values that the items gathered in s have now, and those as subscripts.
Values(s) == [k \in DOMAIN s.items |-> Value(s.items[k], s.mem)]
AsSubs(v) == [k \in DOMAIN v |-> asInt16(v[k])]
Indexes(sym, v) ==
  (\A k \in DOMAIN v : fits16(v[k])) /\ Modifiable(sym, AsSubs(v))

\* The element of an array, and a call, from the values of the operands.
ElementOf(s, sym, v) ==
  IF Indexes(sym, v) /\ InRange(sym, AsSubs(v))
  THEN With(s, s.mem[<<sym, AsSubs(v)>>]) ELSE Ended(s, "error")
ResultOf(s, f, v) ==
  LET called == Body(f, v, s.mem)
  IN  IF called.types = [k \in DOMAIN v |-> BaseType(v[k])]
      THEN [With(s, called.val) EXCEPT !.mem = called.mem] ELSE Ended(s, "error")

\* The trees of the operands, and the symbol that is called or indexed.
OperandsOf(t) ==
  CASE t.tok = "NCALL"  -> SubSeq(t.operands, 1, Len(t.operands) - 2)
    [] t.tok = "SUBSCR" -> IF t.operands[2].tok = "INTPAIR" THEN t.operands[2].operands
                           ELSE <<t.operands[2]>>
    [] OTHER            -> t.operands
Symbol(t) ==
  LET leaf == CASE t.tok = "NCALL"  -> Last(t.operands)
                [] t.tok = "SUBSCR" -> t.operands[1]
                [] OTHER            -> t
  IN  [tok |-> leaf.tok, data |-> leaf.data]

\* The node itself, when its operands have been evaluated.
Finish(t, s) ==
  IF s.out # "" THEN s
  ELSE CASE t.tok = "NCALL"  -> ResultOf(s, Symbol(t), Values(s))
         [] t.tok = "SUBSCR" -> ElementOf(s, Symbol(t), Values(s))
         [] OTHER            -> Given(s, Apply(t.tok, Values(s)))

RECURSIVE Eval(_, _)
\* Each of the trees u in turn from s: the state after the last, with all the items.
InOrder(u, s) ==
  FoldLeft(LAMBDA a, t : LET after == Eval(t, a)
                         IN  [after EXCEPT !.items = Append(a.items, after.item)],
           [s EXCEPT !.items = <<>>], u)
Eval(t, s) ==
  IF s.out # "" THEN s
  ELSE IF t.operands = <<>> THEN With(s, Symbol(t))
  ELSE Finish(t, InOrder(OperandsOf(t), s))

\* Where a left side means to store, its subscripts read before the right side runs.
Aimed(sym, s) ==
  IF s.out # "" THEN s
  ELSE IF Indexes(sym, Values(s)) THEN [s EXCEPT !.sym = sym, !.subs = AsSubs(Values(s))]
  ELSE Ended(s, "error")
Target(t, s) == Aimed(Symbol(t), IF t.tok = "SUBSCR" THEN InOrder(OperandsOf(t), s) ELSE s)

\* The value is read; an Inf or NaN is reported, and is zero if no handler is armed.  It is
\* stored as one of the type of the variable.
Checked(s) ==
  LET v == Value(s.item, s.mem)
  IN  IF s.out # "" THEN s
      ELSE IF v.tok = "FLOAT" /\ floatingError(v.data) THEN Given(s, Arith(Float(0)))
      ELSE With(s, v)
Stored(s) ==
  IF s.out # "" THEN s
  ELSE IF Storable(s.sym, s.item) /\ InRange(s.sym, s.subs)
  THEN [Ended(s, "done") EXCEPT !.mem[<<s.sym, s.subs>>] = Converted(s.sym, s.item)]
  ELSE Ended(s, "error")

\* What the statement l does.
Assign(l) ==
  LET nothing == [item |-> Integer(0), items |-> <<>>, sym |-> Integer(0), subs |-> <<>>,
                  mem |-> l.mem, printed |-> 0, out |-> ""]
  IN  Stored(Checked(Eval(l.rhs, Target(l.lhs, nothing))))
=============================================================================
