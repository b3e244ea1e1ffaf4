--------------------------- MODULE ExpressionProps ---------------------------
(* What the expression processor must get right. *)
EXTENDS Expressions, RpnProps

\* The statement does what its trees mean: the postfix list, the order in which operands come
\* off the stack, the reading of symbols when they are popped and the zeros that stand in for
\* faulted results amount to evaluation from left to right, with the value stored where the
\* left side says.
LetDoesWhatItSays ==
  out # "" => LET s == Assign(let) IN mem = s.mem /\ printed = s.printed /\ out = s.out

\* The type that the parser gives a numeric expression is the type of its value: FOR relies
\* on it for the assertions to.(float64) and to.(int16).  It is not so for a sign or ABS, which
\* keep the type of their operand, for an element of an array, which the parser mistakes for
\* an operator on the array and its subscripts, and for a function, which returns what was
\* assigned to it.
StaticTypesHold ==
  /\ out = "" /\ side = "rhs" /\ idx > Len(code.rhs)
  /\ ~ isString(let.rhs) /\ ~ Mentions({"UNEG", "ABS", "SUBSCR", "NCALL"}, let.rhs)
  => Popped(1)[1].tok = expressionType(let.rhs)
=============================================================================
