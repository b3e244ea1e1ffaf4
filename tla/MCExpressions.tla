---------------------------- MODULE MCExpressions ----------------------------
(***************************************************************************)
(* LET statements over three simple variables, a list and a table, with    *)
(* three-bit integers and floats of halves, up to 4.                       *)
(***************************************************************************)
EXTENDS ExpressionProps

X == [tok |-> "FVAR", data |-> 1]
I == [tok |-> "IVAR", data |-> 1]
S == [tok |-> "SVAR", data |-> 1]
List  == [tok |-> "IVAR", data |-> 2]
Table == [tok |-> "FVAR", data |-> 2]
FNA == [tok |-> "FNFVAR", data |-> 1]
FNB == [tok |-> "FNFVAR", data |-> 2]

\* The arrays share their names with simple variables, as they may.
SimpleVariables == {X, I, S, List, Table}
Arrays == (List :> <<1>>) @@ (Table :> <<1, 1>>)

\* FNA(X) adds its argument to X and returns an integer; FNB counts I up and returns a float.
Functions2(f, v, m) ==
  IF f = FNA
  THEN LET sum == FloatPlus(m[<<X, <<>>>>].data, asFloat(v[1]))
       IN  [types |-> <<"FLOAT">>, val |-> Integer(1),
            mem |-> [m EXCEPT ![<<X, <<>>>>] = Float(IF floatingError(sum) THEN 0 ELSE sum)]]
  ELSE [types |-> <<>>, val |-> Float(3),
        mem |-> [m EXCEPT ![<<I, <<>>>>] = int16(@.data + 1)]]

Memory(x, i, s) ==
  [c \in Cells |->
     CASE c[1] = X -> Float(x) [] c[1] = I -> Integer(i) [] c[1] = S -> String(s)
       [] c[1] = List /\ c[2] = <<>>  -> Integer(0)
       [] c[1] = Table /\ c[2] = <<>> -> Float(1)
       [] c[1] = List -> Integer(1 - c[2][1]) [] c[1] = Table -> Float(c[2][1] + 2 * c[2][2])]
SomeMemories == {Memory(3, 1, 1), Memory(-6, -4, 2)}

\* What the theorems assume of user functions.
ASSUME FunctionsKeepTypes ==
  \A x \in -8 .. 8, i \in -4 .. 3 :
    LET m == Memory(x, i, 0)
    IN  KeepsTypes(FNB, <<>>, m) /\ \A v \in Data : KeepsTypes(FNA, <<v>>, m)

NoFrame    == <<>>
SomeFrames == {NoFrame, X :> Float(2)}

-----------------------------------------------------------------------------
Made1(ops, U)    == {t \in {Node(op, <<u>>) : op \in ops, u \in U} : accepts(t.tok, t.operands)}
Made2(ops, U, W) ==
  {Parsed(o[1], <<o[2], o[3]>>) : o \in {o \in ops \X U \X W : accepts(o[1], <<o[2], o[3]>>)}}

Leaves0 == {Leaf(X), Leaf(I), Leaf(S), Leaf(Integer(3)), Leaf(Float(3)), Leaf(String(1))}
Written == ArithmeticOps \cup NumberTests \cup LogicOps

Calls    == {Call(FNB, <<>>)} \cup {Call(FNA, <<u>>) : u \in {Leaf(X), Leaf(I), Leaf(Float(3))}}
Elements == {Element(List, <<u>>) : u \in {Leaf(X), Leaf(I)}}
              \cup {Element(Table, <<Leaf(I), u>>) : u \in {Leaf(Float(2)), Call(FNB, <<>>)}}
Shallow  == Leaves0 \cup Calls \cup Elements \cup Made1(UnaryOps, Leaves0)
              \cup Made2(Written, Leaves0, Leaves0)
Deep     == Shallow
  \cup Made2({"PLUS", "SLASH", "STAR"}, Shallow, {Leaf(X), Call(FNB, <<>>)})
  \cup Made2({"MINUS", "GE"}, {Leaf(X)}, Shallow)
  \cup Made1({"UNEG", "SQR"}, Shallow)

Let(l, r) == [lhs |-> l, rhs |-> r]
Stores(t) == IF isString(t) THEN {Let(Leaf(S), t)} ELSE {Let(Leaf(X), t), Let(Leaf(I), t)}

\* Every tree stored in a simple variable, and some into elements whose subscripts are
\* expressions that fault, call or lie out of range.
Statements == UNION {Stores(t) : t \in Deep}
  \cup {Let(Element(List, <<u>>), t) :
          u \in {Leaf(X), Leaf(I)} \cup Calls
                  \cup Made2({"PLUS", "SLASH"}, {Leaf(X), Leaf(I)}, {Leaf(X)} \cup Calls \cup Elements),
          t \in {Leaf(X), Call(FNB, <<>>)}}
  \cup {Let(Element(Table, <<u, Leaf(I)>>), Call(FNB, <<>>)) : u \in {Leaf(X), Leaf(I)} \cup Elements}
=============================================================================
