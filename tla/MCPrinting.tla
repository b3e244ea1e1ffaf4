------------------------------ MODULE MCPrinting ------------------------------
(***************************************************************************)
(* Small instances of Printing for TLC: zones of three characters, windows *)
(* of two and three zones and one that is too small.                       *)
(***************************************************************************)
EXTENDS PrintingProps

sep(kind)      == [kind |-> kind]
number(len)    == Text("number", len)
string(len)    == Text("string", len)
lines(len, at) == [kind |-> "string", len |-> len, newline |-> TRUE, tail |-> at]
TAB(n)         == [kind |-> "TAB", tab |-> n]
call(tab, len) == [kind |-> "call", tab |-> tab, len |-> len]

MCPrints ==
  {<<number(2), sep("COMMA"), string(3), sep("COMMA"), string(1)>>,
   <<string(7), sep("COMMA"), number(3), sep("TRAILING_COMMA")>>,
   <<string(1), sep("TRAILING_SEMI")>>,
   <<TAB(5), sep("SEMI"), string(1), sep("TRAILING_SEMI")>>,
   <<call(4, 1), sep("DCOMMA"), number(1)>>,
   <<lines(3, 1), sep("COMMA"), TAB(4)>>}

MCMats == {[rows |-> 2, cols |-> 2, sep |-> "COMMA"], [rows |-> 2, cols |-> 1, sep |-> "none"],
           [rows |-> 1, cols |-> 2, sep |-> "SEMI"]}
=============================================================================
