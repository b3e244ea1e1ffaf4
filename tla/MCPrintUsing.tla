------------------------------ MODULE MCPrintUsing -----------------------------
(***************************************************************************)
(* Small instances of PrintUsing for TLC: all the formats of up to four of *)
(* some parts, and a float of three digits.                                *)
(***************************************************************************)
EXTENDS PrintUsingProps

MCParts ==
  {<<"#">>, <<"#", "#", "#">>, <<"#", ".", "#">>, <<".", "#">>, <<",">>, <<"-">>, <<"^", "^", "^", "^">>, <<"^">>, <<"$", "$">>,
   <<"*">>, <<"\\", " ">>, <<"\\">>, <<"!">>, <<" ">>}

MCFormats == {FlattenSeq(parts) : parts \in BoundedSeq(MCParts, 4)}

num(negative, digits) == [type |-> "number", negative |-> negative, digits |-> digits]

MCOperands == {[type |-> "string"], num(FALSE, 1), num(TRUE, 2), num(FALSE, 4)}
=============================================================================
