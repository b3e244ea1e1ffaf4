------------------------------- MODULE MCForLoop -------------------------------
(***************************************************************************)
(* Small instances of ForLoop for TLC: integers to five, two of which no   *)
(* FOR may reach, and floats that are exact to six and shown below three.  *)
(***************************************************************************)
EXTENDS ForLoopProps

MCInteger == - 6 .. 5
MCFloat   == {- 12, - 6, - 2, 0, 1, 5, 6, 12}
=============================================================================
