------------------------------ MODULE MCSession ------------------------------
(***************************************************************************)
(* Small instances of Session for TLC: three line numbers, so that         *)
(* RENUMBER cannot always number every line, written with two digits, so   *)
(* that it changes their length, and two files.                            *)
(***************************************************************************)
EXTENDS SessionProps

CONSTANTS fileA, fileB

Bits == {"0", "1"}

Binary(n) == <<<<"1">>, <<"1", "0">>, <<"1", "1">>, <<"1", "0", "0">>>>[n]

ValueOf(bits) == FoldLeft(LAMBDA acc, bit : 2 * acc + (IF bit = "1" THEN 1 ELSE 0), 0, bits)

\* END comes first in a line or later, and before another line, which refers to a line
\* that is there or not, some with two references, one with a zero before the first of them,
\* and one without a blank behind its number.
TypedLines == {
  <<"1", "goto", "1", "comma", "1">>,
  <<"blank", "1", "other", "colon", "end">>,
  <<"1", "0", "blank", "end">>,
  <<"1", "1", "goto", "0", "1", "comma", "1">>}

\* The editor leaves a file with a line that does not parse, a number alone, and a line
\* behind END.
EditedFiles == {
  <<<<"1", "0", "goto", "1">>, <<"1", "goto", "1", "0">>, <<"other">>, <<"1", "0">>, <<"1", "0", "end">>,
    <<"1", "1", "other">>>>}

LineIncrements == {1, 2}

Files == Permutations(Names)

NoFaults == {}
=============================================================================
