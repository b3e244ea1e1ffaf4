------------------------------ MODULE MCArrays ------------------------------
(***************************************************************************)
(* Small instances of Arrays for TLC: three arrays of floats and one of    *)
(* integers, vectors, square and oblong matrices, and data of both types.  *)
(***************************************************************************)
EXTENDS ArraysProps

CONSTANTS A, B, C, I

MCRowIds == 1 .. 18

dim(name, dims) == [token |-> "DIM", name |-> name, dims |-> dims]
data(items)     == [token |-> "DATA", items |-> items]
number(n)       == [type |-> "number", value |-> n]
string(s)       == [type |-> "string", value |-> s]

MCPrograms ==
  {<<dim(A, <<2, 2>>), dim(B, <<2, 2>>), dim(I, <<2, 2>>), data(<<number(1), number(3), number(2)>>)>>,
   <<dim(A, <<1, 2>>), dim(B, <<2, 2>>), dim(I, <<1, 1>>), data(<<string(<<2, 1, 1, 1, 1, 1, 1, 1, 1>>)>>)>>,
   <<dim(A, <<1, 2>>), dim(B, <<2, 1>>), dim(I, <<2>>), dim(A, <<1>>), data(<<number(1)>>)>>,
   <<data(<<string(<<2, 1>>), number(4), number(3), number(1)>>),
     dim(A, <<1, 1>>), dim(B, <<2, 2>>), dim(C, <<1, 1>>), dim(I, <<1>>)>>,
   <<dim(A, <<3>>), dim(B, <<2, 1>>), dim(I, <<1, 3>>),
     data(<<string(<<1, 2, 1>>), number(1), number(2), number(3), number(3), number(3)>>)>>}

MCSubscripts == {<<0>>, <<0, 0>>, <<2, 1>>}

MCReadLists == {<<"x", "k">>, <<"str", "k">>}
=============================================================================
