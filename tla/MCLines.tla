-------------------------------- MODULE MCLines --------------------------------
(***************************************************************************)
(* Small instances of Lines for TLC: lines of up to MaxParts parts behind  *)
(* their beginning.                                                        *)
(***************************************************************************)
EXTENDS LinesProps

MaxParts == 3

Starts == {<<>>, <<"1">>, <<"blank", "1">>, <<"1", "1", "blank">>}

Parts ==
  {<<"blank", "blank">>, <<"1">>, <<"x">>, <<"fnx">>, <<"rem">>, <<"def">>, <<"new">>, <<"else">>, <<"end">>,
   <<"apostrophe">>, <<"quote">>, <<"comma">>, <<"semicolon">>, <<"colon">>, <<"bang">>, <<"percent">>,
   <<"wide">>}

MCTyped == {start \o FlattenSeq(parts) : start \in Starts, parts \in BoundedSeq(Parts, MaxParts)}
=============================================================================
