------------------------------ MODULE ForLoopProps -----------------------------
(***************************************************************************)
(* A FOR loop against the sequence of values that it is written for.       *)
(***************************************************************************)
EXTENDS ForLoop

\* The values of FOR v = from TO to STEP step that a loop can have.
Written ==
  LET reach == IF vType = "IVAR" THEN IntMin .. IntMax ELSE - Exact .. Exact
  IN {v \in reach :
        /\ (v - from) % Abs(item.step) = 0
        /\ IF item.step > 0 THEN from <= v /\ v <= item.to ELSE item.to <= v /\ v <= from}

\* The value that ends the list, or the first value if there is none.
LastWritten == IF Written = {} THEN from
               ELSE from + (Cardinality(Written) - 1) * item.step

Overrun == {"FOR overflow", "infinite loop"}

AsWritten == ~ item.while /\ ~ assigned /\ phase # "FOR"

\* A TO loop that leaves its variable alone executes its body once for each value, and leaves the
\* last one in the variable; if it ends with an error it has missed those only that come after an
\* integer next to the last two, or a float too large to be printed exactly.
EveryValueOnce ==
  /\ AsWritten
  /\ vType = "FVAR" => {from, item.to + item.step} \subseteq - Exact .. Exact
  =>
    /\ phase = "after" => count = Cardinality(Written) /\ value = LastWritten
    /\ phase \in Overrun =>
         /\ value = from + (count - 1) * item.step
         /\ IF vType = "IVAR" THEN value + item.step \notin minForInteger .. maxForInteger
            ELSE Abs(value) >= Shown

\* And it ends, whatever the float: one that does not change any more, as far as can be seen, is
\* an error.
LoopsEnd ==
  phase \in {"body", "NEXT", "again"}
    ~> phase \in {"FOR", "after"} \cup Overrun \/ item.while \/ assigned
=============================================================================
