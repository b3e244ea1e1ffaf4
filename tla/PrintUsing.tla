------------------------------ MODULE PrintUsing ------------------------------
(***************************************************************************)
(* PRINT USING (prtu.go): the format, a sequence of characters, is turned  *)
(* into tokens, one at a time, and then the tokens are filled with the     *)
(* operands.  Of what is printed only the lengths are kept.                *)
(***************************************************************************)
EXTENDS Integers, Sequences, FiniteSets, SequencesExt

CONSTANTS
  Formats,      \* sequences of characters
  Operands,     \* what is printed: strings, and numbers with their digits before the point
  MaxDigits,    \* the digits that a float has
  MaxOperands   \* bound of the model: the number of operands

ASSUME PrintUsingAssumption ==
  /\ Formats \subseteq Seq(STRING) /\ \A format \in Formats : ~ Contains(format, "end")
  /\ MaxDigits \in Nat \ {0} /\ MaxOperands \in Nat \ {0}
  /\ \A op \in Operands : op.type = "string" \/ op.digits \in Nat \ {0}

VARIABLES
  buf, idx,   \* prtuCtl.buf, and where the next character is
  info,       \* the numeric field: made once, it keeps what a field has set for those after it
  tokens,     \* prtuCtl.tokens
  opIdx,      \* how many operands have been taken
  tokIdx,     \* how many tokens have been used
  piece,      \* the last field: its token, its operand, how it came out and its length
  newlines,   \* how often the terminal has got a new line before the line is printed
  phase       \* "parse", "right" (the digits after the point are next), "print", or how it ended

parsed  == <<buf, idx, info, tokens>>
filling == <<opIdx, tokIdx, piece, newlines>>
vars    == <<parsed, filling, phase>>

-----------------------------------------------------------------------------
\* The format

\* prtuPeekch, at most at the end of the format.
Peekch(i) == IF i <= Len(buf) THEN buf[i] ELSE "end"

\* prtuGetseq: the longest sequence of these characters.
Getseq(i, chars) ==
  LET rest == SubSeq(buf, i, Len(buf))
      stop == SelectInSeq(rest, LAMBDA ch : ch \notin chars)
  IN IF stop = 0 THEN rest ELSE SubSeq(rest, 1, stop - 1)

prtuChar      == [kind |-> "char"]
prtuString(n) == [kind |-> "string", len |-> n]

\* prtuNumeric
NoField ==
  [kind |-> "numeric", left |-> 0, right |-> 0, dollar |-> FALSE, fillchar |-> FALSE,
   trailingMinus |-> FALSE, doComma |-> FALSE, exponential |-> FALSE]

Parse == phase = "parse" /\ UNCHANGED <<buf, filling>>

Fails(how) == phase' = how /\ UNCHANGED <<idx, info, tokens>>

\* prtuSaveToken
Save(tok, i) == idx' = i /\ tokens' = Append(tokens, tok) /\ phase' = "parse"

charField ==
  /\ Parse /\ Peekch(idx) \notin {"$", "*", "#", "\\", "!", "end"}
  /\ Save(prtuChar, idx + 1) /\ UNCHANGED info

firstChar == Parse /\ Peekch(idx) = "!" /\ Save(prtuString(1), idx + 1) /\ UNCHANGED info

\* $$ and ** are part of a field; one of them alone is a character.
doubled(ch, flag) ==
  /\ Parse /\ Peekch(idx) = ch
  /\ IF Peekch(idx + 1) = ch
     THEN idx' = idx + 2 /\ info' = [info EXCEPT ![flag] = TRUE] /\ UNCHANGED <<tokens, phase>>
     ELSE Save(prtuChar, idx + 1) /\ UNCHANGED info

Closing == idx + 1 + Len(Getseq(idx + 1, {" "}))

\* Fault variant: the closing backslash is taken without a look.
stringUnchecked ==
  /\ Parse /\ Peekch(idx) = "\\"
  /\ IF Peekch(Closing) = "end" THEN Fails("panic")
     ELSE Save(prtuString(Closing - idx + 1), Closing + 1) /\ UNCHANGED info

stringField ==
  /\ Parse /\ Peekch(idx) = "\\"
  /\ IF Peekch(Closing) # "\\" THEN Fails("Format error")
     ELSE Save(prtuString(Closing - idx + 1), Closing + 1) /\ UNCHANGED info

-----------------------------------------------------------------------------
\* Numeric fields

DigitChars == {"#", ","}

Digits(seq) == Cardinality({k \in DOMAIN seq : seq[k] = "#"})

\* Fault variant: the digits are added to those of the field before.
addedUp(side, seq) == [info EXCEPT ![side] = @ + Digits(seq), !.doComma = Contains(seq, ",")]

\* The digits on one side of the point; a comma among them sets doComma, no comma resets it.
Sided(side, seq) == [info EXCEPT ![side] = Digits(seq), !.doComma = Contains(seq, ",")]

\* What may follow the digits: a minus for the end, or an exponent of four or five carets.
Suffix(field, i) ==
  LET carets == Len(Getseq(i, {"^"}))
  IN CASE Peekch(i) = "-" -> [field |-> [field EXCEPT !.trailingMinus = TRUE], idx |-> i + 1, ok |-> TRUE]
       [] Peekch(i) = "^" -> [field |-> [field EXCEPT !.exponential = TRUE], idx |-> i + carets,
                              ok |-> carets \in 4 .. 5]
       [] OTHER           -> [field |-> field, idx |-> i, ok |-> TRUE]

\* A dollar or fill is not for exponents.
Allowed(end) == end.ok /\ ~ ((end.field.dollar \/ end.field.fillchar) /\ end.field.exponential)

\* prtuCtl.idx++, whatever the character is, and digits must be next.
PassOver(i, field, toks) ==
  \/ i > Len(buf) /\ Fails("panic")
  \/ i <= Len(buf) /\ Peekch(i + 1) # "#" /\ Fails("Format error")
  \/ /\ i <= Len(buf) /\ Peekch(i + 1) = "#"
     /\ phase' = "right" /\ idx' = i + 1 /\ info' = field /\ tokens' = toks

\* Without a point the field is complete, but the point is passed over all the same.
leftDigits ==
  /\ Parse /\ Peekch(idx) = "#"
  /\ LET seq == Getseq(idx, DigitChars)
         at  == idx + Len(seq)
         end == Suffix(Sided("left", seq), at)
     IN IF Peekch(at) = "." THEN PassOver(at, Sided("left", seq), tokens)
        ELSE IF Allowed(end) THEN PassOver(end.idx, end.field, Append(tokens, end.field))
        ELSE Fails("Format error")

rightDigits ==
  /\ phase = "right" /\ UNCHANGED <<buf, filling>>
  /\ LET seq == Getseq(idx, DigitChars)
         end == Suffix(Sided("right", seq), idx + Len(seq))
     IN IF Allowed(end) THEN info' = end.field /\ Save(end.field, end.idx) ELSE Fails("Format error")

parseEnds ==
  /\ Parse /\ Peekch(idx) = "end" /\ phase' = "print" /\ UNCHANGED <<idx, info, tokens>>

-----------------------------------------------------------------------------
\* The numbers

\* What is added to a field by a dollar or fill, and what stands before the point: the digits,
\* the sign even if it will be at the end, and the dollar.
Doubled(tok) == IF tok.dollar \/ tok.fillchar THEN 2 ELSE 0

WholeLen(tok, op) ==
  (IF tok.exponential THEN 1 ELSE op.digits) + (IF op.negative THEN 1 ELSE 0)
  + (IF tok.dollar THEN 1 ELSE 0)

Fill(tok, op) == tok.left + Doubled(tok) - WholeLen(tok, op)

Fraction(tok) == (IF tok.right > 0 THEN 1 + tok.right ELSE 0) + (IF tok.exponential THEN 5 ELSE 0)

\* The width of a field in the format.
Width(tok) == tok.left + Doubled(tok) + Fraction(tok)

Commas(tok, op) == IF tok.doComma THEN (WholeLen(tok, op) - 1) \div 3 ELSE 0

\* prtuFormat: a number of more digits than a float has, or than its field, is printed with a
\* percent sign; commas replace fill, if there is enough of it.
Comes(tok, op) ==
  IF op.negative /\ ~ tok.trailingMinus /\ Doubled(tok) > 0 THEN "Format error"
  ELSE IF ~ tok.exponential /\ op.digits > MaxDigits THEN "over"
  ELSE IF tok.right > 0 /\ WholeLen(tok, op) > MaxDigits THEN "panic"
  ELSE IF Fill(tok, op) < 0 THEN "over"
  ELSE "fits"

printedLen(tok, op) ==
  WholeLen(tok, op) + Fill(tok, op) + Fraction(tok)
  + IF Commas(tok, op) > Fill(tok, op) THEN Commas(tok, op) ELSE 0

-----------------------------------------------------------------------------
\* The line

NoPiece == [kind |-> "none"]

Filling == phase = "print" /\ UNCHANGED parsed

Stops(how) == phase' = how /\ UNCHANGED <<opIdx, tokIdx, newlines>>

\* All the tokens are used: a new line if a field has been printed.
cycle ==
  /\ Filling /\ opIdx < MaxOperands /\ tokIdx = Len(tokens) /\ piece' = NoPiece
  /\ IF opIdx = 0 THEN Stops("Format error")
     ELSE newlines' = newlines + 1 /\ tokIdx' = 0 /\ UNCHANGED <<opIdx, phase>>

NextField == Filling /\ opIdx < MaxOperands /\ tokIdx < Len(tokens)

Tok == tokens[tokIdx + 1]

character ==
  /\ NextField /\ Tok.kind = "char" /\ tokIdx' = tokIdx + 1 /\ piece' = NoPiece
  /\ UNCHANGED <<opIdx, newlines, phase>>

Takes == opIdx' = opIdx + 1 /\ tokIdx' = tokIdx + 1 /\ UNCHANGED <<newlines, phase>>

stringPiece(op) ==
  /\ NextField /\ Tok.kind = "string"
  /\ IF op.type = "string" THEN piece' = [kind |-> "string", len |-> Tok.len] /\ Takes
     ELSE piece' = NoPiece /\ Stops("String operand expected")

numericPiece(op) ==
  /\ NextField /\ Tok.kind = "numeric"
  /\ IF op.type = "string" THEN piece' = NoPiece /\ Stops("Numeric operand expected")
     ELSE LET came == Comes(Tok, op)
          IN /\ piece' = [kind |-> came, tok |-> Tok, op |-> op, len |-> printedLen(Tok, op)]
             /\ IF came \in {"over", "fits"} THEN Takes ELSE Stops(came)

\* The operands are used up: the line is printed.
printLine ==
  /\ Filling /\ piece # NoPiece /\ phase' = "done" /\ newlines' = newlines + 1
  /\ UNCHANGED <<opIdx, tokIdx, piece>>

-----------------------------------------------------------------------------

Init ==
  /\ buf \in Formats /\ idx = 1 /\ info = NoField /\ tokens = <<>> /\ opIdx = 0 /\ tokIdx = 0 /\ piece = NoPiece
  /\ newlines = 0 /\ phase = "parse"

Next ==
  \/ charField \/ firstChar \/ doubled("$", "dollar") \/ doubled("*", "fillchar") \/ stringField
  \/ leftDigits \/ rightDigits \/ parseEnds
  \/ cycle \/ character \/ printLine
  \/ \E op \in Operands : stringPiece(op) \/ numericPiece(op)

Spec == Init /\ [][Next]_vars
=============================================================================
