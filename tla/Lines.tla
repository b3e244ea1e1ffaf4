--------------------------------- MODULE Lines ---------------------------------
(***************************************************************************)
(* A line becomes tokens (lexer.go): blanks are put in and taken out, then *)
(* lexemes are scanned one at a time, of which the lexer remembers the     *)
(* last separator.  A line with a number is stored as the text that was    *)
(* scanned, which SAVE writes and OLD reads.                               *)
(*                                                                         *)
(* A text is a sequence of pieces: characters, which have names, and words *)
(* that stand for one character each.  One character, "wide", is neither   *)
(* of ASCII nor a letter or a digit.                                       *)
(***************************************************************************)
EXTENDS Integers, Sequences, SequencesExt

CONSTANTS
  Typed,          \* the lines that are typed or read
  maxLineLen

VARIABLES
  raw,            \* the line as it is typed or read
  line,           \* lexer.line
  rest,           \* what the scanner has not reached
  i,              \* the number of lexemes scanned
  prevToken,      \* a separator that is not saved yet, or NoToken
  tokens,
  deferredStmt,   \* the line begins with a number
  lexingFilename,
  parsingDef,
  phase,          \* "read", "scan" or "done"
  first           \* when a saved line is read: what its tokens were before

scanning == <<i, prevToken, tokens, deferredStmt, lexingFilename, parsingDef>>
vars == <<raw, line, rest, scanning, phase, first>>

Keywords == [rem |-> "REM", def |-> "DEF", new |-> "NEW", else |-> "ELSE", end |-> "END"]

\* What is left of a word that begins with the sign of an exponent.
Exponents == [else |-> "lse", end |-> "nd"]

Words   == DOMAIN Keywords \cup {"x", "fnx", "lse", "nd"}
Quotes  == {"apostrophe", "quote"}
Pieces  == Words \cup Quotes \cup {"1", "percent", "blank", "comma", "semicolon", "colon", "bang", "wide"}

ASSUME LinesAssumption == maxLineLen \in Nat \ {0} /\ Typed \subseteq Seq(Pieces)

NoQuote == "none"
NoToken == [token |-> "none"]
Tok(token) == [token |-> token]

-----------------------------------------------------------------------------
\* The text of the line

\* The first piece of text that is not in pieces, or the end.
Beyond(text, pieces) ==
  LET at == SelectInSeq(text, LAMBDA piece : piece \notin pieces)
  IN IF at = 0 THEN Len(text) + 1 ELSE at

\* The last piece that is no blank, or 0.
Within(text) == SelectLastInSeq(text, LAMBDA piece : piece # "blank")

\* A number at the beginning is set off with a blank, lest 100end be a float.
spaced(text) ==
  LET k == Beyond(text, {"1"})
  IN IF k = 1 \/ k > Len(text) THEN text ELSE InsertAt(text, k, "blank")

Trimmed(text) == SubSeq(text, Beyond(text, {"blank"}), Within(text))

\* Fault variant: blanks in quotations go as well.
unquoted(st, ch) ==
  IF ch # "blank" THEN [st EXCEPT !.dst = Append(@, ch), !.lastWasBlank = FALSE]
  ELSE IF st.lastWasBlank THEN st
  ELSE [st EXCEPT !.dst = Append(@, "blank"), !.lastWasBlank = TRUE]

\* Fault variant: all blanks are kept.
kept(st, ch) == [st EXCEPT !.dst = Append(@, ch)]

\* One piece of trimWhitespace: quotations are kept, of other blanks one is.
piecewise(st, ch) ==
  CASE st.quoteCh = NoQuote /\ ch \in Quotes -> [st EXCEPT !.dst = Append(@, ch), !.quoteCh = ch]
    [] ch = st.quoteCh                  -> [dst |-> Append(st.dst, ch), quoteCh |-> NoQuote, lastWasBlank |-> FALSE]
    [] st.quoteCh # NoQuote /\ ch # st.quoteCh -> [st EXCEPT !.dst = Append(@, ch)]
    [] st.quoteCh = NoQuote /\ ch = "blank" -> IF st.lastWasBlank THEN st
                                      ELSE [st EXCEPT !.dst = Append(@, "blank"), !.lastWasBlank = TRUE]
    [] OTHER -> [st EXCEPT !.dst = Append(@, ch), !.lastWasBlank = FALSE]

\* The states of its loop.
squeezing(text) ==
  LET st[k \in 0 .. Len(text)] ==
        IF k = 0 THEN [dst |-> <<>>, quoteCh |-> NoQuote, lastWasBlank |-> FALSE]
        ELSE piecewise(st[k - 1], text[k])
  IN st

trimWhitespace(text) == Trimmed(squeezing(text)[Len(text)].dst)

-----------------------------------------------------------------------------
\* getLexeme: a token, and the text behind it

Lexeme(token, n, text) == [token |-> token, rest |-> SubSeq(text, n + 1, Len(text))]

\* Letters, digits and % make one identifier, in which % is the end; if it is not a word of the
\* language, and a function is being defined, its name is due.
Identifier(text, inDef) ==
  LET n    == Beyond(text, Words \cup {"1", "percent"}) - 1
      name == SubSeq(text, 1, n)
  IN IF n = 1 /\ name[1] \in DOMAIN Keywords THEN Lexeme(Tok(Keywords[name[1]]), 1, text)
     ELSE IF inDef /\ name[1] # "fnx" THEN Lexeme(Tok("BADFUNCNAME"), n, text)
     ELSE IF \E k \in 1 .. n - 1 : name[k] = "percent" THEN Lexeme(Tok("BADVARIABLE"), n, text)
     ELSE Lexeme([token |-> "VAR", name |-> name], n, text)

\* Digits before a word that begins with an e are a float that lacks its exponent.
Number(text) ==
  LET n == Beyond(text, {"1"}) - 1
  IN IF n < Len(text) /\ text[n + 1] \in DOMAIN Exponents
     THEN [token |-> Tok("FLOAT"), rest |-> <<Exponents[text[n + 1]]>> \o SubSeq(text, n + 2, Len(text))]
     ELSE Lexeme([token |-> "INTEGER", digits |-> n], n, text)

\* A string has one byte of each character, the low one.
byte(ch) == IF ch = "wide" THEN "low byte" ELSE ch

Bytes(text, n) == [k \in 1 .. n |-> byte(text[k])]

lexString(text) ==
  LET closing == SelectInSubSeq(text, 2, Len(text), LAMBDA ch : ch = Head(text))
  IN IF closing = 0 THEN Lexeme(Tok("USTRING"), Len(text), text)
     ELSE Lexeme([token |-> "STRING", quoted |-> Bytes(text, closing)], closing, text)

Separator(text) ==
  IF IsPrefix(<<"comma", "comma">>, text) THEN Lexeme(Tok("DCOMMA"), 2, text)
  ELSE CASE Head(text) = "comma" -> Lexeme(Tok("COMMA"), 1, text)
         [] Head(text) = "semicolon" -> Lexeme(Tok("SEMI"), 1, text)
         [] Head(text) = "colon" -> Lexeme(Tok("COLON"), 1, text)
         [] OTHER            -> Lexeme([token |-> "char", char |-> Head(text)], 1, text)

getLexeme(text, inDef) ==
  CASE Head(text) \in Words  -> Identifier(text, inDef)
    [] Head(text) = "1"      -> Number(text)
    [] Head(text) \in Quotes -> lexString(text)
    [] OTHER                 -> Separator(text)

-----------------------------------------------------------------------------
\* NewLexer and myScanner

prevTokenFixup(prev) ==
  IF prev.token = "COMMA" THEN Tok("TRAILING_COMMA") ELSE Tok("TRAILING_SEMI")

\* Fault variant: ELSE does not end a statement.
trailsColon(t) == t.token = "COLON"

EndsStatement(t) == t.token \in {"COLON", "ELSE"}

\* A separator that was waiting goes first.
Saved(t) ==
  tokens \o (CASE prevToken = NoToken -> <<>>
               [] prevToken # NoToken /\ EndsStatement(t) -> <<prevTokenFixup(prevToken)>>
               [] OTHER -> <<prevToken>>)
         \o <<t>>

Unscanned == i' = 0 /\ prevToken' = NoToken /\ deferredStmt' = FALSE /\ lexingFilename' = FALSE /\ parsingDef' = FALSE

NewLexer ==
  /\ phase = "read" /\ line' = trimWhitespace(spaced(raw)) /\ Unscanned /\ UNCHANGED <<raw, first>>
  /\ rest' = line'
  /\ IF Len(line') > maxLineLen THEN phase' = "done" /\ tokens' = <<Tok("LONGLINE")>>
     ELSE phase' = "scan" /\ tokens' = <<>>

Text == SubSeq(rest, Beyond(rest, {"blank"}), Len(rest))

Scanning == phase = "scan" /\ ~ lexingFilename /\ UNCHANGED <<raw, line, first>>

\* NEW, OLD and SAVE alone take a name: the rest of the line.
scanFilename ==
  /\ phase = "scan" /\ lexingFilename /\ phase' = "done"
  /\ LET names == {k \in DOMAIN rest : rest[k] # "blank" /\ (k = 1 \/ rest[k - 1] = "blank")}
     IN tokens' = IF names = {} THEN Append(tokens, Tok("EOL"))
                  ELSE tokens \o <<Tok(IF \A j, k \in names : j = k THEN "FILENAME" ELSE "BADFILENAME"),
                                   Tok("EOL")>>
  /\ rest' = <<>> /\ UNCHANGED <<raw, line, first, i, prevToken, deferredStmt, lexingFilename, parsingDef>>

endOfLine ==
  /\ Scanning /\ Text = <<>> /\ phase' = "done"
  /\ tokens' = tokens \o (IF prevToken = NoToken THEN <<>> ELSE <<prevTokenFixup(prevToken)>>) \o <<Tok("EOL")>>
  /\ UNCHANGED <<rest, i, prevToken, deferredStmt, lexingFilename, parsingDef>>

\* Two separators in a row are refused.
separator ==
  /\ Scanning /\ Text # <<>>
  /\ LET scanned == getLexeme(Text, parsingDef)
     IN /\ scanned.token.token \in {"COMMA", "SEMI"}
        /\ IF prevToken = NoToken THEN prevToken' = scanned.token /\ tokens' = tokens
           ELSE prevToken' = prevToken /\ tokens' = Append(tokens, Tok("BADTOKEN"))
        /\ rest' = scanned.rest
  /\ i' = i + 1 /\ UNCHANGED <<deferredStmt, lexingFilename, parsingDef, phase>>

\* REM and ! end the scan; a ! in the middle of a line is a token of its own.
lexeme ==
  /\ Scanning /\ Text # <<>>
  /\ LET scanned  == getLexeme(Text, parsingDef)
         t        == scanned.token.token
         explicit == t = "INTEGER" /\ i > 0 /\ scanned.rest # <<>> /\ Head(scanned.rest) = "percent"
         mark     == t = "char" /\ scanned.token.char = "bang"
         comment  == mark /\ (i = 0 \/ (i = 1 /\ deferredStmt))
     IN /\ t \notin {"COMMA", "SEMI"}
        /\ tokens' = Saved(CASE explicit -> [scanned.token EXCEPT !.token = "EINTEGER"]
                             [] comment  -> Tok("COMMENT")
                             [] OTHER    -> scanned.token)
        /\ rest' = IF explicit THEN Tail(scanned.rest) ELSE scanned.rest
        /\ deferredStmt' = (deferredStmt \/ (t = "INTEGER" /\ i = 0))
        /\ lexingFilename' = (t = "NEW" /\ i = 0)
        /\ parsingDef' = IF t = "DEF" THEN parsingDef \/ (i = 1 /\ deferredStmt)
                         ELSE parsingDef /\ t \notin {"VAR", "BADVARIABLE", "BADFUNCNAME"}
        /\ phase' = IF mark \/ (t = "REM" /\ i >= 1 /\ deferredStmt) THEN "done" ELSE "scan"
  /\ i' = i + 1 /\ prevToken' = NoToken

\* The tokens that no line of a program has.
Refused == {"LONGLINE", "BADTOKEN", "BADFUNCNAME", "BADVARIABLE", "BADFILENAME", "USTRING"}

\* The line is stored, saved and read again.
reload ==
  /\ phase = "done" /\ first = <<>> /\ deferredStmt /\ (\A k \in DOMAIN tokens : tokens[k].token \notin Refused)
  /\ first' = tokens /\ raw' = line /\ phase' = "read"
  /\ UNCHANGED <<line, rest, scanning>>

-----------------------------------------------------------------------------

Init ==
  /\ raw \in Typed /\ line = <<>> /\ rest = <<>> /\ i = 0 /\ prevToken = NoToken /\ tokens = <<>> /\ deferredStmt = FALSE
  /\ lexingFilename = FALSE /\ parsingDef = FALSE /\ phase = "read" /\ first = <<>>

Next == NewLexer \/ scanFilename \/ endOfLine \/ separator \/ lexeme \/ reload

Spec == Init /\ [][Next]_vars
=============================================================================
