---------------------------- MODULE LanguageProofs ----------------------------
(***************************************************************************)
(* The lexer and the expression processor: that in every line separators   *)
(* are told apart and strings are kept, and every line is read again as it *)
(* was saved; and that a LET statement of whatever token lists, widths and *)
(* arrays finds its operands and stores what it may.                       *)
(***************************************************************************)
EXTENDS LinesProps, RpnProps, WellFoundedInduction, TLAPS

(***************************************************************************)
(* Induction over the natural numbers.                                     *)
(***************************************************************************)

LEMMA NaturalsByStep ==
  ASSUME NEW S, 0 \in S, \A n \in Nat : n \in S => n + 1 \in S
  PROVE  Nat \subseteq S
<1> DEFINE left == Nat \ S
<1>1. ASSUME left # {} PROVE FALSE
  <2>1. PICK x \in left : \A y \in left : ~ (<<y, x>> \in OpToRel(<, Nat))
    BY <1>1, WFMin, NatLessThanWellFounded
  <2>2. x # 0 /\ x \in Nat
    OBVIOUS
  <2>3. x - 1 \in Nat /\ x - 1 < x /\ (x - 1) + 1 = x
    BY <2>2
  <2>4. x - 1 \notin left
    BY <2>1, <2>2, <2>3 DEF OpToRel
  <2> QED
    BY <2>2, <2>3, <2>4
<1> QED
  BY <1>1

(***************************************************************************)
(* The lexer.                                                              *)
(***************************************************************************)

Plain      == {"COMMA", "SEMI"}
Trailing   == {"TRAILING_COMMA", "TRAILING_SEMI"}
Ends       == {"EOL", "COLON", "ELSE"}
Separators == Plain \cup Trailing

\* A list whose last token needs no other behind it.
Settled(list) == list = <<>> \/ list[Len(list)].token \notin Separators

\* What has been saved is settled, a separator being held back until the next lexeme is known;
\* and none is held back when a name is due, which is scanned without looking for one.
LexerInv ==
  /\ \E S : tokens \in Seq(S)
  /\ Trails(tokens) /\ Settled(tokens)
  /\ prevToken \in {NoToken, Tok("COMMA"), Tok("SEMI")}
  /\ lexingFilename => prevToken = NoToken

-----------------------------------------------------------------------------
(* Lists of tokens.                                                         *)

LEMMA AppendOne ==
  ASSUME NEW S, NEW list \in Seq(S), NEW t,
         Trails(list), Settled(list), t.token \notin Separators
  PROVE  /\ list \o <<t>> \in Seq(S \cup {t})
         /\ Append(list, t) = list \o <<t>>
         /\ Trails(list \o <<t>>) /\ Settled(list \o <<t>>)
<1> DEFINE new == list \o <<t>>
<1>1. /\ new \in Seq(S \cup {t}) /\ DOMAIN new = 1 .. Len(new) /\ Append(list, t) = new /\ Len(new) = Len(list) + 1
      /\ \A k \in 1 .. Len(list) : new[k] = list[k]
      /\ new[Len(list) + 1] = t
  OBVIOUS
<1>2. Settled(new)
  BY <1>1 DEF Settled
<1>3. Trails(new)
  <2> SUFFICES ASSUME NEW k \in 1 .. Len(list) + 1
               PROVE  LET next == IF k < Len(new) THEN new[k + 1].token ELSE "none"
                      IN /\ new[k].token \in Plain => next \notin Ends
                         /\ new[k].token \in Trailing => next \in Ends
    BY <1>1 DEF Trails, Plain, Trailing, Ends
  <2>1. CASE k < Len(list)
    BY <2>1, <1>1 DEF Trails, Plain, Trailing, Ends
  <2>2. CASE k = Len(list)
    BY <2>2, <1>1 DEF Settled, Separators
  <2>3. CASE k = Len(list) + 1
    BY <2>3, <1>1 DEF Separators
  <2> QED
    BY <2>1, <2>2, <2>3
<1> QED
  BY <1>1, <1>2, <1>3

\* A separator goes in front of the token that decides which one it is.
LEMMA AppendTwo ==
  ASSUME NEW S, NEW list \in Seq(S), NEW u, NEW t,
         Trails(list), Settled(list), t.token \notin Separators,
         u.token \in Plain => t.token \notin Ends,
         u.token \in Trailing => t.token \in Ends
  PROVE  /\ list \o <<u>> \o <<t>> \in Seq(S \cup {u, t})
         /\ Trails(list \o <<u>> \o <<t>>) /\ Settled(list \o <<u>> \o <<t>>)
<1> DEFINE new == list \o <<u>> \o <<t>>
<1>1. /\ new \in Seq(S \cup {u, t}) /\ DOMAIN new = 1 .. Len(new) /\ Len(new) = Len(list) + 2
      /\ \A k \in 1 .. Len(list) : new[k] = list[k]
      /\ new[Len(list) + 1] = u /\ new[Len(list) + 2] = t
  OBVIOUS
<1>2. Settled(new)
  BY <1>1 DEF Settled
<1>3. Trails(new)
  <2> SUFFICES ASSUME NEW k \in 1 .. Len(list) + 2
               PROVE  LET next == IF k < Len(new) THEN new[k + 1].token ELSE "none"
                      IN /\ new[k].token \in Plain => next \notin Ends
                         /\ new[k].token \in Trailing => next \in Ends
    BY <1>1 DEF Trails, Plain, Trailing, Ends
  <2>1. CASE k < Len(list)
    BY <2>1, <1>1 DEF Trails, Plain, Trailing, Ends
  <2>2. CASE k = Len(list)
    BY <2>2, <1>1 DEF Settled, Separators
  <2>3. CASE k = Len(list) + 1
    BY <2>3, <1>1
  <2>4. CASE k = Len(list) + 2
    BY <2>4, <1>1 DEF Separators
  <2> QED
    BY <2>1, <2>2, <2>3, <2>4
<1> QED
  BY <1>1, <1>2, <1>3

-----------------------------------------------------------------------------
(* Lexemes.                                                                 *)

\* No lexeme is the end of the line, or a trailing separator.
LEMMA LexemeKinds ==
  ASSUME NEW text, NEW inDef
  PROVE  /\ getLexeme(text, inDef).token.token \notin Trailing \cup {"EOL"}
         /\ getLexeme(text, inDef).token.token = "INTEGER" =>
              [getLexeme(text, inDef).token EXCEPT !.token = "EINTEGER"].token = "EINTEGER"
<1> DEFINE Good(l) == /\ l.token.token \notin Trailing \cup {"EOL"}
                      /\ l.token.token = "INTEGER" =>
                           [l.token EXCEPT !.token = "EINTEGER"].token = "EINTEGER"
<1>1. Good(Identifier(text, inDef))
  BY DEF Identifier, Lexeme, Tok, Keywords, Trailing
<1>2. Good(Number(text))
  BY DEF Number, Lexeme, Tok, Trailing
<1>3. Good(lexString(text))
  BY DEF lexString, Lexeme, Tok, Trailing
<1>4. Good(Separator(text))
  BY DEF Separator, Lexeme, Tok, Trailing
<1> QED
  BY <1>1, <1>2, <1>3, <1>4 DEF getLexeme

\* A comma or semicolon is a token without a value.
LEMMA PlainLexemes ==
  ASSUME NEW text, NEW inDef, getLexeme(text, inDef).token.token \in Plain
  PROVE  getLexeme(text, inDef).token \in {Tok("COMMA"), Tok("SEMI")}
<1> DEFINE Good(l) == l.token.token \in Plain => l.token \in {Tok("COMMA"), Tok("SEMI")}
<1>1. Good(Identifier(text, inDef))
  BY DEF Identifier, Lexeme, Tok, Keywords, Plain
<1>2. Good(Number(text))
  BY DEF Number, Lexeme, Tok, Plain
<1>3. Good(lexString(text))
  BY DEF lexString, Lexeme, Tok, Plain
<1>4. Good(Separator(text))
  BY DEF Separator, Lexeme, Tok, Plain
<1> QED
  BY <1>1, <1>2, <1>3, <1>4 DEF getLexeme

-----------------------------------------------------------------------------
(* The steps of the lexer.                                                  *)

LEMMA ScanFilename == LexerInv /\ scanFilename => LexerInv'
<1> SUFFICES ASSUME LexerInv, scanFilename PROVE LexerInv'
  OBVIOUS
<1> PICK S : tokens \in Seq(S)
  BY DEF LexerInv
<1>1. /\ Tok("EOL").token = "EOL" /\ Tok("FILENAME").token = "FILENAME"
      /\ Tok("BADFILENAME").token = "BADFILENAME"
  BY DEF Tok
<1>2. /\ \E R : tokens' \in Seq(R)
      /\ Trails(tokens') /\ Settled(tokens')
  <2>1. CASE tokens' = Append(tokens, Tok("EOL"))
    <3>1. Tok("EOL").token \notin Separators
      BY <1>1 DEF Separators, Plain, Trailing
    <3>2. tokens' = tokens \o <<Tok("EOL")>>
      BY <2>1, <3>1, AppendOne DEF LexerInv
    <3> QED
      BY <3>1, <3>2, AppendOne DEF LexerInv
  <2>2. ASSUME NEW u \in {Tok("FILENAME"), Tok("BADFILENAME")},
               tokens' = tokens \o <<u, Tok("EOL")>>
        PROVE  /\ \E R : tokens' \in Seq(R)
               /\ Trails(tokens') /\ Settled(tokens')
    <3>1. tokens' = tokens \o <<u>> \o <<Tok("EOL")>>
      BY <2>2
    <3>2. u.token \notin Separators /\ Tok("EOL").token \notin Separators
      BY <1>1 DEF Separators, Plain, Trailing
    <3> QED
      BY <3>1, <3>2, AppendTwo DEF LexerInv, Separators
  <2> QED
    BY <2>1, <2>2 DEF scanFilename
<1>3. lexingFilename' => prevToken' = NoToken
  BY DEF LexerInv, scanFilename
<1> QED
  BY <1>2, <1>3 DEF LexerInv, scanFilename

LEMMA EndOfLine == LexerInv /\ endOfLine => LexerInv'
<1> SUFFICES ASSUME LexerInv, endOfLine PROVE LexerInv'
  OBVIOUS
<1> PICK S : tokens \in Seq(S)
  BY DEF LexerInv
<1>1. Tok("EOL").token = "EOL"
  BY DEF Tok
<1>2. /\ \E R : tokens' \in Seq(R)
      /\ Trails(tokens') /\ Settled(tokens')
  <2>1. CASE prevToken = NoToken
    <3>1. tokens' = tokens \o <<Tok("EOL")>>
      BY <2>1 DEF endOfLine
    <3> QED
      BY <3>1, <1>1, AppendOne DEF LexerInv, Separators, Plain, Trailing
  <2>2. CASE prevToken # NoToken
    <3>1. tokens' = tokens \o <<prevTokenFixup(prevToken)>> \o <<Tok("EOL")>>
      BY <2>2 DEF endOfLine
    <3>2. prevTokenFixup(prevToken).token \in Trailing
      BY DEF prevTokenFixup, Tok, Trailing
    <3> QED
      BY <3>1, <3>2, <1>1, AppendTwo DEF LexerInv, Separators, Plain, Trailing, Ends
  <2> QED
    BY <2>1, <2>2
<1> QED
  BY <1>2 DEF LexerInv, endOfLine, Scanning

LEMMA SeparatorStep == LexerInv /\ separator => LexerInv'
<1> SUFFICES ASSUME LexerInv, separator PROVE LexerInv'
  OBVIOUS
<1> PICK S : tokens \in Seq(S)
  BY DEF LexerInv
<1> DEFINE t == getLexeme(Text, parsingDef).token
<1>1. lexingFilename' = FALSE
  BY DEF separator, Scanning
<1>2. CASE prevToken # NoToken
  <2>1. tokens' = Append(tokens, Tok("BADTOKEN")) /\ prevToken' = prevToken
    BY <1>2 DEF separator
  <2>2. Tok("BADTOKEN").token \notin Separators
    BY DEF Tok, Separators, Plain, Trailing
  <2>3. tokens' = tokens \o <<Tok("BADTOKEN")>>
    BY <2>1, <2>2, AppendOne DEF LexerInv
  <2>4. /\ \E R : tokens' \in Seq(R)
        /\ Trails(tokens') /\ Settled(tokens')
    BY <2>2, <2>3, AppendOne DEF LexerInv
  <2> QED
    BY <1>1, <2>1, <2>4 DEF LexerInv
<1>3. CASE prevToken = NoToken
  <2>1. tokens' = tokens /\ prevToken' = t /\ t.token \in Plain
    BY <1>3 DEF separator, Plain
  <2>2. t \in {Tok("COMMA"), Tok("SEMI")}
    BY <2>1, PlainLexemes
  <2> QED
    BY <1>1, <2>1, <2>2 DEF LexerInv
<1> QED
  BY <1>2, <1>3

\* A lexeme other than a separator is saved behind the one that was held back.
LEMMA LexemeStep == LexerInv /\ lexeme => LexerInv'
<1> SUFFICES ASSUME LexerInv, lexeme PROVE LexerInv'
  OBVIOUS
<1> PICK S : tokens \in Seq(S)
  BY DEF LexerInv
<1>1. PICK x : /\ tokens' = Saved(x)
               /\ x.token \notin Separators \cup {"EOL"}
  <2> DEFINE t == getLexeme(Text, parsingDef).token
  <2>1. t.token \notin Plain
    BY DEF lexeme, Plain
  <2>2. Tok("COMMENT").token = "COMMENT"
    BY DEF Tok
  <2>3. \/ tokens' = Saved(t)
        \/ tokens' = Saved(Tok("COMMENT"))
        \/ t.token = "INTEGER" /\ tokens' = Saved([t EXCEPT !.token = "EINTEGER"])
    BY DEF lexeme
  <2> QED
    BY <2>1, <2>2, <2>3, LexemeKinds DEF Separators, Plain, Trailing
<1>2. prevToken' = NoToken
  BY DEF lexeme
<1>3. CASE prevToken = NoToken
  <2>1. tokens' = tokens \o <<x>>
    BY <1>1, <1>3 DEF Saved
  <2> QED
    BY <1>1, <1>2, <2>1, AppendOne DEF LexerInv
<1>4. CASE prevToken # NoToken /\ EndsStatement(x)
  <2>1. tokens' = tokens \o <<prevTokenFixup(prevToken)>> \o <<x>>
    BY <1>1, <1>4 DEF Saved
  <2>2. prevTokenFixup(prevToken).token \in Trailing /\ x.token \in Ends
    BY <1>4 DEF prevTokenFixup, Tok, Trailing, EndsStatement, Ends
  <2>3. /\ \E R : tokens' \in Seq(R)
        /\ Trails(tokens') /\ Settled(tokens')
    <3>1. /\ x.token \notin Separators
          /\ prevTokenFixup(prevToken).token \in Plain => x.token \notin Ends
          /\ prevTokenFixup(prevToken).token \in Trailing => x.token \in Ends
      BY <1>1, <2>2 DEF Plain, Trailing
    <3> QED
      BY <2>1, <3>1, AppendTwo DEF LexerInv
  <2> QED
    BY <1>2, <2>3 DEF LexerInv
<1>5. CASE prevToken # NoToken /\ ~ EndsStatement(x)
  <2>1. tokens' = tokens \o <<prevToken>> \o <<x>>
    BY <1>1, <1>5 DEF Saved
  <2>2. prevToken.token \in Plain /\ x.token \notin Ends
    BY <1>1, <1>5 DEF LexerInv, Tok, Plain, EndsStatement, Ends
  <2>3. /\ \E R : tokens' \in Seq(R)
        /\ Trails(tokens') /\ Settled(tokens')
    <3>1. /\ x.token \notin Separators
          /\ prevToken.token \in Plain => x.token \notin Ends
          /\ prevToken.token \in Trailing => x.token \in Ends
      BY <1>1, <2>2 DEF Plain, Trailing
    <3> QED
      BY <2>1, <3>1, AppendTwo DEF LexerInv
  <2> QED
    BY <1>2, <2>3 DEF LexerInv
<1> QED
  BY <1>3, <1>4, <1>5

LEMMA Begins == LexerInv /\ NewLexer => LexerInv'
<1> SUFFICES ASSUME LexerInv, NewLexer PROVE LexerInv'
  OBVIOUS
<1>1. prevToken' = NoToken /\ tokens' \in {<<>>, <<Tok("LONGLINE")>>}
  BY DEF NewLexer, Unscanned
<1>2. Tok("LONGLINE").token = "LONGLINE"
  BY DEF Tok
<1>3. CASE tokens' = <<>>
  BY <1>1, <1>3 DEF LexerInv, Trails, Settled
<1>4. CASE tokens' = <<Tok("LONGLINE")>>
  <2>1. tokens' = <<>> \o <<Tok("LONGLINE")>> /\ <<>> \in Seq({})
    BY <1>4
  <2>2. Trails(<<>>) /\ Settled(<<>>)
    BY DEF Trails, Settled
  <2> QED
    BY <1>1, <1>2, <2>1, <2>2, AppendOne DEF LexerInv, Separators, Plain, Trailing
<1> QED
  BY <1>1, <1>3, <1>4

-----------------------------------------------------------------------------

\* In every line, the tokens that have been saved are settled, and each separator among them
\* is the trailing one just where a statement ends.
THEOREM TokensAreSettled == Spec => []LexerInv
<1>1. Init => LexerInv
  <2>1. <<>> \in Seq({}) /\ Trails(<<>>) /\ Settled(<<>>)
    BY DEF Trails, Settled
  <2> QED
    BY <2>1 DEF Init, LexerInv
<1>2. LexerInv /\ [Next]_vars => LexerInv'
  <2> SUFFICES ASSUME LexerInv, [Next]_vars PROVE LexerInv'
    OBVIOUS
  <2>1. CASE reload
    BY <2>1 DEF LexerInv, reload, scanning
  <2>2. CASE UNCHANGED vars
    BY <2>2 DEF LexerInv, vars, scanning
  <2> QED
    BY <2>1, <2>2, Begins, ScanFilename, EndOfLine, SeparatorStep, LexemeStep DEF Next
<1> QED
  BY <1>1, <1>2, PTL DEF Spec

\* PRINT learns from the token alone whether a new line is due: the lexer tells separators
\* apart in every line, typed or read from a file.
THEOREM SeparatorsAreTold == Spec => []SeparatorsTrail
<1>1. LexerInv => SeparatorsTrail
  BY DEF LexerInv, SeparatorsTrail
<1> QED
  BY <1>1, TokensAreSettled, PTL

(* Texts.                                                                   *)

LEMMA LeastOf ==
  ASSUME NEW S, S \subseteq Nat, S # {}
  PROVE  Min(S) \in S /\ \A y \in S : Min(S) <= y
<1>1. PICK x \in S : \A y \in S : ~ (<<y, x>> \in OpToRel(<, Nat))
  BY WFMin, NatLessThanWellFounded
<1>2. ASSUME NEW y \in S PROVE x <= y
  <2>1. <<y, x>> \in Nat \X Nat /\ <<y, x>>[1] = y /\ <<y, x>>[2] = x
    OBVIOUS
  <2>2. ~ (y < x)
    BY <1>1, <2>1, Zenon DEF OpToRel
  <2> QED
    BY <2>2
<1> QED
  BY <1>2 DEF Min

\* The greatest of the numbers up to n.
LEMMA GreatestOf ==
  ASSUME NEW n \in Nat, NEW S, S \subseteq 0 .. n, S # {}
  PROVE  Max(S) \in S /\ \A y \in S : Max(S) >= y
<1> DEFINE T == {n - y : y \in S}
<1>1. T \in SUBSET Nat /\ T # {}
  <2>1. \A y \in S : n - y \in Nat
    OBVIOUS
  <2> QED
    BY <2>1
<1>2. Min(T) \in T /\ \A y \in T : Min(T) <= y
  BY <1>1, LeastOf
<1>3. PICK g \in S : Min(T) = n - g
  BY <1>2
<1>4. ASSUME NEW y \in S PROVE g >= y
  <2>1. n - g <= n - y
    BY <1>2, <1>3
  <2> QED
    BY <2>1
<1> QED
  BY <1>4 DEF Max

LEMMA BeyondIs ==
  ASSUME NEW P, NEW text \in Seq(Pieces)
  PROVE  LET b == Beyond(text, P)
         IN  /\ b \in 1 .. Len(text) + 1 /\ \A k \in 1 .. b - 1 : text[k] \in P
             /\ b <= Len(text) => text[b] \notin P
<1> DEFINE S == {k \in 1 .. Len(text) : text[k] \notin P}
           b == Beyond(text, P)
<1>1. b = IF S # {} THEN (IF Min(S) = 0 THEN Len(text) + 1 ELSE Min(S)) ELSE Len(text) + 1
  BY DEF Beyond, SelectInSeq
<1>2. CASE S = {}
  <2>1. b = Len(text) + 1 /\ \A k \in 1 .. Len(text) : text[k] \in P
    BY <1>1, <1>2
  <2> QED
    BY <2>1
<1>3. CASE S # {}
  <2>1. Min(S) \in S /\ \A y \in S : Min(S) <= y
    BY <1>3, LeastOf
  <2>2. b = Min(S)
    BY <1>1, <1>3, <2>1
  <2> HIDE DEF b
  <2>3. \A k \in 1 .. b - 1 : text[k] \in P
    <3> TAKE k \in 1 .. b - 1
    <3>1. k \in 1 .. Len(text) /\ ~ (b <= k)
      BY <2>1, <2>2
    <3> QED
      BY <2>1, <2>2, <3>1
  <2> QED
    BY <2>1, <2>2, <2>3 DEF b
<1> QED
  BY <1>2, <1>3

\* It is the only such place.
LEMMA BeyondIsAt ==
  ASSUME NEW P, NEW text \in Seq(Pieces), NEW n \in 1 .. Len(text) + 1,
         \A k \in 1 .. n - 1 : text[k] \in P, n <= Len(text) => text[n] \notin P
  PROVE  Beyond(text, P) = n
<1> DEFINE b == Beyond(text, P)
<1>1. /\ b \in 1 .. Len(text) + 1 /\ \A k \in 1 .. b - 1 : text[k] \in P
      /\ b <= Len(text) => text[b] \notin P
  BY BeyondIs
<1> HIDE DEF b
<1>2. CASE b < n
  <2>1. b \in 1 .. n - 1 /\ b <= Len(text)
    BY <1>1, <1>2
  <2> QED
    BY <1>1, <2>1
<1>3. CASE n < b
  <2>1. n \in 1 .. b - 1 /\ n <= Len(text)
    BY <1>1, <1>3
  <2> QED
    BY <1>1, <2>1
<1> QED
  BY <1>1, <1>2, <1>3 DEF b

LEMMA LastIs ==
  ASSUME NEW text \in Seq(Pieces)
  PROVE  /\ Within(text) \in 0 .. Len(text) /\ \A k \in Within(text) + 1 .. Len(text) : text[k] = "blank"
         /\ Within(text) > 0 => text[Within(text)] # "blank"
<1> DEFINE l == Within(text)
           n == Len(text)
           S == {k \in 1 .. n : text[k] # "blank"}
<1>1. l = IF S # {} THEN Max(S) ELSE 0
  BY DEF Within, SelectLastInSeq
<1>2. n \in Nat
  OBVIOUS
<1> HIDE DEF n, l
<1>3. CASE S = {}
  <2>1. \A k \in 1 .. n : text[k] = "blank"
    BY <1>3
  <2>2. l = 0
    BY <1>1, <1>3
  <2>3. l \in 0 .. n /\ ~ (l > 0) /\ \A k \in l + 1 .. n : text[k] = "blank"
    BY <1>2, <2>1, <2>2
  <2> QED
    BY <2>3 DEF n, l
<1>4. CASE S # {}
  <2>1. S \subseteq 0 .. n
    BY <1>2
  <2>2. Max(S) \in S /\ \A y \in S : Max(S) >= y
    <3> HIDE DEF S
    <3> QED
      BY <1>2, <1>4, <2>1, GreatestOf
  <2>3. l \in 1 .. n /\ text[l] # "blank" /\ \A y \in S : l >= y
    BY <1>1, <1>4, <2>2
  <2>4. ASSUME NEW k \in l + 1 .. n PROVE text[k] = "blank"
    <3>1. k \in 1 .. n /\ ~ (l >= k)
      BY <1>2, <2>3
    <3> QED
      BY <2>3, <3>1
  <2>5. l \in 0 .. n
    BY <1>2, <2>3
  <2> QED
    BY <2>3, <2>4, <2>5 DEF n, l
<1> QED
  BY <1>3, <1>4

\* A part of a text.
LEMMA Part ==
  ASSUME NEW S, NEW text \in Seq(S), NEW p \in 1 .. Len(text) + 1, NEW q \in 0 .. Len(text), p <= q + 1
  PROVE  /\ SubSeq(text, p, q) \in Seq(S) /\ Len(SubSeq(text, p, q)) = q - p + 1
         /\ \A k \in 1 .. q - p + 1 : SubSeq(text, p, q)[k] = text[p - 1 + k]
OBVIOUS

LEMMA SameText ==
  ASSUME NEW S, NEW T, NEW t \in Seq(S), NEW u \in Seq(T), Len(t) = Len(u), \A k \in 1 .. Len(t) : t[k] = u[k]
  PROVE  t = u
OBVIOUS

-----------------------------------------------------------------------------
(* Blanks are taken out.                                                    *)

LEMMA SqueezingSteps ==
  ASSUME NEW text, Len(text) \in Nat
  PROVE  /\ squeezing(text)[0] = [dst |-> <<>>, quoteCh |-> NoQuote, lastWasBlank |-> FALSE]
         /\ \A k \in 1 .. Len(text) : squeezing(text)[k] = piecewise(squeezing(text)[k - 1], text[k])
<1> DEFINE len == Len(text)
           start == [dst |-> <<>>, quoteCh |-> NoQuote, lastWasBlank |-> FALSE]
           Builds(f) == [k \in 0 .. len |-> IF k = 0 THEN start ELSE piecewise(f[k - 1], text[k])]
           st == CHOOSE f : f = Builds(f)
           Goes(f, n) == /\ f = [k \in 0 .. n |-> f[k]] /\ f[0] = start
                         /\ \A k \in 1 .. n : f[k] = piecewise(f[k - 1], text[k])
           good == {n \in Nat : \E f : Goes(f, n)}
<1> HIDE DEF start
<1>1. 0 \in good
  <2> DEFINE f == [k \in 0 .. 0 |-> start]
  <2>1. Goes(f, 0)
    OBVIOUS
  <2> QED
    BY <2>1
<1>2. ASSUME NEW n \in Nat, n \in good PROVE n + 1 \in good
  <2>1. PICK f : Goes(f, n)
    BY <1>2
  <2> DEFINE g == [k \in 0 .. n + 1 |-> IF k = n + 1 THEN piecewise(f[n], text[n + 1]) ELSE f[k]]
  <2>2. g = [k \in 0 .. n + 1 |-> g[k]] /\ g[0] = start
    BY <2>1
  <2>3. ASSUME NEW k \in 1 .. n + 1 PROVE g[k] = piecewise(g[k - 1], text[k])
    <3>1. k - 1 \in 0 .. n + 1 /\ k - 1 # n + 1 /\ k \in 0 .. n + 1
      OBVIOUS
    <3>2. g[k - 1] = f[k - 1]
      BY <3>1
    <3>3. CASE k = n + 1
      BY <3>2, <3>3
    <3>4. CASE k # n + 1
      <4>1. g[k] = f[k] /\ k \in 1 .. n
        BY <3>1, <3>4
      <4> QED
        BY <2>1, <3>2, <4>1
    <3> QED
      BY <3>3, <3>4
  <2> HIDE DEF g
  <2>4. Goes(g, n + 1)
    BY <2>2, <2>3
  <2> HIDE DEF Goes
  <2> QED
    BY <2>4
<1>3. Nat \subseteq good
  <2> HIDE DEF good
  <2> QED
    BY <1>1, <1>2, NaturalsByStep
<1>4. PICK f : Goes(f, len)
  BY <1>3
<1>5. f = Builds(f)
  <2>1. \A k \in 0 .. len : f[k] = IF k = 0 THEN start ELSE piecewise(f[k - 1], text[k])
    <3> TAKE k \in 0 .. len
    <3>1. CASE k = 0
      BY <1>4, <3>1
    <3>2. CASE k # 0
      <4>1. k \in 1 .. len
        BY <3>2
      <4>2. f[k] = piecewise(f[k - 1], text[k])
        BY <1>4, <4>1
      <4> QED
        BY <3>2, <4>2
    <3> QED
      BY <3>1, <3>2
  <2> QED
    BY <1>4, <2>1
<1>6. st = Builds(st)
  BY <1>5
<1> HIDE DEF st
<1>7. squeezing(text) = st
  BY DEF squeezing, st, start
<1>8. st[0] = start
  BY <1>6
<1>9. ASSUME NEW k \in 1 .. len PROVE st[k] = piecewise(st[k - 1], text[k])
  <2>1. k \in 0 .. len /\ k # 0
    OBVIOUS
  <2>2. st[k] = Builds(st)[k]
    BY <1>6
  <2> QED
    BY <2>1, <2>2
<1> QED
  BY <1>7, <1>8, <1>9 DEF start

States == [dst : Seq(Pieces), quoteCh : Quotes \cup {NoQuote}, lastWasBlank : BOOLEAN]

\* What one piece does: it is kept, but for a blank behind one outside quotations.
LEMMA OnePiece ==
  ASSUME NEW st \in States, NEW ch \in Pieces
  PROVE  LET next == piecewise(st, ch)
         IN  /\ next \in States
             /\ IF st.quoteCh = NoQuote /\ ch = "blank" /\ st.lastWasBlank THEN next = st
                ELSE next.dst = Append(st.dst, ch)
             /\ next.quoteCh = IF st.quoteCh = NoQuote THEN IF ch \in Quotes THEN ch ELSE NoQuote
                               ELSE IF ch = st.quoteCh THEN NoQuote ELSE st.quoteCh
             /\ next.quoteCh = NoQuote => (next.lastWasBlank <=> st.quoteCh = NoQuote /\ ch = "blank")
<1> DEFINE next == piecewise(st, ch)
           Good(r) ==
             /\ r \in States
             /\ IF st.quoteCh = NoQuote /\ ch = "blank" /\ st.lastWasBlank THEN r = st
                ELSE r.dst = Append(st.dst, ch)
             /\ r.quoteCh = IF st.quoteCh = NoQuote THEN IF ch \in Quotes THEN ch ELSE NoQuote
                            ELSE IF ch = st.quoteCh THEN NoQuote ELSE st.quoteCh
             /\ r.quoteCh = NoQuote => (r.lastWasBlank <=> st.quoteCh = NoQuote /\ ch = "blank")
<1>1. /\ NoQuote \notin Pieces /\ "blank" \notin Quotes /\ Quotes \subseteq Pieces /\ "blank" \in Pieces
  BY DEF NoQuote, Pieces, Quotes, Words, Keywords
<1>2. /\ st = [dst |-> st.dst, quoteCh |-> st.quoteCh, lastWasBlank |-> st.lastWasBlank]
      /\ st.dst \in Seq(Pieces) /\ st.quoteCh \in Quotes \cup {NoQuote} /\ st.lastWasBlank \in BOOLEAN
  BY DEF States
<1>3. Append(st.dst, ch) \in Seq(Pieces)
  BY <1>2
<1>4. CASE st.quoteCh = NoQuote /\ ch \in Quotes
  <2>1. next = [st EXCEPT !.dst = Append(@, ch), !.quoteCh = ch]
    BY <1>1, <1>4 DEF piecewise
  <2>2. next = [dst |-> Append(st.dst, ch), quoteCh |-> ch, lastWasBlank |-> st.lastWasBlank]
    BY <1>2, <2>1
  <2>3. Good(next)
    BY <1>1, <1>2, <1>3, <1>4, <2>2 DEF States
  <2> QED
    BY <2>3
<1>5. CASE ch = st.quoteCh
  <2>1. ~ (st.quoteCh = NoQuote /\ ch \in Quotes) /\ st.quoteCh # NoQuote
    BY <1>1, <1>5
  <2>2. next = [dst |-> Append(st.dst, ch), quoteCh |-> NoQuote, lastWasBlank |-> FALSE]
    BY <1>5, <2>1 DEF piecewise
  <2> QED
    BY <1>1, <1>2, <1>3, <1>5, <2>1, <2>2 DEF States
<1>6. CASE st.quoteCh # NoQuote /\ ch # st.quoteCh
  <2>1. next = [dst |-> Append(st.dst, ch), quoteCh |-> st.quoteCh, lastWasBlank |-> st.lastWasBlank]
    BY <1>2, <1>6 DEF piecewise
  <2> QED
    BY <1>1, <1>2, <1>3, <1>6, <2>1 DEF States
<1>7. CASE st.quoteCh = NoQuote /\ ch = "blank"
  <2>1. next = IF st.lastWasBlank THEN st ELSE [st EXCEPT !.dst = Append(@, "blank"), !.lastWasBlank = TRUE]
    BY <1>1, <1>7 DEF piecewise
  <2>2. CASE st.lastWasBlank
    BY <1>1, <1>2, <1>7, <2>1, <2>2
  <2>3. CASE ~ st.lastWasBlank
    <3>1. next = [dst |-> Append(st.dst, ch), quoteCh |-> NoQuote, lastWasBlank |-> TRUE]
      BY <1>2, <1>7, <2>1, <2>3
    <3>2. next.dst = Append(st.dst, ch) /\ next.quoteCh = NoQuote /\ next.lastWasBlank = TRUE
      BY <3>1
    <3>3. next \in States
      BY <1>3, <3>1 DEF States
    <3> HIDE DEF next
    <3>4. Good(next)
      BY <1>1, <1>7, <2>3, <3>2, <3>3
    <3> QED
      BY <3>4 DEF next
  <2> QED
    BY <2>2, <2>3
<1>8. CASE st.quoteCh = NoQuote /\ ch # "blank" /\ ch \notin Quotes
  <2>1. next = [dst |-> Append(st.dst, ch), quoteCh |-> NoQuote, lastWasBlank |-> FALSE]
    BY <1>1, <1>2, <1>8 DEF piecewise
  <2> QED
    BY <1>1, <1>2, <1>3, <1>8, <2>1 DEF States
<1> QED
  BY <1>4, <1>5, <1>6, <1>7, <1>8

\* Induction over a range of numbers.
LEMMA Upwards ==
  ASSUME NEW m \in Nat, NEW n \in Nat, NEW S, m \in S, \A k \in m .. n - 1 : k \in S => k + 1 \in S
  PROVE  m .. n \subseteq S
<1> DEFINE T == {k \in Nat : m + k <= n => m + k \in S}
<1>1. 0 \in T
  OBVIOUS
<1>2. ASSUME NEW k \in Nat, k \in T PROVE k + 1 \in T
  <2>1. CASE m + (k + 1) <= n
    <3>1. m + k \in S /\ m + k \in m .. n - 1 /\ (m + k) + 1 = m + (k + 1)
      BY <1>2, <2>1
    <3>2. (m + k) + 1 \in S
      BY <3>1
    <3> QED
      BY <3>1, <3>2
  <2> QED
    BY <2>1
<1> HIDE DEF T
<1>3. Nat \subseteq T
  BY <1>1, <1>2, NaturalsByStep
<1>4. ASSUME NEW k \in m .. n PROVE k \in S
  <2>1. k - m \in T /\ m + (k - m) = k /\ k <= n
    BY <1>3
  <2> QED
    BY <2>1 DEF T
<1> QED
  BY <1>4

LEMMA SqueezingTyped ==
  ASSUME NEW text \in Seq(Pieces)
  PROVE  \A k \in 0 .. Len(text) : squeezing(text)[k] \in States
<1> DEFINE len == Len(text)
           S == {k \in Nat : squeezing(text)[k] \in States}
<1>1. len \in Nat /\ \A k \in 1 .. len : text[k] \in Pieces
  OBVIOUS
<1>2. 0 \in S
  <2>1. <<>> \in Seq(Pieces) /\ NoQuote \in Quotes \cup {NoQuote} /\ FALSE \in BOOLEAN
    OBVIOUS
  <2>2. squeezing(text)[0] = [dst |-> <<>>, quoteCh |-> NoQuote, lastWasBlank |-> FALSE]
    BY <1>1, SqueezingSteps
  <2>3. squeezing(text)[0] \in States
    BY <2>1, <2>2 DEF States
  <2> QED
    BY <2>3
<1>3. ASSUME NEW k \in 0 .. len - 1, k \in S PROVE k + 1 \in S
  <2>1. k + 1 \in 1 .. len /\ (k + 1) - 1 = k
    BY <1>1
  <2>2. squeezing(text)[k + 1] = piecewise(squeezing(text)[k], text[k + 1])
    BY <1>1, <2>1, SqueezingSteps
  <2> QED
    BY <1>1, <1>3, <2>1, <2>2, OnePiece
<1> HIDE DEF len, S
<1>4. 0 .. len \subseteq S
  BY <1>1, <1>2, <1>3, Upwards
<1> QED
  BY <1>4 DEF len, S

\* The state after k + 1 pieces.
LEMMA NextState ==
  ASSUME NEW text \in Seq(Pieces), NEW k \in 0 .. Len(text) - 1
  PROVE  LET st == squeezing(text)[k]
             ch == text[k + 1]
             next == squeezing(text)[k + 1]
         IN  /\ st \in States /\ ch \in Pieces /\ next \in States /\ next = piecewise(st, ch)
             /\ IF st.quoteCh = NoQuote /\ ch = "blank" /\ st.lastWasBlank THEN next = st
                ELSE next.dst = Append(st.dst, ch)
             /\ next.quoteCh = IF st.quoteCh = NoQuote THEN IF ch \in Quotes THEN ch ELSE NoQuote
                               ELSE IF ch = st.quoteCh THEN NoQuote ELSE st.quoteCh
             /\ next.quoteCh = NoQuote => (next.lastWasBlank <=> st.quoteCh = NoQuote /\ ch = "blank")
<1> DEFINE st == squeezing(text)[k]
           ch == text[k + 1]
<1>1. Len(text) \in Nat /\ k \in 0 .. Len(text) /\ k + 1 \in 1 .. Len(text) /\ (k + 1) - 1 = k
  OBVIOUS
<1>2. st \in States /\ ch \in Pieces
  BY <1>1, SqueezingTyped
<1>3. squeezing(text)[k + 1] = piecewise(st, ch)
  BY <1>1, SqueezingSteps
<1> HIDE DEF st, ch
<1>4. LET next == piecewise(st, ch)
      IN  /\ next \in States
          /\ IF st.quoteCh = NoQuote /\ ch = "blank" /\ st.lastWasBlank THEN next = st
             ELSE next.dst = Append(st.dst, ch)
          /\ next.quoteCh = IF st.quoteCh = NoQuote THEN IF ch \in Quotes THEN ch ELSE NoQuote
                            ELSE IF ch = st.quoteCh THEN NoQuote ELSE st.quoteCh
          /\ next.quoteCh = NoQuote => (next.lastWasBlank <=> st.quoteCh = NoQuote /\ ch = "blank")
  BY <1>2, OnePiece
<1> QED
  BY <1>2, <1>3, <1>4 DEF st, ch

\* Texts that begin with the same pieces.
LEMMA SameBeginning ==
  ASSUME NEW t \in Seq(Pieces), NEW u \in Seq(Pieces), NEW n \in Nat, n <= Len(t), n <= Len(u),
         \A k \in 1 .. n : t[k] = u[k]
  PROVE  \A k \in 0 .. n : squeezing(t)[k] = squeezing(u)[k]
<1> DEFINE S == {k \in Nat : squeezing(t)[k] = squeezing(u)[k]}
<1>1. Len(t) \in Nat /\ Len(u) \in Nat
  OBVIOUS
<1>2. 0 \in S
  BY <1>1, SqueezingSteps
<1>3. ASSUME NEW k \in 0 .. n - 1, k \in S PROVE k + 1 \in S
  <2>1. k \in 0 .. Len(t) - 1 /\ k \in 0 .. Len(u) - 1 /\ k + 1 \in 1 .. n /\ k + 1 \in Nat
    BY <1>1
  <2>2. /\ squeezing(t)[k + 1] = piecewise(squeezing(t)[k], t[k + 1])
        /\ squeezing(u)[k + 1] = piecewise(squeezing(u)[k], u[k + 1])
    BY <2>1, NextState
  <2> QED
    BY <1>3, <2>1, <2>2
<1> HIDE DEF S
<1>4. 0 .. n \subseteq S
  BY <1>2, <1>3, Upwards
<1> QED
  BY <1>4 DEF S

\* The quotation that is open behind the first k pieces of text.
Quoting(text, k) == squeezing(text)[k].quoteCh

LEMMA QuotingSteps ==
  ASSUME NEW text \in Seq(Pieces)
  PROVE  /\ Quoting(text, 0) = NoQuote
         /\ \A k \in 0 .. Len(text) - 1 :
              Quoting(text, k + 1) =
                IF Quoting(text, k) = NoQuote THEN IF text[k + 1] \in Quotes THEN text[k + 1] ELSE NoQuote
                ELSE IF text[k + 1] = Quoting(text, k) THEN NoQuote ELSE Quoting(text, k)
<1>1. Len(text) \in Nat
  OBVIOUS
<1>2. Quoting(text, 0) = NoQuote
  BY <1>1, SqueezingSteps DEF Quoting
<1> QED
  BY <1>2, NextState DEF Quoting

\* t has behind n pieces what u has behind m: l pieces.
SameBehind(t, n, u, m, l) == n + l <= Len(t) /\ m + l <= Len(u) /\ \A k \in 1 .. l : t[n + k] = u[m + k]

\* What follows places where the same quotation is open has the same quotations.
LEMMA SameQuotations ==
  ASSUME NEW t \in Seq(Pieces), NEW u \in Seq(Pieces), NEW n \in Nat, NEW m \in Nat, NEW l \in Nat,
         SameBehind(t, n, u, m, l), Quoting(t, n) = Quoting(u, m)
  PROVE  \A k \in 0 .. l : Quoting(t, n + k) = Quoting(u, m + k)
<1> DEFINE S == {k \in Nat : Quoting(t, n + k) = Quoting(u, m + k)}
<1>1. Len(t) \in Nat /\ Len(u) \in Nat
  OBVIOUS
<1>2. 0 \in S
  OBVIOUS
<1>3. ASSUME NEW k \in 0 .. l - 1, k \in S PROVE k + 1 \in S
  <2>1. n + k \in 0 .. Len(t) - 1 /\ m + k \in 0 .. Len(u) - 1 /\ k + 1 \in 1 .. l
    BY <1>1 DEF SameBehind
  <2>2. (n + k) + 1 = n + (k + 1) /\ (m + k) + 1 = m + (k + 1)
    OBVIOUS
  <2>3. t[n + (k + 1)] = u[m + (k + 1)]
    BY <2>1 DEF SameBehind
  <2>4. Quoting(t, n + k) = Quoting(u, m + k)
    BY <1>3
  <2>5. Quoting(t, (n + k) + 1) =
          IF Quoting(t, n + k) = NoQuote THEN IF t[(n + k) + 1] \in Quotes THEN t[(n + k) + 1] ELSE NoQuote
          ELSE IF t[(n + k) + 1] = Quoting(t, n + k) THEN NoQuote ELSE Quoting(t, n + k)
    BY <2>1, QuotingSteps
  <2>6. Quoting(u, (m + k) + 1) =
          IF Quoting(u, m + k) = NoQuote THEN IF u[(m + k) + 1] \in Quotes THEN u[(m + k) + 1] ELSE NoQuote
          ELSE IF u[(m + k) + 1] = Quoting(u, m + k) THEN NoQuote ELSE Quoting(u, m + k)
    BY <2>1, QuotingSteps
  <2>7. Quoting(t, n + (k + 1)) = Quoting(u, m + (k + 1))
    BY <2>2, <2>3, <2>4, <2>5, <2>6
  <2>8. k + 1 \in Nat
    OBVIOUS
  <2> QED
    BY <2>7, <2>8
<1> HIDE DEF S
<1>4. 0 .. l \subseteq S
  BY <1>2, <1>3, Upwards
<1> QED
  BY <1>4 DEF S

\* And what follows the same states ends in the same one.
LEMMA SameEnd ==
  ASSUME NEW t \in Seq(Pieces), NEW u \in Seq(Pieces), NEW n \in Nat, NEW m \in Nat, NEW l \in Nat,
         SameBehind(t, n, u, m, l), n + l = Len(t), m + l = Len(u), squeezing(t)[n] = squeezing(u)[m]
  PROVE  squeezing(t)[Len(t)] = squeezing(u)[Len(u)]
<1> DEFINE S == {k \in Nat : squeezing(t)[n + k] = squeezing(u)[m + k]}
<1>1. Len(t) \in Nat /\ Len(u) \in Nat
  OBVIOUS
<1>2. 0 \in S
  OBVIOUS
<1>3. ASSUME NEW k \in 0 .. l - 1, k \in S PROVE k + 1 \in S
  <2>1. n + k \in 0 .. Len(t) - 1 /\ m + k \in 0 .. Len(u) - 1 /\ k + 1 \in 1 .. l /\ k + 1 \in Nat
    BY <1>1 DEF SameBehind
  <2>2. (n + k) + 1 = n + (k + 1) /\ (m + k) + 1 = m + (k + 1)
    OBVIOUS
  <2>3. t[n + (k + 1)] = u[m + (k + 1)]
    BY <2>1 DEF SameBehind
  <2>4. /\ squeezing(t)[(n + k) + 1] = piecewise(squeezing(t)[n + k], t[(n + k) + 1])
        /\ squeezing(u)[(m + k) + 1] = piecewise(squeezing(u)[m + k], u[(m + k) + 1])
    BY <2>1, NextState
  <2>5. squeezing(t)[n + (k + 1)] = squeezing(u)[m + (k + 1)]
    BY <1>3, <2>2, <2>3, <2>4
  <2> QED
    BY <2>1, <2>5
<1> HIDE DEF S
<1>4. 0 .. l \subseteq S
  BY <1>2, <1>3, Upwards
<1>5. l \in S
  BY <1>4
<1> QED
  BY <1>5 DEF S

\* No quotation is open behind pieces that are no quotes.
LEMMA NothingQuoted ==
  ASSUME NEW text \in Seq(Pieces), NEW n \in 0 .. Len(text), \A k \in 1 .. n : text[k] \notin Quotes
  PROVE  \A k \in 0 .. n : Quoting(text, k) = NoQuote
<1> DEFINE S == {k \in Nat : Quoting(text, k) = NoQuote}
<1>1. Len(text) \in Nat /\ n \in Nat
  OBVIOUS
<1>2. 0 \in S
  BY QuotingSteps
<1>3. ASSUME NEW k \in 0 .. n - 1, k \in S PROVE k + 1 \in S
  <2>1. k \in 0 .. Len(text) - 1 /\ k + 1 \in 1 .. n /\ k + 1 \in Nat
    BY <1>1
  <2>2. text[k + 1] \notin Quotes
    BY <2>1
  <2>3. Quoting(text, k + 1) = NoQuote
    BY <1>3, <2>1, <2>2, QuotingSteps
  <2> QED
    BY <2>1, <2>3
<1> HIDE DEF S
<1>4. 0 .. n \subseteq S
  BY <1>1, <1>2, <1>3, Upwards
<1> QED
  BY <1>4 DEF S

\* Outside quotations, the last piece tells whether the loop saw a blank last.
LEMMA LastWasBlank ==
  ASSUME NEW text \in Seq(Pieces), NEW k \in 0 .. Len(text), Quoting(text, k) = NoQuote
  PROVE  squeezing(text)[k].lastWasBlank <=> k > 0 /\ text[k] = "blank"
<1>1. Len(text) \in Nat
  OBVIOUS
<1>2. CASE k = 0
  <2>1. squeezing(text)[0].lastWasBlank = FALSE
    BY <1>1, SqueezingSteps
  <2> QED
    BY <1>2, <2>1
<1>3. CASE k > 0
  <2>1. k - 1 \in 0 .. Len(text) - 1 /\ (k - 1) + 1 = k
    BY <1>1, <1>3
  <2> DEFINE before == squeezing(text)[k - 1].quoteCh
             ch == text[(k - 1) + 1]
             after == squeezing(text)[(k - 1) + 1]
  <2>2. /\ after.quoteCh = IF before = NoQuote THEN IF ch \in Quotes THEN ch ELSE NoQuote
                           ELSE IF ch = before THEN NoQuote ELSE before
        /\ after.quoteCh = NoQuote => (after.lastWasBlank <=> before = NoQuote /\ ch = "blank")
        /\ before \in Quotes \cup {NoQuote}
    <3>1. squeezing(text)[k - 1] \in States
      BY <2>1, NextState
    <3>2. before \in Quotes \cup {NoQuote}
      BY <3>1 DEF States
    <3> QED
      BY <2>1, <3>2, NextState
  <2>3. after = squeezing(text)[k] /\ ch = text[k] /\ after.quoteCh = NoQuote
    BY <2>1 DEF Quoting
  <2> HIDE DEF before, after, ch
  <2>4. ch = "blank" => before = NoQuote
    <3>1. "blank" \notin Quotes
      BY DEF Quotes
    <3> QED
      BY <2>2, <2>3, <3>1
  <2> QED
    BY <1>3, <2>2, <2>3, <2>4
<1> QED
  BY <1>2, <1>3

\* A text of which trimWhitespace would take nothing but blanks at its ends.
Squeezed(text) ==
  \A k \in 1 .. Len(text) - 1 : Quoting(text, k) = NoQuote => ~ (text[k] = "blank" /\ text[k + 1] = "blank")

LEMMA SqueezedStays ==
  ASSUME NEW text \in Seq(Pieces), Squeezed(text)
  PROVE  squeezing(text)[Len(text)].dst = text
<1> DEFINE len == Len(text)
           S == {k \in Nat : squeezing(text)[k].dst = SubSeq(text, 1, k)}
<1>1. len \in Nat
  OBVIOUS
<1>2. 0 \in S
  <2>1. squeezing(text)[0].dst = <<>>
    BY <1>1, SqueezingSteps
  <2>2. SubSeq(text, 1, 0) = <<>>
    OBVIOUS
  <2> QED
    BY <2>1, <2>2
<1>3. ASSUME NEW k \in 0 .. len - 1, k \in S PROVE k + 1 \in S
  <2>1. k \in 0 .. len /\ k + 1 \in Nat
    BY <1>1
  <2> DEFINE st == squeezing(text)[k]
             next == squeezing(text)[k + 1]
             ch == text[k + 1]
  <2>2. /\ IF st.quoteCh = NoQuote /\ ch = "blank" /\ st.lastWasBlank THEN next = st
           ELSE next.dst = Append(st.dst, ch)
        /\ st.quoteCh = NoQuote => (st.lastWasBlank <=> k > 0 /\ text[k] = "blank")
    <3>1. IF st.quoteCh = NoQuote /\ ch = "blank" /\ st.lastWasBlank THEN next = st
          ELSE next.dst = Append(st.dst, ch)
      BY <1>3, NextState
    <3>2. ASSUME st.quoteCh = NoQuote PROVE st.lastWasBlank <=> k > 0 /\ text[k] = "blank"
      BY <2>1, <3>2, LastWasBlank DEF Quoting
    <3> QED
      BY <3>1, <3>2
  <2>3. ~ (st.quoteCh = NoQuote /\ ch = "blank" /\ st.lastWasBlank)
    <3>1. SUFFICES ASSUME st.quoteCh = NoQuote, ch = "blank", st.lastWasBlank PROVE FALSE
      OBVIOUS
    <3>2. k > 0 /\ text[k] = "blank"
      BY <2>2, <3>1
    <3>3. k \in 1 .. Len(text) - 1
      BY <1>1, <3>2
    <3> QED
      BY <3>1, <3>2, <3>3 DEF Squeezed, Quoting
  <2>4. next.dst = Append(st.dst, ch) /\ st.dst = SubSeq(text, 1, k)
    BY <1>3, <2>2, <2>3
  <2>5. Append(SubSeq(text, 1, k), text[k + 1]) = SubSeq(text, 1, k + 1)
    BY <1>1
  <2> QED
    BY <2>1, <2>4, <2>5
<1> HIDE DEF S
<1>4. 0 .. len \subseteq S
  BY <1>1, <1>2, <1>3, Upwards
<1>5. len \in S
  BY <1>1, <1>4
<1>6. SubSeq(text, 1, len) = text
  OBVIOUS
<1> QED
  BY <1>5, <1>6 DEF S

\* Where text has, up to place e at the latest, what d has from a to b.
Occurs(d, a, b, text, e) ==
  \E c \in 1 .. e : c + (b - a) <= e /\ \A j \in 0 .. b - a : text[c + j] = d[a + j]

\* Of the part of d from a to b, all but the last piece is followed by an open quotation.
Quoted(d, a, b) == \A j \in a .. b - 1 : Quoting(d, j) # NoQuote

\* What is kept of text is squeezed, leads to the same state, and its quotations are those of text.
LEMMA SqueezesTo ==
  ASSUME NEW text \in Seq(Pieces)
  PROVE  \A k \in 0 .. Len(text) :
           LET st == squeezing(text)[k]
           IN  /\ Squeezed(st.dst) /\ squeezing(st.dst)[Len(st.dst)] = st
               /\ \A b \in 1 .. Len(st.dst) : \A a \in 1 .. b :
                    Quoted(st.dst, a, b) => Occurs(st.dst, a, b, text, k)
<1> DEFINE len == Len(text)
           st(k) == squeezing(text)[k]
           Mirrors(d, k) == \A b \in 1 .. Len(d) : \A a \in 1 .. b : Quoted(d, a, b) => Occurs(d, a, b, text, k)
           EndsAt(d, k) == Quoting(text, k) # NoQuote =>
                           \A a \in 1 .. Len(d) : Quoted(d, a, Len(d)) =>
                             \E c \in 1 .. k : c + (Len(d) - a) = k /\ \A j \in 0 .. Len(d) - a : text[c + j] = d[a + j]
           Good(s, k) == Squeezed(s.dst) /\ squeezing(s.dst)[Len(s.dst)] = s /\ Mirrors(s.dst, k) /\ EndsAt(s.dst, k)
           S == {k \in Nat : Good(st(k), k)}
<1>1. len \in Nat
  OBVIOUS
<1>2. 0 \in S
  <2> DEFINE s == squeezing(text)[0]
  <2>1. s = [dst |-> <<>>, quoteCh |-> NoQuote, lastWasBlank |-> FALSE]
    BY <1>1, SqueezingSteps
  <2>2. s.dst = <<>> /\ Len(s.dst) = 0
    BY <2>1
  <2>3. squeezing(<<>>)[0] = [dst |-> <<>>, quoteCh |-> NoQuote, lastWasBlank |-> FALSE]
    BY SqueezingSteps
  <2> HIDE DEF s
  <2>4. squeezing(s.dst)[Len(s.dst)] = s
    BY <2>1, <2>2, <2>3
  <2>5. Squeezed(s.dst) /\ Mirrors(s.dst, 0) /\ EndsAt(s.dst, 0)
    BY <2>2 DEF Squeezed
  <2>6. Good(s, 0)
    BY <2>4, <2>5
  <2> QED
    BY <2>6 DEF s
<1>3. ASSUME NEW k \in 0 .. len - 1, k \in S PROVE k + 1 \in S
  <2> DEFINE s == st(k)
             next == st(k + 1)
             ch == text[k + 1]
             d == s.dst
             e == next.dst
  <2>1. /\ s \in States /\ ch \in Pieces /\ next \in States /\ next = piecewise(s, ch)
        /\ IF s.quoteCh = NoQuote /\ ch = "blank" /\ s.lastWasBlank THEN next = s ELSE e = Append(d, ch)
    BY <1>3, NextState
  <2>2. Good(s, k) /\ k \in 0 .. len /\ k + 1 \in 1 .. len /\ k + 1 \in Nat /\ k \in Nat
    BY <1>1, <1>3
  <2>3. /\ d \in Seq(Pieces) /\ Len(d) \in Nat /\ e \in Seq(Pieces) /\ Len(e) \in Nat
        /\ Quoting(text, k) = s.quoteCh /\ Quoting(text, k + 1) = next.quoteCh
    BY <2>1 DEF States, Quoting
  <2> HIDE DEF st
  <2>4. CASE s.quoteCh = NoQuote /\ ch = "blank" /\ s.lastWasBlank
    <3>1. next = s
      BY <2>1, <2>4
    <3>2. EndsAt(next.dst, k + 1)
      BY <2>3, <2>4, <3>1
    <3>3. Mirrors(next.dst, k + 1)
      <4> SUFFICES ASSUME NEW b \in 1 .. Len(d), NEW a \in 1 .. b, Quoted(d, a, b)
                   PROVE  Occurs(d, a, b, text, k + 1)
        BY <3>1
      <4>1. PICK c \in 1 .. k : c + (b - a) <= k /\ \A j \in 0 .. b - a : text[c + j] = d[a + j]
        BY <2>2 DEF Occurs
      <4>2. c \in 1 .. k + 1 /\ c + (b - a) <= k + 1
        BY <2>2, <2>3, <4>1
      <4> QED
        BY <4>1, <4>2 DEF Occurs
    <3>4. Good(next, k + 1)
      BY <2>2, <3>1, <3>2, <3>3
    <3> QED
      BY <2>2, <3>4 DEF st
  <2>5. CASE ~ (s.quoteCh = NoQuote /\ ch = "blank" /\ s.lastWasBlank)
    <3>0. PICK n \in Nat : n = Len(d)
      BY <2>3
    <3>1. /\ e = Append(d, ch) /\ Len(e) = n + 1 /\ e[n + 1] = ch /\ \A j \in 1 .. n : d[j] = e[j]
          /\ n \in Nat /\ n = Len(d) /\ n <= Len(d) /\ n <= Len(e)
      <4>1. /\ e = Append(d, ch) /\ Len(e) = Len(d) + 1 /\ e[Len(d) + 1] = ch
            /\ \A j \in 1 .. Len(d) : d[j] = e[j]
        BY <2>1, <2>3, <2>5
      <4> HIDE DEF d, e
      <4> QED
        BY <3>0, <4>1
    <3> HIDE DEF d, e
    <3>2. \A j \in 0 .. n : squeezing(d)[j] = squeezing(e)[j]
      BY <2>3, <3>1, SameBeginning
    <3> USE DEF d, e
    <3>3. squeezing(e)[n] = s
      BY <2>2, <2>3, <3>1, <3>2
    <3>4. squeezing(e)[n + 1] = next
      <4>1. n \in 0 .. Len(e) - 1
        BY <2>3, <3>1
      <4>2. squeezing(e)[n + 1] = piecewise(squeezing(e)[n], e[n + 1])
        BY <2>3, <3>1, <4>1, NextState
      <4> QED
        BY <2>1, <3>1, <3>3, <4>2
    <3>5. \A j \in 0 .. n : Quoting(d, j) = Quoting(e, j)
      BY <3>2 DEF Quoting
    <3>6. Squeezed(e)
      <4> SUFFICES ASSUME NEW j \in 1 .. Len(e) - 1, Quoting(e, j) = NoQuote, e[j] = "blank", e[j + 1] = "blank"
                   PROVE  FALSE
        BY DEF Squeezed
      <4>1. CASE j < n
        <5>1. j \in 1 .. Len(d) - 1 /\ j \in 0 .. n /\ j \in 1 .. n /\ j + 1 \in 1 .. n
          BY <2>3, <3>1, <4>1
        <5>2. Quoting(d, j) = NoQuote /\ d[j] = "blank" /\ d[j + 1] = "blank"
          BY <3>1, <3>5, <5>1
        <5> QED
          BY <2>2, <5>1, <5>2 DEF Squeezed
      <4>2. CASE j = n
        <5>1. s.quoteCh = NoQuote /\ ch = "blank" /\ n > 0 /\ d[n] = "blank"
          BY <2>3, <3>1, <3>3, <4>2 DEF Quoting
        <5>2. Quoting(d, n) = NoQuote /\ n \in 0 .. Len(d)
          BY <2>2, <2>3, <3>1, <5>1 DEF Quoting
        <5>3. squeezing(d)[n].lastWasBlank
          BY <2>3, <3>1, <5>1, <5>2, LastWasBlank
        <5> QED
          BY <2>2, <2>5, <3>1, <5>1, <5>3
      <4> QED
        BY <2>3, <3>1, <4>1, <4>2
    <3> DEFINE Ending(a, c) == c + (n + 1 - a) = k + 1 /\ \A j \in 0 .. n + 1 - a : text[c + j] = e[a + j]
    <3>7. ASSUME NEW a \in 1 .. n + 1, Quoted(e, a, n + 1) PROVE \E c \in 1 .. k + 1 : Ending(a, c)
      <4>1. CASE a = n + 1
        <5>1. \A j \in 0 .. n + 1 - a : j = 0
          BY <3>1, <4>1
        <5>2. (k + 1) + (n + 1 - a) = k + 1 /\ (k + 1) + 0 = k + 1 /\ a + 0 = n + 1 /\ k + 1 \in 1 .. k + 1
          <6>1. n + 1 - a = 0 /\ k \in Nat
            BY <2>2, <3>1, <4>1
          <6> QED
            BY <4>1, <6>1
        <5>3. Ending(a, k + 1)
          BY <3>1, <5>1, <5>2
        <5> QED
          BY <5>2, <5>3
      <4>2. CASE a <= n
        <5>1. a \in 1 .. Len(d) /\ n \in a .. (n + 1) - 1
          BY <2>3, <3>1, <4>2
        <5>2. Quoting(text, k) # NoQuote
          <6>1. Quoting(e, n) # NoQuote
            BY <3>7, <5>1 DEF Quoted
          <6> QED
            BY <2>3, <3>1, <3>3, <6>1 DEF Quoting
        <5>3. Quoted(d, a, Len(d))
          <6> SUFFICES ASSUME NEW j \in a .. Len(d) - 1 PROVE Quoting(d, j) # NoQuote
            BY DEF Quoted
          <6>1. j \in a .. (n + 1) - 1 /\ j \in 0 .. n
            BY <2>3, <3>1
          <6> QED
            BY <3>5, <3>7, <6>1 DEF Quoted
        <5>4. PICK c \in 1 .. k : c + (Len(d) - a) = k /\ \A j \in 0 .. Len(d) - a : text[c + j] = d[a + j]
          BY <2>2, <5>1, <5>2, <5>3
        <5>5. ASSUME NEW j \in 0 .. n + 1 - a PROVE text[c + j] = e[a + j]
          <6>1. CASE j <= n - a
            <7>1. j \in 0 .. Len(d) - a /\ a + j \in 1 .. n
              BY <2>3, <3>1, <5>1, <6>1
            <7> QED
              BY <3>1, <5>4, <7>1
          <6>2. CASE j = n + 1 - a
            <7>1. c + j = k + 1 /\ a + j = n + 1
              <8>1. c + (n - a) = k
                BY <3>0, <5>4
              <8> QED
                BY <2>2, <3>1, <6>2, <8>1
            <7> QED
              BY <3>1, <7>1
          <6>3. j <= n - a \/ j = n + 1 - a
            <7>1. n \in Int /\ a \in Int /\ j \in Int /\ j <= n + 1 - a
              BY <3>1, <5>1, <5>5
            <7> QED
              BY <7>1
          <6> QED
            BY <6>1, <6>2, <6>3
        <5>6. c + (n + 1 - a) = k + 1 /\ c \in 1 .. k + 1
          <6>1. c + (n - a) = k
            BY <3>0, <5>4
          <6> QED
            BY <2>2, <3>1, <6>1
        <5>7. Ending(a, c)
          BY <5>5, <5>6
        <5> QED
          BY <5>6, <5>7
      <4> QED
        BY <2>3, <3>1, <4>1, <4>2
    <3>8. EndsAt(e, k + 1)
      <4> SUFFICES ASSUME NEW a \in 1 .. Len(e), Quoted(e, a, Len(e))
                   PROVE  \E c \in 1 .. k + 1 : /\ c + (Len(e) - a) = k + 1
                                               /\ \A j \in 0 .. Len(e) - a : text[c + j] = e[a + j]
        OBVIOUS
      <4>1. PICK c \in 1 .. k + 1 : Ending(a, c)
        BY <3>1, <3>7
      <4>2. c + (Len(e) - a) = k + 1
        <5>1. c + (n + 1 - a) = k + 1
          BY <4>1
        <5>2. Len(e) = n + 1
          BY <3>1
        <5> QED
          BY <5>1, <5>2
      <4>3. \A j \in 0 .. Len(e) - a : text[c + j] = e[a + j]
        BY <3>1, <4>1
      <4> QED
        BY <4>2, <4>3
    <3>9. Mirrors(e, k + 1)
      <4> SUFFICES ASSUME NEW b \in 1 .. Len(e), NEW a \in 1 .. b, Quoted(e, a, b)
                   PROVE  Occurs(e, a, b, text, k + 1)
        OBVIOUS
      <4>1. CASE b <= n
        <5>1. b \in 1 .. Len(d)
          BY <2>3, <3>1, <4>1
        <5>2. Quoted(d, a, b)
          <6> SUFFICES ASSUME NEW j \in a .. b - 1 PROVE Quoting(d, j) # NoQuote
            BY DEF Quoted
          <6>1. j \in 0 .. n
            BY <2>3, <3>1, <5>1
          <6> QED
            BY <3>5, <6>1 DEF Quoted
        <5>3. Occurs(d, a, b, text, k)
          BY <2>2, <5>1, <5>2
        <5>4. PICK c \in 1 .. k : c + (b - a) <= k /\ \A j \in 0 .. b - a : text[c + j] = d[a + j]
          BY <5>3 DEF Occurs
        <5>5. \A j \in 0 .. b - a : a + j \in 1 .. n
          BY <2>3, <3>1, <5>1
        <5>6. \A j \in 0 .. b - a : text[c + j] = e[a + j]
          BY <3>1, <5>4, <5>5
        <5>7. c \in 1 .. k + 1 /\ c + (b - a) <= k + 1
          BY <2>2, <2>3, <3>1, <5>1, <5>4
        <5> QED
          BY <5>6, <5>7 DEF Occurs
      <4>2. CASE b = n + 1
        <5>1. PICK c \in 1 .. k + 1 : Ending(a, c)
          BY <3>7, <4>2
        <5>2. c + (b - a) <= k + 1 /\ \A j \in 0 .. b - a : text[c + j] = e[a + j]
          BY <2>2, <2>3, <3>1, <4>2, <5>1
        <5> QED
          BY <5>2 DEF Occurs
      <4> QED
        BY <2>3, <3>1, <4>1, <4>2
    <3>10. squeezing(e)[Len(e)] = next
      BY <3>1, <3>4
    <3>11. Good(next, k + 1)
      BY <3>6, <3>8, <3>9, <3>10
    <3> QED
      BY <2>2, <3>11 DEF st
  <2> QED
    BY <2>4, <2>5
<1> HIDE DEF S
<1>4. 0 .. len \subseteq S
  BY <1>1, <1>2, <1>3, Upwards
<1>5. ASSUME NEW k \in 0 .. len PROVE Good(st(k), k)
  BY <1>4 DEF S
<1> QED
  BY <1>5

\* A text of which trimWhitespace takes nothing.
Clean(text) ==
  text \in Seq(Pieces) /\ Squeezed(text) /\ (Len(text) > 0 => text[1] # "blank" /\ text[Len(text)] # "blank")

LEMMA TrimmedIsClean ==
  ASSUME NEW d \in Seq(Pieces), Squeezed(d)
  PROVE  /\ Clean(Trimmed(d))
         /\ \E o \in Nat : /\ o + Len(Trimmed(d)) <= Len(d)
                           /\ \A k \in 1 .. Len(Trimmed(d)) : Trimmed(d)[k] = d[o + k]
                           /\ \A k \in 0 .. Len(Trimmed(d)) : Quoting(Trimmed(d), k) = Quoting(d, o + k)
<1> DEFINE p == Beyond(d, {"blank"})
           q == Within(d)
           l == Trimmed(d)
<1>1. PICK len \in Nat : len = Len(d)
  OBVIOUS
<1>2. p \in 1 .. len + 1 /\ (\A k \in 1 .. p - 1 : d[k] \in {"blank"}) /\ (p <= len => d[p] \notin {"blank"})
  BY <1>1, BeyondIs
<1>3. q \in 0 .. len /\ (q > 0 => d[q] # "blank")
  BY <1>1, LastIs
<1>4. l = SubSeq(d, p, q)
  BY DEF Trimmed
<1> HIDE DEF p, q, l
<1>5. CASE q = 0
  <2>1. l = <<>>
    BY <1>2, <1>4, <1>5
  <2>2. Clean(l)
    BY <2>1 DEF Clean, Squeezed
  <2>3. \A k \in 0 .. Len(l) : Quoting(l, k) = Quoting(d, 0 + k)
    <3>1. Quoting(l, 0) = NoQuote /\ Quoting(d, 0) = NoQuote
      BY <2>2, QuotingSteps DEF Clean
    <3>2. Len(l) = 0
      BY <2>1
    <3> QED
      BY <3>1, <3>2
  <2>4. 0 + Len(l) <= Len(d) /\ \A k \in 1 .. Len(l) : l[k] = d[0 + k]
    BY <1>1, <2>1
  <2> QED
    BY <2>2, <2>3, <2>4 DEF l
<1>6. CASE q > 0
  <2>1. p <= q
    <3>1. SUFFICES ASSUME q < p PROVE FALSE
      BY <1>2, <1>3
    <3>2. q \in 1 .. p - 1
      BY <1>2, <1>3, <1>6, <3>1
    <3> QED
      BY <1>2, <1>3, <1>6, <3>2
  <2>2. PICK o \in Nat : o = p - 1
    BY <1>2
  <2>3. PICK m \in Nat : m = q - p + 1
    BY <1>2, <1>3, <2>1
  <2>4. l \in Seq(Pieces) /\ Len(l) = m /\ \A k \in 1 .. m : l[k] = d[o + k]
    <3>1. p \in 1 .. Len(d) + 1 /\ q \in 0 .. Len(d) /\ p <= q + 1
      BY <1>1, <1>2, <1>3, <2>1
    <3> QED
      BY <1>4, <2>2, <2>3, <3>1, Part
  <2>5. o + m = q /\ o + m <= len /\ m > 0 /\ o + 1 = p /\ p <= len
    BY <1>2, <1>3, <2>1, <2>2, <2>3
  <2>6. Quoting(d, o) = NoQuote
    <3>1. \A k \in 1 .. o : d[k] \notin Quotes
      <4>1. "blank" \notin Quotes
        BY DEF Quotes
      <4> QED
        BY <1>2, <2>2, <4>1
    <3>2. o \in 0 .. Len(d) /\ o \in 0 .. o
      BY <1>1, <2>5
    <3> QED
      BY <3>1, <3>2, NothingQuoted
  <2>7. PICK z \in Nat : z = 0
    OBVIOUS
  <2>8. \A k \in 0 .. m : Quoting(l, k) = Quoting(d, o + k)
    <3>1. Quoting(l, z) = Quoting(d, o)
      BY <2>4, <2>6, <2>7, QuotingSteps
    <3>2. SameBehind(l, z, d, o, m)
      BY <1>1, <2>4, <2>5, <2>7 DEF SameBehind
    <3>3. \A k \in 0 .. m : Quoting(l, z + k) = Quoting(d, o + k)
      BY <2>4, <3>1, <3>2, SameQuotations
    <3> QED
      BY <2>7, <3>3
  <2>9. l[1] # "blank" /\ l[m] # "blank"
    <3>1. l[1] = d[o + 1] /\ l[m] = d[o + m]
      BY <2>4, <2>5
    <3> QED
      BY <1>2, <1>3, <1>6, <2>5, <3>1
  <2>10. Squeezed(l)
    <3> SUFFICES ASSUME NEW k \in 1 .. m - 1, Quoting(l, k) = NoQuote, l[k] = "blank", l[k + 1] = "blank"
                 PROVE  FALSE
      BY <2>4 DEF Squeezed
    <3>1. k \in 0 .. m /\ k \in 1 .. m /\ k + 1 \in 1 .. m /\ o + k \in 1 .. len - 1 /\ o + (k + 1) = (o + k) + 1
      BY <2>5
    <3>2. Quoting(d, o + k) = NoQuote /\ d[o + k] = "blank" /\ d[(o + k) + 1] = "blank"
      BY <2>4, <2>8, <3>1
    <3> QED
      BY <1>1, <3>1, <3>2 DEF Squeezed
  <2>11. Clean(l)
    BY <2>4, <2>9, <2>10 DEF Clean
  <2>12. o + Len(l) <= Len(d) /\ \A k \in 1 .. Len(l) : l[k] = d[o + k]
    BY <1>1, <2>4, <2>5
  <2>13. \A k \in 0 .. Len(l) : Quoting(l, k) = Quoting(d, o + k)
    BY <2>4, <2>8
  <2> QED
    BY <2>11, <2>12, <2>13 DEF l
<1> QED
  BY <1>3, <1>5, <1>6

LEMMA TrimmedStays ==
  ASSUME NEW l, Clean(l)
  PROVE  Trimmed(l) = l
<1>1. l \in Seq(Pieces) /\ (Len(l) > 0 => l[1] # "blank" /\ l[Len(l)] # "blank")
  BY DEF Clean
<1>2. PICK len \in Nat : len = Len(l)
  BY <1>1
<1>3. Beyond(l, {"blank"}) = 1
  <2>1. 1 \in 1 .. Len(l) + 1 /\ (\A k \in 1 .. 1 - 1 : l[k] \in {"blank"}) /\ (1 <= Len(l) => l[1] \notin {"blank"})
    BY <1>1, <1>2
  <2> QED
    BY <1>1, <2>1, BeyondIsAt
<1>4. Within(l) = len
  <2> DEFINE q == Within(l)
  <2>1. q \in 0 .. len /\ \A k \in q + 1 .. len : l[k] = "blank"
    BY <1>1, <1>2, LastIs
  <2> HIDE DEF q
  <2>2. ASSUME q # len PROVE FALSE
    <3>1. len \in q + 1 .. len /\ len > 0
      BY <1>2, <2>1, <2>2
    <3> QED
      BY <1>1, <1>2, <2>1, <3>1
  <2> QED
    BY <2>2 DEF q
<1>5. SubSeq(l, 1, Len(l)) = l
  BY <1>1
<1> QED
  BY <1>2, <1>3, <1>4, <1>5 DEF Trimmed

LEMMA CleanStays ==
  ASSUME NEW l, Clean(l)
  PROVE  trimWhitespace(l) = l
<1>1. squeezing(l)[Len(l)].dst = l
  BY SqueezedStays DEF Clean
<1> QED
  BY <1>1, TrimmedStays DEF trimWhitespace

\* The line has of a quotation what text has.
LEMMA TrimmingKeepsQuotations ==
  ASSUME NEW text \in Seq(Pieces)
  PROVE  LET l == trimWhitespace(text)
         IN  /\ Clean(l)
             /\ \A b \in 1 .. Len(l) : \A a \in 1 .. b : Quoted(l, a, b) => Occurs(l, a, b, text, Len(text))
<1> DEFINE d == squeezing(text)[Len(text)].dst
           l == Trimmed(d)
<1>1. PICK len \in Nat : len = Len(text)
  OBVIOUS
<1>2. len \in 0 .. Len(text)
  BY <1>1
<1>3. d \in Seq(Pieces)
  BY <1>1, <1>2, SqueezingTyped DEF States
<1>4. Squeezed(d) /\ \A b \in 1 .. Len(d) : \A a \in 1 .. b : Quoted(d, a, b) => Occurs(d, a, b, text, len)
  BY <1>1, <1>2, SqueezesTo
<1>5. trimWhitespace(text) = l
  BY DEF trimWhitespace
<1> HIDE DEF d
<1>6. Clean(l)
  BY <1>3, <1>4, TrimmedIsClean
<1>7. PICK o \in Nat : /\ o + Len(l) <= Len(d)
                       /\ \A k \in 1 .. Len(l) : l[k] = d[o + k]
                       /\ \A k \in 0 .. Len(l) : Quoting(l, k) = Quoting(d, o + k)
  BY <1>3, <1>4, TrimmedIsClean
<1>8. PICK m \in Nat : m = Len(l)
  BY <1>6 DEF Clean
<1>9. PICK n \in Nat : n = Len(d)
  BY <1>3
<1> HIDE DEF l
<1>10. ASSUME NEW b \in 1 .. m, NEW a \in 1 .. b, Quoted(l, a, b) PROVE Occurs(l, a, b, text, len)
  <2>1. o + b \in 1 .. n /\ o + a \in 1 .. o + b
    BY <1>7, <1>8, <1>9
  <2>2. Quoted(d, o + a, o + b)
    <3> SUFFICES ASSUME NEW j \in o + a .. (o + b) - 1 PROVE Quoting(d, j) # NoQuote
      BY DEF Quoted
    <3>1. PICK k \in Int : k = j - o
      OBVIOUS
    <3>2. k \in a .. b - 1 /\ k \in 0 .. m /\ o + k = j
      BY <3>1
    <3>3. Quoting(l, k) # NoQuote
      BY <1>10, <3>2 DEF Quoted
    <3>4. Quoting(l, k) = Quoting(d, o + k)
      BY <1>7, <1>8, <3>2
    <3> QED
      BY <3>2, <3>3, <3>4
  <2>3. Occurs(d, o + a, o + b, text, len)
    BY <1>4, <1>9, <2>1, <2>2
  <2>4. PICK c \in 1 .. len : /\ c + ((o + b) - (o + a)) <= len
                              /\ \A j \in 0 .. (o + b) - (o + a) : text[c + j] = d[(o + a) + j]
    BY <2>3 DEF Occurs
  <2>5. (o + b) - (o + a) = b - a
    OBVIOUS
  <2>6. ASSUME NEW j \in 0 .. b - a PROVE text[c + j] = l[a + j]
    <3>1. a + j \in 1 .. m /\ o + (a + j) = (o + a) + j
      OBVIOUS
    <3>2. l[a + j] = d[o + (a + j)]
      BY <1>7, <1>8, <3>1
    <3>3. text[c + j] = d[(o + a) + j]
      BY <2>4, <2>5
    <3> QED
      BY <3>1, <3>2, <3>3
  <2> QED
    BY <2>4, <2>5, <2>6 DEF Occurs
<1> QED
  BY <1>1, <1>5, <1>6, <1>8, <1>10

-----------------------------------------------------------------------------
(* A blank is put in behind the number.                                     *)

LEMMA Inserted ==
  ASSUME NEW text \in Seq(Pieces), NEW n \in 1 .. Len(text)
  PROVE  LET u == InsertAt(text, n, "blank")
         IN  /\ u \in Seq(Pieces) /\ Len(u) = Len(text) + 1 /\ u[n] = "blank"
             /\ \A k \in 1 .. n - 1 : u[k] = text[k]
             /\ \A k \in n .. Len(text) : u[k + 1] = text[k]
<1>1. "blank" \in Pieces
  BY DEF Pieces
<1> DEFINE v == SubSeq(text, 1, n - 1)
           w == SubSeq(text, n, Len(text))
           u == InsertAt(text, n, "blank")
<1>2. PICK len \in Nat : len = Len(text)
  OBVIOUS
<1>3. n \in 1 .. len
  BY <1>2
<1>4. v \in Seq(Pieces) /\ Len(v) = n - 1 /\ \A k \in 1 .. n - 1 : v[k] = text[k]
  <2>1. 1 \in 1 .. Len(text) + 1 /\ n - 1 \in 0 .. Len(text) /\ 1 <= (n - 1) + 1
    BY <1>2, <1>3
  <2> QED
    BY <2>1, Part
<1>5. w \in Seq(Pieces) /\ Len(w) = len - n + 1 /\ \A k \in 1 .. len - n + 1 : w[k] = text[n - 1 + k]
  <2>1. n \in 1 .. Len(text) + 1 /\ Len(text) \in 0 .. Len(text) /\ n <= Len(text) + 1
    BY <1>2, <1>3
  <2> QED
    BY <1>2, <2>1, Part
<1>6. u = v \o <<"blank">> \o w
  BY DEF InsertAt
<1> HIDE DEF u, v, w
<1> DEFINE x == v \o <<"blank">>
<1>7. x \in Seq(Pieces) /\ Len(x) = n /\ x[n] = "blank" /\ \A k \in 1 .. n - 1 : x[k] = text[k]
  BY <1>1, <1>3, <1>4
<1> HIDE DEF x
<1>8. /\ u \in Seq(Pieces) /\ Len(u) = n + Len(w) /\ \A k \in 1 .. n : u[k] = x[k]
      /\ \A k \in 1 .. Len(w) : u[n + k] = w[k]
  <2>1. u = x \o w
    BY <1>6 DEF x
  <2>2. PICK m \in Nat : m = Len(w)
    BY <1>5
  <2>3. u \in Seq(Pieces) /\ Len(u) = n + m
    <3>1. Len(x \o w) = Len(x) + Len(w)
      <4>1. x \in Seq(Pieces) /\ w \in Seq(Pieces)
        BY <1>5, <1>7
      <4> QED
        BY <4>1
    <3>2. x \o w \in Seq(Pieces)
      BY <1>5, <1>7
    <3> QED
      BY <1>7, <2>1, <2>2, <3>1, <3>2
  <2>4. \A k \in 1 .. n : u[k] = x[k]
    BY <1>3, <1>5, <1>7, <2>1, <2>2
  <2>5. \A k \in 1 .. m : u[n + k] = w[k]
    BY <1>3, <1>5, <1>7, <2>1, <2>2
  <2> QED
    BY <2>2, <2>3, <2>4, <2>5
<1>9. Len(u) = len + 1 /\ u[n] = "blank" /\ \A k \in 1 .. n - 1 : u[k] = text[k]
  BY <1>3, <1>5, <1>7, <1>8
<1>10. ASSUME NEW k \in n .. len PROVE u[k + 1] = text[k]
  <2>1. PICK j \in Int : j = k + 1 - n
    BY <1>3
  <2>2. j \in 1 .. len - n + 1 /\ n + j = k + 1 /\ n - 1 + j = k
    BY <1>3, <2>1
  <2> QED
    BY <1>5, <1>8, <2>2
<1> QED
  BY <1>2, <1>8, <1>9, <1>10 DEF u

LEMMA SpacedIs ==
  ASSUME NEW text \in Seq(Pieces)
  PROVE  LET n == Beyond(text, {"1"})
         IN  /\ n \in 1 .. Len(text) + 1 /\ \A k \in 1 .. n - 1 : text[k] = "1"
             /\ n <= Len(text) => text[n] # "1"
             /\ spaced(text) = IF n > 1 /\ n <= Len(text) THEN InsertAt(text, n, "blank") ELSE text
<1>1. LET n == Beyond(text, {"1"})
      IN  /\ n \in 1 .. Len(text) + 1 /\ \A k \in 1 .. n - 1 : text[k] \in {"1"}
          /\ n <= Len(text) => text[n] \notin {"1"}
  BY BeyondIs
<1> DEFINE n == Beyond(text, {"1"})
<1>2. spaced(text) = IF n = 1 \/ n > Len(text) THEN text ELSE InsertAt(text, n, "blank")
  BY DEF spaced
<1> HIDE DEF n
<1>3. /\ n \in 1 .. Len(text) + 1 /\ \A k \in 1 .. n - 1 : text[k] = "1"
      /\ n <= Len(text) => text[n] # "1"
  BY <1>1 DEF n
<1>4. spaced(text) = IF n > 1 /\ n <= Len(text) THEN InsertAt(text, n, "blank") ELSE text
  BY <1>2, <1>3
<1> QED
  BY <1>3, <1>4 DEF n

\* What NewLexer makes of a line.
Prepared(text) == trimWhitespace(spaced(text))

\* A quotation of the line is there in what was typed.
LEMMA QuotationsStay ==
  ASSUME NEW text \in Seq(Pieces)
  PROVE  LET l == Prepared(text)
         IN  /\ Clean(l)
             /\ \A b \in 1 .. Len(l) : \A a \in 1 .. b :
                  l[a] \in Quotes /\ Quoted(l, a, b) => Occurs(l, a, b, text, Len(text))
<1> DEFINE s == spaced(text)
           l == Prepared(text)
           n == Beyond(text, {"1"})
<1>1. PICK len \in Nat : len = Len(text)
  OBVIOUS
<1>2. /\ n \in 1 .. len + 1 /\ \A k \in 1 .. n - 1 : text[k] = "1"
      /\ s = IF n > 1 /\ n <= len THEN InsertAt(text, n, "blank") ELSE text
  BY <1>1, SpacedIs
<1> HIDE DEF n, s
<1>3. s \in Seq(Pieces)
  BY <1>1, <1>2, Inserted
<1>4. Clean(l) /\ \A b \in 1 .. Len(l) : \A a \in 1 .. b : Quoted(l, a, b) => Occurs(l, a, b, s, Len(s))
  BY <1>3, TrimmingKeepsQuotations DEF Prepared, s
<1> HIDE DEF l
<1>5. ASSUME NEW b \in 1 .. Len(l), NEW a \in 1 .. b, l[a] \in Quotes, Quoted(l, a, b)
      PROVE  Occurs(l, a, b, text, len)
  <2>1. Occurs(l, a, b, s, Len(s))
    BY <1>4, <1>5
  <2>2. CASE s = text
    BY <1>1, <2>1, <2>2
  <2>3. CASE s # text
    <3>1. n \in 1 .. len /\ n > 1 /\ s = InsertAt(text, n, "blank")
      BY <1>2, <2>3
    <3>2. /\ Len(s) = len + 1 /\ s[n] = "blank"
          /\ \A k \in 1 .. n - 1 : s[k] = text[k]
          /\ \A k \in n .. len : s[k + 1] = text[k]
      BY <1>1, <3>1, Inserted
    <3>3. PICK c \in 1 .. len + 1 : c + (b - a) <= len + 1 /\ \A j \in 0 .. b - a : s[c + j] = l[a + j]
      BY <2>1, <3>2 DEF Occurs
    <3>4. Len(l) \in Nat
      BY <1>4 DEF Clean
    <3>5. s[c] \in Quotes
      <4>1. 0 \in 0 .. b - a /\ c + 0 = c /\ a + 0 = a
        BY <3>4
      <4> QED
        BY <1>5, <3>3, <4>1
    <3>6. c > n
      <4>1. "1" \notin Quotes /\ "blank" \notin Quotes
        BY DEF Quotes
      <4>2. CASE c < n
        <5>1. c \in 1 .. n - 1
          BY <3>1, <4>2
        <5> QED
          BY <1>2, <3>2, <3>5, <4>1, <5>1
      <4>3. CASE c = n
        BY <3>2, <3>5, <4>1, <4>3
      <4> QED
        BY <3>1, <4>2, <4>3
    <3>7. ASSUME NEW j \in 0 .. b - a PROVE text[(c - 1) + j] = l[a + j]
      <4>1. (c - 1) + j \in n .. len /\ ((c - 1) + j) + 1 = c + j
        BY <3>1, <3>3, <3>4, <3>6
      <4>2. s[c + j] = text[(c - 1) + j]
        BY <3>2, <4>1
      <4> QED
        BY <3>3, <4>2
    <3>8. c - 1 \in 1 .. len /\ (c - 1) + (b - a) <= len
      BY <3>1, <3>3, <3>4, <3>6
    <3> QED
      BY <3>7, <3>8 DEF Occurs
  <2> QED
    BY <2>2, <2>3
<1> QED
  BY <1>1, <1>4, <1>5 DEF l

\* A line that has been prepared once, and begins with a number, is prepared again: it gets a blank
\* behind the number if it has none.
LEMMA PreparedAgain ==
  ASSUME NEW l, Clean(l), Len(l) > 0, l[1] = "1"
  PROVE  LET n == Beyond(l, {"1"})
         IN  \/ Prepared(l) = l
             \/ n \in 2 .. Len(l) /\ l[n] # "blank" /\ Prepared(l) = InsertAt(l, n, "blank")
<1> DEFINE n == Beyond(l, {"1"})
           u == InsertAt(l, n, "blank")
<1>1. PICK len \in Nat : len = Len(l)
  BY DEF Clean
<1>2. l \in Seq(Pieces) /\ len > 0 /\ l[1] # "blank" /\ l[len] # "blank"
  BY <1>1 DEF Clean
<1>3. /\ n \in 1 .. len + 1 /\ \A k \in 1 .. n - 1 : l[k] = "1"
      /\ n <= len => l[n] # "1"
      /\ spaced(l) = IF n > 1 /\ n <= len THEN u ELSE l
  BY <1>1, <1>2, SpacedIs
<1> HIDE DEF n, u
<1>4. n > 1
  BY <1>2, <1>3
<1>5. CASE n > len
  BY <1>3, <1>5, CleanStays DEF Prepared
<1>6. CASE n <= len
  <2>1. Prepared(l) = trimWhitespace(u) /\ n \in 2 .. len
    BY <1>3, <1>4, <1>6 DEF Prepared
  <2>2. /\ u \in Seq(Pieces) /\ Len(u) = len + 1 /\ u[n] = "blank"
        /\ \A k \in 1 .. n - 1 : u[k] = l[k]
        /\ \A k \in n .. len : u[k + 1] = l[k]
    BY <1>1, <1>2, <2>1, Inserted DEF u
  <2>3. PICK m \in Nat : m = n - 1
    BY <1>3
  <2>4. m \in 1 .. len - 1 /\ n = m + 1
    BY <2>1, <2>3
  <2>5. \A k \in 0 .. m : squeezing(u)[k] = squeezing(l)[k]
    <3>1. m <= Len(l) /\ m <= Len(u) /\ \A k \in 1 .. m : u[k] = l[k]
      BY <1>1, <2>2, <2>4
    <3> QED
      BY <1>2, <2>2, <3>1, SameBeginning
  <2>6. Quoting(l, m) = NoQuote /\ Quoting(u, m) = NoQuote
    <3>1. \A k \in 1 .. m : l[k] \notin Quotes
      <4>1. "1" \notin Quotes
        BY DEF Quotes
      <4> QED
        BY <1>3, <2>3, <4>1
    <3>2. m \in 0 .. Len(l) /\ m \in 0 .. m
      BY <1>1, <2>4
    <3>3. Quoting(l, m) = NoQuote
      BY <1>2, <3>1, <3>2, NothingQuoted
    <3> QED
      BY <2>5, <3>2, <3>3 DEF Quoting
  <2>7. /\ squeezing(u)[n].quoteCh = NoQuote /\ squeezing(u)[n].lastWasBlank /\ squeezing(u)[n] \in States
    <3>1. m \in 0 .. Len(u) - 1 /\ u[m + 1] = "blank"
      BY <2>2, <2>4
    <3>2. "blank" \notin Quotes
      BY DEF Quotes
    <3>3. /\ Quoting(u, m + 1) = NoQuote
      BY <2>2, <2>6, <3>1, <3>2, QuotingSteps
    <3>4. m + 1 \in 0 .. Len(u) /\ m + 1 > 0
      BY <2>2, <2>4
    <3>5. squeezing(u)[m + 1].lastWasBlank
      BY <2>2, <3>1, <3>3, <3>4, LastWasBlank
    <3>6. squeezing(u)[m + 1] \in States
      BY <2>2, <3>4, SqueezingTyped
    <3> QED
      BY <2>4, <3>3, <3>5, <3>6 DEF Quoting
  <2>8. CASE l[n] = "blank"
    <3>1. squeezing(l)[n] = squeezing(u)[n]
      <4>1. m \in 0 .. Len(l) - 1 /\ m \in 0 .. Len(u) - 1 /\ l[m + 1] = u[m + 1]
        BY <1>1, <2>2, <2>4, <2>8
      <4>2. squeezing(l)[m + 1] = piecewise(squeezing(l)[m], l[m + 1])
        BY <1>2, <4>1, NextState
      <4>3. squeezing(u)[m + 1] = piecewise(squeezing(u)[m], u[m + 1])
        BY <2>2, <4>1, NextState
      <4>4. squeezing(l)[m] = squeezing(u)[m]
        BY <2>4, <2>5
      <4> QED
        BY <2>4, <4>1, <4>2, <4>3, <4>4
    <3>2. squeezing(u)[n + 1] = squeezing(u)[n]
      <4>1. n \in 0 .. Len(u) - 1 /\ u[n + 1] = "blank"
        BY <2>1, <2>2, <2>8
      <4> QED
        BY <2>2, <2>7, <4>1, NextState
    <3>3. squeezing(l)[Len(l)] = squeezing(u)[Len(u)]
      <4>1. PICK r \in Nat, h \in Nat : r = len - n /\ h = n + 1
        BY <2>1
      <4>2. /\ n \in Nat /\ n + r = Len(l) /\ h + r = Len(u) /\ squeezing(l)[n] = squeezing(u)[h]
        BY <1>1, <2>1, <2>2, <3>1, <3>2, <4>1
      <4>3. \A k \in 1 .. r : l[n + k] = u[h + k]
        <5> TAKE k \in 1 .. r
        <5>1. n + k \in n .. len /\ (n + k) + 1 = h + k
          BY <2>1, <4>1
        <5> QED
          BY <2>2, <5>1
      <4>4. SameBehind(l, n, u, h, r)
        BY <4>2, <4>3 DEF SameBehind
      <4> QED
        BY <1>2, <2>2, <4>2, <4>4, SameEnd
    <3>4. squeezing(l)[Len(l)].dst = l
      BY SqueezedStays DEF Clean
    <3>5. trimWhitespace(u) = l
      BY <3>3, <3>4, TrimmedStays DEF trimWhitespace
    <3> QED
      BY <2>1, <3>5
  <2>9. CASE l[n] # "blank"
    <3>1. \A k \in 0 .. len - m : Quoting(u, n + k) = Quoting(l, m + k)
      <4>1. PICK r \in Nat : r = len - m
        BY <2>4
      <4>2. n \in Nat /\ n + r <= Len(u) /\ m + r <= Len(l)
        BY <1>1, <2>2, <2>4, <4>1
      <4>3. \A k \in 1 .. r : u[n + k] = l[m + k]
        <5> TAKE k \in 1 .. r
        <5>1. m + k \in n .. len /\ (m + k) + 1 = n + k
          BY <2>4, <4>1
        <5> QED
          BY <2>2, <5>1
      <4>4. Quoting(u, n) = Quoting(l, m)
        BY <2>4, <2>6, <2>7 DEF Quoting
      <4>5. \A k \in 0 .. r : Quoting(u, n + k) = Quoting(l, m + k)
        <5>1. SameBehind(u, n, l, m, r)
          BY <4>2, <4>3 DEF SameBehind
        <5> QED
          BY <1>2, <2>2, <4>2, <4>4, <5>1, SameQuotations
      <4> QED
        BY <4>1, <4>5
    <3>2. Squeezed(u)
      <4> SUFFICES ASSUME NEW k \in 1 .. len, Quoting(u, k) = NoQuote, u[k] = "blank", u[k + 1] = "blank"
                   PROVE  FALSE
        BY <2>2 DEF Squeezed
      <4>1. CASE k < n
        <5>1. k \in 1 .. n - 1
          BY <2>1, <4>1
        <5> QED
          BY <1>3, <2>2, <5>1
      <4>2. CASE k = n
        <5>1. u[n + 1] = l[n]
          BY <2>1, <2>2
        <5> QED
          BY <2>9, <4>2, <5>1
      <4>3. CASE k > n
        <5>1. PICK j \in Int : j = k - 1
          OBVIOUS
        <5>2. j \in n .. len - 1 /\ j \in 1 .. len - 1 /\ j \in n .. len /\ j + 1 = k /\ k \in n .. len
          BY <2>1, <4>3, <5>1
        <5>3. l[j] = "blank" /\ l[j + 1] = "blank"
          BY <2>2, <5>2
        <5>4. Quoting(l, j) = NoQuote
          <6>1. j - m \in 0 .. len - m /\ n + (j - m) = k /\ m + (j - m) = j
            BY <2>4, <5>2
          <6> QED
            BY <3>1, <6>1
        <5>5. Squeezed(l)
          BY DEF Clean
        <5> QED
          BY <1>1, <5>2, <5>3, <5>4, <5>5 DEF Squeezed
      <4> QED
        BY <2>1, <4>1, <4>2, <4>3
    <3>3. Clean(u)
      <4>1. u[1] = l[1] /\ u[len + 1] = l[len]
        BY <2>1, <2>2
      <4> QED
        BY <1>2, <2>2, <3>2, <4>1 DEF Clean
    <3>4. trimWhitespace(u) = u
      BY <3>3, CleanStays
    <3> QED
      BY <1>1, <2>1, <2>9, <3>4 DEF n, u
  <2> QED
    BY <2>8, <2>9
<1> QED
  BY <1>3, <1>5, <1>6

-----------------------------------------------------------------------------
(* Runs of the scanner.                                                     *)

\* The state of the scanner.
Config ==
  [rest |-> rest, i |-> i, prevToken |-> prevToken, tokens |-> tokens, deferredStmt |-> deferredStmt,
   lexingFilename |-> lexingFilename, parsingDef |-> parsingDef, phase |-> phase]

Begin(l) ==
  [rest |-> l, i |-> 0, prevToken |-> NoToken,
   tokens |-> IF Len(l) > maxLineLen THEN <<Tok("LONGLINE")>> ELSE <<>>, deferredStmt |-> FALSE,
   lexingFilename |-> FALSE, parsingDef |-> FALSE, phase |-> IF Len(l) > maxLineLen THEN "done" ELSE "scan"]

TextOf(left) == SubSeq(left, Beyond(left, {"blank"}), Len(left))

Scanned(c) == getLexeme(TextOf(c.rest), c.parsingDef)

\* The steps, as functions of the state.
NameStep(c) ==
  LET left  == c.rest
      names == {k \in DOMAIN left : left[k] # "blank" /\ (k = 1 \/ left[k - 1] = "blank")}
  IN [rest |-> <<>>, i |-> c.i, prevToken |-> c.prevToken,
      tokens |-> IF names = {} THEN Append(c.tokens, Tok("EOL"))
                 ELSE c.tokens \o <<Tok(IF \A j, k \in names : j = k THEN "FILENAME" ELSE "BADFILENAME"), Tok("EOL")>>,
      deferredStmt |-> c.deferredStmt, lexingFilename |-> c.lexingFilename, parsingDef |-> c.parsingDef,
      phase |-> "done"]

EndStep(c) ==
  [rest |-> c.rest, i |-> c.i, prevToken |-> c.prevToken,
   tokens |-> c.tokens \o (IF c.prevToken = NoToken THEN <<>> ELSE <<prevTokenFixup(c.prevToken)>>) \o <<Tok("EOL")>>,
   deferredStmt |-> c.deferredStmt, lexingFilename |-> c.lexingFilename, parsingDef |-> c.parsingDef, phase |-> "done"]

HoldStep(c) ==
  [rest |-> Scanned(c).rest, i |-> c.i + 1,
   prevToken |-> IF c.prevToken = NoToken THEN Scanned(c).token ELSE c.prevToken,
   tokens |-> IF c.prevToken = NoToken THEN c.tokens ELSE Append(c.tokens, Tok("BADTOKEN")),
   deferredStmt |-> c.deferredStmt, lexingFilename |-> c.lexingFilename, parsingDef |-> c.parsingDef, phase |-> c.phase]

Explicit(s, n) == s.token.token = "INTEGER" /\ n > 0 /\ s.rest # <<>> /\ Head(s.rest) = "percent"
Marks(s) == s.token.token = "char" /\ s.token.char = "bang"
Comments(s, n, deferred) == Marks(s) /\ (n = 0 \/ (n = 1 /\ deferred))

Found(s, n, deferred) ==
  CASE Explicit(s, n)           -> [s.token EXCEPT !.token = "EINTEGER"]
    [] Comments(s, n, deferred) -> Tok("COMMENT")
    [] OTHER                    -> s.token

SaveStep(c) ==
  LET s == Scanned(c)
      t == s.token.token
      x == Found(s, c.i, c.deferredStmt)
  IN [rest |-> IF Explicit(s, c.i) THEN Tail(s.rest) ELSE s.rest, i |-> c.i + 1, prevToken |-> NoToken,
      tokens |-> c.tokens \o (CASE c.prevToken = NoToken -> <<>>
                                [] c.prevToken # NoToken /\ EndsStatement(x) -> <<prevTokenFixup(c.prevToken)>>
                                [] OTHER -> <<c.prevToken>>)
                   \o <<x>>,
      deferredStmt |-> (c.deferredStmt \/ (t = "INTEGER" /\ c.i = 0)),
      lexingFilename |-> (t = "NEW" /\ c.i = 0),
      parsingDef |-> IF t = "DEF" THEN c.parsingDef \/ (c.i = 1 /\ c.deferredStmt)
                     ELSE c.parsingDef /\ t \notin {"VAR", "BADVARIABLE", "BADFUNCNAME"},
      phase |-> IF Marks(s) \/ (t = "REM" /\ c.i >= 1 /\ c.deferredStmt) THEN "done" ELSE "scan"]

ScanStep(c) ==
  IF c.lexingFilename THEN NameStep(c)
  ELSE IF TextOf(c.rest) = <<>> THEN EndStep(c)
  ELSE IF Scanned(c).token.token \in {"COMMA", "SEMI"} THEN HoldStep(c)
  ELSE SaveStep(c)

\* The steps are those of the scanner.
LEMMA ScannerSteps ==
  ASSUME scanFilename \/ endOfLine \/ separator \/ lexeme
  PROVE  Config.phase = "scan" /\ Config' = ScanStep(Config) /\ UNCHANGED <<raw, line, first>>
<1>1. /\ Config.rest = rest /\ Config.i = i /\ Config.prevToken = prevToken /\ Config.tokens = tokens
      /\ Config.deferredStmt = deferredStmt /\ Config.lexingFilename = lexingFilename
      /\ Config.parsingDef = parsingDef /\ Config.phase = phase
  BY DEF Config
<1>2. Config' = [rest |-> rest', i |-> i', prevToken |-> prevToken', tokens |-> tokens',
                 deferredStmt |-> deferredStmt', lexingFilename |-> lexingFilename', parsingDef |-> parsingDef',
                 phase |-> phase']
  BY DEF Config
<1>3. TextOf(Config.rest) = Text /\ Scanned(Config) = getLexeme(Text, parsingDef)
  BY <1>1 DEF TextOf, Text, Scanned
<1> HIDE DEF Config
<1>4. CASE scanFilename
  <2>1. ScanStep(Config) = NameStep(Config)
    BY <1>1, <1>4 DEF ScanStep, scanFilename
  <2>2. Config' = NameStep(Config)
    BY <1>1, <1>2, <1>4 DEF NameStep, scanFilename
  <2> QED
    BY <1>1, <1>4, <2>1, <2>2 DEF scanFilename
<1>5. CASE endOfLine
  <2>1. ScanStep(Config) = EndStep(Config)
    BY <1>1, <1>3, <1>5 DEF ScanStep, endOfLine, Scanning
  <2>2. Config' = EndStep(Config)
    BY <1>1, <1>2, <1>5 DEF EndStep, endOfLine
  <2> QED
    BY <1>1, <1>5, <2>1, <2>2 DEF endOfLine, Scanning
<1> DEFINE s == getLexeme(Text, parsingDef)
<1>6. CASE separator
  <2>1. ScanStep(Config) = HoldStep(Config)
    BY <1>1, <1>3, <1>6 DEF ScanStep, separator, Scanning
  <2>2. Config' = HoldStep(Config)
    BY <1>1, <1>2, <1>3, <1>6 DEF HoldStep, separator
  <2> QED
    BY <1>1, <1>6, <2>1, <2>2 DEF separator, Scanning
<1>7. CASE lexeme
  <2>1. ScanStep(Config) = SaveStep(Config)
    BY <1>1, <1>3, <1>7 DEF ScanStep, lexeme, Scanning
  <2>2. Config' = SaveStep(Config)
    <3>1. /\ tokens' = Saved(Found(s, i, deferredStmt))
          /\ rest' = IF Explicit(s, i) THEN Tail(s.rest) ELSE s.rest
          /\ phase' = IF Marks(s) \/ (s.token.token = "REM" /\ i >= 1 /\ deferredStmt) THEN "done" ELSE "scan"
      BY <1>7 DEF lexeme, Found, Explicit, Marks, Comments
    <3>2. /\ deferredStmt' = (deferredStmt \/ (s.token.token = "INTEGER" /\ i = 0))
          /\ lexingFilename' = (s.token.token = "NEW" /\ i = 0)
          /\ parsingDef' = IF s.token.token = "DEF" THEN parsingDef \/ (i = 1 /\ deferredStmt)
                           ELSE parsingDef /\ s.token.token \notin {"VAR", "BADVARIABLE", "BADFUNCNAME"}
          /\ i' = i + 1 /\ prevToken' = NoToken
      BY <1>7 DEF lexeme
    <3> QED
      BY <1>1, <1>2, <1>3, <3>1, <3>2 DEF SaveStep, Saved
  <2> QED
    BY <1>1, <1>7, <2>1, <2>2 DEF lexeme, Scanning
<1> QED
  BY <1>4, <1>5, <1>6, <1>7

\* From state to state, for n steps, and from the beginning of a line.
Follows(f, n) == \A k \in 1 .. n : f[k - 1].phase = "scan" /\ f[k] = ScanStep(f[k - 1])
IsRun(f, n, l) == f[0] = Begin(l) /\ Follows(f, n)

LEMMA RunGoesOn ==
  ASSUME NEW f, NEW n \in Nat, NEW l, IsRun(f, n, l), f[n].phase = "scan"
  PROVE  \E g : IsRun(g, n + 1, l) /\ g[n + 1] = ScanStep(f[n])
<1> DEFINE g == [k \in 0 .. n + 1 |-> IF k = n + 1 THEN ScanStep(f[n]) ELSE f[k]]
<1>1. g[0] = f[0] /\ g[n + 1] = ScanStep(f[n]) /\ \A k \in 0 .. n : g[k] = f[k]
  OBVIOUS
<1> HIDE DEF g
<1>2. ASSUME NEW k \in 1 .. n + 1 PROVE g[k - 1].phase = "scan" /\ g[k] = ScanStep(g[k - 1])
  <2>1. k - 1 \in 0 .. n /\ g[k - 1] = f[k - 1]
    BY <1>1
  <2>2. CASE k = n + 1
    BY <1>1, <2>1, <2>2
  <2>3. CASE k # n + 1
    <3>1. k \in 1 .. n /\ g[k] = f[k]
      BY <1>1, <2>3
    <3> QED
      BY <2>1, <3>1 DEF IsRun, Follows
  <2> QED
    BY <2>2, <2>3
<1> QED
  BY <1>1, <1>2 DEF IsRun, Follows

\* States that differ in blanks before the text.
Same(c, d) ==
  /\ c.i \in Nat /\ c.i > 0 /\ c.i = d.i /\ c.prevToken = d.prevToken /\ c.tokens = d.tokens
  /\ c.deferredStmt = d.deferredStmt /\ ~ c.lexingFilename /\ ~ d.lexingFilename
  /\ c.parsingDef = d.parsingDef /\ c.phase = d.phase /\ TextOf(c.rest) = TextOf(d.rest)

LEMMA SameSteps ==
  ASSUME NEW c, NEW d, Same(c, d)
  PROVE  Same(ScanStep(c), ScanStep(d))
<1>1. Scanned(c) = Scanned(d)
  BY DEF Scanned, Same
<1>2. CASE TextOf(c.rest) = <<>>
  <2>1. ScanStep(c) = EndStep(c) /\ ScanStep(d) = EndStep(d)
    BY <1>2 DEF Same, ScanStep
  <2> DEFINE a == EndStep(c)
             b == EndStep(d)
  <2>2. a.rest = c.rest /\ b.rest = d.rest /\ a.tokens = b.tokens /\ a.phase = b.phase
    BY DEF Same, EndStep
  <2>3. /\ a.i = c.i /\ b.i = d.i /\ a.prevToken = c.prevToken /\ b.prevToken = d.prevToken
        /\ a.deferredStmt = c.deferredStmt /\ b.deferredStmt = d.deferredStmt
        /\ a.lexingFilename = c.lexingFilename /\ b.lexingFilename = d.lexingFilename
        /\ a.parsingDef = c.parsingDef /\ b.parsingDef = d.parsingDef
    BY DEF EndStep
  <2> HIDE DEF a, b
  <2>4. Same(a, b)
    BY <2>2, <2>3 DEF Same
  <2> QED
    BY <2>1, <2>4 DEF a, b
<1>3. CASE TextOf(c.rest) # <<>> /\ Scanned(c).token.token \in {"COMMA", "SEMI"}
  <2>1. ScanStep(c) = HoldStep(c) /\ ScanStep(d) = HoldStep(d)
    BY <1>1, <1>3 DEF Same, ScanStep
  <2> QED
    BY <1>1, <2>1 DEF Same, HoldStep
<1>4. CASE TextOf(c.rest) # <<>> /\ Scanned(c).token.token \notin {"COMMA", "SEMI"}
  <2>1. ScanStep(c) = SaveStep(c) /\ ScanStep(d) = SaveStep(d)
    BY <1>1, <1>4 DEF Same, ScanStep
  <2> DEFINE a == SaveStep(c)
             b == SaveStep(d)
  <2>2. a.rest = b.rest /\ a.i = b.i /\ a.i \in Nat /\ a.i > 0 /\ a.prevToken = b.prevToken
    BY <1>1 DEF Same, SaveStep
  <2>3. a.tokens = b.tokens
    BY <1>1 DEF Same, SaveStep
  <2>4. ~ a.lexingFilename /\ ~ b.lexingFilename
    <3>1. /\ a.lexingFilename = (Scanned(c).token.token = "NEW" /\ c.i = 0)
          /\ b.lexingFilename = (Scanned(d).token.token = "NEW" /\ d.i = 0)
      BY DEF SaveStep
    <3>2. c.i # 0 /\ d.i # 0
      BY DEF Same
    <3> HIDE DEF a, b
    <3> QED
      BY <3>1, <3>2
  <2>5. a.deferredStmt = b.deferredStmt /\ a.parsingDef = b.parsingDef /\ a.phase = b.phase
    BY <1>1 DEF Same, SaveStep
  <2> HIDE DEF a, b
  <2>6. Same(a, b)
    BY <2>2, <2>3, <2>4, <2>5 DEF Same
  <2> QED
    BY <2>1, <2>6 DEF a, b
<1> QED
  BY <1>2, <1>3, <1>4

\* Two runs that are in the same state, or differ in blanks, end with the same tokens.
LEMMA RunsAgree ==
  ASSUME NEW f, NEW n \in Nat, NEW g, NEW m \in Nat, Follows(f, n), Follows(g, m),
         NEW s \in Nat, s <= n, s <= m, f[s] = g[s] \/ Same(f[s], g[s]), f[n].phase = "done", g[m].phase = "done"
  PROVE  f[n].tokens = g[m].tokens
<1> DEFINE Alike(k) == f[k] = g[k] \/ Same(f[k], g[k])
           S == {k \in Nat : Alike(k)}
<1>1. ASSUME NEW e \in Nat, s <= e, e <= n, e <= m PROVE Alike(e)
  <2>1. s \in S
    OBVIOUS
  <2>2. ASSUME NEW k \in s .. e - 1, k \in S PROVE k + 1 \in S
    <3>1. k + 1 \in 1 .. n /\ k + 1 \in 1 .. m /\ (k + 1) - 1 = k /\ k + 1 \in Nat
      BY <1>1
    <3>2. f[k + 1] = ScanStep(f[k]) /\ g[k + 1] = ScanStep(g[k])
      BY <3>1 DEF Follows
    <3>3. Alike(k)
      BY <2>2
    <3>4. Alike(k + 1)
      BY <3>2, <3>3, SameSteps
    <3> QED
      BY <3>1, <3>4
  <2> HIDE DEF S
  <2>3. s .. e \subseteq S
    BY <1>1, <2>1, <2>2, Upwards
  <2> QED
    BY <1>1, <2>3 DEF S
<1>2. CASE n < m
  <2>1. Alike(n)
    BY <1>1, <1>2
  <2>2. n + 1 \in 1 .. m /\ (n + 1) - 1 = n
    BY <1>2
  <2>3. g[n].phase = "scan"
    BY <2>2 DEF Follows
  <2> QED
    BY <2>1, <2>3 DEF Same
<1>3. CASE m < n
  <2>1. Alike(m)
    BY <1>1, <1>3
  <2>2. m + 1 \in 1 .. n /\ (m + 1) - 1 = m
    BY <1>3
  <2>3. f[m].phase = "scan"
    BY <2>2 DEF Follows
  <2> QED
    BY <2>1, <2>3 DEF Same
<1>4. CASE m = n
  <2>1. Alike(n)
    BY <1>1, <1>4
  <2> QED
    BY <1>4, <2>1 DEF Same
<1> QED
  BY <1>2, <1>3, <1>4

\* A line that is stored: the digits at its beginning are no part of a float.
Stored(l) ==
  /\ Len(l) > 0 /\ l[1] = "1"
  /\ LET n == Beyond(l, {"1"}) IN n <= Len(l) => l[n] \notin DOMAIN Exponents

LEMMA NumberAhead ==
  ASSUME NEW text \in Seq(Pieces), Len(text) > 0, NEW inDef, getLexeme(text, inDef).token.token = "INTEGER"
  PROVE  Stored(text)
<1>1. Head(text) = text[1]
  OBVIOUS
<1>2. PICK n \in Int : n = Beyond(text, {"1"}) - 1
  BY BeyondIs
<1>3. Identifier(text, inDef).token.token # "INTEGER"
  <2>1. \A w \in DOMAIN Keywords : Keywords[w] # "INTEGER"
    BY DEF Keywords
  <2> QED
    BY <2>1 DEF Identifier, Lexeme, Tok
<1>4. lexString(text).token.token # "INTEGER"
  BY DEF lexString, Lexeme, Tok
<1>5. Separator(text).token.token # "INTEGER"
  BY DEF Separator, Lexeme, Tok
<1>6. text[1] = "1" /\ Number(text).token.token = "INTEGER"
  BY <1>1, <1>3, <1>4, <1>5 DEF getLexeme
<1>7. n < Len(text) => text[n + 1] \notin DOMAIN Exponents
  BY <1>2, <1>6 DEF Number, Tok
<1>8. Beyond(text, {"1"}) = n + 1 /\ Len(text) \in Nat
  BY <1>2, BeyondIs
<1>9. n + 1 <= Len(text) => n < Len(text)
  BY <1>8
<1> QED
  BY <1>6, <1>7, <1>8, <1>9 DEF Stored

LEMMA FirstLexeme ==
  ASSUME NEW l \in Seq(Pieces), Stored(l), NEW inDef, NEW n, n = Beyond(l, {"1"})
  PROVE  getLexeme(l, inDef) = [token |-> [token |-> "INTEGER", digits |-> n - 1], rest |-> SubSeq(l, n, Len(l))]
<1>1. Head(l) = "1"
  BY DEF Stored
<1>2. n \in 1 .. Len(l) + 1 /\ Len(l) \in Nat
  BY BeyondIs
<1>3. getLexeme(l, inDef) = Number(l)
  <2>1. "1" \notin Words /\ "1" \notin Quotes
    BY DEF Words, Keywords, Quotes
  <2> QED
    BY <1>1, <2>1 DEF getLexeme
<1>4. ~ (n - 1 < Len(l) /\ l[(n - 1) + 1] \in DOMAIN Exponents)
  BY <1>2 DEF Stored
<1>5. Number(l) = Lexeme([token |-> "INTEGER", digits |-> n - 1], n - 1, l)
  BY <1>4 DEF Number
<1>6. (n - 1) + 1 = n
  BY <1>2
<1> QED
  BY <1>3, <1>5, <1>6 DEF Lexeme

LEMMA NoBlankAhead ==
  ASSUME NEW text \in Seq(Pieces), Len(text) > 0, text[1] # "blank"
  PROVE  TextOf(text) = text
<1>1. Beyond(text, {"blank"}) = 1
  <2>1. 1 \in 1 .. Len(text) + 1 /\ \A k \in 1 .. 1 - 1 : text[k] \in {"blank"}
    OBVIOUS
  <2> QED
    BY <2>1, BeyondIsAt
<1> QED
  BY <1>1 DEF TextOf

\* The number of a line is scanned, with a blank behind it or without.
LEMMA FirstStep ==
  ASSUME NEW l \in Seq(Pieces), Stored(l), Len(l) <= maxLineLen, NEW n, n = Beyond(l, {"1"})
  PROVE  ScanStep(Begin(l)) =
           [rest |-> SubSeq(l, n, Len(l)), i |-> 1, prevToken |-> NoToken,
            tokens |-> <<[token |-> "INTEGER", digits |-> n - 1]>>, deferredStmt |-> TRUE,
            lexingFilename |-> FALSE, parsingDef |-> FALSE, phase |-> "scan"]
<1> DEFINE c == Begin(l)
           t == [token |-> "INTEGER", digits |-> n - 1]
           s == [token |-> t, rest |-> SubSeq(l, n, Len(l))]
<1>1. Len(l) \in Nat /\ maxLineLen \in Nat /\ ~ (Len(l) > maxLineLen)
  BY LinesAssumption
<1>2. /\ c.rest = l /\ c.i = 0 /\ c.prevToken = NoToken /\ c.tokens = <<>> /\ c.deferredStmt = FALSE
      /\ c.lexingFilename = FALSE /\ c.parsingDef = FALSE /\ c.phase = "scan"
  BY <1>1 DEF Begin
<1> HIDE DEF c
<1>3. TextOf(l) = l /\ l # <<>>
  BY NoBlankAhead DEF Stored
<1>4. Scanned(c) = s
  BY <1>2, <1>3, FirstLexeme DEF Scanned
<1>5. t.token = "INTEGER" /\ s.token = t
  OBVIOUS
<1>6. ScanStep(c) = SaveStep(c)
  BY <1>2, <1>3, <1>4, <1>5 DEF ScanStep
<1>7. ~ Explicit(s, 0) /\ ~ Marks(s)
  BY <1>5 DEF Explicit, Marks
<1>8. Found(s, 0, FALSE) = t
  BY <1>5, <1>7 DEF Found, Comments
<1> HIDE DEF t
<1>9. SaveStep(c) =
        [rest |-> s.rest, i |-> 1, prevToken |-> NoToken, tokens |-> <<t>>, deferredStmt |-> TRUE,
         lexingFilename |-> FALSE, parsingDef |-> FALSE, phase |-> "scan"]
  <2>1. /\ SaveStep(c).rest = s.rest /\ SaveStep(c).i = 1 /\ SaveStep(c).prevToken = NoToken
        /\ SaveStep(c).phase = "scan"
    <3>1. SaveStep(c).rest = IF Explicit(s, 0) THEN Tail(s.rest) ELSE s.rest
      BY <1>2, <1>4 DEF SaveStep
    <3>2. SaveStep(c).i = 0 + 1 /\ SaveStep(c).prevToken = NoToken
      BY <1>2 DEF SaveStep
    <3>3. SaveStep(c).phase = IF Marks(s) \/ (s.token.token = "REM" /\ 0 >= 1 /\ c.deferredStmt) THEN "done" ELSE "scan"
      BY <1>2, <1>4 DEF SaveStep
    <3>4. ~ (0 >= 1)
      OBVIOUS
    <3> HIDE DEF s
    <3>5. SaveStep(c).phase = "scan" /\ SaveStep(c).rest = s.rest
      BY <1>7, <3>1, <3>3, <3>4
    <3> QED
      BY <3>2, <3>5
  <2>2. SaveStep(c).tokens = <<t>>
    <3>1. SaveStep(c).tokens = <<>> \o <<>> \o <<t>>
      BY <1>2, <1>4, <1>8 DEF SaveStep
    <3> QED
      BY <3>1
  <2>3. /\ SaveStep(c).deferredStmt = (FALSE \/ (s.token.token = "INTEGER" /\ 0 = 0))
        /\ SaveStep(c).lexingFilename = (s.token.token = "NEW" /\ 0 = 0)
        /\ SaveStep(c).parsingDef = IF s.token.token = "DEF" THEN FALSE \/ (0 = 1 /\ FALSE)
                                    ELSE FALSE /\ s.token.token \notin {"VAR", "BADVARIABLE", "BADFUNCNAME"}
    BY <1>2, <1>4 DEF SaveStep
  <2>4. SaveStep(c).deferredStmt = TRUE /\ SaveStep(c).lexingFilename = FALSE /\ SaveStep(c).parsingDef = FALSE
    BY <1>5, <2>3
  <2>5. SaveStep(c) = [rest |-> SaveStep(c).rest, i |-> SaveStep(c).i, prevToken |-> SaveStep(c).prevToken,
                       tokens |-> SaveStep(c).tokens, deferredStmt |-> SaveStep(c).deferredStmt,
                       lexingFilename |-> SaveStep(c).lexingFilename, parsingDef |-> SaveStep(c).parsingDef,
                       phase |-> SaveStep(c).phase]
    BY DEF SaveStep
  <2> QED
    BY <2>1, <2>2, <2>4, <2>5
<1>10. s.rest = SubSeq(l, n, Len(l))
  OBVIOUS
<1> QED
  BY <1>6, <1>9, <1>10 DEF c, t

LEMMA FirstStepsAreSame ==
  ASSUME NEW l, Clean(l), Stored(l), NEW n \in 2 .. Len(l), n = Beyond(l, {"1"}), l[n] # "blank",
         NEW u, u = InsertAt(l, n, "blank"), Len(u) <= maxLineLen
  PROVE  Len(l) <= maxLineLen /\ Len(u) = Len(l) + 1 /\ Same(ScanStep(Begin(l)), ScanStep(Begin(u)))
<1>1. PICK len \in Nat : len = Len(l)
  BY DEF Clean
<1>2. l \in Seq(Pieces) /\ len > 0 /\ l[1] = "1" /\ n \in 2 .. len /\ l[n] \notin DOMAIN Exponents
  BY <1>1 DEF Clean, Stored
<1>3. /\ u \in Seq(Pieces) /\ Len(u) = len + 1 /\ u[n] = "blank"
      /\ \A k \in 1 .. n - 1 : u[k] = l[k]
      /\ \A k \in n .. len : u[k + 1] = l[k]
  BY <1>1, <1>2, Inserted
<1>4. \A k \in 1 .. n - 1 : l[k] = "1"
  BY <1>2, SpacedIs
<1>5. Beyond(u, {"1"}) = n
  <2>1. n \in 1 .. Len(u) + 1 /\ (\A k \in 1 .. n - 1 : u[k] \in {"1"}) /\ (n <= Len(u) => u[n] \notin {"1"})
    BY <1>2, <1>3, <1>4
  <2> QED
    BY <1>3, <2>1, BeyondIsAt
<1>6. Stored(u)
  <2>1. u[1] = "1"
    BY <1>2, <1>3
  <2>2. "blank" \notin DOMAIN Exponents
    BY DEF Exponents
  <2>3. Len(u) > 0
    BY <1>3
  <2> QED
    BY <1>3, <1>5, <2>1, <2>2, <2>3 DEF Stored
<1>7. Len(l) <= maxLineLen
  BY <1>1, <1>3, LinesAssumption
<1> DEFINE lr == SubSeq(l, n, Len(l))
           ur == SubSeq(u, n, Len(u))
           rec(r) == [rest |-> r, i |-> 1, prevToken |-> NoToken,
                      tokens |-> <<[token |-> "INTEGER", digits |-> n - 1]>>, deferredStmt |-> TRUE,
                      lexingFilename |-> FALSE, parsingDef |-> FALSE, phase |-> "scan"]
<1>8. ScanStep(Begin(l)) = rec(lr) /\ ScanStep(Begin(u)) = rec(ur)
  BY <1>2, <1>3, <1>5, <1>6, <1>7, FirstStep
<1>9. TextOf(lr) = TextOf(ur)
  <2>1. lr \in Seq(Pieces) /\ Len(lr) = len - n + 1 /\ \A k \in 1 .. len - n + 1 : lr[k] = l[n - 1 + k]
    <3>1. n \in 1 .. Len(l) + 1 /\ Len(l) \in 0 .. Len(l) /\ n <= Len(l) + 1
      BY <1>1, <1>2
    <3> QED
      BY <1>1, <1>2, <3>1, Part
  <2>2. ur \in Seq(Pieces) /\ Len(ur) = len - n + 2 /\ \A k \in 1 .. len - n + 2 : ur[k] = u[n - 1 + k]
    <3>1. n \in 1 .. Len(u) + 1 /\ Len(u) \in 0 .. Len(u) /\ n <= Len(u) + 1
      BY <1>2, <1>3
    <3>2. Len(u) - n + 1 = len - n + 2
      BY <1>2, <1>3
    <3> QED
      BY <1>3, <3>1, <3>2, Part
  <2> HIDE DEF lr, ur
  <2>3. PICK r \in Nat : r = len - n + 1
    BY <1>2
  <2>4. TextOf(lr) = lr
    <3>1. Len(lr) > 0 /\ lr[1] = l[n]
      BY <1>2, <2>1
    <3> QED
      BY <2>1, <3>1, NoBlankAhead
  <2>5. Len(ur) = r + 1 /\ r > 0 /\ ur[1] = "blank" /\ \A k \in 1 .. r : ur[k + 1] = lr[k]
    <3>1. ur[1] = u[n]
      BY <1>2, <2>2
    <3>2. ASSUME NEW k \in 1 .. r PROVE ur[k + 1] = lr[k]
      <4>1. PICK j \in Int : j = n - 1 + k
        BY <1>2
      <4>2. k + 1 \in 1 .. len - n + 2 /\ n - 1 + (k + 1) = j + 1 /\ j \in n .. len /\ k \in 1 .. len - n + 1
        <5>1. n \in Int /\ n >= 2 /\ n <= len /\ k \in Int /\ k >= 1 /\ k <= len - n + 1
          BY <1>2, <2>3
        <5>2. n - 1 + (k + 1) = j + 1 /\ n <= j /\ j <= len
          BY <4>1, <5>1
        <5> QED
          BY <4>1, <5>1, <5>2
      <4>3. ur[k + 1] = u[j + 1] /\ lr[k] = l[j]
        BY <2>1, <2>2, <4>1, <4>2
      <4> QED
        BY <1>3, <4>2, <4>3
    <3>3. Len(ur) = r + 1 /\ r > 0
      BY <1>2, <2>2, <2>3
    <3> QED
      BY <1>3, <3>1, <3>2, <3>3
  <2>6. Beyond(ur, {"blank"}) = 2
    <3>1. ur[2] = l[n]
      <4>1. ur[1 + 1] = lr[1] /\ lr[1] = l[n - 1 + 1]
        BY <1>2, <2>1, <2>5
      <4> QED
        BY <1>2, <4>1
    <3>2. 2 \in 1 .. Len(ur) + 1 /\ (\A k \in 1 .. 2 - 1 : ur[k] \in {"blank"}) /\ ur[2] \notin {"blank"}
      BY <2>5, <3>1
    <3> QED
      BY <2>2, <3>2, BeyondIsAt
  <2> DEFINE w == SubSeq(ur, 2, Len(ur))
  <2>7. w \in Seq(Pieces) /\ Len(w) = r /\ \A k \in 1 .. r : w[k] = ur[k + 1]
    <3>1. 2 \in 1 .. Len(ur) + 1 /\ Len(ur) \in 0 .. Len(ur) /\ 2 <= Len(ur) + 1 /\ Len(ur) - 2 + 1 = r
      BY <2>5
    <3>2. ur \in Seq(Pieces)
      BY <2>2
    <3>3. /\ w \in Seq(Pieces) /\ Len(w) = Len(ur) - 2 + 1
          /\ \A k \in 1 .. Len(ur) - 2 + 1 : w[k] = ur[2 - 1 + k]
      BY <3>1, <3>2, Part
    <3>4. \A k \in 1 .. r : 2 - 1 + k = k + 1
      OBVIOUS
    <3> QED
      BY <3>1, <3>3, <3>4
  <2>8. TextOf(ur) = w
    BY <2>6 DEF TextOf
  <2> HIDE DEF w
  <2>9. w = lr
    <3>1. Len(w) = Len(lr) /\ \A k \in 1 .. Len(w) : w[k] = lr[k]
      BY <2>1, <2>3, <2>5, <2>7
    <3> QED
      BY <2>1, <2>7, <3>1, SameText
  <2> QED
    BY <2>4, <2>8, <2>9
<1>10. Same(rec(lr), rec(ur))
  <2> HIDE DEF lr, ur
  <2> QED
    BY <1>9 DEF Same
<1> QED
  BY <1>1, <1>3, <1>7, <1>8, <1>10

\* The scanner is where a run over the line has led it, and the tokens of a saved line are those a
\* run over it has ended with; a line that is stored begins with a number.
RunInv ==
  /\ raw \in Seq(Pieces) /\ i \in Nat
  /\ phase # "read" => /\ line = Prepared(raw) /\ (deferredStmt => Stored(line))
                       /\ \E f : \E n \in Nat : IsRun(f, n, line) /\ f[n] = Config
  /\ phase = "scan" /\ i = 0 => rest = line
  /\ first # <<>> => /\ Clean(raw) /\ Stored(raw) /\ Len(raw) <= maxLineLen
                     /\ \E f : \E n \in Nat : /\ IsRun(f, n, raw)
                                              /\ f[n].phase = "done" /\ f[n].tokens = first

LEMMA RunBegins == RunInv /\ NewLexer => RunInv'
<1> SUFFICES ASSUME RunInv, NewLexer PROVE RunInv'
  OBVIOUS
<1>1. raw' = raw /\ raw \in Seq(Pieces) /\ line' = Prepared(raw) /\ first' = first
  BY DEF RunInv, NewLexer, Prepared
<1>2. i' = 0 /\ prevToken' = NoToken /\ deferredStmt' = FALSE /\ lexingFilename' = FALSE /\ parsingDef' = FALSE
  BY DEF NewLexer, Unscanned
<1>3. /\ rest' = line' /\ tokens' = IF Len(line') > maxLineLen THEN <<Tok("LONGLINE")>> ELSE <<>>
      /\ phase' = IF Len(line') > maxLineLen THEN "done" ELSE "scan"
  BY DEF NewLexer
<1>4. Config' = Begin(line')
  BY <1>2, <1>3 DEF Config, Begin
<1>5. \E f : \E n \in Nat : IsRun(f, n, line') /\ f[n] = Config'
  <2> DEFINE f == [k \in 0 .. 0 |-> Begin(line')]
  <2>1. f[0] = Begin(line') /\ Follows(f, 0)
    BY DEF Follows
  <2> HIDE DEF f
  <2>2. IsRun(f, 0, line') /\ f[0] = Config'
    BY <1>4, <2>1 DEF IsRun
  <2> QED
    BY <2>2
<1>6. phase' # "read" => (deferredStmt' => Stored(line'))
  BY <1>2
<1>7. first' # <<>> => /\ Clean(raw') /\ Stored(raw') /\ Len(raw') <= maxLineLen
                       /\ \E f : \E n \in Nat : /\ IsRun(f, n, raw')
                                                /\ f[n].phase = "done" /\ f[n].tokens = first'
  BY <1>1 DEF RunInv
<1> HIDE DEF Config
<1>8. i' \in Nat /\ line' = Prepared(raw')
  BY <1>1, <1>2
<1> QED
  BY <1>1, <1>3, <1>5, <1>6, <1>7, <1>8 DEF RunInv

LEMMA RunSteps == RunInv /\ (scanFilename \/ endOfLine \/ separator \/ lexeme) => RunInv'
<1> SUFFICES ASSUME RunInv, scanFilename \/ endOfLine \/ separator \/ lexeme PROVE RunInv'
  OBVIOUS
<1>1. Config.phase = "scan" /\ Config' = ScanStep(Config) /\ UNCHANGED <<raw, line, first>>
  BY ScannerSteps
<1>2. phase = "scan"
  BY <1>1 DEF Config
<1>3. line = Prepared(raw) /\ raw \in Seq(Pieces) /\ i \in Nat /\ (deferredStmt => Stored(line))
  BY <1>2 DEF RunInv
<1>4. \E f : \E n \in Nat : IsRun(f, n, line') /\ f[n] = Config'
  <2>1. PICK f : \E n \in Nat : IsRun(f, n, line) /\ f[n] = Config
    BY <1>2 DEF RunInv
  <2>2. PICK n \in Nat : IsRun(f, n, line) /\ f[n] = Config
    BY <2>1
  <2>3. PICK g : IsRun(g, n + 1, line) /\ g[n + 1] = ScanStep(f[n])
    BY <1>1, <2>2, RunGoesOn
  <2> HIDE DEF Config
  <2>4. g[n + 1] = Config' /\ n + 1 \in Nat /\ line' = line
    BY <1>1, <2>2, <2>3
  <2> QED
    BY <2>3, <2>4
<1>5. deferredStmt' => Stored(line')
  <2>1. CASE deferredStmt
    BY <1>1, <1>3, <2>1
  <2>2. CASE ~ deferredStmt /\ lexeme /\ i = 0 /\ getLexeme(Text, parsingDef).token.token = "INTEGER"
    <3>1. rest = line
      BY <1>2, <2>2 DEF RunInv
    <3>2. Clean(line)
      BY <1>3, QuotationsStay
    <3>3. line \in Seq(Pieces) /\ (Len(line) > 0 => line[1] # "blank")
      BY <3>2 DEF Clean
    <3>4. Text = TextOf(line)
      BY <3>1 DEF Text, TextOf
    <3>5. Len(line) > 0
      <4>1. SUFFICES ASSUME Len(line) = 0 PROVE FALSE
        BY <3>3
      <4>2. line = <<>>
        BY <3>3, <4>1
      <4>3. Text = <<>>
        <5>1. Beyond(line, {"blank"}) \in 1 .. Len(line) + 1
          BY <3>3, BeyondIs
        <5>2. Beyond(line, {"blank"}) = 1
          BY <4>1, <5>1
        <5> QED
          BY <3>4, <4>2, <5>2 DEF TextOf
      <4> QED
        BY <2>2, <4>3 DEF lexeme
    <3>6. Text = line
      BY <3>3, <3>4, <3>5, NoBlankAhead
    <3> QED
      BY <1>1, <2>2, <3>3, <3>5, <3>6, NumberAhead
  <2>3. ASSUME ~ deferredStmt, deferredStmt'
        PROVE  lexeme /\ i = 0 /\ getLexeme(Text, parsingDef).token.token = "INTEGER"
    <3>1. lexeme
      BY <2>3 DEF scanFilename, endOfLine, separator
    <3> QED
      BY <2>3, <3>1 DEF lexeme
  <2> QED
    BY <2>1, <2>2, <2>3
<1>6. i' \in Nat /\ (phase' = "scan" => i' # 0)
  BY <1>3 DEF scanFilename, endOfLine, separator, lexeme
<1>7. first' # <<>> => /\ Clean(raw') /\ Stored(raw') /\ Len(raw') <= maxLineLen
                       /\ \E f : \E n \in Nat : /\ IsRun(f, n, raw')
                                                /\ f[n].phase = "done" /\ f[n].tokens = first'
  BY <1>1 DEF RunInv
<1>8. line' = Prepared(raw') /\ raw' \in Seq(Pieces)
  BY <1>1, <1>3
<1> QED
  BY <1>4, <1>5, <1>6, <1>7, <1>8 DEF RunInv

\* A run over a line that is too long has one token.
LEMMA LongLine ==
  ASSUME NEW f, NEW n \in Nat, NEW l, IsRun(f, n, l), Len(l) > maxLineLen
  PROVE  f[n].tokens = <<Tok("LONGLINE")>>
<1>1. f[0].phase = "done" /\ f[0].tokens = <<Tok("LONGLINE")>>
  BY DEF IsRun, Begin
<1>2. ASSUME n # 0 PROVE FALSE
  <2>1. 1 \in 1 .. n
    BY <1>2
  <2>2. f[1 - 1].phase = "scan"
    BY <2>1 DEF IsRun, Follows
  <2> QED
    BY <1>1, <2>2
<1> QED
  BY <1>1, <1>2

LEMMA RunIsSaved == RunInv /\ reload => RunInv'
<1> SUFFICES ASSUME RunInv, reload PROVE RunInv'
  OBVIOUS
<1>1. /\ phase = "done" /\ deferredStmt /\ first' = tokens /\ raw' = line /\ phase' = "read" /\ i' = i
      /\ \A k \in DOMAIN tokens : tokens[k].token \notin Refused
  BY DEF reload, scanning
<1>2. line = Prepared(raw) /\ raw \in Seq(Pieces) /\ i \in Nat /\ Stored(line)
  BY <1>1 DEF RunInv
<1>3. Clean(line)
  BY <1>2, QuotationsStay
<1>4. PICK f : \E n \in Nat : IsRun(f, n, line) /\ f[n] = Config
  BY <1>1 DEF RunInv
<1>5. PICK n \in Nat : IsRun(f, n, line) /\ f[n] = Config
  BY <1>4
<1>6. f[n].phase = "done" /\ f[n].tokens = tokens
  BY <1>1, <1>5 DEF Config
<1>7. Len(line) <= maxLineLen
  <2>1. SUFFICES ASSUME Len(line) > maxLineLen PROVE FALSE
    BY <1>3, LinesAssumption DEF Clean
  <2>2. tokens = <<Tok("LONGLINE")>>
    BY <1>5, <1>6, <2>1, LongLine
  <2>3. 1 \in DOMAIN tokens /\ tokens[1].token = "LONGLINE"
    BY <2>2 DEF Tok
  <2> QED
    BY <1>1, <2>3 DEF Refused
<1>8. \E g : \E m \in Nat : IsRun(g, m, raw') /\ g[m].phase = "done" /\ g[m].tokens = first'
  BY <1>1, <1>5, <1>6
<1>9. raw' \in Seq(Pieces) /\ Clean(raw') /\ Stored(raw') /\ Len(raw') <= maxLineLen
  BY <1>1, <1>2, <1>3, <1>7 DEF Clean
<1>10. i' \in Nat /\ phase' = "read"
  BY <1>1, <1>2
<1> QED
  BY <1>8, <1>9, <1>10 DEF RunInv

\* A line that is read again has the tokens it had.
LEMMA RunsReload ==
  ASSUME RunInv
  PROVE  ReloadsTheSame
<1> SUFFICES ASSUME phase = "done", first # <<>>
             PROVE  \/ tokens = first
                    \/ tokens = <<Tok("LONGLINE")>> /\ Len(raw) = maxLineLen /\ raw[Beyond(raw, {"1"})] # "blank"
  BY DEF ReloadsTheSame
<1>1. /\ Clean(raw) /\ Stored(raw) /\ Len(raw) <= maxLineLen /\ line = Prepared(raw)
  BY DEF RunInv
<1>2. PICK f : \E n \in Nat : IsRun(f, n, raw) /\ f[n].phase = "done" /\ f[n].tokens = first
  BY DEF RunInv
<1>3. PICK n \in Nat : IsRun(f, n, raw) /\ f[n].phase = "done" /\ f[n].tokens = first
  BY <1>2
<1>4. PICK g : \E m \in Nat : IsRun(g, m, line) /\ g[m] = Config
  BY DEF RunInv
<1>5. PICK m \in Nat : IsRun(g, m, line) /\ g[m] = Config
  BY <1>4
<1>6. g[m].phase = "done" /\ g[m].tokens = tokens
  BY <1>5 DEF Config
<1>7. CASE line = raw
  <2>1. f[0] = g[0] /\ Follows(f, n) /\ Follows(g, m)
    BY <1>3, <1>5, <1>7 DEF IsRun
  <2>2. 0 \in Nat /\ 0 <= n /\ 0 <= m
    OBVIOUS
  <2>3. f[n].tokens = g[m].tokens
    BY <1>3, <1>6, <2>1, <2>2, RunsAgree
  <2> QED
    BY <1>3, <1>6, <2>3
<1> DEFINE b == Beyond(raw, {"1"})
<1>8. CASE b \in 2 .. Len(raw) /\ raw[b] # "blank" /\ line = InsertAt(raw, b, "blank")
  <2>1. raw \in Seq(Pieces) /\ Len(raw) \in Nat
    BY <1>1 DEF Clean
  <2>2. line \in Seq(Pieces) /\ Len(line) = Len(raw) + 1
    <3> HIDE DEF b
    <3>1. b \in 1 .. Len(raw)
      BY <1>8, <2>1
    <3> QED
      BY <1>8, <2>1, <3>1, Inserted
  <2>3. CASE Len(line) > maxLineLen
    <3>1. tokens = <<Tok("LONGLINE")>>
      BY <1>5, <1>6, <2>3, LongLine
    <3>2. Len(raw) = maxLineLen
      BY <1>1, <2>1, <2>2, <2>3, LinesAssumption
    <3> QED
      BY <1>8, <3>1, <3>2
  <2>4. CASE ~ (Len(line) > maxLineLen)
    <3>1. Len(line) <= maxLineLen
      BY <2>1, <2>2, <2>4, LinesAssumption
    <3>2. Same(ScanStep(Begin(raw)), ScanStep(Begin(line)))
      BY <1>1, <1>8, <3>1, FirstStepsAreSame
    <3>3. Begin(raw).phase = "scan" /\ Begin(line).phase = "scan"
      <4>1. ~ (Len(raw) > maxLineLen)
        BY <1>1, <2>1, LinesAssumption
      <4> QED
        BY <2>4, <4>1 DEF Begin
    <3>4. 1 <= n /\ 1 <= m
      <4>1. n # 0 /\ m # 0
        BY <1>3, <1>5, <1>6, <3>3 DEF IsRun
      <4> QED
        BY <4>1
    <3>5. Follows(f, n) /\ Follows(g, m) /\ f[0] = Begin(raw) /\ g[0] = Begin(line)
      BY <1>3, <1>5 DEF IsRun
    <3>6. f[1] = ScanStep(Begin(raw)) /\ g[1] = ScanStep(Begin(line))
      <4>1. 1 \in 1 .. n /\ 1 \in 1 .. m /\ 1 - 1 = 0
        BY <3>4
      <4>2. f[1] = ScanStep(f[1 - 1]) /\ g[1] = ScanStep(g[1 - 1])
        BY <3>5, <4>1 DEF Follows
      <4> QED
        BY <3>5, <4>1, <4>2
    <3>7. Same(f[1], g[1])
      BY <3>2, <3>6
    <3>8. f[n].tokens = g[m].tokens
      <4>1. 1 \in Nat
        OBVIOUS
      <4> QED
        BY <1>3, <1>6, <3>4, <3>5, <3>7, <4>1, RunsAgree
    <3> QED
      BY <1>3, <1>6, <3>8
  <2> QED
    BY <2>3, <2>4
<1> QED
  BY <1>1, <1>7, <1>8, PreparedAgain DEF Stored

\* A program that is saved can be loaded, and is the same, whatever its lines are made of and
\* however long they may be.
THEOREM LinesReload == Spec => []ReloadsTheSame
<1>1. Init => RunInv
  <2> SUFFICES ASSUME Init PROVE RunInv
    OBVIOUS
  <2>1. raw \in Seq(Pieces)
    BY LinesAssumption DEF Init
  <2> QED
    BY <2>1 DEF Init, RunInv
<1>2. RunInv /\ [Next]_vars => RunInv'
  <2> SUFFICES ASSUME RunInv, [Next]_vars PROVE RunInv'
    OBVIOUS
  <2>1. CASE UNCHANGED vars
    <3>1. /\ UNCHANGED <<raw, line, rest, phase, first, i, prevToken, tokens, deferredStmt>>
          /\ UNCHANGED <<lexingFilename, parsingDef>>
      BY <2>1 DEF vars, scanning
    <3>2. Config' = Config
      BY <3>1 DEF Config
    <3> HIDE DEF Config
    <3> QED
      BY <3>1, <3>2 DEF RunInv
  <2> QED
    BY <2>1, RunBegins, RunSteps, RunIsSaved DEF Next
<1> QED
  BY <1>1, <1>2, RunsReload, PTL DEF Spec

-----------------------------------------------------------------------------
(* Strings.                                                                 *)

\* What is left of text behind n pieces, but for a word of which the beginning may be gone.
Advances(text, left, n) ==
  /\ left \in Seq(Pieces) /\ n + Len(left) = Len(text)
  /\ \A k \in 1 .. Len(left) : left[k] = text[n + k] \/ (k = 1 /\ left[1] \in Words /\ text[n + 1] \in Words)

LEMMA LexemeAdvances ==
  ASSUME NEW text \in Seq(Pieces), NEW n \in 0 .. Len(text), NEW token
  PROVE  Lexeme(token, n, text).token = token /\ Advances(text, Lexeme(token, n, text).rest, n)
<1>1. PICK len \in Nat : len = Len(text)
  OBVIOUS
<1>2. n \in 0 .. len /\ n + 1 \in 1 .. Len(text) + 1 /\ Len(text) \in 0 .. Len(text) /\ n + 1 <= Len(text) + 1
  BY <1>1
<1> DEFINE left == SubSeq(text, n + 1, Len(text))
<1>3. /\ left \in Seq(Pieces) /\ Len(left) = Len(text) - (n + 1) + 1
      /\ \A k \in 1 .. Len(text) - (n + 1) + 1 : left[k] = text[(n + 1) - 1 + k]
  BY <1>2, Part
<1> HIDE DEF left
<1>4. Len(left) = len - n /\ \A k \in 1 .. len - n : left[k] = text[n + k]
  <2>1. Len(text) - (n + 1) + 1 = len - n
    BY <1>1, <1>2
  <2>2. \A k \in 1 .. len - n : (n + 1) - 1 + k = n + k
    BY <1>2
  <2> QED
    BY <1>3, <2>1, <2>2
<1>5. Advances(text, left, n)
  <2>1. n + Len(left) = Len(text)
    BY <1>1, <1>2, <1>4
  <2> QED
    BY <1>3, <1>4, <2>1 DEF Advances
<1> QED
  BY <1>5 DEF Lexeme, left

\* A lexeme that is no string is made of pieces that are no quotes.
Unquoted(text, s, n) == s.token.token # "STRING" /\ \A k \in 1 .. n : text[k] \notin Quotes

\* A string is the bytes of the text from one quote to the next that is the same.
Closed(text, s, n) ==
  /\ s.token.quoted = Bytes(text, n) /\ n > 1 /\ text[1] \in Quotes /\ text[n] = text[1]
  /\ \A k \in 2 .. n - 1 : text[k] # text[1]

ScansOn(text, s) ==
  \/ s.token.token # "STRING" /\ s.rest = <<>>
  \/ \E n \in 1 .. Len(text) : Advances(text, s.rest, n) /\ (Unquoted(text, s, n) \/ Closed(text, s, n))

LEMMA IdentifierScansOn ==
  ASSUME NEW text \in Seq(Pieces), Len(text) > 0, text[1] \in Words, NEW inDef
  PROVE  ScansOn(text, Identifier(text, inDef)) /\ Identifier(text, inDef).token.token # "STRING"
<1> DEFINE P == Words \cup {"1", "percent"}
           s == Identifier(text, inDef)
<1>1. PICK len \in Nat : len = Len(text) /\ len > 0
  OBVIOUS
<1>2. PICK n \in Int : n = Beyond(text, P) - 1
  BY BeyondIs
<1> HIDE DEF P
<1>3. Beyond(text, P) \in 1 .. len + 1 /\ (\A k \in 1 .. n : text[k] \in P) /\ (n + 1 <= len => text[n + 1] \notin P)
  BY <1>1, <1>2, BeyondIs
<1>4. n \in 1 .. len
  <2>1. n \in 0 .. len
    BY <1>2, <1>3
  <2>2. ASSUME n = 0 PROVE FALSE
    BY <1>1, <1>3, <2>2 DEF P
  <2> QED
    BY <2>1, <2>2
<1>5. ASSUME NEW k \in 1 .. n PROVE text[k] \notin Quotes
  BY <1>3 DEF P, Quotes, Words, Keywords
<1>6. \E t, m : m \in {1, n} /\ t.token # "STRING" /\ s = Lexeme(t, m, text)
  <2> DEFINE name == SubSeq(text, 1, n)
  <2>1. \A w \in DOMAIN Keywords : Keywords[w] # "STRING"
    BY DEF Keywords
  <2>2. /\ Tok("BADFUNCNAME").token # "STRING" /\ Tok("BADVARIABLE").token # "STRING"
        /\ [token |-> "VAR", name |-> name].token # "STRING" /\ \A w : Tok(w).token = w
    BY DEF Tok
  <2>3. s = IF n = 1 /\ name[1] \in DOMAIN Keywords THEN Lexeme(Tok(Keywords[name[1]]), 1, text)
            ELSE IF inDef /\ name[1] # "fnx" THEN Lexeme(Tok("BADFUNCNAME"), n, text)
            ELSE IF \E k \in 1 .. n - 1 : name[k] = "percent" THEN Lexeme(Tok("BADVARIABLE"), n, text)
            ELSE Lexeme([token |-> "VAR", name |-> name], n, text)
    BY <1>2 DEF Identifier, P
  <2> HIDE DEF s, name
  <2> QED
    BY <2>1, <2>2, <2>3
<1> HIDE DEF s
<1>7. PICK t, m : m \in {1, n} /\ t.token # "STRING" /\ s = Lexeme(t, m, text)
  BY <1>6
<1>8. m \in 1 .. len /\ m \in 0 .. Len(text) /\ m \in 1 .. Len(text) /\ \A k \in 1 .. m : k \in 1 .. n
  BY <1>1, <1>4, <1>7
<1>9. s.token = t /\ Advances(text, s.rest, m)
  BY <1>7, <1>8, LexemeAdvances
<1>10. Unquoted(text, s, m)
  BY <1>5, <1>7, <1>8, <1>9 DEF Unquoted
<1> QED
  BY <1>7, <1>8, <1>9, <1>10 DEF ScansOn, s

LEMMA NumberScansOn ==
  ASSUME NEW text \in Seq(Pieces), Len(text) > 0, text[1] = "1"
  PROVE  ScansOn(text, Number(text)) /\ Number(text).token.token # "STRING"
<1> DEFINE s == Number(text)
<1>1. PICK len \in Nat : len = Len(text) /\ len > 0
  OBVIOUS
<1>2. PICK n \in Int : n = Beyond(text, {"1"}) - 1
  BY BeyondIs
<1>3. Beyond(text, {"1"}) \in 1 .. len + 1 /\ (\A k \in 1 .. n : text[k] \in {"1"}) /\ (n + 1 <= len => text[n + 1] \notin {"1"})
  BY <1>1, <1>2, BeyondIs
<1>4. n \in 1 .. len
  <2>1. n \in 0 .. len
    BY <1>2, <1>3
  <2>2. ASSUME n = 0 PROVE FALSE
    BY <1>1, <1>3, <2>2
  <2> QED
    BY <2>1, <2>2
<1>5. ASSUME NEW k \in 1 .. n PROVE text[k] \notin Quotes
  BY <1>3 DEF Quotes
<1>6. s = IF n < Len(text) /\ text[n + 1] \in DOMAIN Exponents
          THEN [token |-> Tok("FLOAT"), rest |-> <<Exponents[text[n + 1]]>> \o SubSeq(text, n + 2, Len(text))]
          ELSE Lexeme([token |-> "INTEGER", digits |-> n], n, text)
  BY <1>2 DEF Number
<1> HIDE DEF s
<1>7. CASE ~ (n < Len(text) /\ text[n + 1] \in DOMAIN Exponents)
  <2>1. n \in 0 .. Len(text) /\ n \in 1 .. Len(text)
    BY <1>1, <1>4
  <2>2. s = Lexeme([token |-> "INTEGER", digits |-> n], n, text)
    BY <1>6, <1>7
  <2>3. s.token = [token |-> "INTEGER", digits |-> n] /\ Advances(text, s.rest, n)
    BY <2>1, <2>2, LexemeAdvances
  <2>4. s.token.token # "STRING"
    BY <2>3
  <2>5. Unquoted(text, s, n)
    BY <1>5, <2>4 DEF Unquoted
  <2> QED
    BY <2>1, <2>3, <2>4, <2>5 DEF ScansOn, s
<1>8. CASE n < Len(text) /\ text[n + 1] \in DOMAIN Exponents
  <2> DEFINE e == Exponents[text[n + 1]]
             w == SubSeq(text, n + 2, Len(text))
             left == <<e>> \o w
  <2>1. s.token.token # "STRING" /\ s.rest = left
    BY <1>6, <1>8 DEF Tok
  <2>2. e \in Words /\ e \in Pieces /\ text[n + 1] \in Words
    BY <1>8 DEF Exponents, Words, Keywords, Pieces
  <2>3. n + 2 \in 1 .. Len(text) + 1 /\ Len(text) \in 0 .. Len(text) /\ n + 2 <= Len(text) + 1 /\ n + 1 <= len
    BY <1>1, <1>4, <1>8
  <2>4. /\ w \in Seq(Pieces) /\ Len(w) = Len(text) - (n + 2) + 1
        /\ \A k \in 1 .. Len(text) - (n + 2) + 1 : w[k] = text[(n + 2) - 1 + k]
    BY <2>3, Part
  <2> HIDE DEF w, e
  <2>5. PICK r \in Nat : r = len - n - 1
    BY <1>4, <2>3
  <2>6. Len(w) = r /\ \A k \in 1 .. r : w[k] = text[n + (k + 1)]
    <3>1. Len(text) - (n + 2) + 1 = r
      BY <1>1, <1>4, <2>5
    <3>2. \A k \in 1 .. r : (n + 2) - 1 + k = n + (k + 1)
      OBVIOUS
    <3> QED
      BY <2>4, <3>1, <3>2
  <2>7. left \in Seq(Pieces) /\ Len(left) = r + 1 /\ left[1] = e /\ \A k \in 1 .. r : left[k + 1] = w[k]
    <3>1. w \in Seq(Pieces) /\ Len(w) = r /\ <<e>> \in Seq(Pieces) /\ Len(<<e>>) = 1
      BY <2>2, <2>4, <2>6
    <3>2. left \in Seq(Pieces) /\ Len(left) = r + 1
      BY <3>1
    <3>3. left[1] = e
      BY <3>1
    <3>4. \A k \in 1 .. r : left[k + 1] = w[k]
      BY <3>1
    <3> QED
      BY <3>2, <3>3, <3>4
  <2> HIDE DEF left
  <2>8. ASSUME NEW k \in 1 .. Len(left)
        PROVE  left[k] = text[n + k] \/ (k = 1 /\ left[1] \in Words /\ text[n + 1] \in Words)
    <3>1. CASE k = 1
      BY <2>2, <2>7, <3>1
    <3>2. CASE k # 1
      <4>1. PICK j \in Int : j = k - 1
        BY <2>7
      <4>2. j \in 1 .. r /\ k = j + 1
        BY <2>7, <3>2, <4>1
      <4> QED
        BY <2>6, <2>7, <4>2
    <3> QED
      BY <3>1, <3>2
  <2>9. Advances(text, left, n)
    <3>1. n + Len(left) = Len(text)
      BY <1>1, <1>4, <2>5, <2>7
    <3> QED
      BY <2>7, <2>8, <3>1 DEF Advances
  <2>10. Unquoted(text, s, n) /\ n \in 1 .. Len(text)
    BY <1>1, <1>4, <1>5, <2>1 DEF Unquoted
  <2> QED
    BY <2>1, <2>9, <2>10 DEF ScansOn, s
<1> QED
  BY <1>7, <1>8

LEMMA StringScansOn ==
  ASSUME NEW text \in Seq(Pieces), Len(text) > 0, text[1] \in Quotes
  PROVE  ScansOn(text, lexString(text))
<1> DEFINE S == {k \in 2 .. Len(text) : text[k] = Head(text)}
           closing == IF S # {} THEN Min(S) ELSE 0
           s == lexString(text)
<1>1. PICK len \in Nat : len = Len(text) /\ len > 0
  OBVIOUS
<1>2. s = IF closing = 0 THEN Lexeme(Tok("USTRING"), Len(text), text)
          ELSE Lexeme([token |-> "STRING", quoted |-> Bytes(text, closing)], closing, text)
  BY DEF lexString, SelectInSubSeq
<1> HIDE DEF s
<1>3. Head(text) = text[1]
  BY <1>1
<1>4. CASE closing = 0
  <2>1. s = Lexeme(Tok("USTRING"), Len(text), text)
    BY <1>2, <1>4
  <2>2. Len(text) \in 0 .. Len(text)
    BY <1>1
  <2>3. s.token = Tok("USTRING") /\ Advances(text, s.rest, Len(text))
    BY <2>1, <2>2, LexemeAdvances
  <2>4. s.rest = <<>>
    <3>1. s.rest \in Seq(Pieces) /\ len + Len(s.rest) = len
      BY <1>1, <2>3 DEF Advances
    <3>2. Len(s.rest) = 0
      BY <3>1
    <3> QED
      BY <3>1, <3>2
  <2> QED
    BY <2>3, <2>4 DEF ScansOn, Tok, s
<1>5. CASE closing # 0
  <2>1. S # {} /\ closing = Min(S)
    BY <1>5
  <2>2. S \subseteq Nat
    BY <1>1
  <2>3. Min(S) \in S /\ \A y \in S : Min(S) <= y
    <3> HIDE DEF S
    <3> QED
      BY <2>1, <2>2, LeastOf
  <2>4. PICK n \in S : n = closing /\ \A y \in S : n <= y
    BY <2>1, <2>3
  <2> HIDE DEF closing
  <2>5. n \in 2 .. len /\ text[n] = text[1]
    BY <1>1, <1>3, <2>4
  <2>6. ASSUME NEW k \in 2 .. n - 1 PROVE text[k] # text[1]
    <3>1. k \in 2 .. Len(text) /\ ~ (n <= k)
      BY <1>1, <2>5
    <3> QED
      BY <1>3, <2>4, <3>1
  <2>7. s = Lexeme([token |-> "STRING", quoted |-> Bytes(text, n)], n, text)
    BY <1>2, <1>5, <2>4
  <2>8. n \in 0 .. Len(text) /\ n \in 1 .. Len(text) /\ n > 1
    BY <1>1, <2>5
  <2>9. s.token = [token |-> "STRING", quoted |-> Bytes(text, n)] /\ Advances(text, s.rest, n)
    BY <2>7, <2>8, LexemeAdvances
  <2>10. Closed(text, s, n)
    BY <2>5, <2>6, <2>8, <2>9 DEF Closed
  <2> QED
    BY <2>8, <2>9, <2>10 DEF ScansOn, s
<1> QED
  BY <1>4, <1>5

LEMMA SeparatorScansOn ==
  ASSUME NEW text \in Seq(Pieces), Len(text) > 0, text[1] \notin Quotes
  PROVE  ScansOn(text, Separator(text)) /\ Separator(text).token.token # "STRING"
<1> DEFINE s == Separator(text)
<1>1. PICK len \in Nat : len = Len(text) /\ len > 0
  OBVIOUS
<1>2. PICK t, n : /\ t.token # "STRING" /\ s = Lexeme(t, n, text)
                  /\ n = 1 \/ (n = 2 /\ IsPrefix(<<"comma", "comma">>, text))
  <2>1. \A w : Tok(w).token = w
    BY DEF Tok
  <2>2. [token |-> "char", char |-> Head(text)].token # "STRING"
    OBVIOUS
  <2>3. /\ Tok("DCOMMA").token # "STRING" /\ Tok("COMMA").token # "STRING"
        /\ Tok("SEMI").token # "STRING" /\ Tok("COLON").token # "STRING"
    BY <2>1
  <2>4. \/ s = Lexeme(Tok("DCOMMA"), 2, text) /\ IsPrefix(<<"comma", "comma">>, text)
        \/ s = Lexeme(Tok("COMMA"), 1, text)
        \/ s = Lexeme(Tok("SEMI"), 1, text)
        \/ s = Lexeme(Tok("COLON"), 1, text)
        \/ s = Lexeme([token |-> "char", char |-> Head(text)], 1, text)
    BY DEF Separator
  <2> HIDE DEF s
  <2> QED
    BY <2>2, <2>3, <2>4
<1> HIDE DEF s
<1>3. n \in 1 .. len /\ \A k \in 1 .. n : text[k] \notin Quotes
  <2>1. CASE n = 1
    BY <1>1, <2>1
  <2>2. CASE n = 2 /\ IsPrefix(<<"comma", "comma">>, text)
    <3>1. Len(<<"comma", "comma">>) = 2 /\ 2 <= len /\ SubSeq(<<"comma", "comma">>, 1, 2) = SubSeq(text, 1, 2)
      BY <1>1, <2>2 DEF IsPrefix
    <3>2. SubSeq(<<"comma", "comma">>, 1, 2)[2] = "comma"
      OBVIOUS
    <3>3. SubSeq(text, 1, 2)[2] = text[2]
      BY <1>1, <3>1
    <3>4. text[2] \notin Quotes
      BY <3>1, <3>2, <3>3 DEF Quotes
    <3> QED
      BY <1>1, <2>2, <3>1, <3>4
  <2> QED
    BY <1>2, <2>1, <2>2
<1>4. n \in 0 .. Len(text) /\ n \in 1 .. Len(text)
  BY <1>1, <1>3
<1>5. s.token = t /\ Advances(text, s.rest, n)
  BY <1>2, <1>4, LexemeAdvances
<1>6. Unquoted(text, s, n)
  BY <1>2, <1>3, <1>5 DEF Unquoted
<1> QED
  BY <1>2, <1>4, <1>5, <1>6 DEF ScansOn, s

LEMMA LexemesScanOn ==
  ASSUME NEW text \in Seq(Pieces), Len(text) > 0, NEW inDef
  PROVE  ScansOn(text, getLexeme(text, inDef))
<1>1. Head(text) = text[1]
  OBVIOUS
<1>2. CASE text[1] \in Words
  BY <1>1, <1>2, IdentifierScansOn DEF getLexeme, Words, Keywords, Quotes
<1>3. CASE text[1] = "1"
  BY <1>1, <1>3, NumberScansOn DEF getLexeme, Words, Keywords, Quotes
<1>4. CASE text[1] \in Quotes
  BY <1>1, <1>4, StringScansOn DEF getLexeme, Words, Keywords, Quotes
<1>5. CASE text[1] \notin Words /\ text[1] # "1" /\ text[1] \notin Quotes
  BY <1>1, <1>5, SeparatorScansOn DEF getLexeme
<1> QED
  BY <1>2, <1>3, <1>4, <1>5

\* No quotation is open behind pieces that are no quotes, if none was before.
LEMMA StillUnquoted ==
  ASSUME NEW l \in Seq(Pieces), NEW o \in Nat, NEW n \in Nat, o + n <= Len(l),
         Quoting(l, o) = NoQuote, \A k \in 1 .. n : l[o + k] \notin Quotes
  PROVE  Quoting(l, o + n) = NoQuote
<1> DEFINE S == {k \in Nat : Quoting(l, o + k) = NoQuote}
<1>1. Len(l) \in Nat
  OBVIOUS
<1>2. 0 \in S
  OBVIOUS
<1>3. ASSUME NEW k \in 0 .. n - 1, k \in S PROVE k + 1 \in S
  <2>1. o + k \in 0 .. Len(l) - 1 /\ k + 1 \in 1 .. n /\ (o + k) + 1 = o + (k + 1) /\ k + 1 \in Nat
    BY <1>1
  <2>2. Quoting(l, o + k) = NoQuote /\ l[o + (k + 1)] \notin Quotes
    BY <1>3, <2>1
  <2>3. Quoting(l, (o + k) + 1) = NoQuote
    BY <2>1, <2>2, QuotingSteps
  <2> QED
    BY <2>1, <2>3
<1> HIDE DEF S
<1>4. 0 .. n \subseteq S
  BY <1>2, <1>3, Upwards
<1>5. n \in S
  BY <1>4
<1> QED
  BY <1>5 DEF S

\* A quotation is open until its quote comes again.
LEMMA QuotationStaysOpen ==
  ASSUME NEW l \in Seq(Pieces), NEW o \in Nat, NEW n \in Nat, n > 1, o + n <= Len(l), Quoting(l, o) = NoQuote,
         l[o + 1] \in Quotes, \A k \in 2 .. n - 1 : l[o + k] # l[o + 1], l[o + n] = l[o + 1]
  PROVE  Quoted(l, o + 1, o + n) /\ Quoting(l, o + n) = NoQuote
<1> DEFINE S == {k \in Nat : Quoting(l, o + k) = l[o + 1]}
<1>1. Len(l) \in Nat /\ NoQuote \notin Quotes
  BY DEF NoQuote, Quotes
<1>2. 1 \in S
  <2>1. o \in 0 .. Len(l) - 1
    BY <1>1
  <2>2. Quoting(l, o + 1) = l[o + 1]
    BY <2>1, QuotingSteps
  <2> QED
    BY <2>2
<1>3. ASSUME NEW k \in 1 .. (n - 1) - 1, k \in S PROVE k + 1 \in S
  <2>1. o + k \in 0 .. Len(l) - 1 /\ k + 1 \in 2 .. n - 1 /\ (o + k) + 1 = o + (k + 1) /\ k + 1 \in Nat
    BY <1>1
  <2>2. Quoting(l, o + k) = l[o + 1] /\ l[o + (k + 1)] # l[o + 1]
    BY <1>3, <2>1
  <2>3. Quoting(l, (o + k) + 1) = l[o + 1]
    BY <1>1, <2>1, <2>2, QuotingSteps
  <2> QED
    BY <2>1, <2>3
<1>4. 1 \in Nat /\ n - 1 \in Nat
  OBVIOUS
<1> HIDE DEF S
<1>5. 1 .. n - 1 \subseteq S
  BY <1>2, <1>3, <1>4, Upwards
<1>6. ASSUME NEW k \in 1 .. n - 1 PROVE Quoting(l, o + k) = l[o + 1]
  BY <1>5 DEF S
<1>7. Quoted(l, o + 1, o + n)
  <2> SUFFICES ASSUME NEW j \in o + 1 .. (o + n) - 1 PROVE Quoting(l, j) # NoQuote
    BY DEF Quoted
  <2>1. j - o \in 1 .. n - 1 /\ o + (j - o) = j
    OBVIOUS
  <2>2. Quoting(l, o + (j - o)) = l[o + 1]
    BY <1>6, <2>1
  <2> QED
    BY <1>1, <2>1, <2>2
<1>8. Quoting(l, o + n) = NoQuote
  <2>1. PICK m \in Nat : m = o + (n - 1)
    OBVIOUS
  <2>2. n - 1 \in 1 .. n - 1 /\ m \in 0 .. Len(l) - 1 /\ m + 1 = o + n
    BY <1>1, <2>1
  <2>3. Quoting(l, m) = l[o + 1] /\ l[m + 1] = l[o + 1]
    BY <1>6, <2>1, <2>2
  <2>4. Quoting(l, m + 1) = NoQuote
    BY <1>1, <2>2, <2>3, QuotingSteps
  <2> QED
    BY <2>2, <2>4
<1> QED
  BY <1>7, <1>8

\* The scanner has reached left, outside the quotations of l, or the end.
Reached(l, left) == left = <<>> \/ \E o \in Nat : Advances(l, left, o) /\ Quoting(l, o) = NoQuote

\* A string is the bytes of a quotation of the line.
BytesOf(l, a, b) == [k \in 1 .. b - a + 1 |-> byte(l[a - 1 + k])]

FromLine(l, t) ==
  t.token = "STRING" => \E b \in 1 .. Len(l) : \E a \in 1 .. b :
                          l[a] \in Quotes /\ Quoted(l, a, b) /\ t.quoted = BytesOf(l, a, b)

LEMMA ScannedFromLine ==
  ASSUME NEW l \in Seq(Pieces), NEW text \in Seq(Pieces), Len(text) > 0, Reached(l, text), NEW s, ScansOn(text, s)
  PROVE  Reached(l, s.rest) /\ FromLine(l, s.token)
<1>1. PICK o \in Nat : Advances(l, text, o) /\ Quoting(l, o) = NoQuote
  BY DEF Reached
<1>2. CASE s.token.token # "STRING" /\ s.rest = <<>>
  BY <1>2 DEF Reached, FromLine
<1>3. CASE \E n \in 1 .. Len(text) : Advances(text, s.rest, n) /\ (Unquoted(text, s, n) \/ Closed(text, s, n))
  <2>1. PICK n \in 1 .. Len(text) : Advances(text, s.rest, n) /\ (Unquoted(text, s, n) \/ Closed(text, s, n))
    BY <1>3
  <2>2. PICK len \in Nat, size \in Nat, r \in Nat : len = Len(text) /\ size = Len(l) /\ r = Len(s.rest)
    BY <2>1 DEF Advances
  <2>3. n \in Nat /\ n > 0 /\ o + len = size /\ n + r = len /\ o + n <= size /\ s.rest \in Seq(Pieces)
    BY <1>1, <2>1, <2>2 DEF Advances
  <2>4. ASSUME NEW k \in 1 .. len PROVE text[k] = l[o + k] \/ (k = 1 /\ text[1] \in Words /\ l[o + 1] \in Words)
    BY <1>1, <2>2 DEF Advances
  <2>5. ASSUME NEW k \in 2 .. len PROVE text[k] = l[o + k]
    <3>1. k \in 1 .. len /\ k # 1
      OBVIOUS
    <3> QED
      BY <2>4, <3>1
  <2>6. Advances(l, s.rest, o + n)
    <3>1. ASSUME NEW k \in 1 .. r
          PROVE  s.rest[k] = l[(o + n) + k] \/ (k = 1 /\ s.rest[1] \in Words /\ l[(o + n) + 1] \in Words)
      <4>1. n + k \in 2 .. len /\ o + (n + k) = (o + n) + k
        BY <2>3
      <4>2. text[n + k] = l[(o + n) + k]
        BY <2>5, <4>1
      <4>3. s.rest[k] = text[n + k] \/ (k = 1 /\ s.rest[1] \in Words /\ text[n + 1] \in Words)
        BY <2>1, <2>2 DEF Advances
      <4> QED
        BY <4>2, <4>3
    <3>2. (o + n) + Len(s.rest) = Len(l)
      <4>1. (o + n) + r = size
        BY <2>3
      <4> QED
        BY <2>2, <4>1
    <3> QED
      BY <2>2, <2>3, <3>1, <3>2 DEF Advances
  <2>7. CASE Unquoted(text, s, n)
    <3>1. ASSUME NEW k \in 1 .. n PROVE l[o + k] \notin Quotes
      <4>1. k \in 1 .. len /\ text[k] \notin Quotes
        BY <2>3, <2>7 DEF Unquoted
      <4>2. \A w \in Words : w \notin Quotes
        BY DEF Words, Keywords, Quotes
      <4>3. text[k] = l[o + k] \/ l[o + k] \in Words
        BY <2>4, <4>1
      <4> QED
        BY <4>1, <4>2, <4>3
    <3>2. o + n <= Len(l)
      BY <2>2, <2>3
    <3>3. Quoting(l, o + n) = NoQuote
      BY <1>1, <2>3, <3>1, <3>2, StillUnquoted
    <3>4. o + n \in Nat
      BY <2>3
    <3> QED
      BY <2>6, <2>7, <3>3, <3>4 DEF Reached, FromLine, Unquoted
  <2>8. CASE Closed(text, s, n)
    <3>1. /\ s.token.quoted = Bytes(text, n) /\ n > 1 /\ text[1] \in Quotes /\ text[n] = text[1]
          /\ \A k \in 2 .. n - 1 : text[k] # text[1]
      BY <2>8 DEF Closed
    <3>2. ASSUME NEW k \in 1 .. n PROVE text[k] = l[o + k]
      <4>1. k \in 1 .. len
        BY <2>3
      <4>2. text[1] \notin Words
        BY <3>1 DEF Words, Keywords, Quotes
      <4> QED
        BY <2>4, <4>1, <4>2
    <3>3. l[o + 1] \in Quotes /\ l[o + n] = l[o + 1] /\ \A k \in 2 .. n - 1 : l[o + k] # l[o + 1]
      <4>1. l[o + 1] = text[1] /\ l[o + n] = text[n]
        <5>1. 1 \in 1 .. n /\ n \in 1 .. n
          BY <2>3
        <5> QED
          BY <3>2, <5>1
      <4>2. ASSUME NEW k \in 2 .. n - 1 PROVE l[o + k] = text[k]
        <5>1. k \in 1 .. n
          BY <2>3, <4>2
        <5> QED
          BY <3>2, <5>1
      <4> QED
        BY <3>1, <4>1, <4>2
    <3>4. Quoted(l, o + 1, o + n) /\ Quoting(l, o + n) = NoQuote
      <4>1. o + n <= Len(l) /\ n > 1
        BY <2>2, <2>3, <3>1
      <4> QED
        BY <1>1, <2>3, <3>3, <4>1, QuotationStaysOpen
    <3>5. Bytes(text, n) = BytesOf(l, o + 1, o + n)
      <4>1. PICK p \in Nat, q \in Nat : p = o + 1 /\ q = o + n
        BY <2>3
      <4>2. q - p + 1 = n /\ \A k \in 1 .. n : p - 1 + k = o + k
        BY <2>3, <4>1
      <4>3. \A k \in 1 .. n : byte(text[k]) = byte(l[p - 1 + k])
        BY <3>2, <4>2
      <4> QED
        BY <4>1, <4>2, <4>3 DEF Bytes, BytesOf
    <3>6. FromLine(l, s.token)
      <4>1. o + n \in 1 .. Len(l) /\ o + 1 \in 1 .. o + n
        BY <2>2, <2>3
      <4> QED
        BY <3>1, <3>3, <3>4, <3>5, <4>1 DEF FromLine
    <3>7. o + n \in Nat
      BY <2>3
    <3> QED
      BY <2>6, <3>4, <3>6, <3>7 DEF Reached
  <2> QED
    BY <2>1, <2>7, <2>8
<1> QED
  BY <1>2, <1>3 DEF ScansOn

\* The strings are quotations of the line, and the scanner is outside of quotations, or at the end;
\* the tokens that are left when a line is read again are those of that line.
StringInv ==
  /\ raw \in Seq(Pieces) /\ line \in Seq(Pieces)
  /\ phase # "read" => line = Prepared(raw)
  /\ phase = "read" => tokens = <<>> \/ raw = line
  /\ phase = "scan" => rest \in Seq(Pieces) /\ Reached(line, rest)
  /\ \A k \in DOMAIN tokens : FromLine(line, tokens[k])

\* Tokens behind the tokens there are.
LEMMA MoreFromLine ==
  ASSUME NEW S, NEW list \in Seq(S), NEW l, \A k \in DOMAIN list : FromLine(l, list[k]), NEW T, NEW more \in Seq(T),
         \A k \in DOMAIN more : FromLine(l, more[k])
  PROVE  \A k \in DOMAIN (list \o more) : FromLine(l, (list \o more)[k])
<1>1. PICK n \in Nat, m \in Nat : n = Len(list) /\ m = Len(more)
  OBVIOUS
<1>2. list \in Seq(S \cup T) /\ more \in Seq(S \cup T)
  OBVIOUS
<1> DEFINE new == list \o more
<1>3. /\ DOMAIN new = 1 .. n + m /\ \A k \in 1 .. n : new[k] = list[k]
      /\ \A k \in n + 1 .. n + m : new[k] = more[k - n]
  BY <1>1, <1>2
<1> HIDE DEF new
<1>4. DOMAIN list = 1 .. n /\ DOMAIN more = 1 .. m
  BY <1>1
<1>5. ASSUME NEW k \in 1 .. n + m PROVE FromLine(l, new[k])
  <2>1. CASE k \in 1 .. n
    BY <1>3, <1>4, <2>1
  <2>2. CASE k \in n + 1 .. n + m
    <3>1. k - n \in 1 .. m
      BY <2>2
    <3> QED
      BY <1>3, <1>4, <2>2, <3>1
  <2> QED
    BY <2>1, <2>2
<1> QED
  BY <1>3, <1>5 DEF new

LEMMA OneFromLine ==
  ASSUME NEW l, NEW t, FromLine(l, t)
  PROVE  <<t>> \in Seq({t}) /\ \A k \in DOMAIN <<t>> : FromLine(l, <<t>>[k])
<1>1. DOMAIN <<t>> = {1} /\ <<t>>[1] = t
  OBVIOUS
<1> QED
  BY <1>1

LEMMA NoneFromLine ==
  ASSUME NEW l
  PROVE  <<>> \in Seq({}) /\ \A k \in DOMAIN <<>> : FromLine(l, <<>>[k])
OBVIOUS

\* Blanks are passed over.
LEMMA TextReached ==
  ASSUME line \in Seq(Pieces), rest \in Seq(Pieces), Reached(line, rest)
  PROVE  Text \in Seq(Pieces) /\ Reached(line, Text)
<1> DEFINE b == Beyond(rest, {"blank"})
<1>1. PICK len \in Nat : len = Len(rest)
  OBVIOUS
<1>2. b \in 1 .. len + 1 /\ \A k \in 1 .. b - 1 : rest[k] \in {"blank"}
  BY <1>1, BeyondIs
<1> HIDE DEF b
<1>3. Text = SubSeq(rest, b, Len(rest))
  BY DEF Text, b
<1>4. CASE b = 1
  <2>1. Text = rest
    BY <1>3, <1>4
  <2> QED
    BY <2>1
<1>5. CASE b # 1
  <2>1. PICK n \in Nat : n = b - 1
    BY <1>2
  <2>2. n \in 0 .. Len(rest) /\ n \in 1 .. Len(rest) /\ n + 1 = b /\ Len(rest) > 0
    BY <1>1, <1>2, <1>5, <2>1
  <2> DEFINE s == Lexeme(Tok("none"), n, rest)
  <2>3. s.token = Tok("none") /\ Advances(rest, s.rest, n)
    BY <2>2, LexemeAdvances
  <2>4. s.rest = Text
    BY <1>3, <2>2 DEF Lexeme
  <2> HIDE DEF s
  <2>5. Unquoted(rest, s, n)
    <3>1. \A k \in 1 .. n : rest[k] \notin Quotes
      BY <1>2, <2>1 DEF Quotes
    <3> QED
      BY <2>3, <3>1 DEF Unquoted, Tok
  <2>6. ScansOn(rest, s)
    BY <2>2, <2>3, <2>5 DEF ScansOn
  <2>7. Reached(line, s.rest)
    BY <2>2, <2>6, ScannedFromLine
  <2>8. s.rest \in Seq(Pieces)
    BY <2>3 DEF Advances
  <2> QED
    BY <2>4, <2>7, <2>8
<1> QED
  BY <1>4, <1>5

LEMMA StringsBegin == StringInv /\ NewLexer => StringInv'
<1> SUFFICES ASSUME StringInv, NewLexer PROVE StringInv'
  OBVIOUS
<1>1. raw' = raw /\ raw \in Seq(Pieces) /\ line' = Prepared(raw)
  BY DEF StringInv, NewLexer, Prepared
<1>2. /\ rest' = line' /\ tokens' \in {<<>>, <<Tok("LONGLINE")>>} /\ phase' # "read"
  BY DEF NewLexer
<1>3. line' \in Seq(Pieces)
  BY <1>1, QuotationsStay DEF Clean
<1>4. Reached(line', line')
  <2>1. PICK z \in Nat : z = 0
    OBVIOUS
  <2>2. Advances(line', line', z)
    BY <1>3, <2>1 DEF Advances
  <2>3. Quoting(line', z) = NoQuote
    BY <1>3, <2>1, QuotingSteps
  <2> QED
    BY <2>2, <2>3 DEF Reached
<1>5. \A k \in DOMAIN tokens' : FromLine(line', tokens'[k])
  <2>1. FromLine(line', Tok("LONGLINE"))
    BY DEF FromLine, Tok
  <2> QED
    BY <1>2, <2>1, OneFromLine, NoneFromLine
<1> QED
  BY <1>1, <1>2, <1>3, <1>4, <1>5 DEF StringInv

\* The steps of the scanner that scan no lexeme.
LEMMA StringsEnd == LexerInv /\ StringInv /\ (scanFilename \/ endOfLine) => StringInv'
<1> SUFFICES ASSUME LexerInv, StringInv, scanFilename \/ endOfLine PROVE StringInv'
  OBVIOUS
<1>1. /\ phase' = "done" /\ phase = "scan" /\ raw' = raw /\ line' = line
  BY DEF scanFilename, endOfLine, Scanning
<1> PICK S : tokens \in Seq(S)
  BY DEF LexerInv
<1>2. \A w \in {"EOL", "FILENAME", "BADFILENAME", "TRAILING_COMMA", "TRAILING_SEMI"} : FromLine(line, Tok(w))
  BY DEF FromLine, Tok
<1>3. FromLine(line, prevTokenFixup(prevToken))
  BY <1>2 DEF prevTokenFixup
<1>4. \A k \in DOMAIN tokens' : FromLine(line, tokens'[k])
  <2>1. CASE tokens' = Append(tokens, Tok("EOL"))
    <3>1. Append(tokens, Tok("EOL")) = tokens \o <<Tok("EOL")>>
      OBVIOUS
    <3> QED
      BY <1>2, <2>1, <3>1, MoreFromLine, OneFromLine DEF StringInv
  <2>2. ASSUME NEW t, FromLine(line, t), tokens' = tokens \o <<t, Tok("EOL")>>
        PROVE  \A k \in DOMAIN tokens' : FromLine(line, tokens'[k])
    <3>1. <<t, Tok("EOL")>> \in Seq({t, Tok("EOL")}) /\ DOMAIN <<t, Tok("EOL")>> = {1, 2}
      OBVIOUS
    <3>2. \A k \in DOMAIN <<t, Tok("EOL")>> : FromLine(line, <<t, Tok("EOL")>>[k])
      BY <1>2, <2>2, <3>1
    <3> QED
      BY <2>2, <3>1, <3>2, MoreFromLine DEF StringInv
  <2>3. CASE \/ tokens' = tokens \o <<Tok("FILENAME"), Tok("EOL")>>
             \/ tokens' = tokens \o <<Tok("BADFILENAME"), Tok("EOL")>>
    BY <1>2, <2>2, <2>3
  <2>4. CASE tokens' = tokens \o <<>> \o <<Tok("EOL")>>
    <3>1. tokens \o <<>> = tokens
      OBVIOUS
    <3> QED
      BY <1>2, <2>4, <3>1, MoreFromLine, OneFromLine DEF StringInv
  <2>5. CASE tokens' = tokens \o <<prevTokenFixup(prevToken)>> \o <<Tok("EOL")>>
    <3> DEFINE list == tokens \o <<prevTokenFixup(prevToken)>>
    <3>1. list \in Seq(S \cup {prevTokenFixup(prevToken)})
      OBVIOUS
    <3>2. \A k \in DOMAIN list : FromLine(line, list[k])
      BY <1>3, MoreFromLine, OneFromLine DEF StringInv
    <3> HIDE DEF list
    <3>3. \A k \in DOMAIN (list \o <<Tok("EOL")>>) : FromLine(line, (list \o <<Tok("EOL")>>)[k])
      BY <1>2, <3>1, <3>2, MoreFromLine, OneFromLine
    <3> QED
      BY <2>5, <3>3 DEF list
  <2>6. CASE scanFilename
    BY <2>1, <2>3, <2>6 DEF scanFilename
  <2>7. CASE endOfLine
    BY <2>4, <2>5, <2>7 DEF endOfLine
  <2> QED
    BY <2>6, <2>7
<1>5. StringInv
  OBVIOUS
<1> QED
  BY <1>1, <1>4, <1>5 DEF StringInv

LEMMA StringsGoOn == LexerInv /\ StringInv /\ (separator \/ lexeme) => StringInv'
<1> SUFFICES ASSUME LexerInv, StringInv, separator \/ lexeme PROVE StringInv'
  OBVIOUS
<1> DEFINE s == getLexeme(Text, parsingDef)
<1>1. /\ phase' \in {"scan", "done"} /\ phase = "scan" /\ raw' = raw /\ line' = line /\ Text # <<>>
  BY DEF separator, lexeme, Scanning
<1> PICK S : tokens \in Seq(S)
  BY DEF LexerInv
<1>2. Text \in Seq(Pieces) /\ Reached(line, Text) /\ line \in Seq(Pieces) /\ Len(Text) > 0
  <2>1. Text \in Seq(Pieces) /\ Reached(line, Text)
    BY <1>1, TextReached DEF StringInv
  <2> QED
    BY <1>1, <2>1 DEF StringInv
<1>3. ScansOn(Text, s)
  BY <1>2, LexemesScanOn
<1> HIDE DEF s
<1>4. Reached(line, s.rest) /\ FromLine(line, s.token)
  BY <1>2, <1>3, ScannedFromLine
<1>5. s.rest \in Seq(Pieces)
  <2>1. <<>> \in Seq(Pieces)
    OBVIOUS
  <2> QED
    BY <1>3, <2>1 DEF ScansOn, Advances
<1>6. /\ \A t \in {NoToken, Tok("COMMA"), Tok("SEMI"), Tok("BADTOKEN"), Tok("COMMENT")} : FromLine(line, t)
      /\ FromLine(line, prevTokenFixup(prevToken))
  BY DEF FromLine, Tok, NoToken, prevTokenFixup
<1>7. CASE separator
  <2>1. rest' = s.rest
    BY <1>7 DEF separator, s
  <2>2. \A k \in DOMAIN tokens' : FromLine(line, tokens'[k])
    <3>1. CASE tokens' = tokens
      BY <3>1 DEF StringInv
    <3>2. CASE tokens' = Append(tokens, Tok("BADTOKEN"))
      <4>1. Append(tokens, Tok("BADTOKEN")) = tokens \o <<Tok("BADTOKEN")>>
        OBVIOUS
      <4> QED
        BY <1>6, <3>2, <4>1, MoreFromLine, OneFromLine DEF StringInv
    <3> QED
      BY <1>7, <3>1, <3>2 DEF separator
  <2>3. StringInv
    OBVIOUS
  <2> QED
    BY <1>1, <1>4, <1>5, <2>1, <2>2, <2>3 DEF StringInv
<1>8. CASE lexeme
  <2> DEFINE x == Found(s, i, deferredStmt)
  <2>1. tokens' = Saved(x) /\ rest' = IF Explicit(s, i) THEN Tail(s.rest) ELSE s.rest
    BY <1>8 DEF lexeme, Found, Explicit, Marks, Comments, s
  <2>2. FromLine(line, x)
    <3>1. CASE Explicit(s, i)
      <4>1. x = [s.token EXCEPT !.token = "EINTEGER"]
        BY <3>1 DEF Found, Comments, Marks, Explicit
      <4>2. s.token.token = "INTEGER"
        BY <3>1 DEF Explicit
      <4>3. x.token = "EINTEGER"
        BY <4>1, <4>2, LexemeKinds DEF s
      <4> QED
        BY <4>3 DEF FromLine
    <3>2. CASE ~ Explicit(s, i)
      <4>1. x \in {Tok("COMMENT"), s.token}
        BY <3>2 DEF Found
      <4> QED
        BY <1>4, <1>6, <4>1
    <3> QED
      BY <3>1, <3>2
  <2> HIDE DEF x
  <2>3. \A k \in DOMAIN tokens' : FromLine(line, tokens'[k])
    <3>1. CASE tokens' = tokens \o <<>> \o <<x>>
      <4>1. tokens \o <<>> = tokens
        OBVIOUS
      <4> QED
        BY <2>2, <3>1, <4>1, MoreFromLine, OneFromLine DEF StringInv
    <3>2. ASSUME NEW u, FromLine(line, u), tokens' = tokens \o <<u>> \o <<x>>
          PROVE  \A k \in DOMAIN tokens' : FromLine(line, tokens'[k])
      <4> DEFINE list == tokens \o <<u>>
      <4>1. list \in Seq(S \cup {u})
        OBVIOUS
      <4>2. \A k \in DOMAIN list : FromLine(line, list[k])
        BY <3>2, MoreFromLine, OneFromLine DEF StringInv
      <4> HIDE DEF list
      <4>3. \A k \in DOMAIN (list \o <<x>>) : FromLine(line, (list \o <<x>>)[k])
        BY <2>2, <4>1, <4>2, MoreFromLine, OneFromLine
      <4> QED
        BY <3>2, <4>3 DEF list
    <3>3. \/ tokens' = tokens \o <<>> \o <<x>>
          \/ tokens' = tokens \o <<prevTokenFixup(prevToken)>> \o <<x>>
          \/ tokens' = tokens \o <<prevToken>> \o <<x>>
      BY <2>1 DEF Saved
    <3>4. FromLine(line, prevToken)
      BY <1>6 DEF LexerInv
    <3> QED
      BY <1>6, <3>1, <3>2, <3>3, <3>4
  <2>4. rest' \in Seq(Pieces) /\ Reached(line, rest')
    <3>1. CASE ~ Explicit(s, i)
      BY <1>4, <1>5, <2>1, <3>1
    <3>2. CASE Explicit(s, i)
      <4> DEFINE left == s.rest
                 p == Lexeme(Tok("percent"), 1, left)
      <4>1. left \in Seq(Pieces) /\ left # <<>> /\ Head(left) = "percent" /\ Reached(line, left)
        BY <1>4, <1>5, <3>2 DEF Explicit
      <4> HIDE DEF left
      <4>2. Len(left) > 0 /\ left[1] = "percent" /\ 1 \in 0 .. Len(left) /\ 1 \in 1 .. Len(left)
        BY <4>1
      <4>3. p.token = Tok("percent") /\ Advances(left, p.rest, 1)
        BY <4>1, <4>2, LexemeAdvances
      <4>4. p.rest = Tail(left)
        <5>1. p.rest = SubSeq(left, 2, Len(left))
          BY DEF Lexeme
        <5>2. PICK n \in Nat : n + 1 = Len(left)
          <6>1. Len(left) - 1 \in Nat /\ (Len(left) - 1) + 1 = Len(left)
            BY <4>1, <4>2
          <6> QED
            BY <6>1
        <5>3. /\ SubSeq(left, 2, Len(left)) \in Seq(Pieces) /\ Len(SubSeq(left, 2, Len(left))) = n
              /\ \A k \in 1 .. n : SubSeq(left, 2, Len(left))[k] = left[k + 1]
          <6>1. 2 \in 1 .. Len(left) + 1 /\ Len(left) \in 0 .. Len(left) /\ 2 <= Len(left) + 1 /\ Len(left) - 2 + 1 = n
            BY <5>2
          <6>2. /\ SubSeq(left, 2, Len(left)) \in Seq(Pieces) /\ Len(SubSeq(left, 2, Len(left))) = n
                /\ \A k \in 1 .. n : SubSeq(left, 2, Len(left))[k] = left[2 - 1 + k]
            BY <4>1, <6>1, Part
          <6>3. \A k \in 1 .. n : 2 - 1 + k = k + 1
            OBVIOUS
          <6> QED
            BY <6>2, <6>3
        <5>4. Tail(left) \in Seq(Pieces) /\ Len(Tail(left)) = n /\ \A k \in 1 .. n : Tail(left)[k] = left[k + 1]
          BY <4>1, <4>2, <5>2
        <5> HIDE DEF p
        <5>5. SubSeq(left, 2, Len(left)) = Tail(left)
          BY <5>3, <5>4, SameText
        <5> QED
          BY <5>1, <5>5
      <4> HIDE DEF p
      <4>5. Unquoted(left, p, 1)
        BY <4>2, <4>3 DEF Unquoted, Tok, Quotes
      <4>6. ScansOn(left, p)
        BY <4>2, <4>3, <4>5 DEF ScansOn
      <4>7. Reached(line, p.rest) /\ p.rest \in Seq(Pieces)
        BY <1>2, <4>1, <4>2, <4>3, <4>6, ScannedFromLine DEF Advances
      <4> QED
        BY <2>1, <3>2, <4>4, <4>7 DEF left
    <3> QED
      BY <3>1, <3>2
  <2>5. StringInv
    OBVIOUS
  <2> QED
    BY <1>1, <2>3, <2>4, <2>5 DEF StringInv
<1> QED
  BY <1>7, <1>8

LEMMA StringsTyped ==
  ASSUME StringInv
  PROVE  StringsAsTyped
<1> DEFINE At(t, q) ==
             \E a \in DOMAIN t :
               /\ a - 1 + Len(q) <= Len(t)
               /\ \A j \in DOMAIN q :
                    q[j] = t[a - 1 + j] \/ (t[a - 1 + j] = "wide" /\ q[j] = "low byte")
<1> SUFFICES ASSUME NEW k \in DOMAIN tokens, tokens[k].token = "STRING"
             PROVE  At(raw, tokens[k].quoted)
  BY DEF StringsAsTyped
<1>1. PICK b \in 1 .. Len(line) : \E a \in 1 .. b :
         line[a] \in Quotes /\ Quoted(line, a, b) /\ tokens[k].quoted = BytesOf(line, a, b)
  BY DEF StringInv, FromLine
<1>2. PICK a \in 1 .. b : line[a] \in Quotes /\ Quoted(line, a, b) /\ tokens[k].quoted = BytesOf(line, a, b)
  BY <1>1
<1>3. raw \in Seq(Pieces) /\ line \in Seq(Pieces)
  BY DEF StringInv
<1>4. PICK len \in Nat, size \in Nat : len = Len(line) /\ size = Len(raw)
  BY <1>3
<1>5. b \in 1 .. len /\ DOMAIN raw = 1 .. size
  BY <1>3, <1>4
<1> DEFINE q == tokens[k].quoted
<1>6. PICK n \in Nat : n = b - a + 1
  BY <1>5
<1>q. q = tokens[k].quoted
  OBVIOUS
<1> HIDE DEF q
<1>7. Len(q) = n /\ DOMAIN q = 1 .. n /\ \A j \in 1 .. n : q[j] = byte(line[a - 1 + j])
  <2>1. q = [j \in 1 .. n |-> byte(line[a - 1 + j])]
    BY <1>2, <1>6, <1>q DEF BytesOf
  <2> QED
    BY <2>1
<1>8. ASSUME NEW c \in 1 .. size, c - 1 + n <= size, \A j \in 1 .. n : raw[c - 1 + j] = line[a - 1 + j]
      PROVE  At(raw, q)
  <2>1. ASSUME NEW j \in DOMAIN q
        PROVE  q[j] = raw[c - 1 + j] \/ (raw[c - 1 + j] = "wide" /\ q[j] = "low byte")
    <3>1. q[j] = byte(raw[c - 1 + j])
      BY <1>7, <1>8
    <3> QED
      BY <3>1 DEF byte
  <2>2. c \in DOMAIN raw /\ c - 1 + Len(q) <= Len(raw)
    BY <1>4, <1>5, <1>7, <1>8
  <2> QED
    BY <2>1, <2>2
<1>9. CASE raw = line
  <2>1. a \in 1 .. size /\ a - 1 + n <= size
    BY <1>4, <1>5, <1>6, <1>9
  <2> QED
    BY <1>6, <1>8, <1>9, <2>1, <1>q
<1>10. CASE raw # line
  <2>1. phase # "read"
    <3>1. tokens # <<>>
      OBVIOUS
    <3> QED
      BY <1>10, <3>1 DEF StringInv
  <2>2. line = Prepared(raw)
    BY <2>1 DEF StringInv
  <2>3. Occurs(line, a, b, raw, Len(raw))
    BY <1>1, <1>2, <1>3, <2>2, QuotationsStay
  <2>4. PICK c \in 1 .. Len(raw) : c + (b - a) <= Len(raw) /\ \A j \in 0 .. b - a : raw[c + j] = line[a + j]
    BY <2>3 DEF Occurs
  <2>5. c \in 1 .. size /\ c - 1 + n <= size
    BY <1>4, <1>5, <1>6, <2>4
  <2>6. ASSUME NEW j \in 1 .. n PROVE raw[c - 1 + j] = line[a - 1 + j]
    <3>1. PICK h \in Int : h = j - 1
      BY <1>6
    <3>2. h \in 0 .. b - a /\ c - 1 + j = c + h /\ a - 1 + j = a + h
      BY <1>5, <1>6, <2>5, <3>1
    <3> QED
      BY <2>4, <3>2
  <2> QED
    BY <1>6, <1>8, <2>5, <2>6, <1>q
<1> QED
  BY <1>9, <1>10

\* The strings of every line are text between quotes, as it was typed or is in the file.
THEOREM StringsStay == Spec => []StringsAsTyped
<1>1. Init => StringInv
  <2> SUFFICES ASSUME Init PROVE StringInv
    OBVIOUS
  <2>1. raw \in Seq(Pieces) /\ <<>> \in Seq(Pieces) /\ DOMAIN <<>> = {}
    BY LinesAssumption DEF Init
  <2> QED
    BY <2>1 DEF Init, StringInv
<1>2. LexerInv /\ StringInv /\ [Next]_vars => StringInv'
  <2> SUFFICES ASSUME LexerInv, StringInv, [Next]_vars PROVE StringInv'
    OBVIOUS
  <2>1. CASE UNCHANGED vars
    <3>1. UNCHANGED <<raw, line, rest, phase, tokens>>
      BY <2>1 DEF vars, scanning
    <3> QED
      BY <3>1 DEF StringInv
  <2>2. CASE reload
    BY <2>2 DEF reload, scanning, StringInv
  <2> QED
    BY <2>1, <2>2, StringsBegin, StringsEnd, StringsGoOn DEF Next
<1> QED
  BY <1>1, <1>2, TokensAreSettled, StringsTyped, PTL DEF Spec

(***************************************************************************)
(* The expression processor: numbers and operators, then the stack, then   *)
(* the steps.                                                              *)
(***************************************************************************)

(* Numbers.                                                                 *)

\* The ranges of integers and floats.
LEMMA Ranges ==
  /\ minInt16 \in Int /\ maxInt16 \in Nat /\ minInt16 = - maxInt16 - 1
  /\ 2 ^ Width \in Nat \ {0} /\ 2 ^ Width = 2 * maxInt16 + 2
  /\ unit \in Nat \ {0} /\ floatMax \in Nat \ {0} /\ unit <= floatMax
  /\ unit * (maxInt16 + 1) \in Nat /\ unit * (maxInt16 + 1) <= floatMax
  /\ maxStringLen \in Nat /\ maxStringLen <= maxInt16
<1> DEFINE half == 2 ^ (Width - 1)
<1>1. Width \in Nat /\ Width > 1 /\ Width - 1 \in 0 .. Width /\ Width \in 0 .. Width
  BY WidthAssumption
<1>2. half \in Nat \ {0} /\ 2 ^ Width \in Nat \ {0} /\ 2 ^ Width = 2 * half
  BY <1>1, WidthAssumption
<1>3. minInt16 = - half /\ maxInt16 = half - 1
  BY DEF minInt16, maxInt16
<1>4. unit \in Nat \ {0} /\ floatMax \in Nat /\ unit * half <= floatMax
      /\ maxStringLen \in Nat /\ maxStringLen < half
  BY WidthAssumption
<1> HIDE DEF half
<1>5. unit * half >= unit /\ unit * half \in Nat
  BY <1>2, <1>4
<1>6. maxInt16 + 1 = half
  BY <1>2, <1>3
<1> QED
  BY <1>2, <1>3, <1>4, <1>5, <1>6

FiniteRange == -floatMax .. floatMax
FloatRange  == FiniteRange \cup {Inf, -Inf, NaN}

\* Literals are made of numbers in range, and nothing else is.
LEMMA Made ==
  /\ \A n \in minInt16 .. maxInt16 : Integer(n) \in Integers16
  /\ \A d \in FiniteRange : Float(d) \in Floats
  /\ \A d \in FloatRange : Float(d) \in WildFloats
  /\ \A n \in 0 .. maxStringLen : String(n) \in Strings
BY DEF Integers16, Floats, WildFloats, Strings, FiniteRange, FloatRange

LEMMA Taken ==
  /\ \A v \in Integers16 : v.tok = "INTEGER" /\ v.data \in minInt16 .. maxInt16 /\ v = Integer(v.data)
  /\ \A v \in Floats : v.tok = "FLOAT" /\ v.data \in FiniteRange /\ v = Float(v.data)
  /\ \A v \in WildFloats : v.tok = "FLOAT" /\ v.data \in FloatRange /\ v = Float(v.data)
  /\ \A v \in Strings : v.tok = "STRING" /\ v.data \in 0 .. maxStringLen
BY DEF Integers16, Floats, WildFloats, Strings, FiniteRange, FloatRange, Integer, Float, String

LEMMA Wraps == \A n \in Int : int16(n) \in Integers16
<1> TAKE n \in Int
<1> DEFINE r == (n - minInt16) % 2 ^ Width
<1>1. r \in 0 .. 2 ^ Width - 1
  BY Ranges
<1>2. r + minInt16 \in minInt16 .. maxInt16
  BY <1>1, Ranges
<1> QED
  BY <1>2, Made DEF int16

LEMMA Truth == \A b : boolToInt16(b) \in Integers16
<1>1. -1 \in minInt16 .. maxInt16 /\ 0 \in minInt16 .. maxInt16
  BY Ranges
<1> QED
  BY <1>1, Made DEF boolToInt16

LEMMA BitsMade == \A S : FromBits(S) \in Integers16
<1> TAKE S
<1> DEFINE bit(k) == IF k \in S THEN 2 ^ k ELSE 0
           Body0(f) == [k \in 0 .. Width |-> IF k = 0 THEN 0 ELSE f[k - 1] + bit(k - 1)]
           sum == CHOOSE f : f = Body0(f)
           Adds(f, n) == /\ f = [k \in 0 .. n |-> f[k]] /\ f[0] = 0
                         /\ \A k \in 1 .. n : f[k] = f[k - 1] + bit(k - 1)
           good == {n \in Nat : \E f : Adds(f, n)}
           ints == {n \in Nat : n <= Width => sum[n] \in Int}
<1>0. Width \in Nat /\ \A k \in 0 .. Width : bit(k) \in Int
  BY WidthAssumption
<1> HIDE DEF bit
<1>1. 0 \in good
  <2> DEFINE f == [k \in 0 .. 0 |-> 0]
  <2>1. Adds(f, 0)
    OBVIOUS
  <2> QED
    BY <2>1
<1>2. ASSUME NEW n \in Nat, n \in good PROVE n + 1 \in good
  <2>1. PICK f : Adds(f, n)
    BY <1>0, <1>2
  <2> DEFINE g == [k \in 0 .. n + 1 |-> IF k = n + 1 THEN f[n] + bit(n) ELSE f[k]]
  <2>2. g = [k \in 0 .. n + 1 |-> g[k]] /\ g[0] = 0
    BY <2>1
  <2>3. ASSUME NEW k \in 1 .. n + 1 PROVE g[k] = g[k - 1] + bit(k - 1)
    <3>1. k - 1 \in 0 .. n + 1 /\ k - 1 # n + 1 /\ k \in 0 .. n + 1
      OBVIOUS
    <3>2. g[k - 1] = f[k - 1]
      BY <3>1
    <3>3. CASE k = n + 1
      BY <3>2, <3>3
    <3>4. CASE k # n + 1
      <4>1. g[k] = f[k] /\ k \in 1 .. n
        BY <3>1, <3>4
      <4> QED
        BY <2>1, <3>2, <4>1
    <3> QED
      BY <3>3, <3>4
  <2> HIDE DEF g
  <2>4. Adds(g, n + 1)
    BY <2>2, <2>3
  <2> HIDE DEF Adds
  <2> QED
    BY <2>4
<1>3. Nat \subseteq good
  <2> HIDE DEF good
  <2> QED
    BY <1>1, <1>2, NaturalsByStep
<1>4. PICK f : Adds(f, Width)
  BY <1>0, <1>3
<1>5. f = Body0(f)
  <2>1. \A k \in 0 .. Width : f[k] = IF k = 0 THEN 0 ELSE f[k - 1] + bit(k - 1)
    <3> TAKE k \in 0 .. Width
    <3>1. CASE k = 0
      BY <1>4, <3>1
    <3>2. CASE k # 0
      <4>1. k \in 1 .. Width
        BY <1>0, <3>2
      <4>2. f[k] = f[k - 1] + bit(k - 1)
        BY <1>4, <4>1
      <4> QED
        BY <3>2, <4>2
    <3> QED
      BY <3>1, <3>2
  <2> QED
    BY <1>4, <2>1
<1>6. sum = Body0(sum)
  BY <1>5
<1> HIDE DEF sum
<1>7. 0 \in ints
  BY <1>0, <1>6
<1>8. ASSUME NEW n \in Nat, n \in ints PROVE n + 1 \in ints
  BY <1>0, <1>6, <1>8
<1>9. sum[Width] \in Int
  <2>1. Nat \subseteq ints
    <3> HIDE DEF ints
    <3> QED
      BY <1>7, <1>8, NaturalsByStep
  <2> QED
    BY <1>0, <2>1
<1>10. FromBits(S) = int16(sum[Width])
  BY DEF FromBits, sum, bit
<1> QED
  BY <1>9, <1>10, Wraps

LEMMA LogicTyped ==
  ASSUME NEW op \in LogicOps, NEW a, NEW b
  PROVE  Logic(op, a, b) \in Integers16
<1>1. \A S : FromBits(S) \in Integers16
  BY BitsMade
<1>2. op = "AND" \/ op = "OR" \/ op = "XOR" \/ op = "EQV" \/ op = "IMP"
  BY DEF LogicOps
<1> QED
  BY <1>1, <1>2, Truth DEF Logic

-----------------------------------------------------------------------------

LEMMA QuotientIsInt ==
  ASSUME NEW a \in Int, NEW b \in Int, b # 0
  PROVE  Quotient(a, b) \in Int
<1>1. Magnitude(a) \in Int /\ Magnitude(b) \in Nat \ {0}
  BY DEF Magnitude
<1>2. Magnitude(a) \div Magnitude(b) \in Int
  BY <1>1
<1> QED
  BY <1>2 DEF Quotient

LEMMA NearestIsInt ==
  ASSUME NEW a \in Int, NEW b \in Int, b # 0
  PROVE  Nearest(a, b) \in Int
<1> DEFINE n == IF b < 0 THEN -a ELSE a
           d == IF b < 0 THEN -b ELSE b
<1>1. n \in Int /\ d \in Nat \ {0}
  OBVIOUS
<1>2. n \div d \in Int
  BY <1>1
<1> HIDE DEF n, d
<1>3. Nearest(a, b) \in {n \div d, n \div d + 1}
  BY DEF Nearest, n, d
<1> QED
  BY <1>2, <1>3

\* What is rounded is in range or says that it is not.
LEMMA RoundedTyped == \A d \in Int : Rounded(d) \in FloatRange
BY Ranges DEF Rounded, FloatRange, FiniteRange

LEMMA Signs ==
  \A d \in FloatRange : d \in Int /\ Negative(d) \in FloatRange /\ Magnitude(d) \in FloatRange
                    /\ (~ floatingError(d) => d \in FiniteRange)
                    /\ (d \in FiniteRange => ~ floatingError(d) /\ Negative(d) \in FiniteRange /\ Magnitude(d) \in FiniteRange)
BY Ranges DEF FloatRange, FiniteRange, Negative, Magnitude, floatingError, Inf, NaN

LEMMA FloatsTyped ==
  ASSUME NEW a \in FloatRange, NEW b \in FloatRange
  PROVE  /\ FloatPlus(a, b) \in FloatRange
         /\ FloatStar(a, b) \in FloatRange
         /\ b # 0 => FloatSlash(a, b) \in FloatRange
<1>1. /\ a \in Int /\ b \in Int /\ NaN \in FloatRange /\ Inf \in FloatRange /\ -Inf \in FloatRange /\ 0 \in FloatRange
      /\ unit \in Int /\ unit # 0
  BY Ranges, Signs DEF FloatRange, FiniteRange
<1>2. FloatPlus(a, b) \in FloatRange
  BY <1>1, RoundedTyped DEF FloatPlus
<1>3. FloatStar(a, b) \in FloatRange
  <2>1. a * b \in Int
    BY <1>1
  <2>2. Rounded(Nearest(a * b, unit)) \in FloatRange
    BY <1>1, <2>1, NearestIsInt, RoundedTyped
  <2> QED
    BY <1>1, <2>2 DEF FloatStar, SignedInf
<1>4. ASSUME b # 0 PROVE FloatSlash(a, b) \in FloatRange
  <2>1. a * unit \in Int
    BY <1>1
  <2>2. Rounded(Nearest(a * unit, b)) \in FloatRange
    BY <1>1, <1>4, <2>1, NearestIsInt, RoundedTyped
  <2> QED
    BY <1>1, <2>2 DEF FloatSlash, SignedInf
<1> QED
  BY <1>2, <1>3, <1>4

LEMMA DivisionBounded ==
  ASSUME NEW n \in Nat, NEW u \in Nat \ {0}, NEW m \in Nat, n <= u * m
  PROVE  n \div u \in 0 .. m
<1> DEFINE q == n \div u
<1>1. q \in Nat /\ u * q <= n
  OBVIOUS
<1> HIDE DEF q
<1>2. u * m \in Nat /\ u * q \in Nat
  BY <1>1
<1>3. ASSUME q > m PROVE FALSE
  <2>1. q >= m + 1
    BY <1>1, <1>3
  <2>2. PICK j \in Nat : q = m + 1 + j
    BY <1>1, <2>1
  <2>3. u * q = u * m + u + u * j /\ u * j \in Nat
    BY <2>2
  <2> QED
    BY <1>1, <1>2, <2>3
<1> QED
  BY <1>1, <1>3 DEF q

WildNumbers == Integers16 \cup WildFloats

\* Every integer is a float, and the floats that are accepted become integers.
LEMMA AsFloatTyped ==
  /\ \A v \in Integers16 : asFloat(v) \in FiniteRange
  /\ \A v \in WildFloats : asFloat(v) = v.data /\ asFloat(v) \in FloatRange
<1>1. ASSUME NEW v \in Integers16 PROVE asFloat(v) \in FiniteRange
  <2> DEFINE top == maxInt16 + 1
  <2>1. v.data \in Int /\ -top <= v.data /\ v.data <= top /\ top \in Nat /\ isInt(v)
    BY Taken, Ranges DEF isInt
  <2>2. PICK j, k \in Nat : top = v.data + j /\ top = k - v.data
    <3>1. top - v.data \in Nat /\ top + v.data \in Nat
      BY <2>1
    <3> QED
      BY <2>1, <3>1
  <2> HIDE DEF top
  <2>3. /\ unit * top = unit * v.data + unit * j /\ unit * top = unit * k - unit * v.data
        /\ unit * j \in Nat /\ unit * k \in Nat /\ unit * v.data \in Int
    BY <2>1, <2>2, Ranges
  <2>4. unit * top \in Nat /\ unit * top <= floatMax /\ floatMax \in Nat
    BY Ranges DEF top
  <2>5. unit * v.data \in FiniteRange
    BY <2>3, <2>4 DEF FiniteRange
  <2> QED
    BY <2>1, <2>5 DEF asFloat
<1>2. ASSUME NEW v \in WildFloats PROVE asFloat(v) = v.data /\ asFloat(v) \in FloatRange
  BY Taken DEF asFloat, isInt
<1> QED
  BY <1>1, <1>2

LEMMA AsInt16Typed ==
  ASSUME NEW v \in WildNumbers, fits16(v)
  PROVE  asInt16(v) \in minInt16 .. maxInt16
<1>1. CASE v \in Integers16
  BY <1>1, Taken DEF asInt16, isInt
<1>2. CASE v \in WildFloats
  <2> DEFINE d == v.data
             q == Magnitude(d) \div unit
  <2>1. ~ isInt(v) /\ d \in unit * minInt16 .. unit * maxInt16
    BY <1>2, Taken DEF fits16, isInt
  <2>2. /\ minInt16 = -(maxInt16 + 1) /\ maxInt16 \in Nat /\ unit \in Nat \ {0}
        /\ unit * maxInt16 \in Nat /\ unit * (maxInt16 + 1) \in Nat
        /\ unit * minInt16 = -(unit * (maxInt16 + 1)) /\ unit * minInt16 \in Int
    BY Ranges
  <2>3. d \in Int
    BY <2>1, <2>2
  <2>4. Quotient(d, unit) = IF d < 0 THEN -q ELSE q
    BY <2>2, <2>3 DEF Quotient, Magnitude
  <2>5. CASE d < 0
    <3>1. Magnitude(d) \in Nat /\ Magnitude(d) <= unit * (maxInt16 + 1)
      BY <2>1, <2>2, <2>3, <2>5 DEF Magnitude
    <3>2. q \in 0 .. maxInt16 + 1
      BY <3>1, <2>2, DivisionBounded
    <3> HIDE DEF q
    <3> QED
      BY <2>1, <2>2, <2>4, <2>5, <3>2 DEF asInt16
  <2>6. CASE ~ d < 0
    <3>1. Magnitude(d) \in Nat /\ Magnitude(d) <= unit * maxInt16
      BY <2>1, <2>2, <2>3, <2>6 DEF Magnitude
    <3>2. q \in 0 .. maxInt16
      BY <3>1, <2>2, DivisionBounded
    <3> HIDE DEF q
    <3> QED
      BY <2>1, <2>2, <2>4, <2>6, <3>2 DEF asInt16
  <2> QED
    BY <2>5, <2>6
<1> QED
  BY <1>1, <1>2 DEF WildNumbers

\* Every number that is not negative has a square root.
LEMMA RootTyped ==
  \A a \in FloatRange : ~ (a < 0) => Root(a) \in FloatRange /\ (a \in FiniteRange => Root(a) \in FiniteRange)
<1> SUFFICES ASSUME NEW a \in FloatRange, ~ (a < 0) PROVE Root(a) \in FloatRange /\ (a \in FiniteRange => Root(a) \in FiniteRange)
  OBVIOUS
<1>1. CASE floatingError(a)
  BY <1>1, Signs DEF Root
<1>2. CASE ~ floatingError(a)
  <2> DEFINE s == 4 * a * unit
             above == {d \in Nat : s < (2 * d + 1) * (2 * d + 1)}
             fine(d) == s < (2 * d + 1) * (2 * d + 1) /\ (d = 0 \/ s >= (2 * d - 1) * (2 * d - 1))
  <2>1. a \in Nat /\ a <= floatMax /\ unit \in Nat /\ unit <= floatMax /\ floatMax \in Nat
    BY <1>2, Ranges, Signs DEF FiniteRange
  <2>2. s \in Nat
    BY <2>1
  <2>3. floatMax \in above
    <3>1. PICK x, y \in Nat : floatMax = a + x /\ floatMax = unit + y
      <4>1. floatMax - a \in Nat /\ floatMax - unit \in Nat
        BY <2>1
      <4> QED
        BY <2>1, <4>1
    <3>2. floatMax * floatMax = a * unit + a * y + x * floatMax
      <4>1. floatMax * floatMax = a * floatMax + x * floatMax
        BY <2>1, <3>1
      <4>2. a * floatMax = a * unit + a * y
        BY <2>1, <3>1
      <4> QED
        BY <2>1, <3>1, <4>1, <4>2
    <3>3. a * y \in Nat /\ x * floatMax \in Nat /\ a * unit \in Nat
      BY <2>1, <3>1
    <3>4. (2 * floatMax + 1) * (2 * floatMax + 1) = 4 * (floatMax * floatMax) + 4 * floatMax + 1
      BY <2>1
    <3>5. s = 4 * (a * unit)
      BY <2>1
    <3> QED
      BY <2>1, <3>2, <3>3, <3>4, <3>5
  <2>4. PICK d \in above : \A e \in above : ~ (<<e, d>> \in OpToRel(<, Nat))
    BY <2>3, WFMin, NatLessThanWellFounded
  <2>5. d \in Nat /\ s < (2 * d + 1) * (2 * d + 1)
    OBVIOUS
  <2>6. d <= floatMax
    <3>1. ~ (<<floatMax, d>> \in OpToRel(<, Nat))
      <4> HIDE DEF above
      <4> QED
        BY <2>3, <2>4
    <3> HIDE DEF above
    <3> QED
      BY <2>1, <2>5, <3>1 DEF OpToRel
  <2>7. d = 0 \/ s >= (2 * d - 1) * (2 * d - 1)
    <3>1. SUFFICES ASSUME d # 0 PROVE s >= (2 * d - 1) * (2 * d - 1)
      OBVIOUS
    <3>2. d - 1 \in Nat /\ d - 1 < d /\ 2 * (d - 1) + 1 = 2 * d - 1
      BY <2>5, <3>1
    <3>3. d - 1 \notin above
      BY <2>4, <2>5, <3>2 DEF OpToRel
    <3>4. (2 * d - 1) * (2 * d - 1) \in Int
      BY <2>5
    <3> QED
      BY <2>2, <3>2, <3>3, <3>4
  <2>8. \E e \in 0 .. floatMax : fine(e)
    BY <2>1, <2>5, <2>6, <2>7
  <2>9. Root(a) = CHOOSE e \in 0 .. floatMax : fine(e)
    BY <1>2 DEF Root
  <2> HIDE DEF fine
  <2>10. Root(a) \in 0 .. floatMax
    BY <2>8, <2>9
  <2> QED
    BY <2>1, <2>10 DEF FloatRange, FiniteRange
<1> QED
  BY <1>1, <1>2

-----------------------------------------------------------------------------
(* Operators.                                                               *)

Yields(r, S) == r.kind \in {"push", "arith", "error"} /\ (r.kind # "error" => r.val \in S)

LEMMA Results ==
  /\ \A v, S : v \in S => Yields(Push(v), S) /\ Yields(Arith(v), S)
  /\ \A S : Yields(Error, S)
  /\ \A r, S, T : Yields(r, S) /\ S \subseteq T => Yields(r, T)
BY DEF Yields, Push, Arith, Error

LEMMA Zeros == Integer(0) \in Integers16 /\ Float(0) \in Floats /\ Floats \subseteq WildFloats
<1>1. 0 \in minInt16 .. maxInt16 /\ 0 \in FiniteRange
  BY Ranges DEF FiniteRange
<1> QED
  BY <1>1, Made DEF WildFloats

LEMMA IntArithmeticTyped ==
  ASSUME NEW op \in ArithmeticOps, NEW a \in Int, NEW b \in Int
  PROVE  Yields(IntArithmetic(op, a, b), Integers16)
<1>1. op = "PLUS" \/ op = "MINUS" \/ op = "STAR" \/ (op = "SLASH" /\ b = 0) \/ (op = "SLASH" /\ b # 0)
  BY DEF ArithmeticOps
<1>2. CASE op = "SLASH" /\ b # 0
  <2>1. int16(Quotient(a, b)) \in Integers16
    BY <1>2, QuotientIsInt, Wraps
  <2>2. IntArithmetic(op, a, b) = Push(int16(Quotient(a, b)))
    BY <1>2 DEF IntArithmetic
  <2> QED
    BY <2>1, <2>2, Results
<1>3. a + b \in Int /\ a - b \in Int /\ a * b \in Int
  OBVIOUS
<1>4. int16(a + b) \in Integers16 /\ int16(a - b) \in Integers16 /\ int16(a * b) \in Integers16
  BY <1>3, Wraps
<1> QED
  BY <1>1, <1>2, <1>4, Results, Zeros DEF IntArithmetic

LEMMA Checked16 == \A d \in FloatRange : Yields(checkFloatingStatus(d), Floats)
BY Results, Zeros, Signs, Made DEF checkFloatingStatus

LEMMA FloatArithmeticTyped ==
  ASSUME NEW op \in ArithmeticOps, NEW a \in FloatRange, NEW b \in FloatRange
  PROVE  Yields(FloatArithmetic(op, a, b), IF op = "STAR" THEN WildFloats ELSE Floats)
<1>1. CASE op = "PLUS"
  BY <1>1, FloatsTyped, Checked16 DEF FloatArithmetic
<1>2. CASE op = "MINUS"
  <2>1. Negative(b) \in FloatRange
    BY Signs
  <2> QED
    BY <1>2, <2>1, FloatsTyped, Checked16 DEF FloatArithmetic
<1>3. CASE op = "STAR"
  <2>1. Float(FloatStar(a, b)) \in WildFloats
    BY FloatsTyped, Made
  <2> QED
    BY <1>3, <2>1, Results DEF FloatArithmetic
<1>4. CASE op = "SLASH"
  BY <1>4, FloatsTyped, Checked16, Results, Zeros DEF FloatArithmetic
<1> QED
  BY <1>1, <1>2, <1>3, <1>4 DEF ArithmeticOps

LEMMA NumberKinds ==
  /\ \A v \in WildNumbers : Numeric(v) /\ v.tok # "STRING" /\ (isInt(v) => v \in Integers16) /\ (~ isInt(v) => v \in WildFloats)
                          /\ asFloat(v) \in FloatRange
  /\ \A v \in Integers16 : isInt(v) /\ v.data \in Int
  /\ \A v \in WildFloats : ~ isInt(v)
  /\ \A v \in Strings : ~ Numeric(v) /\ v.tok = "STRING"
BY Taken, Ranges, AsFloatTyped DEF WildNumbers, Numeric, isInt, FloatRange

LEMMA NumbersApplied ==
  ASSUME NEW op \in ArithmeticOps \cup NumberTests \cup LogicOps, NEW a \in WildNumbers, NEW b \in WildNumbers
  PROVE  Yields(Binary(op, a, b), IF op = "STAR" THEN WildNumbers ELSE Integers16 \cup Floats)
<1> DEFINE R == IF op = "STAR" THEN WildNumbers ELSE Integers16 \cup Floats
           ints == isInt(a) /\ isInt(b)
           x == IF ints THEN a.data ELSE asFloat(a)
           y == IF ints THEN b.data ELSE asFloat(b)
<1>1. Integers16 \subseteq R /\ Floats \subseteq R /\ (op = "STAR" => WildFloats \subseteq R)
  BY Zeros DEF WildNumbers
<1>2. Numeric(a) /\ Numeric(b)
  BY NumberKinds
<1> HIDE DEF R
<1>0. op \in ArithmeticOps \cup NumberTests =>
        Binary(op, a, b) =
          IF op \in NumberTests
          THEN Push(boolToInt16(Compares(op, x, y, ints \/ NaN \notin {x, y})))
          ELSE IF ints THEN IntArithmetic(op, x, y) ELSE FloatArithmetic(op, x, y)
  <2> HAVE op \in ArithmeticOps \cup NumberTests
  <2>1. op \notin LogicOps
    BY DEF ArithmeticOps, NumberTests, LogicOps
  <2> QED
    BY <1>2, <2>1, Zenon DEF Binary
<1>3. CASE op \in LogicOps
  <2>1. Binary(op, a, b) = IF fits16(a) /\ fits16(b) THEN Push(Logic(op, asInt16(a), asInt16(b))) ELSE Error
    BY <1>2, <1>3 DEF Binary, LogicOps, ArithmeticOps, NumberTests
  <2> QED
    BY <1>1, <1>3, <2>1, LogicTyped, Results DEF R
<1>4. CASE op \in NumberTests
  <2>1. \E p : Binary(op, a, b) = Push(boolToInt16(p))
    BY <1>0, <1>4
  <2> QED
    BY <1>1, <2>1, Truth, Results DEF R
<1>5. CASE op \in ArithmeticOps
  <2>1. Binary(op, a, b) = IF ints THEN IntArithmetic(op, x, y) ELSE FloatArithmetic(op, x, y)
    BY <1>0, <1>5 DEF ArithmeticOps, NumberTests
  <2>2. CASE ints
    <3>1. x \in Int /\ y \in Int
      BY <2>2, NumberKinds
    <3> QED
      BY <1>1, <1>5, <2>1, <2>2, <3>1, IntArithmeticTyped, Results DEF R
  <2>3. CASE ~ ints
    <3>1. x \in FloatRange /\ y \in FloatRange
      BY <2>3, NumberKinds
    <3>2. Yields(FloatArithmetic(op, x, y), IF op = "STAR" THEN WildFloats ELSE Floats)
      BY <1>5, <3>1, FloatArithmeticTyped
    <3> QED
      BY <1>1, <2>1, <2>3, <3>2, Results DEF R
  <2> QED
    BY <2>2, <2>3
<1> QED
  BY <1>3, <1>4, <1>5

LEMMA StringsApplied ==
  ASSUME NEW op \in StringTests \cup {"CONCAT"}, NEW a \in Strings, NEW b \in Strings
  PROVE  Yields(Binary(op, a, b), IF op = "CONCAT" THEN Strings ELSE Integers16)
<1>1. /\ op \notin ArithmeticOps \cup NumberTests /\ op \notin LogicOps /\ op \notin {"APPROX"}
      /\ a.tok = "STRING" /\ b.tok = "STRING"
  BY NumberKinds DEF StringTests, ArithmeticOps, NumberTests, LogicOps
<1>2. Binary(op, a, b) =
        IF op \in StringTests THEN Push(boolToInt16(Compares(op, a.data, b.data, TRUE)))
        ELSE IF a.data + b.data <= maxStringLen THEN Push(String(a.data + b.data)) ELSE Error
  BY <1>1, Zenon DEF Binary
<1>3. CASE op \in StringTests
  <2>1. op # "CONCAT"
    BY <1>3 DEF StringTests
  <2>2. Binary(op, a, b) = Push(boolToInt16(Compares(op, a.data, b.data, TRUE)))
    BY <1>2, <1>3
  <2>3. boolToInt16(Compares(op, a.data, b.data, TRUE)) \in Integers16
    BY Truth
  <2>4. \E v \in Integers16 : Binary(op, a, b) = Push(v)
    BY <2>2, <2>3, Zenon
  <2>5. Yields(Binary(op, a, b), Integers16)
    BY <2>4, Results
  <2> QED
    BY <2>1, <2>5
<1>4. CASE op = "CONCAT"
  <2>1. a.data \in Nat /\ b.data \in Nat /\ maxStringLen \in Nat
    BY Taken, Ranges
  <2>2. a.data + b.data <= maxStringLen => String(a.data + b.data) \in Strings
    BY <2>1, Made
  <2>3. op \notin StringTests
    BY <1>4 DEF StringTests
  <2> QED
    BY <1>2, <1>4, <2>2, <2>3, Results
<1> QED
  BY <1>3, <1>4

LEMMA Between ==
  ASSUME NEW a \in Strings, NEW b \in Strings
  PROVE  Binary("APPROX", a, b) = Fatal
BY NumberKinds DEF Binary, NumberTests, LogicOps

\* One operand.
LEMMA UnaryApplied ==
  ASSUME NEW op \in UnaryOps, NEW a, IF op = "LEN" THEN a \in Strings ELSE a \in WildNumbers
  PROVE  /\ Yields(Unary(op, a), IF op \in {"UNEG", "ABS", "SQR"} THEN WildNumbers ELSE Integers16)
         /\ a \in Integers16 \cup Floats => Yields(Unary(op, a), Integers16 \cup Floats)
<1>1. Integers16 \subseteq WildNumbers /\ Floats \subseteq WildNumbers /\ WildFloats \subseteq WildNumbers
  BY Zeros DEF WildNumbers
<1>2. CASE op = "LEN"
  <2>1. a.tok = "STRING" /\ a.data \in 0 .. maxStringLen
    BY <1>2, Taken
  <2>2. Integer(a.data) \in Integers16
    <3>1. a.data \in minInt16 .. maxInt16
      BY <2>1, Ranges
    <3> QED
      BY <3>1, Made
  <2>3. Unary(op, a) = Push(Integer(a.data))
    BY <1>2, <2>1 DEF Unary
  <2>4. Yields(Unary(op, a), Integers16)
    BY <2>2, <2>3, Results
  <2> QED
    BY <1>2, <2>4, Results
<1>3. CASE op # "LEN"
  <2>1. a \in WildNumbers /\ a.tok # "STRING"
    BY <1>3, NumberKinds
  <2>2. /\ a \in Integers16 => isInt(a) /\ a.data \in Int /\ a.data \in minInt16 .. maxInt16
        /\ ~ (a \in Integers16) => a \in WildFloats /\ ~ isInt(a) /\ a.data \in FloatRange /\ asFloat(a) = a.data
        /\ a \in Floats => a \in WildFloats /\ a.data \in FiniteRange /\ ~ isInt(a)
        /\ asFloat(a) \in FloatRange
        /\ a \in Integers16 \cup Floats => asFloat(a) \in FiniteRange
    BY <2>1, Taken, NumberKinds, AsFloatTyped, Zeros DEF WildNumbers
  <2>3. CASE op = "NOT"
    <3>1. Unary(op, a) = IF fits16(a) THEN Push(boolToInt16(asInt16(a) = 0)) ELSE Error
      BY <2>1, <2>3 DEF Unary
    <3> QED
      BY <2>3, <3>1, Truth, Results
  <2>4. CASE op = "UNEG"
    <3>1. Unary(op, a) = Push(IF isInt(a) THEN int16(-a.data) ELSE Float(Negative(a.data)))
      BY <2>1, <2>4 DEF Unary
    <3>2. CASE isInt(a)
      <4>1. a.data \in Int /\ -a.data \in Int
        BY <2>2, <3>2
      <4> QED
        BY <1>1, <2>4, <3>1, <3>2, <4>1, Wraps, Results
    <3>3. CASE ~ isInt(a)
      <4>1. Float(Negative(a.data)) \in WildFloats /\ (a \in Floats => Float(Negative(a.data)) \in Floats)
        BY <2>2, <3>3, Signs, Made
      <4> QED
        BY <1>1, <2>2, <2>4, <3>1, <3>3, <4>1, Results
    <3> QED
      BY <3>2, <3>3
  <2>5. CASE op = "ABS"
    <3>1. Unary(op, a) = IF isInt(a)
                         THEN IF a.data = minInt16 THEN Error ELSE Push(Integer(Magnitude(a.data)))
                         ELSE Push(Float(Magnitude(a.data)))
      BY <2>1, <2>5 DEF Unary
    <3>2. CASE isInt(a)
      <4>1. a.data # minInt16 => Magnitude(a.data) \in minInt16 .. maxInt16
        BY <2>2, <3>2, Ranges DEF Magnitude
      <4> QED
        BY <1>1, <2>5, <3>1, <3>2, <4>1, Made, Results
    <3>3. CASE ~ isInt(a)
      <4>1. Float(Magnitude(a.data)) \in WildFloats /\ (a \in Floats => Float(Magnitude(a.data)) \in Floats)
        BY <2>2, <3>3, Signs, Made
      <4> QED
        BY <1>1, <2>2, <2>5, <3>1, <3>3, <4>1, Results
    <3> QED
      BY <3>2, <3>3
  <2>6. CASE op = "SQR"
    <3>1. Unary(op, a) = IF asFloat(a) < 0 THEN Arith(Float(0)) ELSE Push(Float(Root(asFloat(a))))
      BY <2>1, <2>6 DEF Unary
    <3>2. asFloat(a) < 0 \/ Float(Root(asFloat(a))) \in WildFloats
      BY <2>2, RootTyped, Made
    <3>3. a \in Integers16 \cup Floats => asFloat(a) < 0 \/ Float(Root(asFloat(a))) \in Floats
      BY <2>2, RootTyped, Made
    <3> QED
      BY <1>1, <2>6, <3>1, <3>2, <3>3, Results, Zeros
  <2> QED
    BY <1>3, <2>3, <2>4, <2>5, <2>6 DEF UnaryOps
<1> QED
  BY <1>2, <1>3

\* What an item of the kind k reads as.
Reads(v, k) ==
  /\ IsNumber(k) => v \in WildNumbers /\ (~ IsWild(k) => v \in Integers16 \cup Floats)
  /\ IsText(k)   => v \in Strings

LEMMA KindsDiffer ==
  /\ Finite # Wild /\ Finite # AString /\ Wild # AString
  /\ \A v : Is(v, Finite) <=> v \in Integers16 \cup Floats
  /\ \A v : Is(v, Wild) <=> v \in WildNumbers
  /\ \A v : Is(v, AString) <=> v \in Strings
<1>1. Finite.tok # Wild.tok /\ Finite.tok # AString.tok /\ Wild.tok # AString.tok
  BY DEF Finite, Wild, AString
<1>2. Finite # Wild /\ Finite # AString /\ Wild # AString
  BY <1>1
<1> QED
  BY <1>2 DEF Is, WildNumbers

\* An operator that finds operands that suit it leaves a result of the kind foreseen, or an
\* error; only == finds strings where it wants numbers.
LEMMA Applied ==
  ASSUME NEW op \in Operators, NEW ks, NEW vs,
         DOMAIN ks = 1 .. Arity(op), Suits(op, ks), \A k \in 1 .. Arity(op) : Reads(vs[k], ks[k])
  PROVE  LET r == Apply(op, vs)
         IN  \/ r.kind \in {"push", "arith"} /\ Is(r.val, Left(op, ks))
             \/ r.kind = "error"
             \/ r = Fatal /\ op = "APPROX" /\ vs[1] \in Strings /\ vs[2] \in Strings
<1> DEFINE r == Apply(op, vs)
<1>0. ASSUME NEW S, Yields(r, S), \A v \in S : Is(v, Left(op, ks))
      PROVE  \/ r.kind \in {"push", "arith"} /\ Is(r.val, Left(op, ks))
             \/ r.kind = "error"
  BY <1>0 DEF Yields
<1>1. CASE op \in UnaryOps
  <2>1. Arity(op) = 1 /\ r = Unary(op, vs[1]) /\ op # "CONCAT" /\ op # "STAR"
    BY <1>1 DEF Arity, Apply, UnaryOps
  <2>2. Reads(vs[1], ks[1]) /\ DOMAIN ks = 1 .. 1 /\ 1 \in DOMAIN ks
    BY <2>1
  <2>3. CASE op = "LEN"
    <3>1. vs[1] \in Strings
      BY <2>2, <2>3 DEF Suits, Texts, Reads
    <3>2. Yields(r, Integers16)
      BY <1>1, <2>1, <2>3, <3>1, UnaryApplied
    <3>3. Left(op, ks) = Finite
      BY <2>3 DEF Left
    <3> QED
      BY <1>0, <3>2, <3>3, KindsDiffer
  <2>4. CASE op # "LEN"
    <3>1. IsNumber(ks[1])
      BY <1>1, <2>1, <2>2, <2>4 DEF Suits, Texts, Numbers, UnaryOps, StringTests
    <3>2. vs[1] \in WildNumbers /\ (~ IsWild(ks[1]) => vs[1] \in Integers16 \cup Floats)
      BY <2>2, <3>1 DEF Reads
    <3>3. /\ Yields(r, IF op \in {"UNEG", "ABS", "SQR"} THEN WildNumbers ELSE Integers16)
          /\ ~ IsWild(ks[1]) => Yields(r, Integers16 \cup Floats)
      BY <1>1, <2>1, <2>4, <3>2, UnaryApplied
    <3>4. CASE op \in {"UNEG", "ABS", "SQR"} /\ IsWild(ks[1])
      <4>1. Left(op, ks) = Wild
        BY <2>1, <3>4 DEF Left
      <4> QED
        BY <1>0, <3>3, <3>4, <4>1, KindsDiffer
    <3>5. CASE ~ (op \in {"UNEG", "ABS", "SQR"} /\ IsWild(ks[1]))
      <4>1. Left(op, ks) = Finite
        BY <2>1, <3>5 DEF Left
      <4>2. Yields(r, Integers16 \cup Floats)
        BY <3>3, <3>5, Results
      <4> QED
        BY <1>0, <4>1, <4>2, KindsDiffer
    <3> QED
      BY <3>4, <3>5
  <2> QED
    BY <1>0, <2>3, <2>4
<1>2. CASE op \notin UnaryOps
  <2>1. Arity(op) = 2 /\ r = Binary(op, vs[1], vs[2]) /\ op \in BinaryOps
    BY <1>2 DEF Arity, Apply, Operators, UnaryOps, BinaryOps, ArithmeticOps, NumberTests, StringTests, LogicOps
  <2>2. Reads(vs[1], ks[1]) /\ Reads(vs[2], ks[2]) /\ 1 \in DOMAIN ks /\ 2 \in DOMAIN ks
    BY <2>1
  <2>3. CASE Texts(ks) /\ op \in StringTests \cup {"CONCAT", "APPROX"}
    <3>1. vs[1] \in Strings /\ vs[2] \in Strings
      BY <2>2, <2>3 DEF Texts, Reads
    <3>2. CASE op = "APPROX"
      BY <2>1, <3>1, <3>2, Between
    <3>3. CASE op = "CONCAT"
      <4>1. Yields(r, Strings) /\ Left(op, ks) = AString
        BY <2>1, <3>1, <3>3, StringsApplied DEF Left
      <4> QED
        BY <1>0, <4>1, KindsDiffer
    <3>4. CASE op \in StringTests
      <4>1. op # "CONCAT" /\ Left(op, ks) = Finite
        BY <3>4 DEF StringTests, Left
      <4>2. Yields(r, Integers16)
        BY <2>1, <3>1, <3>4, <4>1, StringsApplied
      <4> QED
        BY <1>0, <4>1, <4>2, KindsDiffer
    <3> QED
      BY <2>3, <3>2, <3>3, <3>4
  <2>4. CASE Numbers(ks) /\ op \notin StringTests \cup {"CONCAT", "LEN"}
    <3>1. vs[1] \in WildNumbers /\ vs[2] \in WildNumbers
      BY <2>2, <2>4 DEF Numbers, Reads
    <3>2. op \in ArithmeticOps \cup NumberTests \cup LogicOps
      BY <2>1, <2>4 DEF BinaryOps
    <3>3. Yields(r, IF op = "STAR" THEN WildNumbers ELSE Integers16 \cup Floats)
      BY <2>1, <3>1, <3>2, NumbersApplied
    <3>4. op \notin {"UNEG", "ABS", "SQR"} /\ op # "CONCAT"
      BY <1>2, <2>4 DEF UnaryOps
    <3>5. Left(op, ks) = IF op = "STAR" THEN Wild ELSE Finite
      BY <3>4 DEF Left
    <3> QED
      BY <1>0, <3>3, <3>5, KindsDiffer
  <2> QED
    BY <1>2, <2>3, <2>4 DEF Suits, UnaryOps
<1> QED
  BY <1>1, <1>2

-----------------------------------------------------------------------------
(* The stack.                                                               *)

IsSequence(s) == Len(s) \in Nat /\ s = [k \in 1 .. Len(s) |-> s[k]]

LEMMA SequencesAre == \A s : IsSequence(s) => s \in Seq({s[k] : k \in 1 .. Len(s)}) /\ DOMAIN s = 1 .. Len(s)
BY DEF IsSequence

LEMMA Appended ==
  ASSUME NEW s, NEW e, IsSequence(s)
  PROVE  /\ IsSequence(Append(s, e)) /\ Len(Append(s, e)) = Len(s) + 1
         /\ \A k \in 1 .. Len(s) : Append(s, e)[k] = s[k]
         /\ Append(s, e)[Len(s) + 1] = e
<1> DEFINE S == {s[k] : k \in 1 .. Len(s)} \cup {e}
<1>1. s \in Seq(S)
  <2>1. s \in [1 .. Len(s) -> S] /\ Len(s) \in Nat
    BY DEF IsSequence
  <2> HIDE DEF S
  <2> QED
    BY <2>1
<1>2. e \in S
  OBVIOUS
<1> HIDE DEF S
<1>3. Append(s, e) \in Seq(S) /\ Len(Append(s, e)) = Len(s) + 1
  BY <1>1, <1>2
<1>4. IsSequence(Append(s, e))
  <2> DEFINE t == Append(s, e)
  <2> HIDE DEF t, S
  <2>1. t \in Seq(S)
    BY <1>3 DEF t
  <2>2. Len(t) \in Nat /\ t = [k \in 1 .. Len(t) |-> t[k]]
    BY <2>1
  <2> QED
    BY <2>2 DEF IsSequence, t
<1> QED
  BY <1>1, <1>2, <1>3, <1>4

LEMMA Cut ==
  ASSUME NEW s, IsSequence(s), NEW n \in 0 .. Len(s)
  PROVE  /\ IsSequence(SubSeq(s, 1, Len(s) - n)) /\ Len(SubSeq(s, 1, Len(s) - n)) = Len(s) - n
         /\ \A k \in 1 .. Len(s) - n : SubSeq(s, 1, Len(s) - n)[k] = s[k]
BY SequencesAre DEF IsSequence

LEMMA ShapeSteps ==
  ASSUME NEW c, NEW d, Len(c[d]) \in Nat
  PROVE  /\ Shapes(c, d)[0] = <<>>
         /\ \A k \in 1 .. Len(c[d]) : Shapes(c, d)[k] = After(Shapes(c, d)[k - 1], c[d][k], Targets(c, d, k))
<1> DEFINE len == Len(c[d])
           Step(s, k) == After(s, c[d][k], Targets(c, d, k))
           Builds(f) == [k \in 0 .. len |-> IF k = 0 THEN <<>> ELSE Step(f[k - 1], k)]
           shape == CHOOSE f : f = Builds(f)
           Goes(f, n) == /\ f = [k \in 0 .. n |-> f[k]] /\ f[0] = <<>>
                         /\ \A k \in 1 .. n : f[k] = Step(f[k - 1], k)
           good == {n \in Nat : \E f : Goes(f, n)}
<1> HIDE DEF Step
<1>1. 0 \in good
  <2> DEFINE f == [k \in 0 .. 0 |-> <<>>]
  <2>1. Goes(f, 0)
    OBVIOUS
  <2> QED
    BY <2>1
<1>2. ASSUME NEW n \in Nat, n \in good PROVE n + 1 \in good
  <2>1. PICK f : Goes(f, n)
    BY <1>2
  <2> DEFINE g == [k \in 0 .. n + 1 |-> IF k = n + 1 THEN Step(f[n], n + 1) ELSE f[k]]
  <2>2. g = [k \in 0 .. n + 1 |-> g[k]] /\ g[0] = <<>>
    BY <2>1
  <2>3. ASSUME NEW k \in 1 .. n + 1 PROVE g[k] = Step(g[k - 1], k)
    <3>1. k - 1 \in 0 .. n + 1 /\ k - 1 # n + 1 /\ k \in 0 .. n + 1
      OBVIOUS
    <3>2. g[k - 1] = f[k - 1]
      BY <3>1
    <3>3. CASE k = n + 1
      BY <3>2, <3>3
    <3>4. CASE k # n + 1
      <4>1. g[k] = f[k] /\ k \in 1 .. n
        BY <3>1, <3>4
      <4> QED
        BY <2>1, <3>2, <4>1
    <3> QED
      BY <3>3, <3>4
  <2> HIDE DEF g
  <2>4. Goes(g, n + 1)
    BY <2>2, <2>3
  <2> HIDE DEF Goes
  <2> QED
    BY <2>4
<1>3. Nat \subseteq good
  <2> HIDE DEF good
  <2> QED
    BY <1>1, <1>2, NaturalsByStep
<1>4. PICK f : Goes(f, len)
  BY <1>3
<1>5. f = Builds(f)
  <2>1. \A k \in 0 .. len : f[k] = IF k = 0 THEN <<>> ELSE Step(f[k - 1], k)
    <3> TAKE k \in 0 .. len
    <3>1. CASE k = 0
      BY <1>4, <3>1
    <3>2. CASE k # 0
      <4>1. k \in 1 .. len
        BY <3>2
      <4>2. f[k] = Step(f[k - 1], k)
        BY <1>4, <4>1
      <4> QED
        BY <3>2, <4>2
    <3> QED
      BY <3>1, <3>2
  <2> QED
    BY <1>4, <2>1
<1>6. shape = Builds(shape)
  BY <1>5
<1> HIDE DEF shape
<1>7. Shapes(c, d) = shape
  BY DEF Shapes, shape, Step
<1>8. shape[0] = <<>>
  BY <1>6
<1>9. ASSUME NEW k \in 1 .. len PROVE shape[k] = Step(shape[k - 1], k)
  <2>1. k \in 0 .. len /\ k # 0
    OBVIOUS
  <2>2. shape[k] = Builds(shape)[k]
    BY <1>6
  <2> QED
    BY <2>1, <2>2
<1> QED
  BY <1>7, <1>8, <1>9 DEF Step

-----------------------------------------------------------------------------

IsKind(k) ==
  \/ k \in {Finite, Wild, AString} \cup Integers16 \cup Floats \cup Strings \cup Scalars \cup DOMAIN Dims
  \/ k.tok \in Functions

IsShape(shape) == IsSequence(shape) /\ \A k \in 1 .. Len(shape) : IsKind(shape[k])

Fitting(st, shape) ==
  Len(st) = Len(shape) /\ st = [k \in 1 .. Len(shape) |-> st[k]] /\ \A k \in 1 .. Len(shape) : Is(st[k], shape[k])

\* The stack that the token list foresees is one of kinds: the inductive invariant.
StatementInv == TypeOK /\ IsShape(Shapes(code, side)[idx - 1]) /\ OnlyApproxIsFatal

\* Symbols and tokens are no kinds of results: they stand for themselves.
LEMMA Themselves ==
  /\ \A k : k.tok \in {"INTEGER", "FLOAT", "STRING"} \cup Variables \cup Functions => \A item : Is(item, k) <=> item = k
  /\ \A k \in Scalars \cup DOMAIN Dims : k.tok \in Variables
<1>1. Finite.tok = "FINITE" /\ Wild.tok = "WILD" /\ AString.tok = "TEXT"
  BY DEF Finite, Wild, AString
<1>2. \A k \in Scalars \cup DOMAIN Dims : k.tok \in Variables
  BY SymbolAssumption DEF SymbolsAreShaped
<1>3. ASSUME NEW k, k.tok \in {"INTEGER", "FLOAT", "STRING"} \cup Variables \cup Functions
      PROVE  \A item : Is(item, k) <=> item = k
  <2>1. k # Finite /\ k # Wild /\ k # AString
    BY <1>1, <1>3 DEF Variables, Functions
  <2> QED
    BY <2>1 DEF Is
<1> QED
  BY <1>2, <1>3

LEMMA ReadOf ==
  ASSUME IsFrame(args), IsMemory(mem), NEW item, NEW k, IsKind(k), Is(item, k)
  PROVE  Reads(Value(item, mem), k)
<1> DEFINE v == Value(item, mem)
<1>1. \A x \in WildNumbers \cup Strings : x.tok \notin Variables
  BY NumberKinds DEF WildNumbers, Variables, Numeric
<1>2. CASE k \in {Finite, Wild, AString}
  <2>1. item \in WildNumbers \cup Strings
    BY <1>2, KindsDiffer, Zeros DEF WildNumbers
  <2>2. v = item
    BY <1>1, <2>1 DEF Value
  <2>3. k \notin Scalars
    <3>1. k.tok \notin Variables
      BY <1>2 DEF Finite, Wild, AString, Variables
    <3> QED
      BY <3>1, Themselves
  <2>4. CASE k = Finite
    <3>1. ~ IsText(k) /\ item \in Integers16 \cup Floats
      BY <2>3, <2>4, KindsDiffer DEF IsText, Finite
    <3> QED
      BY <2>2, <3>1, Zeros DEF Reads, WildNumbers
  <2>5. CASE k = Wild
    <3>1. ~ IsText(k) /\ item \in WildNumbers /\ IsWild(k)
      BY <2>3, <2>5, KindsDiffer DEF IsText, Wild, IsWild
    <3> QED
      BY <2>2, <3>1 DEF Reads
  <2>6. CASE k = AString
    <3>1. ~ IsNumber(k) /\ item \in Strings
      BY <2>3, <2>6, KindsDiffer DEF IsNumber, AString
    <3> QED
      BY <2>2, <3>1 DEF Reads
  <2> QED
    BY <1>2, <2>4, <2>5, <2>6
<1>3. CASE k \in Integers16 \cup Floats \cup Strings
  <2>1. k.tok \in {"INTEGER", "FLOAT", "STRING"} /\ (k.tok = "STRING" <=> k \in Strings) /\ k \in WildNumbers \cup Strings
    BY <1>3, Taken, Zeros DEF WildNumbers
  <2>2. item = k
    BY <2>1, Themselves
  <2>3. v = k
    BY <1>1, <2>1, <2>2 DEF Value
  <2>4. k \notin Scalars
    BY <1>1, <2>1, Themselves
  <2>5. IsText(k) => k \in Strings
    BY <2>1, <2>4 DEF IsText
  <2>6. IsNumber(k) => k \in Integers16 \cup Floats
    BY <1>3, <2>1, <2>4 DEF IsNumber
  <2> QED
    BY <2>3, <2>5, <2>6, Zeros DEF Reads, WildNumbers
<1>4. CASE k \in Scalars
  <2>1. item = k /\ k.tok \in Variables
    BY <1>4, Themselves
  <2>2. CASE k \in DOMAIN args
    <3>1. v = args[k] /\ args[k] \in ArgumentsOf(k) /\ IsWild(k)
      BY <2>1, <2>2 DEF Value, IsFrame, IsWild
    <3>2. k.tok # "SVAR" => args[k] \in WildNumbers
      BY <2>1, <3>1 DEF ArgumentsOf, Variables, WildNumbers
    <3>3. k.tok = "SVAR" => args[k] \in Strings
      BY <3>1 DEF ArgumentsOf
    <3> QED
      BY <1>4, <2>1, <3>1, <3>2, <3>3 DEF Reads, IsNumber, IsText, Variables
  <2>3. CASE k \notin DOMAIN args
    <3>1. <<k, <<>>>> \in Cells
      BY <1>4 DEF Cells
    <3>2. v = mem[<<k, <<>>>>] /\ mem[<<k, <<>>>>] \in ValuesOf(k)
      BY <2>1, <2>3, <3>1 DEF Value, IsMemory
    <3>3. k.tok # "SVAR" => v \in Integers16 \cup Floats
      BY <2>1, <3>2 DEF ValuesOf, Variables
    <3>4. k.tok = "SVAR" => v \in Strings
      BY <3>2 DEF ValuesOf
    <3> QED
      BY <1>4, <2>1, <3>3, <3>4, Zeros DEF Reads, IsNumber, IsText, Variables, WildNumbers
  <2> QED
    BY <2>2, <2>3
<1>5. CASE (k \in DOMAIN Dims \/ k.tok \in Functions) /\ k \notin Scalars
  <2>1. k.tok \in Variables \cup Functions
    BY <1>5, Themselves
  <2>2. ~ IsNumber(k) /\ ~ IsText(k)
    BY <1>5, <2>1 DEF IsNumber, IsText, Variables, Functions
  <2> QED
    BY <2>2 DEF Reads
<1> QED
  BY <1>2, <1>3, <1>4, <1>5 DEF IsKind

LEMMA PoppedReads ==
  ASSUME IsFrame(args), IsMemory(mem), NEW shape, IsShape(shape), Fitting(stack, shape),
         NEW n \in 0 .. Len(shape)
  PROVE  /\ DOMAIN Upper(shape, n) = 1 .. n /\ DOMAIN Popped(n) = 1 .. n
         /\ \A k \in 1 .. n : Reads(Popped(n)[k], Upper(shape, n)[k])
<1>1. DOMAIN Upper(shape, n) = 1 .. n /\ DOMAIN Popped(n) = 1 .. n /\ Len(shape) \in Nat /\ Len(stack) = Len(shape)
  BY DEF Upper, Popped, IsShape, IsSequence, Fitting
<1>2. ASSUME NEW k \in 1 .. n PROVE Reads(Popped(n)[k], Upper(shape, n)[k])
  <2> DEFINE j == Len(shape) - n + k
  <2>1. j \in 1 .. Len(shape)
    BY <1>1
  <2>2. Is(stack[j], shape[j]) /\ IsKind(shape[j])
    BY <2>1 DEF Fitting, IsShape
  <2>3. Popped(n)[k] = Value(stack[j], mem) /\ Upper(shape, n)[k] = shape[j]
    BY <1>1 DEF Popped, Upper
  <2> HIDE DEF j
  <2> QED
    BY <2>2, <2>3, ReadOf
<1> QED
  BY <1>1, <1>2

\* Taking items off both stacks, and putting one on.
LEMMA LowerFits ==
  ASSUME NEW st, NEW shape, IsShape(shape), Fitting(st, shape), NEW n \in 0 .. Len(shape)
  PROVE  /\ IsShape(Lower(shape, n)) /\ Fitting(SubSeq(st, 1, Len(st) - n), Lower(shape, n))
         /\ Len(Lower(shape, n)) = Len(shape) - n
         /\ \A k \in 1 .. Len(shape) - n : Lower(shape, n)[k] = shape[k]
<1>1. IsSequence(shape) /\ IsSequence(st) /\ n \in 0 .. Len(st) /\ Len(shape) \in Nat /\ Len(st) = Len(shape)
  BY DEF IsShape, Fitting, IsSequence
<1> DEFINE low == SubSeq(st, 1, Len(st) - n)
<1>2. /\ IsSequence(low) /\ Len(low) = Len(st) - n
      /\ \A k \in 1 .. Len(st) - n : low[k] = st[k]
  BY <1>1, Cut
<1>3. /\ IsSequence(Lower(shape, n)) /\ Len(Lower(shape, n)) = Len(shape) - n
      /\ \A k \in 1 .. Len(shape) - n : Lower(shape, n)[k] = shape[k]
  BY <1>1, Cut DEF Lower
<1> HIDE DEF low
<1>4. IsShape(Lower(shape, n))
  BY <1>1, <1>3 DEF IsShape
<1>5. Fitting(low, Lower(shape, n))
  <2> DEFINE s == Lower(shape, n)
  <2> HIDE DEF s
  <2>1. Len(low) = Len(s) /\ low = [k \in 1 .. Len(s) |-> low[k]]
    BY <1>1, <1>2, <1>3 DEF IsSequence, s
  <2>2. ASSUME NEW k \in 1 .. Len(s) PROVE Is(low[k], s[k])
    <3>1. k \in 1 .. Len(shape) - n /\ k \in 1 .. Len(shape)
      BY <1>1, <1>3 DEF s
    <3>2. low[k] = st[k] /\ s[k] = shape[k]
      BY <1>1, <1>2, <1>3, <3>1 DEF s
    <3> QED
      BY <3>1, <3>2 DEF Fitting
  <2> QED
    BY <2>1, <2>2 DEF Fitting, s
<1> QED
  BY <1>3, <1>4, <1>5 DEF low

LEMMA AppendFits ==
  ASSUME NEW st, NEW shape, IsShape(shape), Fitting(st, shape), NEW v, NEW k, Is(v, k), IsKind(k)
  PROVE  IsShape(Append(shape, k)) /\ Fitting(Append(st, v), Append(shape, k))
<1>1. IsSequence(shape) /\ IsSequence(st) /\ Len(shape) \in Nat /\ Len(st) = Len(shape)
  BY DEF IsShape, Fitting, IsSequence
<1> DEFINE s == Append(shape, k)
           t == Append(st, v)
<1>2. /\ IsSequence(t) /\ Len(t) = Len(shape) + 1 /\ t[Len(shape) + 1] = v
      /\ \A j \in 1 .. Len(shape) : t[j] = st[j]
  BY <1>1, Appended
<1>3. /\ IsSequence(s) /\ Len(s) = Len(shape) + 1 /\ s[Len(shape) + 1] = k
      /\ \A j \in 1 .. Len(shape) : s[j] = shape[j]
  BY <1>1, Appended
<1> HIDE DEF s, t
<1>4. ASSUME NEW j \in 1 .. Len(shape) + 1 PROVE IsKind(s[j]) /\ Is(t[j], s[j])
  <2>1. CASE j = Len(shape) + 1
    BY <1>2, <1>3, <2>1
  <2>2. CASE j \in 1 .. Len(shape)
    BY <1>2, <1>3, <2>2 DEF IsShape, Fitting
  <2> QED
    BY <1>1, <2>1, <2>2
<1>5. IsShape(s)
  BY <1>3, <1>4 DEF IsShape
<1>6. Fitting(t, s)
  BY <1>2, <1>3, <1>4 DEF Fitting, IsSequence
<1> QED
  BY <1>5, <1>6 DEF s, t

-----------------------------------------------------------------------------
(* Steps.                                                                   *)

\* The token lists do not change, nor does what they say of the stack.
LEMMA ListsStay ==
  ASSUME code' = code, args' = args, NEW d, side' = d
  PROVE  /\ Shapes(code, side)' = Shapes(code, d)
         /\ Sound(code)' = Sound(code)
         /\ Final(code, "lhs")' = Final(code, "lhs")
<1>1. Shapes(code, side)' = Shapes(code, d)
  BY DEF Shapes, After, Left, IsWild
<1>2. Sound(code)' = Sound(code)
  BY DEF Sound, Final, Shapes, After, Left, IsWild
<1>3. Final(code, "lhs")' = Final(code, "lhs")
  BY DEF Final, Shapes, After, Left, IsWild
<1> QED
  BY <1>1, <1>2, <1>3

LEMMA AimsGrow ==
  ASSUME NEW c, NEW k \in Nat, k >= 1
  PROVE  /\ ~ Aims(c, 1)
         /\ Aims(c, k + 1) <=> Aims(c, k) \/ (c.lhs[k].tok \in Subscripting /\ Targets(c, "lhs", k))
<1>1. ~ Aims(c, 1)
  BY DEF Aims
<1>2. \A j \in Int : j \in 1 .. (k + 1) - 1 <=> j \in 1 .. k - 1 \/ j = k
  OBVIOUS
<1> QED
  BY <1>1, <1>2 DEF Aims

LEMMA NextIndex ==
  ASSUME NEW n \in Nat, NEW j \in 1 .. n, NEW l, l = j + 1
  PROVE  l - 1 = j /\ l \in 1 .. n + 1
OBVIOUS

LEMMA AfterOperator ==
  ASSUME NEW shape, NEW token, NEW target, token.tok \in Operators
  PROVE  LET n == Arity(token.tok)
         IN  After(shape, token, target) = Append(Lower(shape, n), Left(token.tok, Upper(shape, n)))
<1>1. token.tok \notin Subscripting /\ token.tok # "NCALL"
  BY DEF Operators, BinaryOps, UnaryOps, ArithmeticOps, NumberTests, StringTests, LogicOps, Subscripting
<1> QED
  BY <1>1 DEF After

\* What the token about to be processed finds.
LEMMA Finds ==
  ASSUME StatementInv, Running
  PROVE  /\ Len(code[side]) \in Nat /\ idx \in 1 .. Len(code[side]) /\ side \in {"lhs", "rhs"} /\ out = ""
         /\ IsShape(Shapes(code, side)[idx - 1]) /\ Fitting(stack, Shapes(code, side)[idx - 1])
         /\ Fits(Shapes(code, side)[idx - 1], code[side][idx], Targets(code, side, idx))
         /\ Shapes(code, side)[idx] = After(Shapes(code, side)[idx - 1], code[side][idx], Targets(code, side, idx))
         /\ Targets(code, side, idx) <=> IsTarget
<1>1. Len(code[side]) \in Nat /\ side \in {"lhs", "rhs"}
  BY DEF StatementInv, TypeOK, Sound
<1>2. idx \in 1 .. Len(code[side]) /\ out = ""
  <2>1. idx \in 1 .. Len(code[side]) + 1
    BY DEF StatementInv, TypeOK
  <2>2. idx <= Len(code[side]) /\ out = ""
    BY DEF Running
  <2> DEFINE n == Len(code[side])
  <2>3. n \in Nat /\ idx \in 1 .. n + 1 /\ idx <= n
    BY <1>1, <2>1, <2>2
  <2> HIDE DEF n
  <2>4. idx \in 1 .. n
    BY <2>3
  <2> QED
    BY <2>2, <2>4 DEF n
<1>3. Fits(Shapes(code, side)[idx - 1], code[side][idx], Targets(code, side, idx))
  BY <1>1, <1>2 DEF StatementInv, TypeOK, Sound
<1>4. Shapes(code, side)[idx] = After(Shapes(code, side)[idx - 1], code[side][idx], Targets(code, side, idx))
  BY <1>1, <1>2, ShapeSteps
<1>5. IsShape(Shapes(code, side)[idx - 1]) /\ Fitting(stack, Shapes(code, side)[idx - 1])
  BY DEF StatementInv, TypeOK, StackIsTyped, Fitting
<1>6. Targets(code, side, idx) <=> IsTarget
  BY DEF Targets, IsTarget
<1> QED
  BY <1>1, <1>2, <1>3, <1>4, <1>5, <1>6

LEMMA GoesOn ==
  ASSUME StatementInv, Running, code' = code, side' = side, args' = args, handler' = handler, idx' = idx + 1,
         IsShape(Shapes(code, side)[idx]), Fitting(stack', Shapes(code, side)[idx]),
         PlaceIsTyped', IsMemory(mem'), printed' \in Nat, out' \in {"", "fault"}
  PROVE  StatementInv'
<1>1. Len(code[side]) \in Nat /\ idx \in 1 .. Len(code[side]) /\ side \in {"lhs", "rhs"}
  BY Finds
<1>2. Shapes(code, side)' = Shapes(code, side) /\ Sound(code)' = Sound(code)
  BY ListsStay
<1>3. idx' - 1 = idx /\ idx' \in 1 .. Len(code[side]) + 1
  BY <1>1, NextIndex
<1>4. StackIsTyped'
  BY <1>2, <1>3 DEF StackIsTyped, Fitting
<1>5. IsShape(Shapes(code, side)[idx - 1])'
  <2>1. Shapes(code, side)'[idx' - 1] = Shapes(code, side)[idx]
    BY <1>2, <1>3
  <2> QED
    BY <2>1
<1>6. IsFrame(args)'
  BY DEF StatementInv, TypeOK
<1>7. TypeOK'
  BY <1>2, <1>3, <1>4, <1>6 DEF StatementInv, TypeOK
<1>8. OnlyApproxIsFatal'
  BY DEF OnlyApproxIsFatal
<1> QED
  BY <1>5, <1>7, <1>8 DEF StatementInv

LEMMA Stops ==
  ASSUME StatementInv, out = "", UNCHANGED <<code, side, args, handler, idx, stack, lval>>, IsMemory(mem'), printed' \in Nat,
         out' \in {"error", "fault", "done"} \/ (out' = "fatal" /\ mem' = mem /\ Running /\ Op = "APPROX" /\ \A k \in {1, 2} : Popped(2)[k].tok = "STRING")
  PROVE  StatementInv'
<1>1. Shapes(code, side)' = Shapes(code, side) /\ Sound(code)' = Sound(code) /\ Final(code, "lhs")' = Final(code, "lhs")
  BY ListsStay
<1>2. StackIsTyped'
  BY <1>1 DEF StatementInv, TypeOK, StackIsTyped
<1>3. PlaceIsTyped'
  BY <1>1 DEF StatementInv, TypeOK, PlaceIsTyped, Modifiable
<1>4. TypeOK'
  BY <1>1, <1>2, <1>3 DEF StatementInv, TypeOK
<1>5. OnlyApproxIsFatal'
  <2>1. CASE out' = "fatal"
    <3>1. Op' = Op /\ Popped(2)' = Popped(2)
      BY <2>1 DEF Op, Popped, Value
    <3>2. (idx <= Len(code[side]))' /\ Op' = "APPROX"
      BY <2>1, <3>1 DEF Running
    <3>3. \A k \in {1, 2} : Popped(2)'[k].tok = "STRING"
      BY <2>1, <3>1
    <3> QED
      BY <3>2, <3>3 DEF OnlyApproxIsFatal
  <2>2. CASE out' # "fatal"
    BY <2>2 DEF OnlyApproxIsFatal
  <2> QED
    BY <2>1, <2>2
<1>6. IsShape(Shapes(code, side)[idx - 1])'
  <2>1. Shapes(code, side)'[idx' - 1] = Shapes(code, side)[idx - 1]
    BY <1>1
  <2> QED
    BY <2>1 DEF StatementInv
<1> QED
  BY <1>4, <1>5, <1>6 DEF StatementInv

\* A token other than the subscript of the left side leaves the place as it is.
LEMMA PlaceStays ==
  ASSUME StatementInv, Running, UNCHANGED <<code, side, args, lval>>, idx' = idx + 1,
         ~ (Op \in Subscripting /\ IsTarget)
  PROVE  PlaceIsTyped'
<1>1. Final(code, "lhs")' = Final(code, "lhs")
  BY ListsStay
<1>2. idx \in Nat /\ idx >= 1
  <2> DEFINE n == Len(code[side])
  <2>1. n \in Nat /\ idx \in 1 .. n
    BY Finds
  <2> HIDE DEF n
  <2> QED
    BY <2>1
<1>3. side = "lhs" => (Aims(code, idx + 1) <=> Aims(code, idx))
  BY <1>2, AimsGrow DEF Op, IsTarget, Targets
<1> QED
  BY <1>1, <1>3 DEF StatementInv, TypeOK, PlaceIsTyped, Modifiable

\* What is pushed in place of n operands.
LEMMA Pushed ==
  ASSUME StatementInv, Running, NEW n, NEW result, NEW k, n \in 0 .. Len(stack),
         code' = code, side' = side, args' = args, handler' = handler, PlaceIsTyped', IsMemory(mem'),
         result.kind \in {"push", "arith"}, Is(result.val, k), IsKind(k),
         Shapes(code, side)[idx] = Append(Lower(Shapes(code, side)[idx - 1], n), k),
         Leaves(Below(n), result)
  PROVE  StatementInv'
<1> DEFINE shape == Shapes(code, side)[idx - 1]
<1>1. IsShape(shape) /\ Fitting(stack, shape) /\ out = ""
  BY Finds
<1>2. n \in 0 .. Len(shape)
  BY <1>1 DEF Fitting
<1>3. IsShape(Lower(shape, n)) /\ Fitting(Below(n), Lower(shape, n))
  BY <1>1, <1>2, LowerFits DEF Below
<1>4. /\ IsShape(Append(Lower(shape, n), k))
      /\ Fitting(Append(Below(n), result.val), Append(Lower(shape, n), k))
  BY <1>3, AppendFits
<1>5. stack' = Append(Below(n), result.val) /\ idx' = idx + 1
  BY DEF Leaves
<1>6. printed' \in Nat /\ out' \in {"", "fault"}
  <2>1. printed \in Nat
    BY DEF StatementInv, TypeOK
  <2>2. CASE result.kind = "push"
    BY <1>1, <2>1, <2>2 DEF Leaves
  <2>3. CASE result.kind = "arith"
    <3>1. printed' = (IF handler THEN printed ELSE printed + 1) /\ out' = (IF handler THEN "fault" ELSE "")
      BY <2>3 DEF Leaves
    <3>2. CASE handler
      BY <2>1, <3>1, <3>2
    <3>3. CASE ~ handler
      <4>1. printed' = printed + 1 /\ out' = ""
        BY <3>1, <3>3
      <4>2. printed + 1 \in Nat
        BY <2>1
      <4> QED
        BY <4>1, <4>2
    <3> QED
      BY <3>2, <3>3
  <2> QED
    BY <2>2, <2>3
<1> HIDE DEF shape
<1> QED
  BY <1>4, <1>5, <1>6, GoesOn DEF shape

LEMMA LeftKinds == \A op, ks : IsKind(Left(op, ks)) /\ IsKind(Finite) /\ IsKind(AString)
BY DEF Left, IsKind

LEMMA PushOperandStep == StatementInv /\ PushOperand => StatementInv'
<1> SUFFICES ASSUME StatementInv, PushOperand PROVE StatementInv'
  OBVIOUS
<1> DEFINE token == code[side][idx]
           shape == Shapes(code, side)[idx - 1]
<1>1. Running /\ Op = token.tok /\ Op \in Literals \cup Variables \cup Functions
  BY DEF PushOperand, Op
<1>2. /\ token.tok \notin Operators \cup Subscripting \cup {"NCALL"}
  BY <1>1 DEF Literals, Variables, Functions, Operators, BinaryOps, UnaryOps, ArithmeticOps, NumberTests,
              StringTests, LogicOps, Subscripting
<1>3. IsShape(shape) /\ Fitting(stack, shape) /\ Fits(shape, token, Targets(code, side, idx))
      /\ Shapes(code, side)[idx] = After(shape, token, Targets(code, side, idx))
  BY <1>1, Finds
<1>4. After(shape, token, Targets(code, side, idx)) = Append(shape, token)
  BY <1>2 DEF After
<1>5. IsKind(token)
  BY <1>2, <1>3 DEF Fits, IsKind
<1>6. Is(token, token)
  BY <1>1, Themselves DEF Literals
<1>7. PlaceIsTyped'
  <2>1. idx' = idx + 1 /\ UNCHANGED <<code, side, args, lval>>
    BY DEF PushOperand, Leaves, Push
  <2> QED
    BY <1>1, <1>2, <2>1, PlaceStays
<1>8. stack' = Append(stack, token) /\ idx' = idx + 1 /\ UNCHANGED <<printed, out>>
  BY DEF PushOperand, Leaves, Push
<1>9. IsShape(Append(shape, token)) /\ Fitting(stack', Append(shape, token))
  BY <1>3, <1>5, <1>6, <1>8, AppendFits
<1>10. IsMemory(mem') /\ printed' \in Nat /\ out' \in {"", "fault"}
  BY <1>1, <1>8 DEF StatementInv, TypeOK, PushOperand, Running
<1>11. UNCHANGED <<code, side, args, handler>>
  BY DEF PushOperand
<1> QED
  BY <1>1, <1>3, <1>4, <1>7, <1>8, <1>9, <1>10, <1>11, GoesOn

LEMMA OperateStep == StatementInv /\ Operate => StatementInv'
<1> SUFFICES ASSUME StatementInv, Operate PROVE StatementInv'
  OBVIOUS
<1> DEFINE token == code[side][idx]
           shape == Shapes(code, side)[idx - 1]
           n == Arity(Op)
           result == Apply(Op, Popped(n))
           k == Left(Op, Upper(shape, n))
<1>1. Running /\ Op = token.tok /\ Op \in Operators /\ out = ""
  BY DEF Operate, Op, Running
<1>2. token \notin Integers16 \cup Floats \cup Strings \cup Scalars \cup DOMAIN Dims
      /\ token.tok \notin Functions \cup Subscripting \cup {"NCALL"}
  <2>1. token.tok \notin {"INTEGER", "FLOAT", "STRING"} \cup Variables \cup Functions \cup Subscripting \cup {"NCALL"}
    BY <1>1 DEF Variables, Functions, Operators, BinaryOps, UnaryOps, ArithmeticOps, NumberTests,
                StringTests, LogicOps, Subscripting
  <2> QED
    BY <2>1, Taken, Themselves
<1>3. IsShape(shape) /\ Fitting(stack, shape) /\ Fits(shape, token, Targets(code, side, idx))
      /\ Shapes(code, side)[idx] = After(shape, token, Targets(code, side, idx))
  BY <1>1, Finds
<1>4. n \in {1, 2} /\ n <= Len(shape) /\ Suits(Op, Upper(shape, n)) /\ Len(shape) = Len(stack) /\ Len(shape) \in Nat
  BY <1>1, <1>2, <1>3 DEF Fits, Arity, Fitting, IsShape, IsSequence
<1>5. After(shape, token, Targets(code, side, idx)) = Append(Lower(shape, n), k)
  BY <1>1, AfterOperator
<1>6. /\ n = IF Op \in UnaryOps THEN 1 ELSE 2
      /\ UNCHANGED <<code, side, lval, mem, args, handler>>
      /\ Leaves(Below(n), result)
  <2>1. n = IF Op \in UnaryOps THEN 1 ELSE 2
    BY <1>1, <1>2 DEF Arity, Subscripting
  <2>2. ~ (Len(stack) < n)
    BY <1>4
  <2> QED
    BY <2>1, <2>2 DEF Operate
<1>7. IsFrame(args) /\ IsMemory(mem) /\ IsMemory(mem') /\ printed \in Nat
  BY <1>6 DEF StatementInv, TypeOK
<1>8. n \in 0 .. Len(shape) /\ n \in 0 .. Len(stack)
  BY <1>4
<1>9. /\ DOMAIN Upper(shape, n) = 1 .. n
      /\ \A j \in 1 .. n : Reads(Popped(n)[j], Upper(shape, n)[j])
  BY <1>3, <1>7, <1>8, PoppedReads
<1> HIDE DEF token, shape, n, k
<1>10. \/ result.kind \in {"push", "arith"} /\ Is(result.val, k)
       \/ result.kind = "error"
       \/ result = Fatal /\ Op = "APPROX" /\ Popped(n)[1] \in Strings /\ Popped(n)[2] \in Strings
  BY <1>1, <1>4, <1>9, Applied DEF k, n
<1> HIDE DEF result
<1>11. CASE result.kind \in {"push", "arith"} /\ Is(result.val, k)
  <2>1. idx' = idx + 1 /\ UNCHANGED <<code, side, args, lval>>
    BY <1>6, <1>11 DEF Leaves
  <2>2. PlaceIsTyped'
    BY <1>1, <1>2, <2>1, PlaceStays DEF token
  <2>3. IsKind(k) /\ Shapes(code, side)[idx] = Append(Lower(Shapes(code, side)[idx - 1], n), k)
    BY <1>3, <1>5, LeftKinds DEF k, shape
  <2> QED
    <3>1. code' = code /\ side' = side /\ args' = args /\ handler' = handler /\ Leaves(Below(n), result)
      BY <1>6
    <3> QED
      BY <1>1, <1>7, <1>8, <1>11, <2>2, <2>3, <3>1, Pushed
<1>12. CASE result.kind = "error"
  <2>1. out' = "error" /\ UNCHANGED <<stack, idx, printed>>
    BY <1>6, <1>12 DEF Leaves
  <2> QED
    BY <1>1, <1>6, <1>7, <2>1, Stops
<1>13. CASE result = Fatal /\ Op = "APPROX" /\ Popped(n)[1] \in Strings /\ Popped(n)[2] \in Strings
  <2>1. n = 2
    BY <1>6, <1>13 DEF UnaryOps
  <2>2. out' = "fatal" /\ UNCHANGED <<stack, idx, printed>>
    BY <1>6, <1>13 DEF Leaves, Fatal
  <2>3. \A j \in {1, 2} : Popped(2)[j].tok = "STRING"
    BY <1>13, <2>1, Taken
  <2> QED
    BY <1>1, <1>6, <1>7, <1>13, <2>2, <2>3, Stops
<1> QED
  BY <1>10, <1>11, <1>12, <1>13

LEMMA AfterSubscript ==
  ASSUME NEW shape, NEW token, NEW target, token.tok \in Subscripting
  PROVE  LET n == Arity(token.tok)
         IN  After(shape, token, target) =
               IF target THEN Lower(shape, n)
               ELSE Append(Lower(shape, n + 1),
                           IF Top(Lower(shape, n)).tok = "SVAR" THEN AString ELSE Finite)
<1>1. token.tok \notin Operators /\ token.tok # "NCALL"
  BY DEF Operators, BinaryOps, UnaryOps, ArithmeticOps, NumberTests, StringTests, LogicOps, Subscripting
<1> QED
  BY <1>1 DEF After

LEMMA AfterCall ==
  ASSUME NEW shape, NEW token, NEW target, token.tok = "NCALL"
  PROVE  After(shape, token, target) = Append(Lower(shape, Top(Lower(shape, 1)).data + 2), Finite)
<1>1. token.tok \notin Operators /\ token.tok \notin Subscripting
  BY DEF Operators, BinaryOps, UnaryOps, ArithmeticOps, NumberTests, StringTests, LogicOps, Subscripting
<1> QED
  BY <1>1 DEF After

\* The subscripts are taken off, then the symbol.
LEMMA CutTwice ==
  ASSUME NEW s, IsSequence(s), NEW n \in Nat, n + 1 <= Len(s)
  PROVE  LET below == SubSeq(s, 1, Len(s) - n)
         IN  Last(below) = s[Len(s) - n] /\ Front(below) = SubSeq(s, 1, Len(s) - (n + 1))
<1> DEFINE below == SubSeq(s, 1, Len(s) - n)
           front == SubSeq(below, 1, Len(below) - 1)
           low == SubSeq(s, 1, Len(s) - (n + 1))
<1>1. Len(s) \in Nat /\ n \in 0 .. Len(s) /\ n + 1 \in 0 .. Len(s)
  BY DEF IsSequence
<1>2. /\ IsSequence(below) /\ Len(below) = Len(s) - n
      /\ \A k \in 1 .. Len(s) - n : below[k] = s[k]
  BY <1>1, Cut
<1>3. /\ IsSequence(low) /\ Len(low) = Len(s) - (n + 1)
      /\ \A k \in 1 .. Len(s) - (n + 1) : low[k] = s[k]
  BY <1>1, Cut
<1> HIDE DEF below, low
<1>4. 1 \in 0 .. Len(below)
  BY <1>1, <1>2
<1>5. /\ IsSequence(front) /\ Len(front) = Len(below) - 1
      /\ \A k \in 1 .. Len(below) - 1 : front[k] = below[k]
  BY <1>2, <1>4, Cut
<1>6. Front(below) = front /\ Last(below) = below[Len(below)]
  BY DEF Front, Last
<1> HIDE DEF front
<1>7. Len(front) = Len(low)
  BY <1>1, <1>2, <1>3, <1>5
<1>8. ASSUME NEW k \in 1 .. Len(low) PROVE front[k] = low[k]
  <2>1. k \in 1 .. Len(below) - 1 /\ k \in 1 .. Len(s) - n /\ k \in 1 .. Len(s) - (n + 1)
    BY <1>1, <1>2, <1>3
  <2> QED
    BY <1>2, <1>3, <1>5, <2>1
<1>9. front = low
  <2>1. front = [k \in 1 .. Len(low) |-> front[k]] /\ low = [k \in 1 .. Len(low) |-> low[k]]
    BY <1>3, <1>5, <1>7 DEF IsSequence
  <2>2. [k \in 1 .. Len(low) |-> front[k]] = [k \in 1 .. Len(low) |-> low[k]]
    BY <1>8
  <2> QED
    BY <2>1, <2>2
<1>10. Last(below) = s[Len(s) - n]
  BY <1>1, <1>2, <1>6
<1> QED
  BY <1>6, <1>9, <1>10 DEF below, low

LEMMA InCells ==
  ASSUME NEW sym \in DOMAIN Dims, NEW subs, IsSequence(subs), Len(subs) \in {1, 2},
         Len(Dims[sym]) = Len(subs), InRange(sym, subs)
  PROVE  <<sym, subs>> \in Cells
<1>1. CASE Len(subs) = 1
  <2>1. subs = <<subs[1]>> /\ subs[1] \in 0 .. Dims[sym][1]
    BY <1>1 DEF IsSequence, InRange
  <2>2. <<sym, subs>> \in Elements1(sym)
    BY <2>1 DEF Elements1
  <2> QED
    BY <1>1, <2>2 DEF Cells
<1>2. CASE Len(subs) = 2
  <2>1. subs = <<subs[1], subs[2]>> /\ subs[1] \in 0 .. Dims[sym][1] /\ subs[2] \in 0 .. Dims[sym][2]
    BY <1>2 DEF IsSequence, InRange
  <2>2. <<sym, subs>> \in Elements2(sym)
    BY <2>1 DEF Elements2
  <2> QED
    BY <1>2, <2>2 DEF Cells
<1> QED
  BY <1>1, <1>2

\* The subscripts that are popped, and what they are as integers.
LEMMA SubsTyped ==
  ASSUME StatementInv, Running, Op \in Subscripting
  PROVE  LET n == Arity(Op)
         IN  /\ n \in {1, 2} /\ n < Len(stack) /\ Len(Subscripts) = n /\ IsSequence(Subs) /\ Len(Subs) = n
             /\ GoodSubs => \A k \in 1 .. n : Subs[k] \in Int
             /\ ~ IsTarget => Top(Lower(Shapes(code, side)[idx - 1], n)) \in DOMAIN Dims
<1> DEFINE n == Arity(Op)
           shape == Shapes(code, side)[idx - 1]
           token == code[side][idx]
<1>1. /\ IsShape(shape) /\ Fitting(stack, shape) /\ Fits(shape, token, Targets(code, side, idx))
      /\ Targets(code, side, idx) <=> IsTarget
  BY Finds
<1>2. token.tok = Op /\ token.tok \in Subscripting
  BY DEF Op
<1>3. token \notin Integers16 \cup Floats \cup Strings \cup Scalars \cup DOMAIN Dims
      /\ token.tok \notin Functions \cup Operators \cup {"NCALL"}
  <2>1. token.tok \notin {"INTEGER", "FLOAT", "STRING"} \cup Variables \cup Functions \cup Operators \cup {"NCALL"}
    BY <1>2 DEF Variables, Functions, Operators, BinaryOps, UnaryOps, ArithmeticOps, NumberTests,
                StringTests, LogicOps, Subscripting
  <2> QED
    BY <2>1, Taken, Themselves
<1> HIDE DEF token, shape
<1>4. n < Len(shape) /\ Numbers(Upper(shape, n)) /\ (IsTarget \/ Top(Lower(shape, n)) \in DOMAIN Dims)
  BY <1>1, <1>2, <1>3 DEF Fits
<1>5. n \in {1, 2} /\ n = (IF Op = "SUBSCR2" THEN 2 ELSE 1)
  BY <1>2, <1>3 DEF Arity, Subscripting, Operators
<1>6. Len(shape) \in Nat /\ Len(stack) = Len(shape) /\ n \in 0 .. Len(shape)
  BY <1>1, <1>4, <1>5 DEF Fitting, IsShape, IsSequence
<1>7. IsFrame(args) /\ IsMemory(mem)
  BY DEF StatementInv, TypeOK
<1>8. /\ DOMAIN Upper(shape, n) = 1 .. n /\ DOMAIN Popped(n) = 1 .. n
      /\ \A k \in 1 .. n : Reads(Popped(n)[k], Upper(shape, n)[k])
  BY <1>1, <1>6, <1>7, PoppedReads
<1>9. \A k \in 1 .. n : Popped(n)[k] \in WildNumbers
  BY <1>4, <1>8 DEF Reads, Numbers
<1>10. Subscripts = Popped(n)
  BY <1>5 DEF Subscripts
<1> HIDE DEF n
<1>11. Len(Subscripts) = n
  BY <1>5, <1>10 DEF Popped
<1>12. Subs = [k \in 1 .. n |-> asInt16(Popped(n)[k])]
  BY <1>8, <1>10 DEF Subs
<1>13. Len(Subs) = n /\ IsSequence(Subs)
  BY <1>5, <1>12 DEF IsSequence
<1>14. ASSUME GoodSubs, NEW k \in 1 .. n PROVE Subs[k] \in Int
  <2>1. fits16(Popped(n)[k])
    BY <1>8, <1>10, <1>14 DEF GoodSubs
  <2>2. asInt16(Popped(n)[k]) \in minInt16 .. maxInt16
    BY <1>9, <2>1, AsInt16Typed
  <2> QED
    BY <1>12, <2>2, Ranges
<1> QED
  BY <1>4, <1>5, <1>6, <1>11, <1>13, <1>14 DEF n, shape

LEMMA SubscriptStep == StatementInv /\ Subscript => StatementInv'
<1> SUFFICES ASSUME StatementInv, Subscript PROVE StatementInv'
  OBVIOUS
<1> DEFINE n == Arity(Op)
           shape == Shapes(code, side)[idx - 1]
           token == code[side][idx]
           below == Below(n)
           sym == Last(below)
           k == IF sym.tok = "SVAR" THEN AString ELSE Finite
<1>1. Running /\ Op = token.tok /\ Op \in Subscripting /\ ~ IsTarget /\ out = ""
  BY DEF Subscript, Subscripting, Op, Running
<1>2. /\ n \in {1, 2} /\ n < Len(stack) /\ Len(Subscripts) = n /\ IsSequence(Subs) /\ Len(Subs) = n
      /\ Top(Lower(shape, n)) \in DOMAIN Dims
  BY <1>1, SubsTyped
<1>3. /\ IsShape(shape) /\ Fitting(stack, shape) /\ ~ Targets(code, side, idx)
      /\ Shapes(code, side)[idx] = After(shape, token, Targets(code, side, idx))
  BY <1>1, Finds
<1>4. Len(shape) \in Nat /\ Len(stack) = Len(shape) /\ n \in 0 .. Len(shape) /\ IsSequence(stack) /\ IsSequence(shape)
  BY <1>2, <1>3 DEF Fitting, IsShape, IsSequence
<1>5. Shapes(code, side)[idx] = Append(Lower(shape, n + 1), IF Top(Lower(shape, n)).tok = "SVAR" THEN AString ELSE Finite)
  BY <1>1, <1>3, AfterSubscript
<1>6. UNCHANGED <<code, side, lval, mem, args, handler>> /\ IsMemory(mem) /\ IsMemory(mem') /\ printed \in Nat
  BY DEF Subscript, StatementInv, TypeOK
<1> HIDE DEF n
<1>7. /\ sym = stack[Len(stack) - n] /\ Front(below) = Below(n + 1)
      /\ n + 1 \in 0 .. Len(stack)
  <2>1. n \in Nat /\ n + 1 <= Len(stack) /\ Len(stack) \in Nat
    BY <1>2, <1>4
  <2>2. LET remains == SubSeq(stack, 1, Len(stack) - n)
        IN  Last(remains) = stack[Len(stack) - n] /\ Front(remains) = SubSeq(stack, 1, Len(stack) - (n + 1))
    BY <1>4, <2>1, CutTwice
  <2>3. n + 1 \in 0 .. Len(stack)
    BY <2>1
  <2> QED
    BY <2>2, <2>3 DEF Below
<1>8. sym = Top(Lower(shape, n))
  <2>1. Len(Lower(shape, n)) = Len(shape) - n /\ Len(shape) - n \in 1 .. Len(shape)
        /\ Lower(shape, n)[Len(shape) - n] = shape[Len(shape) - n]
    <3>1. Len(shape) - n \in 1 .. Len(shape) - n /\ Len(shape) - n \in 1 .. Len(shape)
      BY <1>2, <1>4
    <3> HIDE DEF shape
    <3> QED
      BY <1>3, <1>4, <3>1, LowerFits
  <2>2. Top(Lower(shape, n)) = shape[Len(shape) - n]
    BY <2>1 DEF Top
  <2>3. Is(stack[Len(shape) - n], shape[Len(shape) - n])
    BY <1>3, <2>1 DEF Fitting
  <2> QED
    BY <1>2, <1>4, <1>7, <2>2, <2>3, Themselves
<1>9. IF GoodSubs /\ Modifiable(sym, Subs) /\ InRange(sym, Subs)
      THEN Leaves(Below(n + 1), Push(mem[<<sym, Subs>>]))
      ELSE Leaves(stack, Error)
  BY <1>2, <1>7 DEF Subscript
<1> HIDE DEF n, shape, token, below
<1>10. CASE GoodSubs /\ Modifiable(sym, Subs) /\ InRange(sym, Subs)
  <2>1. Len(Dims[sym]) = Len(Subs)
    <3>1. Subs # <<>>
      BY <1>2
    <3> QED
      BY <1>10, <3>1 DEF Modifiable
  <2>2. <<sym, Subs>> \in Cells
    BY <1>2, <1>8, <1>10, <2>1, InCells
  <2>3. mem[<<sym, Subs>>] \in ValuesOf(sym)
    BY <1>6, <2>2 DEF IsMemory
  <2>4. Is(mem[<<sym, Subs>>], k)
    <3>1. sym.tok \in Variables
      BY <1>2, <1>8, Themselves
    <3>2. mem[<<sym, Subs>>] \in IF sym.tok = "SVAR" THEN Strings ELSE Integers16 \cup Floats
      BY <2>3, <3>1 DEF ValuesOf, Variables
    <3> QED
      BY <3>2, KindsDiffer
  <2> DEFINE result == Push(mem[<<sym, Subs>>])
  <2>5. result.kind = "push" /\ result.val = mem[<<sym, Subs>>]
    BY DEF Push
  <2>6. Leaves(Below(n + 1), result)
    BY <1>9, <1>10
  <2> HIDE DEF result, sym
  <2>7. idx' = idx + 1
    BY <2>5, <2>6 DEF Leaves
  <2>8. PlaceIsTyped'
    BY <1>1, <1>6, <2>7, PlaceStays
  <2>9. IsKind(k) /\ Shapes(code, side)[idx] = Append(Lower(Shapes(code, side)[idx - 1], n + 1), k)
    BY <1>5, <1>8, LeftKinds DEF shape
  <2> HIDE DEF k
  <2>10. code' = code /\ side' = side /\ args' = args /\ handler' = handler
    BY <1>6
  <2>11. result.kind \in {"push", "arith"} /\ Is(result.val, k)
    BY <2>4, <2>5
  <2> QED
    BY <1>1, <1>6, <1>7, <2>6, <2>8, <2>9, <2>10, <2>11, Pushed
<1>11. CASE ~ (GoodSubs /\ Modifiable(sym, Subs) /\ InRange(sym, Subs))
  <2>1. Leaves(stack, Error)
    BY <1>9, <1>11
  <2>2. out' = "error" /\ UNCHANGED <<stack, idx, printed>>
    BY <2>1 DEF Leaves, Error
  <2> QED
    BY <1>1, <1>6, <2>2, Stops
<1> QED
  BY <1>10, <1>11

LEMMA SubscriptTargetStep == StatementInv /\ SubscriptTarget => StatementInv'
<1> SUFFICES ASSUME StatementInv, SubscriptTarget PROVE StatementInv'
  OBVIOUS
<1> DEFINE n == Arity(Op)
           shape == Shapes(code, side)[idx - 1]
           token == code[side][idx]
<1>1. Running /\ Op = token.tok /\ Op \in Subscripting /\ IsTarget /\ out = "" /\ side = "lhs"
  BY DEF SubscriptTarget, Subscripting, Op, Running, IsTarget
<1>2. /\ n \in {1, 2} /\ n < Len(stack) /\ Len(Subscripts) = n /\ IsSequence(Subs) /\ Len(Subs) = n
      /\ GoodSubs => \A k \in 1 .. n : Subs[k] \in Int
  BY <1>1, SubsTyped
<1>3. /\ IsShape(shape) /\ Fitting(stack, shape) /\ Targets(code, side, idx)
      /\ Shapes(code, side)[idx] = After(shape, token, Targets(code, side, idx))
  BY <1>1, Finds
<1>4. Len(shape) \in Nat /\ Len(stack) = Len(shape) /\ n \in 0 .. Len(shape)
  BY <1>2, <1>3 DEF Fitting, IsShape, IsSequence
<1>5. Shapes(code, side)[idx] = Lower(shape, n)
  BY <1>1, <1>3, AfterSubscript
<1>6. UNCHANGED <<code, side, mem, args, handler>> /\ IsMemory(mem) /\ IsMemory(mem') /\ printed \in Nat
  BY DEF SubscriptTarget, StatementInv, TypeOK
<1>7. IF GoodSubs
      THEN /\ lval' = [lval EXCEPT !.subs = Subs]
           /\ stack' = Below(n) /\ idx' = idx + 1 /\ UNCHANGED <<printed, out>>
      ELSE Leaves(stack, Error) /\ UNCHANGED lval
  BY <1>2 DEF SubscriptTarget
<1> HIDE DEF n, shape, token
<1>8. CASE GoodSubs
  <2>1. IsShape(Lower(shape, n)) /\ Fitting(stack', Lower(shape, n))
    <3>1. IsShape(Lower(shape, n)) /\ Fitting(SubSeq(stack, 1, Len(stack) - n), Lower(shape, n))
      BY <1>3, <1>4, LowerFits
    <3>2. stack' = SubSeq(stack, 1, Len(stack) - n)
      BY <1>7, <1>8 DEF Below
    <3> QED
      BY <3>1, <3>2
  <2>2. lval' = [sym |-> lval.sym, subs |-> Subs]
    <3>1. lval = [sym |-> lval.sym, subs |-> lval.subs]
      BY DEF StatementInv, TypeOK, PlaceIsTyped
    <3> QED
      BY <1>7, <1>8, <3>1
  <2>3. Aims(code, idx + 1)
    <3>1. idx \in Nat /\ idx >= 1
      <4> DEFINE m == Len(code[side])
      <4>1. m \in Nat /\ idx \in 1 .. m
        BY <1>1, Finds
      <4> HIDE DEF m
      <4> QED
        BY <4>1
    <3> QED
      BY <1>1, <1>3, <3>1, AimsGrow DEF Op
  <2>4. PlaceIsTyped'
    <3>1. lval'.subs = Subs /\ lval' = [sym |-> lval'.sym, subs |-> lval'.subs]
      BY <2>2
    <3>2. Len(Subs) \in {1, 2} /\ Subs = [k \in 1 .. Len(Subs) |-> Subs[k]] /\ \A k \in 1 .. Len(Subs) : Subs[k] \in Int
      BY <1>2, <1>8 DEF IsSequence
    <3>3. side' = "lhs" /\ Aims(code', idx')
      BY <1>1, <1>6, <1>7, <1>8, <2>3
    <3> QED
      BY <3>1, <3>2, <3>3 DEF PlaceIsTyped
  <2> QED
    BY <1>1, <1>5, <1>6, <1>7, <1>8, <2>1, <2>4, GoesOn DEF shape
<1>9. CASE ~ GoodSubs
  <2>1. Leaves(stack, Error) /\ UNCHANGED lval
    BY <1>7, <1>9
  <2>2. out' = "error" /\ UNCHANGED <<stack, idx, printed>>
    BY <2>1 DEF Leaves, Error
  <2> QED
    BY <1>1, <1>6, <2>1, <2>2, Stops
<1> QED
  BY <1>8, <1>9

LEMMA CallFunctionStep ==
  ASSUME \A f, v, m : KeepsTypes(f, v, m), StatementInv, CallFunction
  PROVE  StatementInv'
<1> DEFINE n == stack[Len(stack) - 1].data
           actual == SubSeq(Popped(n + 2), 1, n)
           called == Body(Last(stack), actual, mem)
           shape == Shapes(code, side)[idx - 1]
           token == code[side][idx]
<1>1. Running /\ Op = token.tok /\ Op = "NCALL" /\ out = ""
  BY DEF CallFunction, Op, Running
<1>2. /\ IsShape(shape) /\ Fitting(stack, shape) /\ Fits(shape, token, Targets(code, side, idx))
      /\ Shapes(code, side)[idx] = After(shape, token, Targets(code, side, idx))
  BY <1>1, Finds
<1>3. token \notin Integers16 \cup Floats \cup Strings \cup Scalars \cup DOMAIN Dims
      /\ token.tok \notin Functions \cup Operators \cup Subscripting
  <2>1. token.tok \notin {"INTEGER", "FLOAT", "STRING"} \cup Variables \cup Functions \cup Operators \cup Subscripting
    BY <1>1 DEF Variables, Functions, Operators, BinaryOps, UnaryOps, ArithmeticOps, NumberTests,
                StringTests, LogicOps, Subscripting
  <2> QED
    BY <2>1, Taken, Themselves
<1> DEFINE count == Top(Lower(shape, 1))
           len == Len(shape)
<1>4. /\ len >= 2 /\ Top(shape).tok \in Functions
      /\ count.tok = "INTEGER" /\ count.data \in 0 .. len - 2
      /\ \A k \in 1 .. count.data : IsNumber(Upper(shape, count.data + 2)[k]) \/ IsText(Upper(shape, count.data + 2)[k])
  BY <1>1, <1>2, <1>3 DEF Fits
<1>5. len \in Nat /\ Len(stack) = len /\ 1 \in 0 .. len /\ len - 1 \in 1 .. len - 1 /\ len - 1 \in 1 .. len /\ len \in 1 .. len
  <2>1. len \in Nat /\ Len(stack) = len
    BY <1>2 DEF Fitting, IsShape, IsSequence
  <2> HIDE DEF len
  <2> QED
    BY <1>4, <2>1
<1>6. UNCHANGED <<code, side, lval, args, handler>> /\ IsFrame(args) /\ IsMemory(mem) /\ printed \in Nat
  BY DEF CallFunction, StatementInv, TypeOK
<1> HIDE DEF shape, token
<1>7. count = shape[len - 1]
  <2>1. Len(Lower(shape, 1)) = len - 1 /\ Lower(shape, 1)[len - 1] = shape[len - 1]
    BY <1>2, <1>5, LowerFits
  <2> QED
    BY <2>1 DEF Top
<1>8. stack[len - 1] = count /\ stack[len] = Top(shape)
  <2>1. Is(stack[len - 1], count) /\ Is(stack[len], Top(shape))
    BY <1>2, <1>5, <1>7 DEF Fitting, Top
  <2> QED
    BY <1>4, <2>1, Themselves
<1>9. n = count.data /\ Last(stack) = Top(shape)
  BY <1>5, <1>8 DEF Last
<1> HIDE DEF n, count, len
<1>10. n \in Nat /\ n + 2 \in 0 .. len /\ n + 2 \in Nat /\ Last(stack).tok \in Functions
  BY <1>4, <1>5, <1>9
<1>11. /\ DOMAIN Popped(n + 2) = 1 .. n + 2
       /\ \A k \in 1 .. n + 2 : Reads(Popped(n + 2)[k], Upper(shape, n + 2)[k])
  BY <1>2, <1>6, <1>10, PoppedReads DEF len
<1>12. IsSequence(Popped(n + 2)) /\ Len(Popped(n + 2)) = n + 2
  BY <1>10 DEF Popped, IsSequence
<1>13. IsSequence(actual) /\ Len(actual) = n /\ \A k \in 1 .. n : actual[k] = Popped(n + 2)[k]
  <2>1. 2 \in 0 .. Len(Popped(n + 2)) /\ Len(Popped(n + 2)) - 2 = n
    BY <1>10, <1>12
  <2> QED
    BY <1>12, <2>1, Cut
<1>14. \A k \in 1 .. n : actual[k] \in Data
  <2> TAKE k \in 1 .. n
  <2>1. k \in 1 .. n + 2
    BY <1>10
  <2>2. Popped(n + 2)[k] \in WildNumbers \cup Strings
    BY <1>4, <1>9, <1>11, <2>1 DEF Reads
  <2> QED
    BY <1>13, <2>2 DEF Data, WildNumbers
<1>15. IF Len(called.types) = n /\ \A k \in 1 .. n : BaseType(actual[k]) = called.types[k]
       THEN Leaves(Below(n + 2), Push(called.val)) /\ mem' = called.mem
       ELSE Leaves(stack, Error) /\ UNCHANGED mem
  BY DEF CallFunction, n
<1> HIDE DEF actual
<1>16. CASE Len(called.types) = n /\ \A k \in 1 .. n : BaseType(actual[k]) = called.types[k]
  <2>1. IsMemory(called.mem) /\ called.val \in Integers16 \cup Floats
    <3>1. KeepsTypes(Last(stack), actual, mem)
      OBVIOUS
    <3>2. Len(actual) \in Nat /\ actual = [k \in 1 .. Len(actual) |-> actual[k]]
      BY <1>13 DEF IsSequence
    <3> QED
      BY <1>6, <1>10, <1>13, <1>14, <1>16, <3>1, <3>2 DEF KeepsTypes
  <2> HIDE DEF called
  <2> DEFINE result == Push(called.val)
  <2>2. result.kind \in {"push", "arith"} /\ result.val = called.val
    BY DEF Push
  <2>3. Leaves(Below(n + 2), result) /\ mem' = called.mem
    BY <1>15, <1>16
  <2>4. idx' = idx + 1
    BY <2>3 DEF Leaves, Push
  <2>5. PlaceIsTyped'
    <3>1. Op \notin Subscripting
      BY <1>1 DEF Subscripting
    <3> QED
      BY <1>1, <1>6, <2>4, <3>1, PlaceStays
  <2>6. Is(result.val, Finite) /\ IsKind(Finite)
    BY <2>1, <2>2, KindsDiffer, LeftKinds
  <2>7. Shapes(code, side)[idx] = Append(Lower(Shapes(code, side)[idx - 1], n + 2), Finite)
    BY <1>1, <1>2, <1>9, AfterCall DEF count, shape
  <2> HIDE DEF result
  <2>8. code' = code /\ side' = side /\ args' = args /\ handler' = handler /\ IsMemory(mem') /\ n + 2 \in 0 .. Len(stack)
    BY <1>5, <1>6, <1>10, <2>1, <2>3
  <2> QED
    BY <1>1, <2>2, <2>3, <2>5, <2>6, <2>7, <2>8, Pushed
<1>17. CASE ~ (Len(called.types) = n /\ \A k \in 1 .. n : BaseType(actual[k]) = called.types[k])
  <2>1. Leaves(stack, Error) /\ UNCHANGED mem
    BY <1>15, <1>17
  <2>2. out' = "error" /\ UNCHANGED <<stack, idx, printed>>
    BY <2>1 DEF Leaves, Error
  <2> QED
    BY <1>1, <1>6, <2>1, <2>2, Stops
<1> QED
  BY <1>16, <1>17

\* When a list has run, the item that is left is what it foresees.
LEMMA AtTheEnd ==
  ASSUME StatementInv, NEW d \in {"lhs", "rhs"}, side = d, idx > Len(code[d])
  PROVE  /\ Len(code[d]) \in Nat /\ idx = Len(code[d]) + 1 /\ Len(stack) = 1
         /\ IsShape(Final(code, d)) /\ Fitting(stack, Final(code, d)) /\ Len(Final(code, d)) = 1
         /\ IsKind(Final(code, d)[1]) /\ Is(stack[1], Final(code, d)[1])
<1> DEFINE len == Len(code[d])
<1>1. len \in Nat /\ Len(Final(code, d)) = 1
  BY DEF StatementInv, TypeOK, Sound
<1>2. idx \in 1 .. len + 1 /\ idx > len
  BY DEF StatementInv, TypeOK
<1> HIDE DEF len
<1>3. idx = len + 1 /\ idx - 1 = len
  BY <1>1, <1>2
<1>4. IsShape(Final(code, d)) /\ Fitting(stack, Final(code, d))
  BY <1>3 DEF StatementInv, TypeOK, StackIsTyped, Fitting, Final, len
<1> QED
  BY <1>1, <1>3, <1>4 DEF len, IsShape, Fitting

LEMMA EndOfLhsStep == StatementInv /\ EndOfLhs => StatementInv'
<1> SUFFICES ASSUME StatementInv, EndOfLhs PROVE StatementInv'
  OBVIOUS
<1> DEFINE sym == Final(code, "lhs")[1]
<1>1. out = "" /\ side = "lhs" /\ idx > Len(code["lhs"]) /\ UNCHANGED <<code, mem, args, handler, printed>>
  BY DEF EndOfLhs
<1>2. Len(code["lhs"]) \in Nat /\ idx = Len(code["lhs"]) + 1 /\ Len(stack) = 1 /\ Is(stack[1], sym)
  BY <1>1, AtTheEnd
<1>3. sym \in IF Aims(code, Len(code["lhs"]) + 1) THEN DOMAIN Dims ELSE Scalars
  BY DEF StatementInv, TypeOK, Sound
<1>4. stack[1] = sym /\ stack[1].tok \in Variables
  BY <1>2, <1>3, Themselves
<1>5. CASE ~ Modifiable(stack[1], lval.subs)
  <2>1. out' = "error" /\ UNCHANGED <<side, idx, stack, lval>>
    BY <1>2, <1>4, <1>5 DEF EndOfLhs
  <2> QED
    BY <1>1, <2>1, Stops DEF StatementInv, TypeOK
<1>6. CASE Modifiable(stack[1], lval.subs)
  <2>1. /\ side' = "rhs" /\ idx' = 1 /\ stack' = <<>>
        /\ lval' = [lval EXCEPT !.sym = stack[1]] /\ UNCHANGED out
    BY <1>2, <1>4, <1>6 DEF EndOfLhs
  <2>2. Shapes(code, side)' = Shapes(code, "rhs") /\ Sound(code)' = Sound(code) /\ Final(code, "lhs")' = Final(code, "lhs")
    BY <1>1, <2>1, ListsStay
  <2>3. Len(code["rhs"]) \in Nat
    BY DEF StatementInv, TypeOK, Sound
  <2>4. Shapes(code, side)'[idx' - 1] = <<>>
    BY <2>1, <2>2, <2>3, ShapeSteps
  <2>5. IsShape(Shapes(code, side)[idx - 1])'
    BY <2>4 DEF IsShape, IsSequence
  <2>6. StackIsTyped'
    BY <2>1, <2>4 DEF StackIsTyped
  <2>7. PlaceIsTyped'
    <3>1. lval = [sym |-> lval.sym, subs |-> lval.subs]
      BY DEF StatementInv, TypeOK, PlaceIsTyped
    <3>2. lval' = [sym |-> sym, subs |-> lval.subs]
      BY <1>4, <2>1, <3>1
    <3>3. lval'.sym = sym /\ lval'.subs = lval.subs /\ lval' = [sym |-> lval'.sym, subs |-> lval'.subs]
      BY <3>2
    <3>4. Modifiable(lval.sym, lval.subs)'
      BY <1>1, <1>4, <1>6, <3>3 DEF Modifiable
    <3> QED
      BY <1>1, <1>2, <2>1, <2>2, <3>3, <3>4 DEF StatementInv, TypeOK, PlaceIsTyped
  <2>8. idx' \in 1 .. Len(code'[side']) + 1
    <3> DEFINE n == Len(code["rhs"])
    <3>1. n \in Nat
      BY <2>3
    <3> HIDE DEF n
    <3>2. 1 \in 1 .. n + 1
      BY <3>1
    <3>3. idx' = 1 /\ Len(code'[side']) = n
      BY <1>1, <2>1 DEF n
    <3> QED
      BY <3>2, <3>3
  <2>9. TypeOK'
    BY <1>1, <2>1, <2>2, <2>6, <2>7, <2>8 DEF StatementInv, TypeOK
  <2>10. OnlyApproxIsFatal'
    BY <1>1, <2>1 DEF OnlyApproxIsFatal
  <2> QED
    BY <2>5, <2>9, <2>10 DEF StatementInv
<1> QED
  BY <1>5, <1>6

\* Storing what the right side leaves.
LEMMA EndOfRhsStep == StatementInv /\ EndOfRhs => StatementInv'
<1> SUFFICES ASSUME StatementInv, EndOfRhs PROVE StatementInv'
  OBVIOUS
<1> DEFINE sym == Final(code, "lhs")[1]
           k == Final(code, "rhs")[1]
           top == Popped(1)[1]
           bad == top.tok = "FLOAT" /\ floatingError(top.data)
           v == IF bad THEN Float(0) ELSE top
<1>1. out = "" /\ side = "rhs" /\ idx > Len(code["rhs"]) /\ UNCHANGED <<code, side, idx, stack, lval, args, handler>>
  BY DEF EndOfRhs
<1>2. Len(stack) = 1 /\ IsShape(Final(code, "rhs")) /\ Fitting(stack, Final(code, "rhs")) /\ Len(Final(code, "rhs")) = 1
  BY <1>1, AtTheEnd
<1>3. /\ sym \in IF Aims(code, Len(code["lhs"]) + 1) THEN DOMAIN Dims ELSE Scalars
      /\ IF sym.tok = "SVAR" THEN Texts(Final(code, "rhs")) ELSE Numbers(Final(code, "rhs"))
  BY DEF StatementInv, TypeOK, Sound
<1>4. IsFrame(args) /\ IsMemory(mem) /\ printed \in Nat
  BY DEF StatementInv, TypeOK
<1>5. /\ lval.sym = sym /\ Modifiable(sym, lval.subs)
      /\ IF Aims(code, Len(code["lhs"]) + 1)
         THEN /\ Len(lval.subs) \in {1, 2} /\ lval.subs = [j \in 1 .. Len(lval.subs) |-> lval.subs[j]]
         ELSE lval.subs = <<>>
  BY <1>1 DEF StatementInv, TypeOK, PlaceIsTyped
<1>6. IF sym.tok = "SVAR" THEN top \in Strings ELSE top \in WildNumbers
  <2> DEFINE shape == Final(code, "rhs")
  <2>1. 1 \in 0 .. Len(shape)
    BY <1>2
  <2> HIDE DEF shape
  <2>2. Reads(top, Upper(shape, 1)[1])
    BY <1>2, <1>4, <2>1, PoppedReads DEF shape
  <2>3. Upper(shape, 1)[1] = shape[1]
    BY <1>2 DEF Upper, shape
  <2>4. 1 \in DOMAIN shape
    BY <1>2 DEF IsShape, IsSequence, shape
  <2>5. IF sym.tok = "SVAR" THEN IsText(shape[1]) ELSE IsNumber(shape[1])
    BY <1>3, <2>4 DEF Texts, Numbers, shape
  <2> QED
    BY <2>2, <2>3, <2>5 DEF Reads
<1>7. sym.tok \in Variables
  BY <1>3, Themselves
<1> HIDE DEF sym, k, top
<1>8. IF sym.tok = "SVAR" THEN v \in Strings ELSE v \in Integers16 \cup Floats
  <2>1. CASE bad
    <3>1. sym.tok # "SVAR"
      BY <1>6, <2>1, Taken
    <3>2. v = Float(0)
      BY <2>1
    <3> QED
      BY <3>1, <3>2, Zeros
  <2>2. CASE ~ bad
    <3>1. v = top
      BY <2>2
    <3>2. ASSUME top \in WildFloats PROVE top \in Floats
      <4>1. top.tok = "FLOAT" /\ top.data \in FloatRange /\ top = Float(top.data)
        BY <3>2, Taken
      <4>2. top.data \in FiniteRange
        BY <2>2, <4>1 DEF FloatRange, floatingError
      <4> QED
        BY <4>1, <4>2, Made
    <3> QED
      BY <1>6, <3>1, <3>2 DEF WildNumbers
  <2> QED
    BY <2>1, <2>2
<1>9. IF bad /\ handler THEN out' = "fault" /\ UNCHANGED <<mem, printed>>
      ELSE /\ printed' = IF bad THEN printed + 1 ELSE printed
           /\ IF Storable(lval.sym, v) /\ InRange(lval.sym, lval.subs)
              THEN /\ mem' = [mem EXCEPT ![<<lval.sym, lval.subs>>] = Converted(lval.sym, v)]
                   /\ out' = "done"
              ELSE out' = "error" /\ UNCHANGED mem
  BY <1>2 DEF EndOfRhs, top
<1> HIDE DEF bad, v
<1>10. printed' \in Nat
  <2>1. printed' \in {printed, printed + 1}
    BY <1>9
  <2>2. printed + 1 \in Nat
    BY <1>4
  <2> QED
    BY <1>4, <2>1, <2>2
<1>11. CASE ~ (bad /\ handler) /\ Storable(lval.sym, v) /\ InRange(lval.sym, lval.subs)
  <2> DEFINE cell == <<sym, lval.subs>>
             w == Converted(sym, v)
  <2>1. mem' = [mem EXCEPT ![cell] = w] /\ out' = "done"
    BY <1>5, <1>9, <1>11
  <2>2. cell \in Cells
    <3>1. CASE Aims(code, Len(code["lhs"]) + 1)
      <4>1. sym \in DOMAIN Dims /\ IsSequence(lval.subs) /\ Len(lval.subs) \in {1, 2}
        BY <1>3, <1>5, <3>1 DEF IsSequence, sym
      <4>2. lval.subs # <<>>
        BY <4>1
      <4>3. Len(Dims[sym]) = Len(lval.subs)
        BY <1>5, <4>2 DEF Modifiable
      <4> QED
        BY <1>5, <1>11, <4>1, <4>3, InCells
    <3>2. CASE ~ Aims(code, Len(code["lhs"]) + 1)
      BY <1>3, <1>5, <3>2 DEF Cells, sym
    <3> QED
      BY <3>1, <3>2
  <2>3. w \in ValuesOf(sym)
    <3>1. CASE sym.tok = "IVAR"
      <4>1. fits16(v) /\ v \in WildNumbers
        BY <1>5, <1>8, <1>11, <3>1, Zeros DEF Storable, WildNumbers
      <4>2. asInt16(v) \in minInt16 .. maxInt16
        BY <4>1, AsInt16Typed
      <4>3. w = Integer(asInt16(v))
        BY <3>1 DEF Converted
      <4> QED
        BY <3>1, <4>2, <4>3, Made DEF ValuesOf
    <3>2. CASE sym.tok = "FVAR"
      <4>1. v \in Integers16 \cup Floats
        BY <1>8, <3>2
      <4>2. asFloat(v) \in FiniteRange
        BY <4>1, AsFloatTyped, Taken, Zeros
      <4>3. w = Float(asFloat(v))
        BY <3>2 DEF Converted
      <4> QED
        BY <3>2, <4>2, <4>3, Made DEF ValuesOf
    <3>3. CASE sym.tok = "SVAR"
      BY <1>8, <3>3 DEF ValuesOf, Converted
    <3> QED
      BY <1>7, <3>1, <3>2, <3>3 DEF Variables
  <2> HIDE DEF w
  <2>4. cell[1] = sym
    OBVIOUS
  <2> HIDE DEF cell
  <2>5. IsMemory(mem')
    <3>1. mem' = [c \in Cells |-> mem'[c]]
      BY <1>4, <2>1 DEF IsMemory
    <3>2. \A c \in Cells : mem'[c] = IF c = cell THEN w ELSE mem[c]
      BY <1>4, <2>1 DEF IsMemory
    <3>3. \A c \in Cells : mem'[c] \in ValuesOf(c[1])
      BY <1>4, <2>3, <2>4, <3>2 DEF IsMemory
    <3> QED
      BY <3>1, <3>3 DEF IsMemory
  <2> QED
    BY <1>1, <1>10, <2>1, <2>5, Stops
<1>12. CASE ~ (~ (bad /\ handler) /\ Storable(lval.sym, v) /\ InRange(lval.sym, lval.subs))
  <2>1. out' \in {"fault", "error"} /\ mem' = mem
    BY <1>9, <1>12
  <2>2. IsMemory(mem')
    BY <1>4, <2>1
  <2> QED
    BY <1>1, <1>10, <2>1, <2>2, Stops
<1> QED
  BY <1>11, <1>12

-----------------------------------------------------------------------------
(* The statement.                                                           *)

LEMMA StatementStarts == RpnInit => StatementInv
<1> SUFFICES ASSUME RpnInit PROVE StatementInv
  OBVIOUS
<1>1. /\ side = "lhs" /\ idx = 1 /\ stack = <<>> /\ lval = [sym |-> Integer(0), subs |-> <<>>]
      /\ printed = 0 /\ out = "" /\ Sound(code) /\ IsMemory(mem) /\ IsFrame(args) /\ handler \in BOOLEAN
  BY DEF RpnInit, Start
<1>2. Len(code["lhs"]) \in Nat
  BY <1>1 DEF Sound
<1>3. Shapes(code, side)[idx - 1] = <<>>
  <2>1. idx - 1 = 0
    <3>1. idx = 1
      BY <1>1
    <3> QED
      BY <3>1
  <2>2. Shapes(code, "lhs")[0] = <<>>
    BY <1>2, ShapeSteps
  <2> QED
    BY <1>1, <2>1, <2>2
<1>4. IsShape(Shapes(code, side)[idx - 1])
  BY <1>3 DEF IsShape, IsSequence
<1>5. StackIsTyped
  <2> DEFINE shape == Shapes(code, side)[idx - 1]
  <2>1. shape = <<>>
    BY <1>3
  <2> HIDE DEF shape
  <2>2. stack = <<>>
    BY <1>1
  <2>3. Len(stack) = Len(shape) /\ stack = [k \in 1 .. Len(shape) |-> stack[k]]
        /\ \A k \in 1 .. Len(shape) : Is(stack[k], shape[k])
    BY <2>1, <2>2
  <2> QED
    BY <2>3 DEF StackIsTyped, shape
<1>6. ~ Aims(code, 1)
  BY DEF Aims
<1>7. PlaceIsTyped
  BY <1>1, <1>6 DEF PlaceIsTyped
<1>8. idx \in 1 .. Len(code[side]) + 1
  <2> DEFINE n == Len(code["lhs"])
  <2>1. n \in Nat
    BY <1>2
  <2> HIDE DEF n
  <2>2. 1 \in 1 .. n + 1
    BY <2>1
  <2> QED
    BY <1>1, <2>2 DEF n
<1>9. TypeOK
  BY <1>1, <1>5, <1>7, <1>8 DEF TypeOK
<1>10. OnlyApproxIsFatal
  BY <1>1 DEF OnlyApproxIsFatal
<1> QED
  BY <1>4, <1>9, <1>10 DEF StatementInv

LEMMA StatementGoesOn ==
  ASSUME \A f, v, m : KeepsTypes(f, v, m), StatementInv, [Process]_rpnVars
  PROVE  StatementInv'
<1>1. CASE UNCHANGED rpnVars
  <2>1. UNCHANGED <<code, side, idx, stack, lval, mem, args, handler, printed, out>>
    BY <1>1 DEF rpnVars
  <2>2. Shapes(code, side)' = Shapes(code, side) /\ Sound(code)' = Sound(code) /\ Final(code, "lhs")' = Final(code, "lhs")
    BY <2>1, ListsStay
  <2>3. StackIsTyped' /\ PlaceIsTyped' /\ IsShape(Shapes(code, side)[idx - 1])'
    BY <2>1, <2>2 DEF StatementInv, TypeOK, StackIsTyped, PlaceIsTyped, Modifiable
  <2>4. OnlyApproxIsFatal'
    <3>1. Op' = Op /\ Popped(2)' = Popped(2)
      BY <2>1 DEF Op, Popped, Value
    <3> QED
      BY <2>1, <3>1 DEF StatementInv, OnlyApproxIsFatal
  <2> QED
    BY <2>1, <2>2, <2>3, <2>4 DEF StatementInv, TypeOK
<1>2. CASE PushOperand
  BY <1>2, PushOperandStep
<1>3. CASE Operate
  BY <1>3, OperateStep
<1>4. CASE Subscript
  BY <1>4, SubscriptStep
<1>5. CASE SubscriptTarget
  BY <1>5, SubscriptTargetStep
<1>6. CASE CallFunction
  BY <1>6, CallFunctionStep
<1>7. CASE EndOfLhs
  BY <1>7, EndOfLhsStep
<1>8. CASE EndOfRhs
  BY <1>8, EndOfRhsStep
<1> QED
  BY <1>1, <1>2, <1>3, <1>4, <1>5, <1>6, <1>7, <1>8 DEF Process

\* Whatever the token lists, the widths and the memory: the stack is what the lists say, and
\* what is stored has the type of its symbol (processLhs), if a user function keeps to that.
THEOREM StatementsAreTyped ==
  ASSUME \A f, v, m : KeepsTypes(f, v, m)
  PROVE  RpnSpec => []TypeOK
<1>1. RpnInit => StatementInv
  BY StatementStarts
<1>2. StatementInv /\ [Process]_rpnVars => StatementInv'
  BY StatementGoesOn
<1>3. StatementInv => TypeOK
  BY DEF StatementInv
<1> QED
  BY <1>1, <1>2, <1>3, PTL DEF RpnSpec

\* No operator but == finds operands that take the interpreter to fatalError.
THEOREM OnlyApproxGivesUp ==
  ASSUME \A f, v, m : KeepsTypes(f, v, m)
  PROVE  RpnSpec => []OnlyApproxIsFatal
<1>1. RpnInit => StatementInv
  BY StatementStarts
<1>2. StatementInv /\ [Process]_rpnVars => StatementInv'
  BY StatementGoesOn
<1>3. StatementInv => OnlyApproxIsFatal
  BY DEF StatementInv
<1> QED
  BY <1>1, <1>2, <1>3, PTL DEF RpnSpec
=============================================================================
