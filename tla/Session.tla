------------------------------- MODULE Session -------------------------------
(***************************************************************************)
(* The program in memory and its files: the lines the parser accepts       *)
(* (parser.y, basic.go, stmt.go), the commands NEW, OLD, SAVE, EDIT,       *)
(* RENUMBER, DELETE, RELOAD and BYE (execute.go, basic.go), and the        *)
(* loading of a program line by line through the lexer.                    *)
(*                                                                         *)
(* A line is kept twice: as its tokens, of which the number, where among   *)
(* its statements an END stands (first, later or not at all) and the line  *)
(* numbers that it refers to count here, and as its text, which SAVE       *)
(* writes and RENUMBER rewrites, with the places of the numbers in it.  A  *)
(* file is a sequence of texts; one that does not parse makes BadLine.     *)
(* In a text a word is one character, and "goto" stands for whatever has   *)
(* line numbers behind it, with the blank that sets them off.              *)
(***************************************************************************)
EXTENDS Integers, FiniteSets, FiniteSetsExt, Functions, SequencesExt

CONSTANTS
  maxInt16,     \* math.MaxInt16, the largest line number
  maxLineLen,
  Digits,       \* the characters that numbers are written with
  numeral(_),   \* strconv.FormatInt: the digits of a line number
  value(_),     \* strconv.ParseInt: the number that some digits are
  Names,        \* the names of program files
  NoName,       \* the empty string as a name
  Absent,       \* the contents of a file that does not exist
  BadLine,      \* a line that is not in Text
  Typed,        \* the texts the user types
  Edited,       \* what the editor may leave in a file
  Increments,   \* the operands of RENUMBER
  Faults        \* what may go wrong: a subset of AllFaults

AllFaults == {"open", "read", "write", "editor"}

LineNos == 1 .. maxInt16
Heads   == {"goto", "end", "other"}
Chars   == Digits \cup Heads \cup {"blank", "comma", "colon"}

\* numEnd: stmtNoTokenLoc.end.column; the k-th reference is behind column at[k], up to upto[k].
Bodies  == {b \in [end : {"first", "later", "none"}, refs : Seq(LineNos),
                   text : Seq(Chars), numEnd : Nat, at : Seq(Nat), upto : Seq(Nat)] :
              Len(b.at) = Len(b.refs) /\ Len(b.upto) = Len(b.refs)}

\* A line that parses; del: a number alone, which deletes the line.
Text == [no : LineNos, del : BOOLEAN, body : Bodies]

ASSUME SessionAssumption ==
  /\ maxInt16 \in Nat \ {0} /\ maxLineLen \in Nat /\ NoName \notin Names
  /\ Digits \cap (Heads \cup {"blank", "comma", "colon"}) = {}
  /\ \A n \in LineNos : numeral(n) \in Seq(Digits) \ {<<>>} /\ value(numeral(n)) = n
  /\ BadLine \notin Text /\ Typed \subseteq Seq(Chars)
  /\ Increments \subseteq LineNos /\ Faults \subseteq AllFaults
  /\ Absent \notin Seq(Seq(Chars)) /\ Edited \subseteq Seq(Seq(Chars))

VARIABLES
  store,            \* lines: g.program, from line numbers to bodies; end: g.endStmtNo
  modified,         \* g.modified
  programFilename,  \* g.programFilename
  loading, rest,    \* whether g.programFile is open, and its lines not yet read
  disk,             \* the program files
  alive,            \* whether the interpreter is running
  \* Of the user's side:
  unsaved,          \* he has changed the program since it was last loaded or saved
  origin,           \* the file that the program was read from or written to in full
  last              \* the last command, and the questions he answered with yes

vars == <<store, modified, programFilename, loading, rest, disk, alive, unsaved, origin, last>>

Empty == [lines |-> <<>>, end |-> 0]

-----------------------------------------------------------------------------
(* Lines in order.                                                          *)

Rank(nos, n) == Cardinality({m \in nos : m <= n})
Nth(nos, k)  == CHOOSE n \in nos : Rank(nos, n) = k

-----------------------------------------------------------------------------
(* Texts.                                                                   *)

\* The column of the last digit of a number that begins behind column c, or c.
numberEnd(text, c) == Max({q \in c .. Len(text) : \A j \in c + 1 .. q : text[j] \in Digits})

\* NewLexer: a blank behind the number, unless the line begins with a blank, which goes.
prepared(text) ==
  LET n == numberEnd(text, 0)
  IN  IF text # <<>> /\ Head(text) = "blank" THEN Tail(text)
      ELSE IF n = 0 \/ n = Len(text) \/ text[n + 1] = "blank" THEN text
      ELSE InsertAt(text, n + 1, "blank")

\* What may stand behind a character.
follow(ch) ==
  CASE ch \in Digits            -> Digits \cup {"comma", "colon"}
    [] ch \in {"goto", "comma"} -> Digits
    [] ch \in {"end", "other"}  -> {"colon"}
    [] OTHER                    -> Heads

\* Statements from column c on, with colons between them.
isStatements(text, c) ==
  /\ text[c] \in Heads /\ text[Len(text)] \notin {"goto", "comma", "colon"}
  /\ \A p \in c .. Len(text) - 1 : text[p + 1] \in follow(text[p])

\* The parser's reading of a line. The column of the first statement tells where the number
\* ends, as if a blank were between them; without one 60END is a float.
read(text) ==
  LET n         == numberEnd(text, 0)
      head      == IF n < Len(text) /\ text[n + 1] = "blank" THEN n + 2 ELSE n + 1
      no        == value(SubSeq(text, 1, n))
      columns   == {c \in head .. Len(text) - 1 : text[c] \notin Digits /\ text[c + 1] \in Digits}
      number(c) == value(SubSeq(text, c + 1, numberEnd(text, c)))
      indices   == 1 .. Cardinality(columns)
      ends      == {c \in head .. Len(text) : text[c] = "end"}
      body      == [end    |-> IF ends = {} THEN "none" ELSE IF head \in ends THEN "first" ELSE "later",
                    refs   |-> [k \in indices |-> number(Nth(columns, k))],
                    text   |-> text,
                    numEnd |-> head - 2,
                    at     |-> [k \in indices |-> Nth(columns, k)],
                    upto   |-> [k \in indices |-> numberEnd(text, Nth(columns, k))]]
  IN  IF n = 0 \/ no \notin LineNos THEN BadLine
      ELSE IF head > Len(text)
      THEN [no |-> no, del |-> TRUE, body |-> [body EXCEPT !.refs = <<>>, !.at = <<>>, !.upto = <<>>]]
      ELSE IF /\ isStatements(text, head) /\ (head = n + 1 => text[head] # "end")
              /\ \A c \in columns : number(c) \in LineNos
      THEN [no |-> no, del |-> FALSE, body |-> body]
      ELSE BadLine

\* A line that is typed or read from a file.
parse(text) == IF Len(prepared(text)) > maxLineLen THEN BadLine ELSE read(prepared(text))

-----------------------------------------------------------------------------
(* The tree of statements.                                                  *)

\* Fault variant: g.endStmtNo survives its statement.
removedKeepsEnd(s, nos) == [s EXCEPT !.lines = Restrict(@, DOMAIN @ \ nos)]

\* stmtAvlTreeRemove of every line in nos.
removed(s, nos) ==
  [lines |-> Restrict(s.lines, DOMAIN s.lines \ nos),
   end   |-> IF s.end \in DOMAIN s.lines \cap nos THEN 0 ELSE s.end]

\* insertStmtNode: an old line of that number goes first.
inserted(s, t) ==
  LET old == removed(s, {t.no})
  IN  [lines |-> [n \in DOMAIN old.lines \cup {t.no} |->
                    IF n = t.no THEN t.body ELSE old.lines[n]],
       end   |-> IF t.body.end = "first" THEN t.no ELSE old.end]

\* Fault variant: a line may follow END.
acceptsBehindEnd(s, t) ==
  t.body.end # "none" => IF s.end = 0 THEN \A n \in DOMAIN s.lines : n <= t.no ELSE s.end = t.no

\* END must be last and alone, and nothing may follow it.
accepted(s, t) ==
  /\ t.body.end # "none" => IF s.end = 0 THEN \A n \in DOMAIN s.lines : n <= t.no ELSE s.end = t.no
  /\ s.end # 0 => t.no <= s.end

\* The store after the parser has seen a line.
entered(s, t) ==
  IF t \notin Text THEN s
  ELSE IF t.del THEN removed(s, {t.no})
  ELSE IF accepted(s, t) THEN inserted(s, t)
  ELSE s

\* Whether a line changes the tree, and with it g.modified.
touches(s, t) ==
  /\ t \in Text
  /\ IF t.del THEN t.no \in DOMAIN s.lines ELSE accepted(s, t)

\* Whether the parser closes the file that is being loaded behind a line.
closesFile(s, t) == t \in Text /\ ~ t.del /\ accepted(s, t) /\ inserted(s, t).end # 0

\* One more line of a file that is being loaded, unless the parser has closed it.
loadedLine(acc, t) ==
  IF acc.closed THEN acc
  ELSE [store |-> entered(acc.store, t), closed |-> closesFile(acc.store, t)]

\* What the lines of a file make of the empty program, one after the other.
loadedUpTo(file) ==
  LET load[k \in 0 .. Len(file)] ==
        IF k = 0 THEN [store |-> Empty, closed |-> FALSE] ELSE loadedLine(load[k - 1], parse(file[k]))
  IN  load

\* What OLD makes of a file.
loadedFrom(file) == loadedUpTo(file)[Len(file)].store

-----------------------------------------------------------------------------
(* SAVE and RENUMBER.                                                       *)

\* saveProgram walks the tree in order.
saveProgram(lines) ==
  LET nos == DOMAIN lines
  IN  [k \in 1 .. Cardinality(nos) |-> lines[Nth(nos, k)].text]

replaceSubstring(text, from, to, new) == SubSeq(text, 1, from) \o new \o SubSeq(text, to + 1, Len(text))

\* Fault variant: what one reference gains or loses does not move the next.
movesOnce(bias, old, new) == bias

\* By how much the text behind a reference has moved, if the reference was written as
\* numbers are printed.
moved(bias, old, new) == bias + Len(numeral(new)) - Len(numeral(old))

\* A line's text with its new number, and by how much what is behind it has moved.
numbered(b, no) ==
  [text |-> replaceSubstring(b.text, 0, b.numEnd, numeral(no)),
   bias |-> Len(numeral(no)) - b.numEnd, torn |-> FALSE]

\* The k-th reference too; torn: it would be beyond the end, which is a Go panic.
nextRewritten(b, new, k, old) ==
  LET ref  == b.refs[k]
      from == b.at[k] + old.bias
      to   == b.upto[k] + old.bias
      torn == old.torn \/ ~ ({from, to} \subseteq 0 .. Len(old.text))
  IN  [text |-> IF torn THEN old.text ELSE replaceSubstring(old.text, from, to, numeral(new[ref])),
       bias |-> moved(old.bias, ref, new[ref]), torn |-> torn]

\* The steps of the rewriting of a line: first its number, then each reference.
rewriting(b, no, new) ==
  LET w[k \in 0 .. Len(b.refs)] ==
        IF k = 0 THEN numbered(b, no) ELSE nextRewritten(b, new, k, w[k - 1])
  IN  w

\* A line with its new number and references.
rewritten(b, no, new) ==
  LET w     == rewriting(b, no, new)
      at(k) == b.at[k] + w[k - 1].bias
  IN  [b EXCEPT !.refs   = [k \in DOMAIN b.refs |-> new[b.refs[k]]],
                !.text   = w[Len(b.refs)].text,
                !.numEnd = Len(numeral(no)),
                !.at     = [k \in DOMAIN b.refs |-> at(k)],
                !.upto   = [k \in DOMAIN b.refs |-> at(k) + Len(numeral(new[b.refs[k]]))]]

\* The k-th line becomes k * inc.
newNumbers(lines, inc) == [m \in DOMAIN lines |-> inc * Rank(DOMAIN lines, m)]

\* The lines before the first that is torn: all of them, unless there is a Go panic.
rewritable(lines, inc) ==
  LET new     == newNumbers(lines, inc)
      torn(m) == rewriting(lines[m], new[m], new)[Len(lines[m].refs)].torn
  IN  {m \in DOMAIN lines : \A l \in DOMAIN lines : l <= m => ~ torn(l)}

\* Fault variant: the references to line numbers stay.
renumberKeepsRefs(lines, inc) ==
  LET new == newNumbers(lines, inc)
      old(n) == CHOOSE m \in DOMAIN lines : new[m] = n
  IN  [n \in {new[m] : m \in rewritable(lines, inc)} |-> lines[old(n)]]

\* The tree that is built anew: every reference follows its line.
renumbered(lines, inc) ==
  LET new == newNumbers(lines, inc)
      old(n) == CHOOSE m \in DOMAIN lines : new[m] = n
  IN  [n \in {new[m] : m \in rewritable(lines, inc)} |-> rewritten(lines[old(n)], n, new)]

\* Fault variant: a line number too many.
fitsLate(lines, inc) == inc * (Cardinality(DOMAIN lines) - 1) <= maxInt16

\* No line number wraps below zero.
fits(lines, inc) == inc * Cardinality(DOMAIN lines) <= maxInt16

\* No line refers to a line that is not there.
refsExist(lines) == \A n \in DOMAIN lines : Range(lines[n].refs) \subseteq DOMAIN lines

\* Rebuilding the tree finds END again.
endOf(lines) == Max({0} \cup {n \in DOMAIN lines : lines[n].end = "first"})

-----------------------------------------------------------------------------
(* Commands.  Each asks its questions first; any answer but yes ends it.    *)

AtPrompt == alive /\ ~ loading

Done(cmd, consent) == last' = [cmd |-> cmd, consent |-> consent]

UnchangedButLast ==
  UNCHANGED <<store, modified, programFilename, loading, rest, disk, alive, unsaved, origin>>

Refused(questions) == questions # {} /\ UnchangedButLast /\ Done("refused", {})

\* Fault variants: the user is not asked.
neverAsks     == {}
neverWarns(f) == {}

checkModified     == IF modified THEN {"discard"} ELSE {}
checkOverwrite(f) == IF disk[f] # Absent THEN {"overwrite"} ELSE {}

\* A line typed at the prompt.
TypeLine(text) ==
  /\ AtPrompt
  /\ LET t == parse(text)
     IN  /\ store' = entered(store, t)
         /\ modified' = (modified \/ touches(store, t))
         /\ unsaved' = (unsaved \/ touches(store, t))
  /\ UNCHANGED <<programFilename, loading, rest, disk, alive, origin>>
  /\ Done("line", {})

\* DELETE of a range of lines.
executeDelete(from, to) ==
  /\ AtPrompt
  /\ LET nos == (from .. to) \cap DOMAIN store.lines
     IN  /\ store' = removed(store, nos)
         /\ modified' = (modified \/ nos # {})
         /\ unsaved' = (unsaved \/ nos # {})
  /\ UNCHANGED <<programFilename, loading, rest, disk, alive, origin>>
  /\ Done("line", {})

\* RENUMBER checks all numbers before it changes anything, and rebuilds nothing if no number
\* would change. If a text is torn, the tree has the lines that were inserted before.
executeRenumber(inc) ==
  /\ AtPrompt
  /\ LET lines == store.lines
         new   == renumbered(lines, inc)
         whole == rewritable(lines, inc) = DOMAIN lines
         made  == rewritable(lines, inc) # {}
     IN  IF fits(lines, inc) /\ refsExist(lines) /\ \E m \in DOMAIN lines : newNumbers(lines, inc)[m] # m
         THEN /\ store' = [lines |-> new, end |-> endOf(new)]
              /\ modified' = (modified \/ made) /\ unsaved' = (unsaved \/ made)
              /\ origin' = IF whole THEN origin ELSE NoName
              /\ UNCHANGED <<programFilename, loading, rest, disk, alive>>
              /\ Done(IF whole THEN "renumber" ELSE "panic", {})
         ELSE UnchangedButLast /\ Done("refused", {})

\* Fault variant: the flag is cleared before the file is written.
saveClearsEarly(name, file, yes) ==
  \/ /\ disk' = [disk EXCEPT ![name] = file]
     /\ modified' = FALSE /\ unsaved' = FALSE /\ origin' = name
     /\ Done("save", yes)
  \/ /\ "write" \in Faults
     /\ \E k \in 0 .. Len(file) : disk' = [disk EXCEPT ![name] = SubSeq(file, 1, k)]
     /\ modified' = FALSE /\ UNCHANGED unsaved
     /\ origin' = IF origin = name THEN NoName ELSE origin
     /\ Done("failed", yes)

\* The file is truncated, then written; if that fails part of it is there, and the flag
\* keeps its value.
saveTo(name, file, yes) ==
  \/ /\ disk' = [disk EXCEPT ![name] = file]
     /\ modified' = FALSE /\ unsaved' = FALSE /\ origin' = name
     /\ Done("save", yes)
  \/ /\ "write" \in Faults
     /\ \E k \in 0 .. Len(file) : disk' = [disk EXCEPT ![name] = SubSeq(file, 1, k)]
     /\ UNCHANGED <<modified, unsaved>>
     /\ origin' = IF origin = name THEN NoName ELSE origin
     /\ Done("failed", yes)

executeSave(operand) ==
  LET name      == IF operand = NoName THEN programFilename ELSE operand
      questions == IF operand = NoName THEN {} ELSE checkOverwrite(operand)
  IN  /\ AtPrompt
      /\ \/ (name = NoName \/ "open" \in Faults) /\ UnchangedButLast /\ Done("failed", {})
         \/ name # NoName /\ Refused(questions)
         \/ /\ name # NoName
            /\ saveTo(name, saveProgram(store.lines), questions)
            /\ programFilename' = IF last'.cmd = "save" THEN name ELSE programFilename
            /\ UNCHANGED <<store, loading, rest, alive>>

\* NEW takes its name even if the file cannot be created.
executeNew(name) ==
  LET questions == checkModified \cup (IF name = NoName THEN {} ELSE checkOverwrite(name))
  IN  /\ AtPrompt
      /\ \/ Refused(questions)
         \/ /\ store' = Empty /\ modified' = FALSE /\ unsaved' = FALSE
            /\ programFilename' = name
            /\ \/ /\ name # NoName
                  /\ disk' = [disk EXCEPT ![name] = <<>>] /\ origin' = name
               \/ /\ name = NoName \/ "open" \in Faults
                  /\ UNCHANGED disk /\ origin' = NoName
            /\ UNCHANGED <<loading, rest, alive>>
            /\ Done("new", questions)

\* executeOld behind its question, with the files d: the old program is gone before the
\* file is opened, and if that fails neither the flag nor the name is touched.
openOld(name, d) ==
  /\ store' = Empty /\ unsaved' = FALSE /\ disk' = d
  /\ \/ /\ d[name] # Absent
        /\ loading' = TRUE /\ rest' = d[name]
        /\ programFilename' = name /\ modified' = FALSE /\ origin' = name
     \/ /\ d[name] = Absent \/ "open" \in Faults
        /\ origin' = NoName
        /\ UNCHANGED <<loading, rest, programFilename, modified>>

executeOld(name) ==
  /\ AtPrompt
  /\ \/ Refused(checkModified)
     \/ openOld(name, disk) /\ UNCHANGED alive /\ Done("old", checkModified)

\* EDIT saves nothing; it lets the editor change the file and loads it.  OLD asks again.
executeEdit ==
  /\ AtPrompt /\ programFilename # NoName
  /\ \/ Refused(checkModified)
     \/ \E file \in Edited :
          LET d == [disk EXCEPT ![programFilename] = file]
          IN  \/ /\ "editor" \in Faults \/ checkModified # {}
                 /\ disk' = d
                 /\ origin' = IF origin = programFilename THEN NoName ELSE origin
                 /\ UNCHANGED <<store, modified, programFilename, loading, rest, alive, unsaved>>
                 /\ Done("edit", {})
              \/ openOld(programFilename, d) /\ UNCHANGED alive /\ Done("edit", checkModified)

\* The process is gone, and the memory with it.
Exit(cmd, consent) ==
  /\ alive' = FALSE /\ loading' = FALSE /\ rest' = <<>>
  /\ store' = Empty /\ modified' = FALSE /\ programFilename' = NoName
  /\ unsaved' = FALSE /\ origin' = NoName /\ UNCHANGED disk
  /\ Done(cmd, consent)

executeBye == AtPrompt /\ (Refused(checkModified) \/ Exit("bye", checkModified))

\* A new process, with the program's file as its argument.
executeReload ==
  /\ AtPrompt
  /\ \/ Refused(checkModified)
     \/ programFilename = NoName /\ Exit("bye", checkModified)
     \/ /\ programFilename # NoName
        /\ UNCHANGED alive /\ Done("reload", checkModified)
        /\ store' = Empty /\ unsaved' = FALSE /\ UNCHANGED disk
        /\ \/ /\ disk[programFilename] # Absent
              /\ loading' = TRUE /\ rest' = disk[programFilename]
              /\ modified' = FALSE /\ origin' = programFilename /\ UNCHANGED programFilename
           \/ /\ disk[programFilename] = Absent \/ "open" \in Faults
              /\ modified' = FALSE /\ origin' = NoName /\ programFilename' = NoName
              /\ UNCHANGED <<loading, rest>>

\* SIGQUIT prints the stacks and ends the process, whatever it is doing.
Quit == alive /\ Exit("sigquit", {})

\* main, with or without a file to load.
Start ==
  /\ ~ alive /\ alive' = TRUE
  /\ \/ UNCHANGED <<store, modified, programFilename, loading, rest, disk, unsaved, origin>>
     \/ \E name \in Names : openOld(name, disk)
  /\ Done("start", {})

-----------------------------------------------------------------------------
(* Loading: one line per turn of main's loop.                               *)

closeProgramFile == loading' = FALSE /\ rest' = <<>> /\ modified' = FALSE

ReadLine ==
  /\ loading /\ rest # <<>>
  /\ LET t == parse(Head(rest))
     IN  /\ store' = entered(store, t)
         /\ IF closesFile(store, t)
            THEN closeProgramFile
            ELSE /\ rest' = Tail(rest)
                 /\ modified' = (modified \/ touches(store, t))
                 /\ UNCHANGED loading
  /\ UNCHANGED <<programFilename, disk, alive, unsaved, origin>> /\ Done("load", {})

EndOfFile ==
  /\ loading /\ rest = <<>>
  /\ closeProgramFile
  /\ UNCHANGED <<store, programFilename, disk, alive, unsaved, origin>> /\ Done("load", {})

ReadError ==
  /\ loading /\ "read" \in Faults
  /\ closeProgramFile /\ origin' = NoName
  /\ UNCHANGED <<store, programFilename, disk, alive, unsaved>> /\ Done("load", {})

-----------------------------------------------------------------------------

Init ==
  /\ store = Empty /\ modified = FALSE /\ programFilename = NoName
  /\ loading = FALSE /\ rest = <<>> /\ disk = [f \in Names |-> Absent]
  /\ alive = FALSE /\ unsaved = FALSE /\ origin = NoName
  /\ last = [cmd |-> "", consent |-> {}]

Command ==
  \/ \E text \in Typed : TypeLine(text)
  \/ \E from, to \in LineNos : executeDelete(from, to)
  \/ \E inc \in Increments : executeRenumber(inc)
  \/ \E name \in Names \cup {NoName} : executeSave(name) \/ executeNew(name)
  \/ \E name \in Names : executeOld(name)
  \/ executeEdit \/ executeBye \/ executeReload

Next == Command \/ Quit \/ Start \/ ReadLine \/ EndOfFile \/ ReadError

Spec == Init /\ [][Next]_vars
=============================================================================
