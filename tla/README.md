# Verification of the basic-plus interpreter

`src/` holds an interpreter of BASIC-PLUS in Go: a line-oriented session with a
program in memory, a parser made by goyacc, an execution engine that walks the
statements of the program, an expression processor that runs postfix lists, and
I/O channels on files of text and of records. This directory holds TLA+ modules
that model its parts, the configurations with which TLC checks them on small
instances, and proofs of their main invariants for every instance.

Contents: [inventory](#inventory) · [plan](#plan) · [the modules](#the-modules) ·
[the runs](#the-runs) · [fairness](#fairness) · [the proofs](#the-proofs) ·
[what is only model-checked](#what-is-only-model-checked) ·
[what is not modelled](#what-is-not-modelled) · [divergences](#divergences)

## Inventory

One goroutine reads lines, parses them and runs programs. Beside it run the
signal goroutine (`sigHdlr`: SIGINT, SIGQUIT, SIGWINCH), the scanner goroutine
that hands the parser one token at a time, and one goroutine for each call of a
multi-line user function, for which the caller waits on a channel. The state is
in two structs, `g` (the session) and `r` (the run, reset by `initializeRun`).

| Component | State | Operations | Hard behaviour | What makes it correct |
| --- | --- | --- | --- | --- |
| Execution engine (`execute.go`, `basic.go`, `stmt.go`, `errors.go`) | `r.curStmt`, `r.nextStmt`, `r.forStack`, `r.gosubStack`, `r.userDefStack`, `r.level`, `r.onErrorStmtNo`, `r.fip`, `g.interrupted`, `g.running` | the statements that transfer control, functions, ON ERROR and RESUME, RUN, STOP, CONT, immediate statements | interrupts between any two statements, faults inside functions inside loops, what an aborted call leaves behind | stacks within limits, pointers followed without test are good, control stays in its function, handlers catch and do not nest, CONT resumes in place, an interrupt stops the program |
| Program and program files (`stmt.go`, `parser.y`, `execute.go`, `basic.go`, `lexer.go`) | `g.program`, `g.endStmtNo`, `g.modified`, `g.programFilename`, `g.programFile`, the `.bas` files | entering and deleting lines, NEW, OLD, SAVE, EDIT, RENUMBER, RELOAD, BYE, loading line by line | I/O errors between two steps of a command, questions answered no, files with lines that do not parse | no work is lost without a question, files are overwritten by consent only, END stays last, RENUMBER keeps the program |
| File channels and record I/O (`execute.go`, `utils.go`) | `r.openFiles`, `r.fieldMap`, the data files with their sticky bit | OPEN, CLOSE, PRINT #, INPUT #, FIELD, GET, PUT, KILL | statements in any order, failures after partial effects, type of a file cached in the channel | text and records never mix, a file keeps its type, none is removed in use |
| Expression evaluation (`execute.go`, `basic.go`, `parser.y`, `symtab.go`) | the stack of a `procState`, the variables | one case of `evaluateRpnExprInternal` for each operator, LET | symbols read late, calls with side effects inside expressions, faults survived in the middle | the value is that of the tree, types are those the parser saw, nothing out of range is stored |
| Numbers (`execute.go`, `utils.go`) | loop variables, limits, steps | `incrementLoopVar`, `checkLoopTermination`, conversions, CVT, RND | wrap-around at the ends of int16, floats that a step does not change | a loop has each of its values once, and ends |
| Printing and zones (`utils.go`, `execute.go`) | `p` (zone and position), `g.numOutputZones` | PRINT, comma, TAB, MAT PRINT, INPUT, SIGWINCH | the signal goroutine changes the number of zones while a line is printed; items call functions that print | the position is that of the terminal, commas reach a zone of the window, the prompt stands at the beginning of a line |
| PRINT USING (`prtu.go`) | a format and its position, the record of a field | parsing and filling of fields | one record for all fields, formats at their ends | a field takes the columns that the format gives it, none is read beyond the format |
| Matrices (`mat.go`, `execute.go`) | arrays as slices of rows | MAT assignment, arithmetic, INV, TRN, READ, INPUT, PRINT, CHANGE | rows shared between matrices, shapes that INV and TRN leave behind | shared rows lie at the same place, refused statements change nothing, elements stay in reach |
| Symbols and declarations (`symtab.go`, `basic.go`) | symbol table, DIM, DEF, DATA | lookup, implicit arrays, reset on edits | what survives a reset | a name means one thing in a run |
| Parser and lexer (`parser.y`, `lexer.go`, `utils.go`) | the line being scanned, `parsingDef` | blanks, lexemes, tokens; trees of tokens | a separator that waits for its successor, a line that is changed before it is scanned and stored as changed | a saved line is read as what it was, separators are told apart, strings are kept |
| Error table, terminal input, help, version, statistics, tracing, build files | | | no state that another part reads | |

Interaction: the session loads lines through the parser into the tree of
statements; RUN hands that tree to the engine (which relies on END being last);
the engine evaluates expressions, which call functions, which run the engine
again; statements use the channels, whose errors come back to the engine as
faults with a number or without.

## Plan

Most important first; each module is written so that it can be proved about.

1. **Engine** - done, with proofs.
2. **Session** - done, with proofs.
3. **Files**, as an implementation of **FileStore** - done, with proofs of the
   invariants and of the refinement.
4. **Rpn** and **Expressions** - done for LET, with proofs about the stack machine:
   `Rpn` and `RpnProps` are free of recursive operators, and the trees are in a
   module of their own. To come: POW and more of the library; assignments to
   functions.
5. **Arrays**, with rows as references so that aliasing shows: declarations,
   MAT, READ, CHANGE - done for numbers, with proofs.
6. **Printing**, with the SIGWINCH goroutine, and **PrintUsing** - done, with
   proofs.
7. **Lines**, the lexer with the line that is saved and read again - done, with
   proofs of its three properties, for lines of any length.
8. **ForLoop**, the arithmetic of FOR against the set of values it is written
   for - done, with proofs.
9. To come: parameters and locals of functions, with the mapped strings of FIELD,
   LSET and RSET; an abstract interpreter without interrupts, which Engine with
   interrupts and CONT should implement except for the divergences listed below;
   a composition of Engine and Files: which faults of a channel a handler sees.

## The modules

Each component has a module with the behaviour, one with its properties
(`...Props`), one with instances for TLC (`MC...`) and, if there is one, one with
proofs (`...Proofs`; `LanguageProofs` has those about Lines and about Rpn).
Definitions bear the names of the code they translate.

### Engine

The constant `Prog` is the sequence of statement nodes in the order
`computeNextStmt` visits them; data is abstracted: conditions and bounds are free
choices, and each node lists the faults its own work may raise. `pc` divides a
statement where the code can be left: `fetch` (`executeStmt` and
`checkInterrupts`), `exec` (`executeStmtInternal` up to the evaluation of its
expression) and `after`. The variables are the fields of `r`, the local `arg` of
`executeRunInternal` that tells FOR it comes from its NEXT, the local `fsIdx` of
`executeFor`, and one record in `acts` for each waiting `spawnUserFunction`, with
the locals it restores. A fault follows `runtimeErrorInternal`, the panic through
the goroutines of all active calls, and `decodePanic` or the handler. `User` has
the actions of the prompt: RUN, CONT, a fault in an immediate statement, a syntax
error, a call in immediate mode, the editing of a line, a signal.

What ends in a Go panic (END inside a function, a fault whose statement is nil)
is the outcome `gopanic`. The condition of an IF, WHILE or UNTIL calls no
function. The check "Transfer past END statement" of `executeRunInternal` cannot
fail, since END is last, and is left out.

`ProgAssumption` is what the parser and `processDeclarations` guarantee. That END
is last comes from Session's `EndIsLast` and the test of `g.endStmtNo` in
`executeRun`. Lines are in order, since the tree of statements is walked in that of
its keys. DEF, FNEND and STOP are alone on their lines (`parser.y:394`), and no DEF
or FNEND lies between another DEF and its FNEND (`basic.go:1176`).

### Session

The program is a function from line numbers to bodies; `store.end` is `g.endStmtNo`,
kept beside it as the code does. A body is a line twice, as in the code: as tokens (where
its END stands and which lines it refers to) and as text, with the columns at which the
line's number and each reference stand in it (`stmtNoTokenLoc`, `tlocs`, `tloce`). Words are single
characters of a text, numbers are written out in `Digits`. SAVE writes texts and a
file is a sequence of them; `parse` is what a text makes, typed or loaded: the blank that
NewLexer puts behind the number (`prepared`), the limit `maxLineLen`, and the grammar as
far as numbers, references and END go (`read`), with the columns as the parser computes
them. RENUMBER rewrites each text from the left (`rewriting`), moving every further column by
what the numbers before it were computed to gain or lose; if a column lies outside the
text the slice is a Go panic, the line is `torn`, and the tree has only the lines that
were inserted before it (`rewritable`). Blanks elsewhere and the exponents
that a number without a blank could run into are left out; that columns are uint16
does not matter, since a sum that wraps below zero lies outside the text as well.
Commands are atomic up to their failures: opening, reading, writing or editing
may fail (`Faults`) at the point where the code would find out, and what has been
done by then stays. Loading is line by line (`ReadLine`, `EndOfFile`,
`ReadError`), since each line goes through the parser; what a whole file makes when
it is loaded is `loadedFrom`, a function of how many of its lines have been read.
Questions to the user are choices of a consent. Three variables are not in the code:
`unsaved`, `origin` and `last`, which say what the user would say of his own work, and
what the last command was.

### FileStore and Files

`Files` has one action for each statement, with everything it changes, also when
it fails. A file is its sticky bit and a sequence of blocks; a channel is its
file record: mode, type as cached at OPEN, record number, position, unread lines
and whether it has a reader. `FileStore` knows nothing of channels' records: files
have a type, which they get while empty and keep. `FilesProps` maps the one to the
other: the type is `record` if the sticky bit is set.

`OpenTwice` tells whether a program may open a file that is open on some channel.
The code permits it and takes no measure against it; all runs and the theorems
on `ChannelsKnowTheirFile` and `ImplementsStore` have it FALSE, since with it
those two fail: two channels on one empty file make it text and records.

### Rpn and Expressions

`Rpn` is the stack machine: one action for operands, one for operators, and one
each for elements, for calls, for the end of the left side and for that of the
right side of a LET. Symbols stay on the stack until they are popped. Integers
have `Width` bits. A float is a number of units of `1/unit`, rounded to the
nearest, or Inf, -Inf or NaN; a string is its length. A function's body is the
constant operator `Body` of arguments and memory. `Expressions` has the trees:
what the parser requires of them, how it rewrites operators between strings and
the signs of integers, how it compiles them, and, independently, what a tree
means: values of operands when all of them have been evaluated, from left to
right. The meaning shares with the machine what one operator does to values
(`Apply`), and nothing of lists, stack or order.

`RpnProps` says what a token list is worth without its tree: `Shapes` is the stack that
the list builds, an item being a token or the kind of what an operator leaves (`Finite`,
`Wild`, a number that may be infinite, or `AString`), and a list is `Sound` if each
token `Fits` what is there before it. `RpnSpec` runs any sound list on any memory. That
what the parser accepts and compiles is sound is a part of `TypeOK` of the run
Expressions.

The representation of the values that are compared follows the code: `==`
compares printed forms, which is equality here; the least float that is not zero
is one unit, so that underflow is rounding.

### Arrays

An array is its dims and a function from row numbers to row identities, the
contents of which are in `heap`: `MAT A = B` copies identities (`copyMatrix`), as
Go copies slices. Row 0 may be `NilRow`, which is what `insertFirstRowAndCol`
leaves. A program is its list of DIM and DATA statements; `executeRun` processes
it (`Declared`, one line after another), an edit clears the symbols, and in between
any statement on arrays may follow any other, since symbols survive errors and the
end of a program. DIM refuses a bound below 1 (`parser.y:2266`). Each MAT statement
checks in the order of the code and then stores element by element, so that one that
fails has stored a part: `Elements` lists them in the order of the two loops, and
`GoesThrough` says how far they are gone through, up to the first that is at fault. A row
that is made is one that no array has (`FreshRows`). `outcome` is how the last one ended, a Go
panic included. Integers have `IntWidth` bits and wrap; floats beyond `FloatMax`
are `Overflow`. CHANGE counts with the length of the string as an integer, which wraps,
and takes element 0 for an integer (`toInt16`), a conversion that Go leaves to the
implementation where the float is none. The values of an inverse are a free choice, and those of a
product are computed, as the library does it, on what the code hands it: the
matrix without its row and column 0.

### Printing

`p` is the printer's zone and position with the terminal's column beside it,
which the code does not have: the properties compare the two. A statement in
progress is a list of tokens that are still to be printed, and a call of a
function pushes a mark, above which the function prints. `setupWindow` may happen
between any two tokens. `spaces` are computed when TAB is evaluated, before a
function to its right prints. PRINT USING is what it does to the line
(`executeUsing`); what it prints is PrintUsing's.

### PrintUsing

The format is a sequence of characters, parsed a field at a time (`prtuParse`),
with the record `info` of the numeric field that the code makes once and goes on
with (`Formats` are the formats of the instance); then the operands fill the tokens, from the first again when they are used
up. Of what is printed only lengths are kept, and whether it is the plain number,
one with a percent sign, or with an exponent.

### Lines

A line is a sequence of `Pieces`: characters, by their names, and words that stand for
one character each; which lines are typed is the constant `Typed`. `NewLexer` puts the blank behind the number and takes the others
out (`trimWhitespace`, the loop of which is the recursive function `squeezing`), then one action scans one lexeme (`myScanner` and
`getLexeme`). A line with a number that was not refused may be saved and read
again, when `first` holds the tokens that it had. Of the words those are there
that the lexer treats in a way of their own; floats are those that arise from
digits before an `e`. One piece, `wide`, is a character outside ASCII that is no letter and
of which no byte is one that `unicode.IsSpace` takes for a blank (0x85, 0xA0, which `trimWhitespace`
would replace); in a string `lexString` leaves its low byte of it. Like every piece it counts as one
in the length of a line, where the code counts its bytes. The parser takes the tokens as they come; it adds
no state, and its grammar is left out.

### ForLoop

One FOR with its NEXT: `executeFor` with the first value, limit and step,
`incrementInteger` and `incrementFloat` at the NEXT, `iterateFor` when control is
back at the FOR. The body may assign the variable, or leave the loop. Floats are
integers of which all are exact up to `Exact` and the even ones beyond, to twice
that, which is the infinity; two look alike in print from `Shown` on if they
differ in the last place only. Engine has the same statements with their stacks
and without their numbers.

## The runs

Twelve runs: ten pass, over all schedules, commands or statements of an instance,
and two (marked *violation*) exhibit a disagreement of the program with a comment
of its source.

| Run | Instance | Shows |
| --- | --- | --- |
| EngineLoops | `LoopProg`, 27 statements; stacks of 2; interrupts, CONT and immediate calls | loops, subroutines, STOP and functions keep the stacks consistent; no pointer followed blindly is nil; levels go with frames but for calls that have none; a numbered error gets past an armed handler only if CONT left a fault pending |
| EngineCalls | `CallProg`, 30 statements; recursion to depth 2; interrupts and editing; `FairSpec` | control stays in its function, handlers do not nest; a posted interrupt brings a program to the prompt or into its handler, unless the call of a function drops it |
| Session | 3 line numbers of one or two binary digits, lines of up to 8 characters, 2 files, 4 typed lines, 1 edited file, increments 1 and 2, all faults; symmetric files | types, END is last, unsaved work is marked and dropped or overwritten by consent only, RENUMBER keeps the program and the texts in step with it, an unmodified program is in its file |
| SaveGoesHome *violation* | as Session, without faults | after an OLD that fails, SAVE writes over the previous program's file |
| Files | 2 files, 2 channels, blocks of 2, 2 records, 2 lines, mappings up to 3; symmetric files | channels know their file, files behave as `FileStore` |
| PutRecord *violation* | as Files | PUT to an empty file writes record 1, whatever was asked |
| Expressions | 3-bit integers, floats to 4 by halves, strings to 2, 5 simple variables, a list and a table, 2 functions; 4704 LETs, from 2 memories, in and out of a function, with and without a handler | the machine computes what trees mean; only `==` on strings is fatal; static types hold but for the listed operators |
| Arrays | 3 arrays of floats and 1 of integers, 5 programs, vectors, square and oblong matrices, 18 rows, 3-bit integers, floats to 9, strings of 2, 3 and 9 characters, 4 statements, RUN and edits among them | arrays share rows at the same place only; only TRN takes elements out of reach; a refused statement changes nothing; where the interpreter gives up, the statement's own operands are the reason |
| Printing | zones of 3, windows of 2 and 3 zones and a small one, 6 PRINTs, 3 MAT PRINTs, 3 statements, calls to depth 1 | the prompt is at the beginning of a line, the position is that of the terminal but for four new lines, commas and TAB reach their columns in the window of the moment |
| PrintUsing | all formats of up to 4 of 14 parts, 4 operands, up to 2 of them printed, floats of 3 digits | a plain format keeps its columns; Go panics have one of two causes |
| Lines | 4 beginnings and up to 3 of 17 parts, lines of up to 5 pieces, read twice | a saved line is read as it was; separators are trailing at ends of statements only; strings are as typed, but for characters that are cut to a byte |
| ForLoop | integers -6 to 5 of which a FOR uses -4 to 4; 8 floats, exact to 6, infinity 12; `FairSpec` | a loop has each value that it is written for once, and ends |

Bounds, and why they are enough. *Engine*: the limits are 10, 10 and 1000 in the
code; 2 lets stacks be empty, half full and full, recursion call itself once and
be refused, and loops be re-entered below another loop. The two large programs
contain each statement, in the main program and inside functions, with targets
that exist, that do not and that lie in another scope; every action of the engine
fires. *Session*: three lines are the fewest with one before, at and behind
another and with RENUMBER that overflows; two files are the program's own and
another. Numbers are written in binary, so that RENUMBER changes the length of line numbers and
of references in both directions; the typed lines have one or two references, a zero
before the first of two, a leading blank and no blank behind the number, and a length that is
exceeded when a number grows. *Files*: two channels can use one file in turn or two at once; two
records and two lines make writing at, inside and behind the end different; 3
exceeds a record of 2. `MaxRecord`, `MaxLines` and `MaxMapped` bound the model
only. *Expressions*: with three bits every sum, product and quotient that wraps is
there, floats exceed integers and `floatMax`, and trees are up to three deep, so
that a call or a fault lies left and right of a symbol that it changes.

*Arrays*: four statements are a MAT that shares or loses rows, one that stores into
them, one that is refused and one that meets the result; arrays of two types make every check
of compatibility pass and fail, the third of one type is what a row that TRN left too
long or too short is copied to before it is met again, and the dims of 3 are the
largest integer, at which the loops wrap, as the string of 3 is for CHANGE; that of 9
wraps to 1. The four arrays and what a statement makes
never need all of the 18 rows at once. *Printing*: a string may be
shorter than a zone, as long, and longer than two; three statements let one leave
the line unfinished, one go on with it inside a function and one begin on it.
*PrintUsing*: four parts make two fields with something between them, so that a flag
of the first reaches the second; three digits are few enough to be used up.
*Lines*: three parts behind a number are a separator, what stands behind it and the
end of a statement, or a quotation with something inside; five pieces are a
length that lines have and exceed. *ForLoop*: every first value, limit and step of a
range that contains both ends of the integers and what lies next to them.
`MaxSteps`, `MaxCalls`, `MaxParts` and `MaxOperands` bound the models only; so does
`TooMany` of ForLoop, beyond which `count` is not counted, and which no loop that ends
reaches (`FewTerms`).

`CHECK_DEADLOCK FALSE` is in the configurations of Expressions, Arrays, Printing,
PrintUsing, Lines and ForLoop: a LET, a format, a line and a loop come to an end,
and the number of statements is bounded in the others.

## Fairness

EngineCalls assumes `WF_vars(Step)`: as long as the interpreter can take a
step of the program it takes one. The goroutine that runs the program never waits
for another (a caller waits for its function, which is the one that runs then),
and Go's scheduler runs a goroutine that is ready. INPUT waits for the user; the
interrupt comes back as the result of the read, so that a posted interrupt never
waits for a line. Nothing is assumed of the user, who need not press anything.
ForLoop assumes `WF_vars(Iterates)`, which is the same of the FOR, its NEXT and a
body that ends; assignments and jumps out of the body are free to happen or not.
All other runs are about safety and assume nothing.

## The proofs

The theorems hold for every value of the constants that satisfies the named
assumptions: any program, any limits, any number of files, lines, arrays and channels.
Where one has a condition besides, it is named here, with what it excludes.

*EngineProofs*: `Spec => []IInv`, from which `TypeCorrect`, `IterationIsSafe` (the
FOR reached from a NEXT finds its loop on the stack) and `FramesAreOwn` (the top
entries of `r.userDefStack` are those of the calls in progress) follow, and
`HandlersAreFlat`, an action property. The invariant has four parts.
`ControlInv`: a running program is at a statement, the prompt has no call in
progress, and the statement a call returns to exists, unless the call came from the
prompt, which only the outermost can. `DataInv`: each entry on the FOR stack is a
FOR whose end is a FOR or a NEXT, each entry on the GOSUB stack is a statement that
calls subroutines, and the line of the handler exists; none of them is an END, so
that a statement follows. `CallInv`: the frames of the calls in progress are the
topmost of `r.userDefStack`, which aborted calls may have left fuller, and
`r.level` is at least its height. And `IterationFindsItsLoop` itself. `TypeOK`
alone is not inductive: without `CallInv` the return from a function could pop an
empty stack, and without `DataInv` RETURN, CONT and the end of a loop could go to
the nil statement behind the last. There is one lemma for each
action, and under it one step for each part that the action can disturb.

Three more hold of all programs: `ContIsInPlace` (what CONT resumes at is the statement
that was not executed, or follows the STOP), `InterruptsAreKept` (only a call and
the prompt take a posted interrupt away) and `LevelsAreGivenBack` (`r.level` and the
height of the function stack change together, but for the calls that have no frame and
for a new `r`; one lemma for each action says so). Two properties are false of some
programs, and are proved under conditions that exclude those. They are no empty
conditions: TLC finds both true in every state of the run EngineCalls, and the first
in every state of EngineLoops.

- `LoopsAreDistinct`: `[]NoLoopInBounds`, that no FOR is executed while the bounds of a
  FOR are evaluated. The invariant says of the one FOR that is waiting for its bounds
  what it will find when it goes on.
- `ScopesAreKept`: `ClosedFunctions`, about the text: no statement of a function names
  the line of its own DEF (the check takes it for a line of the function, and
  executing the DEF goes to what is behind the FNEND), and loops lie in functions
  as a whole; and `[]KeepsToScopes`, about the run: RETURN, NEXT, RESUME without a line
  and CONT, for which the code has no check, find on the stacks what belongs to
  their function. So every transfer that the code does check, every handler and every
  fault, through any number of calls that are aborted, stays in its function.

*SessionProofs*: `Spec => []SInv` with `SInv` the types, `EndIsLast` and
`EditsAreNotForgotten`. The types need `EndIsLast` and the other way round in
RENUMBER, which renumbers the recorded END with its line (`RankGrows`: ranks keep
the order of lines); that a file is being loaded only while nothing is unsaved is
what lets the end of the load clear the flag. From it the two action properties
`ChangesAreDroppedByConsent` and `FilesAreOverwrittenByConsent`, by going through
the outcomes of each command. That a text which RENUMBER rewrites is a text, with columns in
it, is part of the types (`RewrittenIsBody`): no replacement lies outside the text, or the
line is torn. `TargetsAreKept`, of RENUMBER, rests on `RankGrows` and on
`GrowingKeepsRanks`: numbers that grow with the lines keep their ranks.
`SavedIsReloadable` needs an invariant of its own, `LoadInv`: while a file is open the
program in memory is what the lines read so far make, and afterwards, as long as it is
not marked as changed, what the whole file of its origin makes. The lemma behind it is
`SavedIsLoaded`: what SAVE writes line by line, the parser accepts line by line, and
stops at the END it had; it goes by induction over the lines. It needs each text to say
what its line is (`ReadsBack`), and the property excepts programs with a line for which
that is false: that is what RENUMBER, and the blank that loading puts in, can spoil.

*FilesProofs*: `Spec => []FInv`, with `TypeOK` and, if no file is opened twice,
`ChannelsKnowTheirFile` with the fact that no two channels share a file, and that
a file in use is there: a
statement on one channel changes a file, and what the others know must not become
false. From it `FilesTypes` (for `OpenTwice` too), `ChannelsStayRight` and
`FilesImplementStore`: the initial states map to one another, and each statement
maps to a step of `FileStore` or to none; failing statements map to the part they
did.

*PrintingProofs*: `Spec => []PInv`: the printer's fields have their types, what is
left of each statement in progress is a list of tokens, at the prompt the position
is the first one, and `LineIsKnown`: where the position is the first one, the
terminal's column is 0, or only the prompt of an INPUT that failed stands there.
Without the last, which the property claims of the prompt only, `resetPrint` at the
end of a program might find nothing to end. `Follows(q, next)`, "next knows no less
of its line than q", is shown of each function of the printer and is transitive,
which brings the actions down to a few steps each. `PromptFindsLineStart` is a
consequence; `PositionStaysTrue` and `SeparatorsReach` go through the same functions
with `True(q)`, that the position of q is its column, and need that every window
that is accepted has a zone (`ZonesStay`). `StatementsAssumption`, that PRINT and MAT
PRINT have lists of tokens, stands for the recursion in `FlattenSeq`; TLC evaluates
it.

*LanguageProofs*, the lexer: `Spec => []LexerInv`: the tokens saved are `Settled` (no
separator is the last of them), each separator among them is the trailing one just where
a statement ends, and none is held back when a name of a file is due, which
`scanFilename` would otherwise pass over. `SeparatorsTrail` is not inductive by itself,
as it does not say that the separator in front of the next token is still to be decided.

`LinesReload` compares two scans of two lines, of which a state holds but one. So the
states of the scanner are made values (`Config`), its actions a function on them
(`ScanStep`, and `ScannerSteps` that each action is a step of it), and `IsRun` says that a
function lists the states of a scan of a line. The invariant `RunInv` has: there is a run
that leads from the line to where the scanner is; when a line is read again, there is a
run of it that ended in the tokens `first`; and that line is `Clean`, as trimming leaves
it. What must then be known of the text: blanks that are taken out twice are taken out once
(`CleanStays`, `TrimmedStays`), also when a blank has been put in behind the number
(`PreparedAgain`), so that the line read again is the line stored or has that blank
more; the scanner's first step comes to the same state either way, up to the blank
(`FirstStepsAreSame`), and from states that are alike runs are alike (`RunsAgree`). The
exception in the property is needed: a line of the greatest length can get too long.

`StringsStay` rests on `StringInv`: the scanner stands where `trimWhitespace` would not be
inside a quotation either (`Reached`), unless it is behind a token after which the
rest is not scanned for strings, and every string among the tokens is a quotation of
the line (`FromLine`). The two ideas of what is quoted are the point: the scanner finds
quotations lexeme by lexeme, the loop that takes out blanks character by character
before there are any lexemes (`Quoting`), and if they disagreed, blanks would go from
inside a string. A line's quotations are those of what was typed, by
`TrimmingKeepsQuotations` and `QuotationsStay`. Its characters are those of the quotation, each
cut to its low byte (`BytesOf`). The property lets a string that the
tokens of a line have be any part of the line as typed.

*LanguageProofs*, the expression processor: `StatementsAreTyped` and
`OnlyApproxGivesUp`, of `RpnSpec`, from `StatementInv`: `TypeOK`, that the shape of the
stack is a list of items that may be there, and `OnlyApproxIsFatal`. They hold for every
width, precision of floats, set of arrays and sound token lists, and have no induction
in them but that over the tokens of a list (`Shapes` is a recursive function). Each
operator's result is shown to be in its type whatever it is given of the right kind:
integers wrap into range, bits make numbers within the width, and sums and quotients of
floats are looked at. Products are not, and neither are arguments and what a sign, ABS
or SQR makes of them: hence `Wild`, for the stack may hold an Inf, which the end of the
statement replaces, so that no variable ever does. `OnlyApproxIsFatal` needs the types,
since what would be fatal is an operand that is missing or of the wrong kind. The
theorems assume of user functions what `KeepsTypes` says: called with arguments of the
types of its parameters, a function leaves a memory of which each cell has a value of
its symbol's type, and returns a finite number. The body of a function is statements
that store through the same checks, and its value is what one of them has stored.
`FunctionsKeepTypes` has TLC evaluate this of the functions of the instance, for all
arguments and many memories. `WidthAssumption` spells out that powers of two are
positive and double, which the prover does not know.

*ForLoopProofs*: `Spec => []IInv`, where body number k of a loop that leaves its
variable alone has the value `from + (k - 1) * step` in exact arithmetic, no value
before the present one ends the loop, and an error comes where the next value is out
of range or a float is not printed exactly. `BodyForEveryValue` follows by counting:
the written values are those that the first `count` bodies had (`WrittenValues`,
`WrittenCount`). That an integer in range does not wrap is `Int16`; that a float is not
rounded is the condition of the property, and `PlusExact`.

*PrintUsingProofs*: `Spec => []IInv`: the tokens parsed have as many columns as the
characters passed over (`Covered`), the parser never is inside a number, the record
that all fields share has got no flag from a plain format, and nothing is printed
before the format is parsed. `PanicsAreExplained` and `ColumnsAreKept` are parts of it.
`GetseqIsRun`, that `prtuGetseq` takes the longest run, and the lemmas on sums of widths
are what the rest uses of sequences.

*ArraysProofs*: `Spec => []TInv` and `NextIsOrderly`, from which all four properties
follow. `TInv`: rows in use are finitely many, so that a new one is new (`RowsAreCounted`);
rows that are shared, by two arrays or twice by one, are at one place in arrays of one
type and shape (`Aligned`); dims are positive, and rows are memory or nil (`Shaped`);
the data is a finite list. `Orderly` is what each statement does: it keeps `TInv`, only
TRN takes elements away, a refusal changes nothing; beside it the lemma of each statement
says why it may end in a panic, from which `PanicsHaveReasons` follows. MAT
statements are shown orderly in groups: those that store into elements (`TameIsOrderly`),
those that go through data or the terminal (`InOutIsOrderly`), those that replace rows
(`BuildsIsOrderly`) and the copy; declarations by induction over the program. The
theorems assume that `RowIds` is infinite, which is that memory does not run out: the
code makes rows without asking, and limits a single array only (EMATRIXTOOLARGE). Two
things came out while proving. With two arrays of
floats TLC did not see that a row which TRN leaves too long can be copied and be
stored through elsewhere; the instance has three since. And the
reasons of a panic had to be told apart: what a MAT loop needs is `Usable`, which TRN of a
smaller matrix takes away, and what an element, INV, TRN and `*` need is `Complete`,
subscripts 0 included and no row more.

Induction over data is had here by minimal counterexamples: `NaturalsByStep`, from the
well-foundedness of the naturals, says that a set which contains 0 and successors is
all of them, and speaks of sets and not of an operator.

## What is only model-checked

- Liveness (`InterruptsAreObeyed`, `LoopsEnd`): fairness and ENABLED are out of
  the prover's reach.
- `NumberedErrorsAreCaught`, which is about a program whose handlers cannot fault
  themselves, as those of `LoopProg`.
- `LetDoesWhatItSays` and `StaticTypesHold`, of Expressions, and that the lists the
  parser makes are `Sound`: trees are recursive (RECURSIVE operators compile them and
  say what they mean), proofs about them go by induction over trees, and the prover has
  no SMT backend where such operators are reached. What is proved of Expressions is
  what speaks of lists, not of trees.
- `RenumberKeepsTexts`, the other half of it: that RENUMBER leaves texts that do say what
  their lines are. Its proof would have to follow the columns of digits through a text
  that is replaced piece by piece, and `read`, which counts columns, over the result.
- What the conditions of *EngineProofs* exclude: of such programs TLC checks the
  properties as far as the instances go.

All other properties of the passing runs are theorems.

## What is not modelled

Of the modelled parts: what data is, where control does not depend on it;
functions called by the condition of an IF, WHILE or UNTIL; statements chained
behind an IF; the contents of records, LSET and RSET; FIELDs of length 0; a chmod
that fails and write errors of data files; KILL of program files; POW, most of
the library of functions, assignments to a function's name, mapped variables;
-0.0, denormal numbers and fractions finer than a half; matrices of strings, dims
of 0, the numbers of an inverse and DET; parameters and locals of functions; the
digits that PRINT and PRINT USING produce; the columns of errors in a line.

Parts that will not get a module: the error table, terminal input, help, version,
statistics and tracing, which have no state that another part depends on; the
grammar's tables, which goyacc makes; build files.

## Divergences

Those with a run are in the table above. What follows was seen in the code while
modelling it, has no run, and is not claimed to be complete. Several were
reproduced with the program.

Engine
- An interrupt between NEXT and its FOR, followed by CONT, starts the loop again:
  the flag that tells FOR where it comes from (`execute.go:459`) is a local of
  `executeRunInternal` (`execute.go:499`).
- An interrupt that ends a program leaves `r.fip` set (`basic.go:354`), and CONT does
  not clear it: until some RESUME does, a handler does not catch anything, contrary
  to `errors.go:71`. It is the exception in `NumberedErrorsAreCaught`, which
  fails without it.
- The single-line branch of `callFunction` does not lower `r.level`
  (`basic.go:2125`): after `fnRecursionMax` calls a program that never nests is
  aborted with "Function nesting exceeded". A call that is refused for its arguments
  keeps its level, too (`basic.go:2066`). They are the exception in `LevelsFollowFrames`.
- A function that is left by FNEND with a GOSUB open lets a RETURN of the main
  program enter its body (`execute.go:1576`); RESUME leaves a function unchecked
  (`execute.go:1566`).
- An interrupt at the first statement of a program cannot be continued
  (`execute.go:44`, `errors.go:60`). A fault of an immediate statement remains
  pending in the program that CONT continues (`basic.go:364`).
- A call resets `g.interrupted` (`execute.go:478`): a signal that arrives just
  before is dropped.
- `fsIdx` is found before the bounds are evaluated (`execute.go:2009`), and is stale
  if they call a function with loops (`execute.go:2079`); no property is about it. `findNext` accepts a FOR
  (`execute.go:3067`).
- `IF ... THEN RETURN` makes a RANDOMIZE (`parser.y:1878`). END in a function is a
  Go panic. ON GOTO out of a loop does not pop it.
- A FOR with WHILE and no STEP is fatal: its bound is not compiled
  (`parser.y:780`).

FOR
- `incrementLoopVar` refuses a step beyond 32766 before the limit is compared
  (`execute.go:3165`): `FOR I%=32765% TO 32766%` executes both bodies and then ends in
  "Integer overflow for FOR loop", though the index would not overflow.
- A float loop is called infinite when two values print alike (`execute.go:3153`):
  `FOR X=1E12 TO 1E12+3` ends after one body, though it would end by itself.

Session
- A SAVE of an unmodified program that fails in writing has truncated the file,
  and the flag stays clear: BYE drops the program (`execute.go:614`).
- Deleting the last line leaves the program marked as modified, contrary to
  `stmt.go:126`. An END behind a colon is not recorded (`parser.y:720`).
- NEW sets the name even if the file cannot be opened. Loading skips lines that do
  not parse and then clears the flag, so that a SAVE loses them.
- EDIT asks twice; a no to the second question leaves the old program in memory
  over the edited file. RENUMBER refuses the legal RESUME 0.
- RENUMBER takes each reference to have been written as numbers are printed
  (`execute.go:358`): a zero typed before one (`GOTO 0020,30`) moves those behind it to the
  wrong columns. They overwrite other text, or lie beyond its end: then RENUMBER ends
  in a Go panic, and the lines that were not yet inserted are lost, without a question.
- The line's number is taken to have a blank behind it (`parser.y:413`). A line typed
  with a blank before its number and none behind it has none, and RENUMBER keeps the last
  digit of the old number: ` 10GOTO 20`, made line 20, becomes `200GOTO 40`, which SAVE writes.
- A renumbered line may exceed the 255 characters that a line may have, and is refused
  when its file is read, as a line that grows by the blank (see Lines).

Files
- OPEN truncates the file before it finds the channel in use, and leaks the
  handle (`execute.go:2759`). The first GET without a number on an empty file
  takes record 2.
- FIELD refuses 512 bytes, and does not check the sum of several FIELDs
  (`execute.go:1814`): GET and PUT then end in a Go panic. CLOSE leaves mappings.
- INPUT # on a channel that was opened on an empty file and printed to uses a nil
  reader. RSET ignores its padding; PUT skips empty strings and keeps what the
  buffer held.

Expressions
- The test for the last token of the left side is off by one (`execute.go:1118`, against
  the comment at 1109): in `A(B(1)) = 7`, where the last subscript is an element, 7 is
  stored into `A(B)`. The LETs of the run have no such subscript.
- `-5%` is 5: the parser negates the literal and keeps the sign (`parser.y:2312`).
- `==` between strings is fatal (`basic.go:874`); so is NOT or AND of a call with
  arguments or of INSTR (`basic.go:985`). `FOR I = 1 TO -N%` is a Go panic, the
  parser taking a sign for a float (`basic.go:992`).
- Products are not checked for overflow, contrary to the comment at
  `basic.go:434`; `1E200*1E200 > 5` is true.
- A function returns what was assigned to it, of whatever numeric type. The
  argument of SPACE$ may be negative, which is a Go panic.

Lines
- A comment behind `!` after a statement is not ignored, as `lexer.go:239` says, but
  handed to the parser, which takes it for a syntax error (`lexer.go:418`).
- The blank behind the number is put in only if the line begins with a digit
  (`lexer.go:56`): ` 50PRINT` and ` 60END` hold a float. A line of the greatest length that
  began with a blank is accepted, and refused as too long when its file is read.
- A character of a string that is outside ASCII is cut to the low byte of its code point
  (`lexer.go:781`), so that the string is not what was typed; the text, and what SAVE
  writes, keep it.

Printing
- Bare PRINT (`execute.go:2433`), the report of PUT (`utils.go:1105`), a line that INPUT
  reads and a string with a new line in it leave the position where it was. STOP and
  interrupts append their message to the current line.
- A TAB that needs just as many blanks as a zone has goes on to the end of the next
  zone: its blanks are taken for a string that fills its zone (`execute.go:2498`).
- PRINT # with USING resets the terminal's line (`parser.y:1685`, `utils.go:254`).

PRINT USING
- A format that ends in a number without a point is read beyond its end
  (`prtu.go:309`, `prtu.go:331`): `"###"` is a Go panic. So is a number that needs all
  digits of a float (`prtu.go:183`).
- The record of a field goes on with what the one before has set (`prtu.go:275`). The
  column of a comma is not counted, a trailing minus moves the point, an exponent
  takes five columns for four carets, and a character behind a field without a point
  is dropped.
- When the format begins again, the terminal gets a new line before the line that was
  filled is printed (`prtu.go:19`).

Arrays
- `docs/README:292` says that "All MAT functionality now present and working", but for
  inversion. MAT A = B shares rows (`mat.go:355`). TRN does not check shapes. INV, TRN and `*` leave row 0 nil
  and lose its elements (`mat.go:549`); on an oblong matrix TRN and `*` end in a Go
  panic, and so does MAT READ of a string (`mat.go:116`).
- A DIM of 32767 makes the loops over an array wrap and use a subscript of -32768
  (`mat.go:308`). CHANGE of a string of 32767 characters does the same and is a Go panic,
  one of 32768 to 65535 is refused, and of a longer one the length wraps
  (`execute.go:1902`). TRN of a matrix of strings takes its integers, of which
  there are none, and is a Go panic too (`mat.go:202`); matrices of strings are not modelled.
