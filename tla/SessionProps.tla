----------------------------- MODULE SessionProps -----------------------------
(***************************************************************************)
(* What the commands on programs and their files must keep.               *)
(***************************************************************************)
EXTENDS Session

Consents == SUBSET {"discard", "overwrite"}
Cmds == {"", "line", "refused", "renumber", "panic", "save", "failed", "new", "old", "edit",
         "bye", "reload", "sigquit", "start", "load"}

\* Line numbers in range, lines that parse.
StoreType(s) ==
  /\ DOMAIN s.lines \subseteq LineNos
  /\ \A n \in DOMAIN s.lines : s.lines[n] \in Bodies
  /\ s.end \in LineNos \cup {0}

\* The variables have their types; in particular RENUMBER never makes a line number
\* that is not one (the check for wrapped numbers in executeRenumber).
TypeOK ==
  /\ StoreType(store)
  /\ modified \in BOOLEAN /\ loading \in BOOLEAN /\ alive \in BOOLEAN /\ unsaved \in BOOLEAN
  /\ programFilename \in Names \cup {NoName} /\ origin \in Names \cup {NoName}
  /\ last.cmd \in Cmds /\ last.consent \in Consents

\* s.end is the one line that an END heads, and the last one.
EndsAtEnd(s) ==
  /\ s.end # 0 => s.end \in DOMAIN s.lines
  /\ \A n \in DOMAIN s.lines : s.lines[n].end = "first" <=> n = s.end
  /\ s.end # 0 => \A n \in DOMAIN s.lines : n <= s.end

\* The parser's checks, the replacement and removal of lines, RENUMBER and loading
\* together keep g.endStmtNo: it is the number of the one line that an END heads, and no
\* line follows that line.
EndIsLast == EndsAtEnd(store)

\* What the user has changed is marked: whatever became of a SAVE, a NEW, an OLD or an
\* EDIT in between, g.modified is set while his changes are in memory only.
EditsAreNotForgotten == unsaved => alive /\ modified /\ ~ loading

\* No command drops unsaved changes unless it saves them or the user agreed
\* (checkModified); only SIGQUIT does not ask. What a RENUMBER leaves that tears a line
\* stays marked, though it has lost lines.
NothingDiscardedUnasked ==
  [][unsaved /\ ~ unsaved' =>
       last'.cmd \in {"save", "sigquit"} \/ "discard" \in last'.consent]_vars

\* An existing file changes only when the user agreed to overwrite it, when it is the
\* current program file and is saved without a name, or by the editor (checkOverwrite).
OverwriteNeedsConsent ==
  [][\A f \in Names :
       disk[f] # Absent /\ disk'[f] # disk[f] =>
         \/ "overwrite" \in last'.consent
         \/ f = programFilename /\ last'.cmd \in {"save", "failed", "edit"}]_vars

\* The k-th lines of two programs are alike, and refer to lines of the same ranks.
SameProgram(old, new) ==
  /\ Cardinality(DOMAIN old) = Cardinality(DOMAIN new)
  /\ \A k \in 1 .. Cardinality(DOMAIN old) :
       LET a == old[Nth(DOMAIN old, k)]
           b == new[Nth(DOMAIN new, k)]
       IN  /\ a.end = b.end /\ Len(a.refs) = Len(b.refs)
           /\ \A i \in DOMAIN a.refs :
                /\ b.refs[i] \in DOMAIN new
                /\ Rank(DOMAIN old, a.refs[i]) = Rank(DOMAIN new, b.refs[i])

\* RENUMBER yields the same program: every GOTO, GOSUB, ON, RESUME and ON ERROR goes to
\* the line it went to before.
RenumberKeepsTargets ==
  [][last'.cmd = "renumber" => SameProgram(store.lines, store'.lines)]_vars

\* Two programs of the same statements, however they are written.
Alike(s, t) ==
  /\ s.end = t.end /\ DOMAIN s.lines = DOMAIN t.lines
  /\ \A n \in DOMAIN s.lines : s.lines[n].end = t.lines[n].end /\ s.lines[n].refs = t.lines[n].refs

\* The text of line n is accepted, as a line of that number with the same references.
ReadsBack(n, b) ==
  LET t == parse(b.text)
  IN  t \in Text /\ ~ t.del /\ t.no = n /\ t.body.end = b.end /\ t.body.refs = b.refs

\* When no change is pending, the file the program came from still holds it: OLD would
\* read the same program.  This ties SAVE to the parser, which must accept every saved
\* program again, line by line and up to its END.  It fails if the text of a line no longer
\* says what the line is: RENUMBER has garbled it or made it too long, or it gets too long
\* when it is read.
UnmodifiedMeansReloadable ==
  alive /\ ~ loading /\ ~ modified /\ origin # NoName =>
    /\ disk[origin] # Absent
    /\ \/ Alike(store, loadedFrom(disk[origin]))
       \/ \E n \in DOMAIN store.lines : ~ ReadsBack(n, store.lines[n])

\* The number has a blank behind it, and the references are written as numbers are printed.
Plain(b) ==
  /\ b.text[b.numEnd + 1] = "blank"
  /\ \A k \in DOMAIN b.refs : b.upto[k] - b.at[k] = Len(numeral(b.refs[k]))

\* The text is that of the line, the places of its numbers included.
InStep(n, b) == read(b.text) = [no |-> n, del |-> FALSE, body |-> b]

\* RENUMBER rewrites the text of a line to that of the new line, and knows where its numbers
\* are then, however many digits its number and the references gain and lose; except in a
\* line that was typed with zeros before a reference or without a blank behind its number.
RenumberKeepsTexts ==
  [][last'.cmd = "renumber" =>
       \A k \in 1 .. Cardinality(DOMAIN store.lines) :
         LET m == Nth(DOMAIN store.lines, k)
             n == Nth(DOMAIN store'.lines, k)
         IN  InStep(m, store.lines[m]) /\ Plain(store.lines[m]) =>
               InStep(n, store'.lines[n]) /\ Plain(store'.lines[n])]_vars

-----------------------------------------------------------------------------
(* What the source says and the program does not do.                        *)

\* SAVE without a name writes over no file but the one the program came from: "If the
\* user said 'new' with no filename, clear the current filename, as otherwise a
\* subsequent 'save' command will overwrite the previous file!" (executeNew).
SaveGoesHome ==
  [][last'.cmd = "save" /\ last'.consent = {} =>
       \A f \in Names : disk[f] # Absent /\ disk'[f] # disk[f] => f = origin]_vars
=============================================================================
