------------------------------ MODULE FileStore ------------------------------
(***************************************************************************)
(* What the statements on files promise, whatever channels they use: a     *)
(* file is of text or of records; it is given its type while it is empty   *)
(* and keeps it as long as anything is in it (records even longer), and it *)
(* is not removed while it is in use.                                      *)
(***************************************************************************)
EXTENDS Naturals, Sequences

CONSTANTS
  FileNames,  \* the names of files
  Channels,   \* the numbers of I/O channels
  RecordNos,  \* the numbers of records
  Absent      \* the contents of a file that does not exist

VARIABLES
  files,  \* for each name Absent or [type, body]; a body is a sequence of blocks
  users   \* for each name the channels it is open on

store == <<files, users>>

Blocks == {"line", "record", "hole"}

\* A block written at place n, behind the end too.
Put(body, n, block) ==
  [i \in 1 .. (IF n > Len(body) THEN n ELSE Len(body)) |->
     IF i = n THEN block ELSE IF i <= Len(body) THEN body[i] ELSE "hole"]

TypeOf(f) == files[f].type

Create(f) == files[f] = Absent /\ files' = [files EXCEPT ![f] = [type |-> "empty", body |-> <<>>]]

\* Emptying a file of records leaves it one.
Truncate(f) ==
  /\ files[f] # Absent
  /\ files' = [files EXCEPT ![f] =
                 [type |-> IF @.type = "record" THEN "record" ELSE "empty", body |-> <<>>]]

\* A channel comes into use or falls out of it.
Use(f, ch)  == users' = [users EXCEPT ![f] = @ \cup {ch}]
Forget(f, ch) == ch \in users[f] /\ users' = [users EXCEPT ![f] = @ \ {ch}]

\* An OPEN may create or empty the file, and may fail after that.
Open(f, ch) ==
  /\ Create(f) \/ Truncate(f) \/ UNCHANGED files
  /\ (Use(f, ch) /\ files'[f] # Absent) \/ UNCHANGED users

Close(f, ch) == Forget(f, ch) /\ UNCHANGED files

CloseAll == users' = [f \in FileNames |-> {}] /\ UNCHANGED files

Remove(f) ==
  /\ files[f] # Absent /\ users[f] = {}
  /\ files' = [files EXCEPT ![f] = Absent] /\ UNCHANGED users

\* A line of text goes into a file that is not of records.
WriteLine(f) ==
  /\ users[f] # {} /\ TypeOf(f) \in {"empty", "text"}
  /\ \E n \in 1 .. Len(files[f].body) + 1 :
       files' = [files EXCEPT ![f] = [type |-> "text", body |-> Put(@.body, n, "line")]]
  /\ UNCHANGED users

\* An empty file becomes one of records.
Format(f) ==
  /\ users[f] # {} /\ TypeOf(f) = "empty"
  /\ files' = [files EXCEPT ![f].type = "record"] /\ UNCHANGED users

\* A record goes into a file that is of records, or becomes so.
WriteRecord(f, n) ==
  /\ users[f] # {} /\ TypeOf(f) \in {"empty", "record"}
  /\ files' = [files EXCEPT ![f] = [type |-> "record", body |-> Put(@.body, n, "record")]]
  /\ UNCHANGED users

Init == files = [f \in FileNames |-> Absent] /\ users = [f \in FileNames |-> {}]

Next ==
  \/ CloseAll
  \/ \E f \in FileNames :
       \/ \E ch \in Channels : Open(f, ch) \/ Close(f, ch)
       \/ Remove(f) \/ WriteLine(f) \/ Format(f)
       \/ \E n \in RecordNos : WriteRecord(f, n)

Spec == Init /\ [][Next]_store
=============================================================================
