-------------------------------- MODULE Files --------------------------------
(***************************************************************************)
(* I/O channels and the files behind them (execute.go, utils.go): OPEN,    *)
(* CLOSE, PRINT #, INPUT #, FIELD, GET, PUT and KILL, as a program may     *)
(* issue them in any order.                                                *)
(*                                                                         *)
(* A file holds blocks: lines of text, or records.  What the records hold  *)
(* and which variables a FIELD maps are left out; of a mapping its length  *)
(* counts.  A statement that fails leaves what it has done so far: the     *)
(* program may go on in a handler, and the channels stay open at the       *)
(* prompt.                                                                 *)
(***************************************************************************)
EXTENDS Naturals, Sequences, Functions

CONSTANTS
  FileNames,     \* the names of data files
  Absent,        \* the contents of a file that does not exist
  maxFilenums,   \* one more than the largest channel
  blockSize,     \* the length of a record
  OpenTwice,     \* whether the program opens a file that is open on some channel
  \* Bounds of the model:
  MaxRecord,     \* the largest record number
  MaxLines,      \* the most lines of a file
  MaxMapped      \* the longest mapping of a channel

Channels == 1 .. maxFilenums - 1
Blocks   == {"line", "record", "hole"}
IoModes  == {"IOREAD", "IOWRITE", "IOREAD|IOWRITE"}

ASSUME FilesAssumption ==
  /\ maxFilenums \in Nat \ {0} /\ blockSize \in Nat \ {0} /\ OpenTwice \in BOOLEAN
  /\ MaxRecord \in Nat \ {0} /\ MaxLines \in Nat /\ MaxMapped \in Nat
  /\ Absent \notin [sticky : BOOLEAN, body : Seq(Blocks)]

VARIABLES
  disk,       \* for each file Absent or [sticky, body]
  openFiles,  \* r.openFiles: from channels to files
  fieldMap,   \* r.fieldMap: for each channel the length mapped so far; 0: no entry
  last        \* the last GET or PUT: the record asked for (0: none) and the one accessed

vars == <<disk, openFiles, fieldMap, last>>

CanRead(of)  == of.iomode # "IOWRITE"
CanWrite(of) == of.iomode # "IOREAD"

\* A write at a place behind the end leaves a hole.
written(body, n, block) ==
  [i \in 1 .. (IF n > Len(body) THEN n ELSE Len(body)) |->
     IF i = n THEN block ELSE IF i <= Len(body) THEN body[i] ELSE "hole"]

NoFields == [ch \in Channels |-> 0]

Mapped(ch) == fieldMap[ch] # 0

NoAccess == [op |-> "none", asked |-> 0, used |-> 0]

Fails == UNCHANGED <<disk, openFiles, fieldMap>> /\ last' = NoAccess

-----------------------------------------------------------------------------

\* The type of a file, by its sticky bit and its size, when it is opened.
fileTypeOf(f) ==
  CASE disk[f] # Absent /\ disk[f].sticky -> "recordFile"
    [] disk[f] # Absent /\ ~ disk[f].sticky /\ disk[f].body # <<>> -> "printFile"
    [] OTHER -> "emptyFile"

\* Fault variant: every channel has a reader.
alwaysReads(type) == TRUE

\* A reader only for what is known to be text.
hasReader(type) == type = "printFile"

\* What OPEN does to the file: writing alone truncates, writing at all creates; the mode
\* bits of an old file stay.
opened(f, iomode) ==
  IF disk[f] = Absent THEN [sticky |-> FALSE, body |-> <<>>]
  ELSE IF iomode = "IOWRITE" THEN [disk[f] EXCEPT !.body = <<>>]
  ELSE disk[f]

\* The file is opened before the channel is found in use.
executeOpen(f, iomode, ch) ==
  /\ OpenTwice \/ \A c \in DOMAIN openFiles : openFiles[c].filename # f
  /\ IF disk[f] = Absent /\ iomode = "IOREAD" THEN Fails
     ELSE /\ disk' = [disk EXCEPT ![f] = opened(f, iomode)]
          /\ openFiles' =
               IF ch \in DOMAIN openFiles THEN openFiles
               ELSE [c \in DOMAIN openFiles \cup {ch} |->
                       IF c # ch THEN openFiles[c]
                       ELSE [filename |-> f, iomode |-> iomode, fileType |-> fileTypeOf(f),
                             recNo |-> 0, pos |-> 0, unread |-> 0,
                             reader |-> hasReader(fileTypeOf(f))]]
          /\ UNCHANGED fieldMap /\ last' = NoAccess

\* CLOSE of one channel; of several, it stops at the first that is not open.  The channel's
\* mapping stays.
executeClose(ch) ==
  IF ch \in DOMAIN openFiles
  THEN /\ openFiles' = Restrict(openFiles, DOMAIN openFiles \ {ch})
       /\ UNCHANGED <<disk, fieldMap>> /\ last' = NoAccess
  ELSE Fails

\* RUN, END and every change of the program close all channels; the map of FIELD is gone
\* with the rest of r, and made anew by RUN before a statement can use it.
initializeRun ==
  /\ openFiles' = <<>> /\ fieldMap' = NoFields /\ UNCHANGED disk /\ last' = NoAccess

executeKill(f) ==
  IF disk[f] # Absent /\ \A c \in DOMAIN openFiles : openFiles[c].filename # f
  THEN disk' = [disk EXCEPT ![f] = Absent] /\ UNCHANGED <<openFiles, fieldMap>> /\ last' = NoAccess
  ELSE Fails

-----------------------------------------------------------------------------
(* Text.                                                                    *)

\* Fault variant: records are no obstacle to text.
printsAnywhere(ch) ==
  IF ch \in DOMAIN openFiles /\ CanWrite(openFiles[ch])
  THEN LET of == openFiles[ch]
       IN  /\ of.pos < MaxLines
           /\ disk' = [disk EXCEPT ![of.filename].body = written(@, of.pos + 1, "line")]
           /\ openFiles' = [openFiles EXCEPT ![ch].fileType = "printFile", ![ch].pos = @ + 1]
           /\ UNCHANGED fieldMap /\ last' = NoAccess
  ELSE Fails

\* A line goes where the file's offset is, and the channel is of text from now on.
basicPrint(ch) ==
  IF ch \in DOMAIN openFiles /\ CanWrite(openFiles[ch]) /\ openFiles[ch].fileType # "recordFile"
  THEN LET of == openFiles[ch]
       IN  /\ of.pos < MaxLines
           /\ disk' = [disk EXCEPT ![of.filename].body = written(@, of.pos + 1, "line")]
           /\ openFiles' = [openFiles EXCEPT ![ch].fileType = "printFile", ![ch].pos = @ + 1]
           /\ UNCHANGED fieldMap /\ last' = NoAccess
  ELSE Fails

\* A line is taken from the reader, which reads all there is ahead, and the file's offset
\* moves with it.
lineTaken(of, size) ==
  IF of.unread > 0 THEN [of EXCEPT !.unread = @ - 1]
  ELSE [of EXCEPT !.unread = size - of.pos - 1, !.pos = size]

\* Without a reader the statement ends in a Go panic, at the end of the file in an error.
readInputLine(ch) ==
  IF /\ ch \in DOMAIN openFiles
     /\ LET of == openFiles[ch]
        IN  /\ CanRead(of) /\ of.fileType # "recordFile" /\ of.reader
            /\ of.unread > 0 \/ of.pos < Len(disk[of.filename].body)
  THEN /\ openFiles' = [openFiles EXCEPT ![ch] = lineTaken(@, Len(disk[@.filename].body))]
       /\ UNCHANGED <<disk, fieldMap>> /\ last' = NoAccess
  ELSE Fails

-----------------------------------------------------------------------------
(* Records.                                                                 *)

\* A statement that maps a length; the check is of its own length, not of the channel's.
executeField(ch, length) ==
  IF ch \in DOMAIN openFiles /\ length < blockSize
  THEN /\ fieldMap[ch] + length <= MaxMapped
       /\ fieldMap' = [fieldMap EXCEPT ![ch] = @ + length]
       /\ UNCHANGED <<disk, openFiles>> /\ last' = NoAccess
  ELSE Fails

\* Fault variant: the file is not marked.
forgetsSticky(of, d) == [of |-> [of EXCEPT !.fileType = "recordFile", !.recNo = 1], disk |-> d]

\* An empty file becomes one of records: the channel, and the file's sticky bit.
setRecordFile(of, d) ==
  [of   |-> [of EXCEPT !.fileType = "recordFile", !.recNo = 1],
   disk |-> [d EXCEPT ![of.filename].sticky = TRUE]]

asRecordFile(of, d) ==
  IF of.fileType = "emptyFile" THEN setRecordFile(of, d) ELSE [of |-> of, disk |-> d]

\* The record asked for, or the one behind the last.
nextRecord(of, n) == [of EXCEPT !.recNo = IF n # 0 THEN n ELSE @ + 1]

OpenForRecords(ch) == ch \in DOMAIN openFiles /\ openFiles[ch].fileType # "printFile"

\* GET: an empty file becomes one of records before anything else can fail, and the record
\* number has advanced when the read fails at the end of the file.
executeGet(ch, n) ==
  IF ~ OpenForRecords(ch) THEN Fails
  ELSE LET new == asRecordFile(openFiles[ch], disk)
           of  == IF Mapped(ch) THEN nextRecord(new.of, n) ELSE new.of
       IN  /\ of.recNo <= MaxRecord
           /\ disk' = new.disk /\ UNCHANGED fieldMap
           /\ openFiles' = [openFiles EXCEPT ![ch] = of]
           /\ last' = IF /\ Mapped(ch) /\ CanRead(of)
                         /\ of.recNo <= Len(disk[of.filename].body)
                      THEN [op |-> "get", asked |-> n, used |-> of.recNo] ELSE NoAccess

\* PUT: the record number is set first, and the empty file becomes one of records after
\* that.  A mapping longer than the record ends it in a Go panic, unless the variables
\* beyond it are empty; a channel open for reading fails in the write.
executePut(ch, n) ==
  IF ~ OpenForRecords(ch) \/ ~ Mapped(ch) THEN Fails
  ELSE LET new == asRecordFile(nextRecord(openFiles[ch], n), disk)
           of  == new.of
       IN  /\ of.recNo <= MaxRecord
           /\ openFiles' = [openFiles EXCEPT ![ch] = of] /\ UNCHANGED fieldMap
           /\ \/ /\ CanWrite(of)
                 /\ disk' = [new.disk EXCEPT ![of.filename].body = written(@, of.recNo, "record")]
                 /\ last' = [op |-> "put", asked |-> n, used |-> of.recNo]
              \/ /\ fieldMap[ch] > blockSize \/ ~ CanWrite(of)
                 /\ disk' = new.disk /\ last' = NoAccess

-----------------------------------------------------------------------------

Init ==
  /\ disk = [f \in FileNames |-> Absent] /\ openFiles = <<>>
  /\ fieldMap = NoFields /\ last = NoAccess

Next ==
  \/ initializeRun
  \/ \E f \in FileNames :
       \/ executeKill(f)
       \/ \E iomode \in IoModes, ch \in Channels : executeOpen(f, iomode, ch)
  \/ \E ch \in Channels :
       \/ executeClose(ch) \/ basicPrint(ch) \/ readInputLine(ch)
       \/ \E length \in 1 .. blockSize : executeField(ch, length)
       \/ \E n \in 0 .. MaxRecord : executeGet(ch, n) \/ executePut(ch, n)

Spec == Init /\ [][Next]_vars
=============================================================================
