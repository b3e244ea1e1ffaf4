----------------------------- MODULE FilesProofs -----------------------------
(***************************************************************************)
(* Proofs about channels and files, for every number of channels, every    *)
(* set of files, every length of records and every bound.                  *)
(*                                                                         *)
(* FInv is the inductive invariant: the types, and, as long as the program *)
(* opens no file that is open, that every file is on one channel at most   *)
(* and that the channels know their files.                                 *)
(***************************************************************************)
EXTENDS FilesProps, TLAPS

\* No two channels have the same file.
OpenOnce ==
  \A c, d \in DOMAIN openFiles : openFiles[c].filename = openFiles[d].filename => c = d

\* A file in use is there.
OpenFilesExist == \A ch \in DOMAIN openFiles : disk[openFiles[ch].filename] # Absent

Rest == OpenFilesExist /\ (~ OpenTwice => OpenOnce /\ ChannelsKnowTheirFile)

FInv == TypeOK /\ Rest

-----------------------------------------------------------------------------
(* The helpers.                                                             *)

\* A write gives a body that is as long as it must be, and not empty.
LEMMA WrittenBody ==
  ASSUME NEW body \in Seq(Blocks), NEW n \in Nat \ {0}, NEW block \in Blocks
  PROVE  /\ written(body, n, block) \in Seq(Blocks)
         /\ Len(written(body, n, block)) >= n
         /\ Len(written(body, n, block)) >= Len(body)
         /\ written(body, n, block) # <<>>
<1> DEFINE m == IF n > Len(body) THEN n ELSE Len(body)
<1>1. m \in Nat /\ m >= n /\ m >= Len(body)
  OBVIOUS
<1>2. \A i \in 1 .. m :
        (IF i = n THEN block ELSE IF i <= Len(body) THEN body[i] ELSE "hole") \in Blocks
  BY DEF Blocks
<1>3. written(body, n, block) \in [1 .. m -> Blocks]
  BY <1>2 DEF written
<1>4. written(body, n, block) \in Seq(Blocks) /\ Len(written(body, n, block)) = m
  BY <1>1, <1>3
<1>5. QED
  BY <1>1, <1>4

\* A file that is there has contents.
LEMMA FileThere ==
  ASSUME TypeOK, NEW f \in FileNames, disk[f] # Absent
  PROVE  disk[f] \in Contents
BY DEF TypeOK

-----------------------------------------------------------------------------
(* Types.                                                                   *)

\* A failing statement changes nothing that the invariant speaks of.
LEMMA FailsTypes ==
  ASSUME TypeOK, Fails
  PROVE  TypeOK'
BY DEF TypeOK, Fails, NoAccess

LEMMA OpenTypes ==
  ASSUME TypeOK, NEW f \in FileNames, NEW iomode \in IoModes, NEW ch \in Channels,
         executeOpen(f, iomode, ch)
  PROVE  TypeOK'
<1>1. CASE disk[f] = Absent /\ iomode = "IOREAD"
  BY <1>1, FailsTypes DEF executeOpen
<1>2. CASE ~ (disk[f] = Absent /\ iomode = "IOREAD")
  <2>1. opened(f, iomode) \in Contents
    <3>1. CASE disk[f] = Absent
      BY <3>1 DEF opened, Contents
    <3>2. CASE disk[f] # Absent
      <4>1. disk[f] \in Contents /\ <<>> \in Seq(Blocks)
        BY <3>2, FileThere
      <4>2. [disk[f] EXCEPT !.body = <<>>] \in Contents
        BY <4>1 DEF Contents
      <4>3. QED
        BY <3>2, <4>1, <4>2 DEF opened
    <3>3. QED
      BY <3>1, <3>2
  <2>2. disk' \in [FileNames -> {Absent} \cup Contents]
    BY <1>2, <2>1 DEF executeOpen, TypeOK
  <2> DEFINE new == [filename |-> f, iomode |-> iomode, fileType |-> fileTypeOf(f),
                     recNo |-> 0, pos |-> 0, unread |-> 0, reader |-> hasReader(fileTypeOf(f))]
  <2>3. /\ fileTypeOf(f) \in {"emptyFile", "printFile", "recordFile"}
        /\ hasReader(fileTypeOf(f)) \in BOOLEAN
        /\ hasReader(fileTypeOf(f)) => fileTypeOf(f) = "printFile"
    <3>1. CASE disk[f] # Absent /\ disk[f].sticky
      BY <3>1 DEF fileTypeOf, hasReader
    <3>2. CASE disk[f] # Absent /\ ~ disk[f].sticky /\ disk[f].body # <<>>
      BY <3>2 DEF fileTypeOf, hasReader
    <3>3. CASE disk[f] = Absent \/ (~ disk[f].sticky /\ disk[f].body = <<>>)
      BY <3>3 DEF fileTypeOf, hasReader
    <3>4. QED
      BY <3>1, <3>2, <3>3
  <2>4. new \in FileRecs /\ (new.reader => new.fileType = "printFile")
    BY <2>3 DEF FileRecs
  <2>5. /\ DOMAIN openFiles' \subseteq Channels
        /\ openFiles' \in [DOMAIN openFiles' -> FileRecs]
        /\ \A c \in DOMAIN openFiles' :
             openFiles'[c].reader => openFiles'[c].fileType = "printFile"
    <3>1. CASE ch \in DOMAIN openFiles
      BY <1>2, <3>1 DEF executeOpen, TypeOK
    <3>2. CASE ch \notin DOMAIN openFiles
      <4>1. openFiles' = [c \in DOMAIN openFiles \cup {ch} |-> IF c # ch THEN openFiles[c] ELSE new]
        BY <1>2, <3>2 DEF executeOpen
      <4>2. QED
        BY <2>4, <4>1 DEF TypeOK
    <3>3. QED
      BY <3>1, <3>2
  <2>6. QED
    BY <1>2, <2>2, <2>5 DEF executeOpen, TypeOK, NoAccess
<1>3. QED
  BY <1>1, <1>2

LEMMA CloseTypes ==
  ASSUME TypeOK, NEW ch \in Channels, executeClose(ch)
  PROVE  TypeOK'
<1>1. CASE ch \in DOMAIN openFiles
  BY <1>1 DEF executeClose, Restrict, TypeOK, NoAccess
<1>2. CASE ch \notin DOMAIN openFiles
  BY <1>2, FailsTypes DEF executeClose
<1>3. QED
  BY <1>1, <1>2

LEMMA InitializeTypes ==
  ASSUME TypeOK, initializeRun
  PROVE  TypeOK'
<1>1. NoFields \in [Channels -> 0 .. MaxMapped]
  BY FilesAssumption DEF NoFields
<1>2. DOMAIN openFiles' = {} /\ openFiles' \in [DOMAIN openFiles' -> FileRecs]
  BY DEF initializeRun
<1>3. QED
  BY <1>1, <1>2 DEF initializeRun, TypeOK, NoAccess

LEMMA KillTypes ==
  ASSUME TypeOK, NEW f \in FileNames, executeKill(f)
  PROVE  TypeOK'
<1>1. CASE Fails
  BY <1>1, FailsTypes
<1>2. CASE ~ Fails
  BY <1>2 DEF executeKill, TypeOK, NoAccess
<1>3. QED
  BY <1>1, <1>2

\* The entry and the file of an open channel have their types.
LEMMA ChannelTypes ==
  ASSUME TypeOK, OpenFilesExist, NEW ch \in DOMAIN openFiles
  PROVE  /\ ch \in Channels /\ openFiles[ch] \in FileRecs
         /\ openFiles[ch].filename \in FileNames
         /\ disk[openFiles[ch].filename] \in Contents
<1>1. ch \in Channels /\ openFiles[ch] \in FileRecs
  BY DEF TypeOK
<1>2. openFiles[ch].filename \in FileNames /\ disk[openFiles[ch].filename] # Absent
  BY <1>1 DEF FileRecs, OpenFilesExist
<1>3. QED
  BY <1>1, <1>2, FileThere

\* One channel's entry and one file are replaced by others of their types.
LEMMA ChangeTypes ==
  ASSUME TypeOK, NEW ch \in DOMAIN openFiles, NEW of \in FileRecs, NEW f \in FileNames,
         NEW c \in Contents, of.reader => of.fileType = "printFile",
         openFiles' = [openFiles EXCEPT ![ch] = of],
         disk' = [disk EXCEPT ![f] = c] \/ disk' = disk,
         fieldMap' = fieldMap, last'.op # "none" => last'.used \in 1 .. MaxRecord
  PROVE  TypeOK'
<1>1. disk' \in [FileNames -> {Absent} \cup Contents]
  BY DEF TypeOK
<1>2. DOMAIN openFiles' \subseteq Channels /\ openFiles' \in [DOMAIN openFiles' -> FileRecs]
  BY DEF TypeOK
<1>3. \A d \in DOMAIN openFiles' : openFiles'[d].reader => openFiles'[d].fileType = "printFile"
  BY DEF TypeOK
<1>4. QED
  BY <1>1, <1>2, <1>3 DEF TypeOK

LEMMA PrintTypes ==
  ASSUME TypeOK, OpenFilesExist, NEW ch \in Channels, basicPrint(ch)
  PROVE  TypeOK'
<1>1. CASE Fails
  BY <1>1, FailsTypes
<1>2. CASE ~ Fails
  <2> DEFINE of   == openFiles[ch]
             file == disk[of.filename]
             new  == [of EXCEPT !.fileType = "printFile", !.pos = @ + 1]
             text == [file EXCEPT !.body = written(@, of.pos + 1, "line")]
  <2>1. ch \in DOMAIN openFiles
    BY <1>2 DEF basicPrint
  <2>2. of \in FileRecs /\ of.filename \in FileNames /\ file \in Contents
    BY <2>1, ChannelTypes
  <2>3. text \in Contents
    <3>1. of.pos + 1 \in Nat \ {0} /\ file.body \in Seq(Blocks) /\ "line" \in Blocks
      BY <2>2 DEF FileRecs, Contents, Blocks
    <3>2. written(file.body, of.pos + 1, "line") \in Seq(Blocks)
      BY <3>1, WrittenBody
    <3>3. QED
      BY <2>2, <3>2 DEF Contents
  <2>4. new \in FileRecs /\ new.fileType = "printFile"
    <3>1. of.pos + 1 \in Nat
      BY <2>2 DEF FileRecs
    <3>2. QED
      BY <2>2, <3>1 DEF FileRecs
  <2>5. /\ disk' = [disk EXCEPT ![of.filename] = text] /\ fieldMap' = fieldMap
        /\ openFiles' = [openFiles EXCEPT ![ch] = new] /\ last' = NoAccess
    BY <1>2 DEF basicPrint
  <2>6. QED
    BY <2>1, <2>2, <2>3, <2>4, <2>5, ChangeTypes DEF NoAccess
<1>3. QED
  BY <1>1, <1>2

\* What is left of an entry when a line has been read.
LEMMA LineTaken ==
  ASSUME NEW of \in FileRecs, NEW size \in Nat, of.unread > 0 \/ of.pos < size
  PROVE  LET new == lineTaken(of, size)
         IN  /\ new \in FileRecs
             /\ new.filename = of.filename /\ new.fileType = of.fileType /\ new.reader = of.reader
             /\ of.pos <= size /\ of.unread <= of.pos => new.pos <= size /\ new.unread <= new.pos
<1>1. of.unread \in Nat /\ of.pos \in Nat
  BY DEF FileRecs
<1>2. CASE of.unread > 0
  <2>1. of.unread - 1 \in Nat
    BY <1>1, <1>2
  <2>2. lineTaken(of, size) = [of EXCEPT !.unread = of.unread - 1]
    BY <1>2 DEF lineTaken
  <2>3. QED
    BY <1>1, <2>1, <2>2 DEF FileRecs
<1>3. CASE ~ (of.unread > 0)
  <2>1. size - of.pos - 1 \in Nat
    BY <1>1, <1>3
  <2> DEFINE new == lineTaken(of, size)
  <2>2. new = [of EXCEPT !.unread = size - of.pos - 1, !.pos = size]
    BY <1>3 DEF lineTaken
  <2>3. new \in FileRecs /\ new.pos = size /\ new.unread = size - of.pos - 1
    BY <2>1, <2>2 DEF FileRecs
  <2>4. new.filename = of.filename /\ new.fileType = of.fileType /\ new.reader = of.reader
    BY <2>2 DEF FileRecs
  <2>5. new.pos <= size /\ new.unread <= new.pos
    BY <1>1, <2>1, <2>3
  <2>6. QED
    BY <2>3, <2>4, <2>5
<1>4. QED
  BY <1>2, <1>3

LEMMA InputTypes ==
  ASSUME TypeOK, OpenFilesExist, NEW ch \in Channels, readInputLine(ch)
  PROVE  TypeOK'
<1>1. CASE Fails
  BY <1>1, FailsTypes
<1>2. CASE ~ Fails
  <2> DEFINE of   == openFiles[ch]
             file == disk[of.filename]
             new  == lineTaken(of, Len(file.body))
  <2>1. ch \in DOMAIN openFiles /\ (of.unread > 0 \/ of.pos < Len(file.body))
    BY <1>2 DEF readInputLine
  <2>2. of \in FileRecs /\ of.filename \in FileNames /\ file \in Contents
    BY <2>1, ChannelTypes
  <2>3. of.unread \in Nat /\ of.pos \in Nat /\ Len(file.body) \in Nat
    BY <2>2 DEF FileRecs, Contents
  <2>4. new \in FileRecs /\ new.reader = of.reader /\ new.fileType = of.fileType
    BY <2>1, <2>2, <2>3, LineTaken
  <2>5. of.reader => of.fileType = "printFile"
    BY <2>1 DEF TypeOK
  <2>6. /\ openFiles' = [openFiles EXCEPT ![ch] = new]
        /\ disk' = disk /\ fieldMap' = fieldMap /\ last' = NoAccess
    BY <1>2 DEF readInputLine
  <2>7. QED
    BY <2>1, <2>2, <2>4, <2>5, <2>6, ChangeTypes DEF NoAccess
<1>3. QED
  BY <1>1, <1>2

LEMMA FieldTypes ==
  ASSUME TypeOK, NEW ch \in Channels, NEW length \in 1 .. blockSize, executeField(ch, length)
  PROVE  TypeOK'
<1>1. CASE Fails
  BY <1>1, FailsTypes
<1>2. CASE ~ Fails
  <2>1. fieldMap[ch] \in 0 .. MaxMapped /\ length \in Nat /\ MaxMapped \in Nat
    BY FilesAssumption DEF TypeOK
  <2>2. fieldMap[ch] + length \in 0 .. MaxMapped
    BY <1>2, <2>1 DEF executeField
  <2>3. fieldMap' \in [Channels -> 0 .. MaxMapped]
    BY <1>2, <2>2 DEF executeField, TypeOK
  <2>4. QED
    BY <1>2, <2>3 DEF executeField, TypeOK, NoAccess
<1>3. QED
  BY <1>1, <1>2

-----------------------------------------------------------------------------
(* The shape of GET and PUT: the channel is of records afterwards, the file *)
(* is marked if it was empty, and PUT may write a record.                   *)

Marked(ch) ==
  IF openFiles[ch].fileType = "emptyFile"
  THEN [disk EXCEPT ![openFiles[ch].filename].sticky = TRUE] ELSE disk

RecordEntry(ch, of) ==
  /\ of \in FileRecs /\ of.fileType = "recordFile"
  /\ of.filename = openFiles[ch].filename /\ of.reader = openFiles[ch].reader

UsesRecord(ch) ==
  /\ ch \in DOMAIN openFiles /\ openFiles[ch].fileType # "printFile"
  /\ \E of \in FileRecs : RecordEntry(ch, of) /\ openFiles' = [openFiles EXCEPT ![ch] = of]
  /\ \/ disk' = Marked(ch)
     \/ \E k \in 1 .. MaxRecord :
          disk' = [Marked(ch) EXCEPT ![openFiles[ch].filename].body = written(@, k, "record")]
  /\ fieldMap' = fieldMap /\ (last'.op # "none" => last'.used \in 1 .. MaxRecord)

\* The channel of an empty file becomes one of records.
LEMMA AsRecordFile ==
  ASSUME TypeOK, NEW ch \in DOMAIN openFiles, openFiles[ch].fileType # "printFile",
         NEW of \in FileRecs, of.fileType = openFiles[ch].fileType,
         of.filename = openFiles[ch].filename, of.reader = openFiles[ch].reader
  PROVE  /\ RecordEntry(ch, asRecordFile(of, disk).of)
         /\ asRecordFile(of, disk).disk = Marked(ch)
<1>1. CASE of.fileType = "emptyFile"
  <2>1. asRecordFile(of, disk) =
          [of   |-> [of EXCEPT !.fileType = "recordFile", !.recNo = 1],
           disk |-> [disk EXCEPT ![of.filename].sticky = TRUE]]
    BY <1>1 DEF asRecordFile, setRecordFile
  <2>2. RecordEntry(ch, [of EXCEPT !.fileType = "recordFile", !.recNo = 1])
    BY DEF RecordEntry, FileRecs
  <2>3. QED
    BY <1>1, <2>1, <2>2 DEF Marked
<1>2. CASE of.fileType # "emptyFile"
  <2>1. asRecordFile(of, disk) = [of |-> of, disk |-> disk]
    BY <1>2 DEF asRecordFile
  <2>2. of.fileType = "recordFile"
    BY <1>2 DEF FileRecs
  <2>3. QED
    BY <1>2, <2>1, <2>2 DEF Marked, RecordEntry
<1>3. QED
  BY <1>1, <1>2

\* The next record is a number from one on.
LEMMA NextRecord ==
  ASSUME NEW of \in FileRecs, NEW n \in 0 .. MaxRecord
  PROVE  LET new == nextRecord(of, n)
         IN  /\ new \in FileRecs /\ new.recNo \in Nat \ {0}
             /\ new.filename = of.filename /\ new.reader = of.reader /\ new.fileType = of.fileType
<1> DEFINE k == IF n # 0 THEN n ELSE of.recNo + 1
<1>1. k \in Nat \ {0}
  BY FilesAssumption DEF FileRecs
<1>2. nextRecord(of, n) = [of EXCEPT !.recNo = k]
  BY DEF nextRecord
<1> HIDE DEF k
<1>3. QED
  BY <1>1, <1>2 DEF FileRecs

LEMMA GetUsesRecord ==
  ASSUME TypeOK, NEW ch \in Channels, NEW n \in 0 .. MaxRecord, executeGet(ch, n)
  PROVE  Fails \/ UsesRecord(ch)
<1>1. CASE ~ OpenForRecords(ch)
  BY <1>1 DEF executeGet
<1>2. CASE OpenForRecords(ch)
  <2> DEFINE new == asRecordFile(openFiles[ch], disk)
             of  == IF Mapped(ch) THEN nextRecord(new.of, n) ELSE new.of
  <2>1. ch \in DOMAIN openFiles /\ openFiles[ch].fileType # "printFile" /\ openFiles[ch] \in FileRecs
    BY <1>2 DEF OpenForRecords, TypeOK
  <2>2. RecordEntry(ch, new.of) /\ new.disk = Marked(ch)
    BY <2>1, AsRecordFile
  <2>3. RecordEntry(ch, of) /\ (Mapped(ch) => of.recNo \in Nat \ {0})
    <3>1. new.of \in FileRecs
      BY <2>2 DEF RecordEntry
    <3>2. CASE Mapped(ch)
      BY <2>2, <3>1, <3>2, NextRecord DEF RecordEntry
    <3>3. CASE ~ Mapped(ch)
      BY <2>2, <3>3
    <3>4. QED
      BY <3>2, <3>3
  <2>4. /\ disk' = Marked(ch) /\ fieldMap' = fieldMap
        /\ openFiles' = [openFiles EXCEPT ![ch] = of] /\ of.recNo <= MaxRecord
        /\ last' = NoAccess \/ (Mapped(ch) /\ last'.used = of.recNo)
    BY <1>2, <2>2 DEF executeGet
  <2>5. last'.op # "none" => last'.used \in 1 .. MaxRecord
    BY <2>3, <2>4, FilesAssumption DEF NoAccess
  <2>6. of \in FileRecs
    BY <2>3 DEF RecordEntry
  <2>7. QED
    BY <2>1, <2>3, <2>4, <2>5, <2>6 DEF UsesRecord
<1>3. QED
  BY <1>1, <1>2

LEMMA PutUsesRecord ==
  ASSUME TypeOK, NEW ch \in Channels, NEW n \in 0 .. MaxRecord, executePut(ch, n)
  PROVE  Fails \/ UsesRecord(ch)
<1>1. CASE ~ OpenForRecords(ch) \/ ~ Mapped(ch)
  BY <1>1 DEF executePut
<1>2. CASE OpenForRecords(ch) /\ Mapped(ch)
  <2> DEFINE next == nextRecord(openFiles[ch], n)
             new  == asRecordFile(next, disk)
             of   == new.of
             f    == openFiles[ch].filename
  <2>1. ch \in DOMAIN openFiles /\ openFiles[ch].fileType # "printFile" /\ openFiles[ch] \in FileRecs
    BY <1>2 DEF OpenForRecords, TypeOK
  <2>2. /\ next \in FileRecs /\ next.recNo \in Nat \ {0} /\ next.filename = openFiles[ch].filename
        /\ next.reader = openFiles[ch].reader /\ next.fileType = openFiles[ch].fileType
    BY <2>1, NextRecord
  <2>3. RecordEntry(ch, of) /\ new.disk = Marked(ch)
    <3> HIDE DEF next
    <3>1. QED
      BY <2>1, <2>2, AsRecordFile
  <2>4. of.recNo \in Nat \ {0}
    <3>1. CASE next.fileType = "emptyFile"
      <4> HIDE DEF next
      <4>1. of = [next EXCEPT !.fileType = "recordFile", !.recNo = 1]
        BY <3>1 DEF asRecordFile, setRecordFile
      <4>2. QED
        BY <2>2, <4>1 DEF FileRecs
    <3>2. CASE next.fileType # "emptyFile"
      <4> HIDE DEF next
      <4>1. QED
        BY <2>2, <3>2 DEF asRecordFile
    <3>3. QED
      BY <3>1, <3>2
  <2>5. /\ openFiles' = [openFiles EXCEPT ![ch] = of] /\ fieldMap' = fieldMap
        /\ of.recNo <= MaxRecord
        /\ \/ /\ disk' = [new.disk EXCEPT ![of.filename].body = written(@, of.recNo, "record")]
              /\ last'.used = of.recNo
           \/ disk' = new.disk /\ last' = NoAccess
    BY <1>2 DEF executePut
  <2>6. of.filename = f /\ of \in FileRecs /\ of.recNo \in 1 .. MaxRecord
    BY <2>3, <2>4, <2>5, FilesAssumption DEF RecordEntry
  <2> HIDE DEF of, new
  <2>7. \/ disk' = Marked(ch)
        \/ \E k \in 1 .. MaxRecord : disk' = [Marked(ch) EXCEPT ![f].body = written(@, k, "record")]
    BY <2>3, <2>5, <2>6
  <2>8. last'.op # "none" => last'.used \in 1 .. MaxRecord
    BY <2>5, <2>6 DEF NoAccess
  <2>9. QED
    BY <2>1, <2>3, <2>5, <2>6, <2>7, <2>8 DEF UsesRecord
<1>3. QED
  BY <1>1, <1>2

LEMMA MarkedContents ==
  ASSUME NEW c \in Contents
  PROVE  [c EXCEPT !.sticky = TRUE] = [sticky |-> TRUE, body |-> c.body]
<1> DEFINE x == [c EXCEPT !.sticky = TRUE]
           y == [sticky |-> TRUE, body |-> c.body]
<1>1. x \in Contents /\ x.sticky = TRUE /\ x.body = c.body
  BY DEF Contents
<1>2. y \in Contents /\ y.sticky = TRUE /\ y.body = c.body
  BY DEF Contents
<1> HIDE DEF x, y
<1>3. x = y
  BY <1>1, <1>2 DEF Contents
<1>4. QED
  BY <1>3 DEF x, y

\* What the file of a channel holds after GET or PUT.
LEMMA RecordFile ==
  ASSUME TypeOK, OpenFilesExist, NEW ch \in Channels, UsesRecord(ch)
  PROVE  \E c \in Contents :
           /\ disk' = [disk EXCEPT ![openFiles[ch].filename] = c]
           /\ c.sticky = (openFiles[ch].fileType = "emptyFile" \/ disk[openFiles[ch].filename].sticky)
           /\ \/ c.body = disk[openFiles[ch].filename].body
              \/ \E k \in 1 .. MaxRecord :
                   c.body = written(disk[openFiles[ch].filename].body, k, "record")
<1> DEFINE f    == openFiles[ch].filename
           file == disk[f]
           mark == openFiles[ch].fileType = "emptyFile" \/ file.sticky
           kept == [sticky |-> mark, body |-> file.body]
<1>1. ch \in DOMAIN openFiles
  BY DEF UsesRecord
<1>2. f \in FileNames /\ file \in Contents /\ disk \in [FileNames -> {Absent} \cup Contents]
  BY <1>1, ChannelTypes DEF TypeOK
<1>3. file.sticky \in BOOLEAN /\ file.body \in Seq(Blocks) /\ mark \in BOOLEAN
  BY <1>2 DEF Contents
<1>4. file = [sticky |-> file.sticky, body |-> file.body]
  BY <1>2 DEF Contents
<1>5. kept \in Contents /\ Marked(ch) = [disk EXCEPT ![f] = kept]
  <2>1. kept \in Contents
    BY <1>3 DEF Contents
  <2>2. CASE openFiles[ch].fileType = "emptyFile"
    <3>1. mark = TRUE
      BY <2>2
    <3>2. [file EXCEPT !.sticky = TRUE] = kept
      <4>1. [file EXCEPT !.sticky = TRUE] = [sticky |-> TRUE, body |-> file.body]
        BY <1>2, MarkedContents
      <4> HIDE DEF mark
      <4>2. QED
        BY <3>1, <4>1
    <3>3. QED
      BY <2>1, <2>2, <3>2 DEF Marked
  <2>3. CASE openFiles[ch].fileType # "emptyFile"
    <3>1. mark = file.sticky
      BY <1>3, <2>3
    <3>2. kept = file
      BY <1>4, <3>1
    <3>3. [disk EXCEPT ![f] = file] = disk
      BY <1>2
    <3>4. QED
      BY <2>1, <2>3, <3>2, <3>3 DEF Marked
  <2>4. QED
    BY <2>2, <2>3
<1> DEFINE goal ==
      \E c \in Contents :
        /\ disk' = [disk EXCEPT ![f] = c] /\ c.sticky = mark
        /\ c.body = file.body \/ \E k \in 1 .. MaxRecord : c.body = written(file.body, k, "record")
<1>6. CASE disk' = Marked(ch)
  <2>1. disk' = [disk EXCEPT ![f] = kept] /\ kept.sticky = mark /\ kept.body = file.body
    BY <1>5, <1>6
  <2> HIDE DEF kept
  <2>2. QED
    BY <1>5, <2>1
<1>7. ASSUME NEW k \in 1 .. MaxRecord,
             disk' = [Marked(ch) EXCEPT ![f].body = written(@, k, "record")]
      PROVE  goal
  <2> DEFINE c == [sticky |-> mark, body |-> written(file.body, k, "record")]
  <2>1. k \in Nat \ {0} /\ "record" \in Blocks
    BY FilesAssumption DEF Blocks
  <2>2. written(file.body, k, "record") \in Seq(Blocks)
    BY <1>3, <2>1, WrittenBody
  <2>3. c \in Contents
    BY <1>3, <2>2 DEF Contents
  <2>4. kept.body = file.body /\ c = [kept EXCEPT !.body = written(file.body, k, "record")]
    OBVIOUS
  <2>5. disk' = [disk EXCEPT ![f] = c]
    <3> HIDE DEF kept, c
    <3>1. QED
      BY <1>2, <1>5, <1>7, <2>4
  <2>6. c.sticky = mark /\ c.body = written(file.body, k, "record")
    OBVIOUS
  <2> HIDE DEF c, mark
  <2>7. QED
    BY <2>3, <2>5, <2>6
<1>8. goal
  BY <1>6, <1>7 DEF UsesRecord
<1>9. QED
  BY <1>8

LEMMA RecordTypes ==
  ASSUME TypeOK, OpenFilesExist, NEW ch \in Channels, UsesRecord(ch)
  PROVE  TypeOK'
<1>1. ch \in DOMAIN openFiles /\ openFiles[ch].fileType # "printFile"
  BY DEF UsesRecord
<1>2. openFiles[ch].filename \in FileNames
  BY <1>1, ChannelTypes
<1>3. PICK of \in FileRecs : RecordEntry(ch, of) /\ openFiles' = [openFiles EXCEPT ![ch] = of]
  BY DEF UsesRecord
<1>4. ~ of.reader
  BY <1>1, <1>3 DEF RecordEntry, TypeOK
<1>5. PICK c \in Contents : disk' = [disk EXCEPT ![openFiles[ch].filename] = c]
  BY RecordFile
<1>6. fieldMap' = fieldMap /\ (last'.op # "none" => last'.used \in 1 .. MaxRecord)
  BY DEF UsesRecord
<1>7. QED
  BY <1>1, <1>2, <1>3, <1>4, <1>5, <1>6, ChangeTypes

\* Every action keeps the types.
LEMMA NextTypes ==
  ASSUME TypeOK, OpenFilesExist, Next
  PROVE  TypeOK'
<1>1. CASE initializeRun
  BY <1>1, InitializeTypes
<1>2. ASSUME NEW f \in FileNames, executeKill(f) PROVE TypeOK'
  BY <1>2, KillTypes
<1>3. ASSUME NEW f \in FileNames, NEW iomode \in IoModes, NEW ch \in Channels,
             executeOpen(f, iomode, ch)
      PROVE  TypeOK'
  BY <1>3, OpenTypes
<1>4. ASSUME NEW ch \in Channels, executeClose(ch) \/ basicPrint(ch) \/ readInputLine(ch)
      PROVE  TypeOK'
  BY <1>4, CloseTypes, PrintTypes, InputTypes
<1>5. ASSUME NEW ch \in Channels, NEW length \in 1 .. blockSize, executeField(ch, length)
      PROVE  TypeOK'
  BY <1>5, FieldTypes
<1>6. ASSUME NEW ch \in Channels, NEW n \in 0 .. MaxRecord, executeGet(ch, n) \/ executePut(ch, n)
      PROVE  TypeOK'
  BY <1>6, GetUsesRecord, PutUsesRecord, FailsTypes, RecordTypes
<1>7. QED
  BY <1>1, <1>2, <1>3, <1>4, <1>5, <1>6 DEF Next

-----------------------------------------------------------------------------
(* Channels and their files.                                                *)

\* The entry and the file of one channel are replaced, and fit each other again.
LEMMA ChangeKnows ==
  ASSUME TypeOK, OpenFilesExist, NEW ch \in DOMAIN openFiles,
         NEW of \in FileRecs, of.filename = openFiles[ch].filename, NEW c \in Contents,
         openFiles' = [openFiles EXCEPT ![ch] = of],
         disk' = [disk EXCEPT ![openFiles[ch].filename] = c]
  PROVE  /\ OpenFilesExist' /\ (OpenOnce => OpenOnce')
         /\ OpenOnce /\ ChannelsKnowTheirFile /\ Knows(of, c) => ChannelsKnowTheirFile'
<1> DEFINE f == openFiles[ch].filename
<1>1. f \in FileNames /\ c # Absent /\ disk \in [FileNames -> {Absent} \cup Contents]
  BY ChannelTypes, FilesAssumption DEF TypeOK, Contents
<1>2. /\ DOMAIN openFiles' = DOMAIN openFiles /\ openFiles'[ch] = of
      /\ \A d \in DOMAIN openFiles : d # ch => openFiles'[d] = openFiles[d]
      /\ \A d \in DOMAIN openFiles : openFiles'[d].filename = openFiles[d].filename
  BY DEF TypeOK
<1>3. disk'[f] = c /\ \A g \in FileNames : g # f => disk'[g] = disk[g]
  BY <1>1
<1>4. \A d \in DOMAIN openFiles : openFiles[d].filename \in FileNames
  BY ChannelTypes
<1>5. OpenFilesExist'
  BY <1>1, <1>2, <1>3, <1>4 DEF OpenFilesExist
<1>6. OpenOnce => OpenOnce'
  BY <1>2 DEF OpenOnce
<1>7. ASSUME OpenOnce, ChannelsKnowTheirFile, Knows(of, c), NEW d \in DOMAIN openFiles'
      PROVE  Knows(openFiles'[d], disk'[openFiles'[d].filename])
  <2>1. CASE d = ch
    BY <1>2, <1>3, <1>7, <2>1
  <2>2. CASE d # ch
    <3>1. openFiles'[d] = openFiles[d] /\ openFiles[d].filename # f /\ d \in DOMAIN openFiles
      BY <1>2, <1>7, <2>2 DEF OpenOnce
    <3>2. disk'[openFiles'[d].filename] = disk[openFiles[d].filename]
      BY <1>3, <1>4, <3>1
    <3>3. QED
      BY <1>7, <3>1, <3>2 DEF ChannelsKnowTheirFile
  <2>3. QED
    BY <2>1, <2>2
<1>8. QED
  BY <1>5, <1>6, <1>7 DEF ChannelsKnowTheirFile

\* Only channels are closed, and the files stay.
LEMMA FewerChannels ==
  ASSUME FInv, disk' = disk, DOMAIN openFiles' \subseteq DOMAIN openFiles,
         \A d \in DOMAIN openFiles' : openFiles'[d] = openFiles[d]
  PROVE  Rest'
<1>1. OpenFilesExist'
  BY DEF FInv, Rest, OpenFilesExist
<1>2. ~ OpenTwice => OpenOnce'
  BY DEF FInv, Rest, OpenOnce
<1>3. ~ OpenTwice => ChannelsKnowTheirFile'
  BY DEF FInv, Rest, ChannelsKnowTheirFile
<1>4. QED
  BY <1>1, <1>2, <1>3 DEF Rest

LEMMA FailsRest ==
  ASSUME FInv, Fails
  PROVE  Rest'
BY FewerChannels DEF Fails

LEMMA KillRest ==
  ASSUME FInv, NEW f \in FileNames, executeKill(f)
  PROVE  Rest'
<1>1. CASE Fails
  BY <1>1, FailsRest
<1>2. CASE ~ Fails
  <2>1. /\ disk' = [disk EXCEPT ![f] = Absent] /\ openFiles' = openFiles
        /\ \A d \in DOMAIN openFiles : openFiles[d].filename # f
    BY <1>2 DEF executeKill
  <2>2. \A d \in DOMAIN openFiles :
          openFiles[d].filename \in FileNames
          /\ disk'[openFiles[d].filename] = disk[openFiles[d].filename]
    BY <2>1, ChannelTypes DEF FInv, Rest, TypeOK
  <2>3. OpenFilesExist'
    BY <2>1, <2>2 DEF FInv, Rest, OpenFilesExist
  <2>4. ~ OpenTwice => OpenOnce' /\ ChannelsKnowTheirFile'
    BY <2>1, <2>2 DEF FInv, Rest, OpenOnce, ChannelsKnowTheirFile
  <2>5. QED
    BY <2>3, <2>4 DEF Rest
<1>3. QED
  BY <1>1, <1>2

\* What OPEN takes a file for is right when it has opened it.
LEMMA OpenedKnows ==
  ASSUME TypeOK, NEW f \in FileNames, NEW iomode \in IoModes,
         NEW of \in FileRecs, of.fileType = fileTypeOf(f), of.pos = 0, of.unread = 0
  PROVE  opened(f, iomode) \in Contents /\ Knows(of, opened(f, iomode))
<1> DEFINE c == opened(f, iomode)
<1>1. /\ c \in Contents /\ c # Absent
      /\ of.fileType = "recordFile" <=> c.sticky
      /\ of.fileType = "emptyFile" => c.body = <<>>
  <2>1. CASE disk[f] = Absent
    <3>1. c = [sticky |-> FALSE, body |-> <<>>] /\ of.fileType = "emptyFile"
      BY <2>1 DEF opened, fileTypeOf
    <3>2. <<>> \in Seq(Blocks)
      OBVIOUS
    <3> HIDE DEF c
    <3>3. c \in Contents /\ ~ c.sticky /\ c.body = <<>>
      BY <3>1, <3>2 DEF Contents
    <3>4. QED
      BY <3>1, <3>3, FilesAssumption DEF Contents
  <2>2. CASE disk[f] # Absent
    <3>1. disk[f] \in Contents /\ <<>> \in Seq(Blocks)
      BY <2>2, FileThere
    <3>2. CASE iomode = "IOWRITE"
      <4>1. c = [disk[f] EXCEPT !.body = <<>>]
        BY <2>2, <3>2 DEF opened
      <4>2. c \in Contents /\ c.sticky = disk[f].sticky /\ c.body = <<>>
        BY <3>1, <4>1 DEF Contents
      <4>3. disk[f].sticky <=> of.fileType = "recordFile"
        BY <2>2, <3>1 DEF fileTypeOf, Contents
      <4>4. QED
        BY <4>2, <4>3, FilesAssumption DEF Contents
    <3>3. CASE iomode # "IOWRITE"
      <4>1. c = disk[f]
        BY <2>2, <3>3 DEF opened
      <4>2. QED
        BY <2>2, <3>1, <4>1 DEF fileTypeOf, Contents
    <3>4. QED
      BY <3>2, <3>3
  <2>3. QED
    BY <2>1, <2>2
<1>2. 0 <= Len(c.body)
  BY <1>1 DEF Contents
<1>3. QED
  BY <1>1, <1>2 DEF Knows

LEMMA OpenRest ==
  ASSUME FInv, NEW f \in FileNames, NEW iomode \in IoModes, NEW ch \in Channels,
         executeOpen(f, iomode, ch)
  PROVE  Rest'
<1>1. CASE disk[f] = Absent /\ iomode = "IOREAD"
  BY <1>1, FailsRest DEF executeOpen
<1>2. CASE ~ (disk[f] = Absent /\ iomode = "IOREAD")
  <2> DEFINE c   == opened(f, iomode)
             new == [filename |-> f, iomode |-> iomode, fileType |-> fileTypeOf(f),
                     recNo |-> 0, pos |-> 0, unread |-> 0, reader |-> hasReader(fileTypeOf(f))]
  <2>1. new \in FileRecs
    BY DEF FileRecs, fileTypeOf, hasReader
  <2>2. c \in Contents /\ Knows(new, c)
    BY <2>1, OpenedKnows DEF FInv
  <2>3. disk' = [disk EXCEPT ![f] = c] /\ c # Absent
    BY <1>2, <2>2, FilesAssumption DEF executeOpen, Contents
  <2>4. /\ \A d \in DOMAIN openFiles : d \in DOMAIN openFiles' /\ openFiles'[d] = openFiles[d]
        /\ \A d \in DOMAIN openFiles' :
             d \in DOMAIN openFiles \/ (d = ch /\ openFiles'[d] = new)
    <3>1. CASE ch \in DOMAIN openFiles
      BY <1>2, <3>1 DEF executeOpen
    <3>2. CASE ch \notin DOMAIN openFiles
      <4>1. openFiles' = [d \in DOMAIN openFiles \cup {ch} |-> IF d # ch THEN openFiles[d] ELSE new]
        BY <1>2, <3>2 DEF executeOpen
      <4>2. QED
        BY <3>2, <4>1
    <3>3. QED
      BY <3>1, <3>2
  <2>5. new.filename = f /\ \A d \in DOMAIN openFiles : openFiles[d].filename \in FileNames
    BY ChannelTypes DEF FInv, Rest
  <2>6. disk'[f] = c /\ \A g \in FileNames : g # f => disk'[g] = disk[g]
    BY <2>3 DEF FInv, TypeOK
  <2> HIDE DEF new, c
  <2>7. OpenFilesExist'
    BY <2>3, <2>4, <2>5, <2>6 DEF FInv, Rest, OpenFilesExist
  <2>8. ~ OpenTwice => \A d \in DOMAIN openFiles : openFiles[d].filename # f
    BY DEF executeOpen
  <2>9. ~ OpenTwice => OpenOnce'
    BY <2>4, <2>5, <2>8 DEF FInv, Rest, OpenOnce
  <2>10. ASSUME ~ OpenTwice, NEW d \in DOMAIN openFiles'
         PROVE  Knows(openFiles'[d], disk'[openFiles'[d].filename])
    <3>1. CASE d \in DOMAIN openFiles
      <4>1. openFiles'[d] = openFiles[d]
        BY <2>4, <3>1
      <4>2. disk'[openFiles[d].filename] = disk[openFiles[d].filename]
        BY <2>5, <2>6, <2>8, <2>10, <3>1
      <4>3. QED
        BY <2>10, <3>1, <4>1, <4>2 DEF FInv, Rest, ChannelsKnowTheirFile
    <3>2. CASE d \notin DOMAIN openFiles
      BY <2>2, <2>4, <2>5, <2>6, <3>2
    <3>3. QED
      BY <3>1, <3>2
  <2>11. QED
    BY <2>7, <2>9, <2>10 DEF Rest, ChannelsKnowTheirFile
<1>3. QED
  BY <1>1, <1>2

LEMMA PrintRest ==
  ASSUME FInv, NEW ch \in Channels, basicPrint(ch)
  PROVE  Rest'
<1>1. CASE Fails
  BY <1>1, FailsRest
<1>2. CASE ~ Fails
  <2> DEFINE of   == openFiles[ch]
             file == disk[of.filename]
             new  == [of EXCEPT !.fileType = "printFile", !.pos = @ + 1]
             c    == [file EXCEPT !.body = written(@, of.pos + 1, "line")]
  <2>1. ch \in DOMAIN openFiles /\ of.fileType # "recordFile"
    BY <1>2 DEF basicPrint
  <2>2. of \in FileRecs /\ file \in Contents /\ of.pos \in Nat /\ of.unread \in Nat
    BY <2>1, ChannelTypes DEF FInv, Rest, FileRecs
  <2>3. /\ written(file.body, of.pos + 1, "line") \in Seq(Blocks)
        /\ Len(written(file.body, of.pos + 1, "line")) >= of.pos + 1
    BY <2>2, WrittenBody DEF Contents, Blocks
  <2>4. c \in Contents /\ c.sticky = file.sticky /\ Len(c.body) >= of.pos + 1
    BY <2>2, <2>3 DEF Contents
  <2>5. /\ new \in FileRecs /\ new.filename = of.filename /\ new.fileType = "printFile"
        /\ new.pos = of.pos + 1 /\ new.unread = of.unread
    <3>1. of.pos + 1 \in Nat
      BY <2>2
    <3>2. QED
      BY <2>2, <3>1 DEF FileRecs
  <2>6. /\ disk' = [disk EXCEPT ![of.filename] = c]
        /\ openFiles' = [openFiles EXCEPT ![ch] = new]
    BY <1>2 DEF basicPrint
  <2>7. ~ OpenTwice => Knows(of, file)
    BY <2>1 DEF FInv, Rest, ChannelsKnowTheirFile
  <2>8. ~ OpenTwice => of.unread <= of.pos
    <3>1. of.fileType \in {"emptyFile", "printFile"}
      BY <2>1, <2>2 DEF FileRecs
    <3>2. QED
      BY <2>2, <2>7, <3>1 DEF Knows
  <2>9. ~ OpenTwice => Knows(new, c)
    <3>1. c # Absent
      BY <2>4, FilesAssumption DEF Contents
    <3>2. ~ OpenTwice => ~ c.sticky
      BY <2>1, <2>4, <2>7 DEF Knows
    <3>3. ~ OpenTwice => new.pos <= Len(c.body) /\ new.unread <= new.pos
      BY <2>2, <2>4, <2>5, <2>8 DEF Contents
    <3> HIDE DEF new, c
    <3>4. QED
      BY <2>5, <3>1, <3>2, <3>3 DEF Knows
  <2> HIDE DEF new, c
  <2>10. QED
    BY <2>1, <2>4, <2>5, <2>6, <2>9, ChangeKnows DEF FInv, Rest
<1>3. QED
  BY <1>1, <1>2

LEMMA InputRest ==
  ASSUME FInv, NEW ch \in Channels, readInputLine(ch)
  PROVE  Rest'
<1>1. CASE Fails
  BY <1>1, FailsRest
<1>2. CASE ~ Fails
  <2> DEFINE of   == openFiles[ch]
             file == disk[of.filename]
             new  == lineTaken(of, Len(file.body))
  <2>1. ch \in DOMAIN openFiles /\ of.reader /\ (of.unread > 0 \/ of.pos < Len(file.body))
    BY <1>2 DEF readInputLine
  <2>2. of \in FileRecs /\ of.filename \in FileNames /\ file \in Contents
    BY <2>1, ChannelTypes DEF FInv, Rest
  <2>3. Len(file.body) \in Nat /\ of.fileType = "printFile"
    BY <2>1, <2>2 DEF Contents, FInv, TypeOK
  <2>4. /\ new \in FileRecs /\ new.filename = of.filename /\ new.fileType = of.fileType
        /\ of.pos <= Len(file.body) /\ of.unread <= of.pos
             => new.pos <= Len(file.body) /\ new.unread <= new.pos
    BY <2>1, <2>2, <2>3, LineTaken
  <2>5. openFiles' = [openFiles EXCEPT ![ch] = new] /\ disk' = disk
    BY <1>2 DEF readInputLine
  <2>6. disk' = [disk EXCEPT ![of.filename] = file]
    BY <2>2, <2>5 DEF FInv, TypeOK
  <2>7. ~ OpenTwice => Knows(new, file)
    <3>1. ~ OpenTwice => Knows(of, file)
      BY <2>1 DEF FInv, Rest, ChannelsKnowTheirFile
    <3> HIDE DEF new
    <3>2. QED
      BY <2>3, <2>4, <3>1 DEF Knows
  <2> HIDE DEF new
  <2>8. QED
    BY <2>1, <2>2, <2>4, <2>5, <2>6, <2>7, ChangeKnows DEF FInv, Rest
<1>3. QED
  BY <1>1, <1>2

LEMMA RecordRest ==
  ASSUME FInv, NEW ch \in Channels, UsesRecord(ch)
  PROVE  Rest'
<1> DEFINE f == openFiles[ch].filename
<1>1. ch \in DOMAIN openFiles /\ openFiles[ch].fileType # "printFile"
  BY DEF UsesRecord
<1>2. openFiles[ch] \in FileRecs /\ f \in FileNames /\ disk[f] \in Contents
  BY <1>1, ChannelTypes DEF FInv, Rest
<1>3. PICK of \in FileRecs : RecordEntry(ch, of) /\ openFiles' = [openFiles EXCEPT ![ch] = of]
  BY DEF UsesRecord
<1>4. PICK c \in Contents :
        /\ disk' = [disk EXCEPT ![f] = c]
        /\ c.sticky = (openFiles[ch].fileType = "emptyFile" \/ disk[f].sticky)
  BY RecordFile DEF FInv, Rest
<1>5. ~ OpenTwice => Knows(of, c)
  <2>1. ~ OpenTwice => Knows(openFiles[ch], disk[f])
    BY <1>1 DEF FInv, Rest, ChannelsKnowTheirFile
  <2>2. openFiles[ch].fileType \in {"emptyFile", "recordFile"}
    BY <1>1, <1>2 DEF FileRecs
  <2>3. ~ OpenTwice => c.sticky
    BY <1>4, <2>1, <2>2 DEF Knows
  <2>4. c # Absent
    BY FilesAssumption DEF Contents
  <2>5. QED
    BY <1>3, <2>3, <2>4 DEF Knows, RecordEntry
<1>6. of.filename = f
  BY <1>3 DEF RecordEntry
<1>7. QED
  BY <1>1, <1>3, <1>4, <1>5, <1>6, ChangeKnows DEF FInv, Rest

-----------------------------------------------------------------------------

LEMMA InitFInv == Init => FInv
<1>1. ASSUME Init PROVE TypeOK
  <2>1. NoFields \in [Channels -> 0 .. MaxMapped]
    BY FilesAssumption DEF NoFields
  <2>2. DOMAIN openFiles = {} /\ openFiles \in [DOMAIN openFiles -> FileRecs]
    BY <1>1 DEF Init
  <2>3. QED
    BY <1>1, <2>1, <2>2 DEF Init, TypeOK, NoAccess
<1>2. ASSUME Init PROVE Rest
  BY <1>2 DEF Init, Rest, OpenFilesExist, OpenOnce, ChannelsKnowTheirFile
<1>3. QED
  BY <1>1, <1>2 DEF FInv

LEMMA NextFInv == FInv /\ [Next]_vars => FInv'
<1> SUFFICES ASSUME FInv, [Next]_vars PROVE FInv'
  OBVIOUS
<1>1. CASE UNCHANGED vars
  BY <1>1 DEF vars, FInv, Rest, TypeOK, OpenFilesExist, OpenOnce, ChannelsKnowTheirFile
<1>2. CASE Next
  <2>1. TypeOK'
    BY <1>2, NextTypes DEF FInv, Rest
  <2>2. Rest'
    <3>1. CASE initializeRun
      BY <3>1, FewerChannels DEF initializeRun
    <3>2. ASSUME NEW f \in FileNames, executeKill(f) PROVE Rest'
      BY <3>2, KillRest
    <3>3. ASSUME NEW f \in FileNames, NEW iomode \in IoModes, NEW ch \in Channels,
                 executeOpen(f, iomode, ch)
          PROVE  Rest'
      BY <3>3, OpenRest
    <3>4. ASSUME NEW ch \in Channels, executeClose(ch) PROVE Rest'
      <4>1. CASE ch \in DOMAIN openFiles
        BY <3>4, <4>1, FewerChannels DEF executeClose, Restrict
      <4>2. CASE ch \notin DOMAIN openFiles
        BY <3>4, <4>2, FailsRest DEF executeClose
      <4>3. QED
        BY <4>1, <4>2
    <3>5. ASSUME NEW ch \in Channels, basicPrint(ch) \/ readInputLine(ch) PROVE Rest'
      BY <3>5, PrintRest, InputRest
    <3>6. ASSUME NEW ch \in Channels, NEW length \in 1 .. blockSize, executeField(ch, length)
          PROVE  Rest'
      BY <3>6, FailsRest, FewerChannels DEF executeField
    <3>7. ASSUME NEW ch \in Channels, NEW n \in 0 .. MaxRecord,
                 executeGet(ch, n) \/ executePut(ch, n)
          PROVE  Rest'
      BY <3>7, GetUsesRecord, PutUsesRecord, FailsRest, RecordRest DEF FInv
    <3>8. QED
      BY <1>2, <3>1, <3>2, <3>3, <3>4, <3>5, <3>6, <3>7 DEF Next
  <2>3. QED
    BY <2>1, <2>2 DEF FInv
<1>3. QED
  BY <1>1, <1>2

\* The inductive invariant holds in every reachable state.
THEOREM FilesAreSound == Spec => []FInv
BY InitFInv, NextFInv, PTL DEF Spec

\* The variables keep their types, whatever the program opens twice.
THEOREM FilesTypes == Spec => []TypeOK
<1>1. FInv => TypeOK
  BY DEF FInv
<1>2. QED
  BY <1>1, FilesAreSound, PTL

\* What a channel takes its file for stays true, as long as no file is opened twice.
THEOREM ChannelsStayRight == ~ OpenTwice => (Spec => []ChannelsKnowTheirFile)
<1> SUFFICES ASSUME ~ OpenTwice PROVE Spec => []ChannelsKnowTheirFile
  OBVIOUS
<1>1. FInv => ChannelsKnowTheirFile
  BY DEF FInv, Rest
<1>2. QED
  BY <1>1, FilesAreSound, PTL

-----------------------------------------------------------------------------
(* The channels implement the file store.                                   *)

\* What the store has in place of a file.
Stored(c) == [type |-> typeOf(c), body |-> c.body]

LEMMA StoredFiles ==
  ASSUME TypeOK
  PROVE  /\ DOMAIN filesOf = FileNames
         /\ \A f \in FileNames : disk[f] = Absent => filesOf[f] = Absent
         /\ \A f \in FileNames : disk[f] # Absent =>
              filesOf[f] = Stored(disk[f]) /\ filesOf[f] # Absent
<1>1. ASSUME NEW c \in Contents PROVE Stored(c) # Absent
  <2>1. Stored(c) \in [type : {"empty", "text", "record"}, body : Seq(Blocks)]
    BY DEF Stored, typeOf, Contents
  <2>2. QED
    BY <2>1, StoreAssumption
<1>2. \A f \in FileNames : disk[f] # Absent => disk[f] \in Contents
  BY FileThere
<1>3. QED
  BY <1>1, <1>2 DEF filesOf, Stored

\* A file that gets new contents gets them in the store.
LEMMA StoredChange ==
  ASSUME TypeOK, NEW f \in FileNames, NEW c \in Contents, disk' = [disk EXCEPT ![f] = c]
  PROVE  filesOf' = [filesOf EXCEPT ![f] = Stored(c)]
<1>1. c # Absent
  BY FilesAssumption DEF Contents
<1>2. disk'[f] = c /\ \A g \in FileNames : g # f => disk'[g] = disk[g]
  BY DEF TypeOK
<1>3. filesOf' = [g \in FileNames |->
                    IF disk'[g] = Absent THEN Absent
                    ELSE [type |-> typeOf(disk'[g]), body |-> disk'[g].body]]
  BY DEF filesOf, typeOf
<1>4. QED
  BY <1>1, <1>2, <1>3 DEF filesOf, Stored

LEMMA StoredSame ==
  ASSUME disk' = disk
  PROVE  filesOf' = filesOf
BY DEF filesOf, typeOf

\* A channel that stays on its file stays a user of it.
LEMMA UsersSame ==
  ASSUME DOMAIN openFiles' = DOMAIN openFiles,
         \A d \in DOMAIN openFiles : openFiles'[d].filename = openFiles[d].filename
  PROVE  usersOf' = usersOf
BY DEF usersOf

LEMMA EntryChange ==
  ASSUME NEW ch \in DOMAIN openFiles, NEW of, of.filename = openFiles[ch].filename,
         openFiles' = [openFiles EXCEPT ![ch] = of]
  PROVE  usersOf' = usersOf
<1>1. DOMAIN openFiles' = DOMAIN openFiles
  OBVIOUS
<1>2. \A d \in DOMAIN openFiles : openFiles'[d].filename = openFiles[d].filename
  OBVIOUS
<1>3. QED
  BY <1>1, <1>2, UsersSame

\* A step of the store or a stutter.
StoreStep == [Store!Next]_(Store!store)

LEMMA SameStore ==
  ASSUME filesOf' = filesOf, usersOf' = usersOf
  PROVE  StoreStep
BY DEF StoreStep, Store!store

LEMMA FailsStore ==
  ASSUME Fails
  PROVE  StoreStep
<1>1. disk' = disk /\ openFiles' = openFiles
  BY DEF Fails
<1>2. QED
  BY <1>1, StoredSame, UsersSame, SameStore

\* The users of a file are the channels that have it.
LEMMA UsesFile ==
  ASSUME NEW ch \in DOMAIN openFiles, openFiles[ch].filename \in FileNames
  PROVE  ch \in usersOf[openFiles[ch].filename] /\ usersOf[openFiles[ch].filename] # {}
BY DEF usersOf

LEMMA InitializeStore ==
  ASSUME initializeRun
  PROVE  StoreStep
<1>1. filesOf' = filesOf
  BY StoredSame DEF initializeRun
<1>2. usersOf' = [f \in FileNames |-> {}]
  BY DEF initializeRun, usersOf
<1>3. QED
  BY <1>1, <1>2 DEF StoreStep, Store!Next, Store!CloseAll

LEMMA KillStore ==
  ASSUME FInv, NEW f \in FileNames, executeKill(f)
  PROVE  StoreStep
<1>1. CASE Fails
  BY <1>1, FailsStore
<1>2. CASE ~ Fails
  <2>1. /\ disk[f] # Absent /\ disk' = [disk EXCEPT ![f] = Absent] /\ openFiles' = openFiles
        /\ \A c \in DOMAIN openFiles : openFiles[c].filename # f
    BY <1>2 DEF executeKill
  <2>2. filesOf[f] # Absent
    BY <2>1, StoredFiles DEF FInv
  <2>3. usersOf[f] = {} /\ usersOf' = usersOf
    BY <2>1, UsersSame DEF usersOf
  <2>4. filesOf' = [filesOf EXCEPT ![f] = Absent]
    <3>1. disk'[f] = Absent /\ \A g \in FileNames : g # f => disk'[g] = disk[g]
      BY <2>1 DEF FInv, TypeOK
    <3>2. filesOf' = [g \in FileNames |->
                        IF disk'[g] = Absent THEN Absent
                        ELSE [type |-> typeOf(disk'[g]), body |-> disk'[g].body]]
      BY DEF filesOf, typeOf
    <3>3. QED
      BY <3>1, <3>2 DEF filesOf
  <2>5. Store!Remove(f)
    BY <2>2, <2>3, <2>4 DEF Store!Remove
  <2>6. QED
    BY <2>5 DEF StoreStep, Store!Next
<1>3. QED
  BY <1>1, <1>2

LEMMA CloseStore ==
  ASSUME FInv, NEW ch \in Channels, executeClose(ch)
  PROVE  StoreStep
<1>1. CASE ch \notin DOMAIN openFiles
  BY <1>1, FailsStore DEF executeClose
<1>2. CASE ch \in DOMAIN openFiles
  <2> DEFINE f == openFiles[ch].filename
  <2>1. f \in FileNames /\ ch \in usersOf[f]
    BY <1>2, ChannelTypes, UsesFile DEF FInv, Rest
  <2>2. openFiles' = [d \in DOMAIN openFiles \ {ch} |-> openFiles[d]] /\ disk' = disk
    BY <1>2 DEF executeClose, Restrict
  <2>3. usersOf' = [usersOf EXCEPT ![f] = @ \ {ch}]
    <3>1. \A g \in FileNames :
            {d \in DOMAIN openFiles' : openFiles'[d].filename = g}
              = IF g = f THEN usersOf[f] \ {ch} ELSE usersOf[g]
      BY <2>2 DEF usersOf
    <3>2. usersOf' = [g \in FileNames |-> {d \in DOMAIN openFiles' : openFiles'[d].filename = g}]
      BY DEF usersOf
    <3>3. usersOf' = [g \in FileNames |-> IF g = f THEN usersOf[f] \ {ch} ELSE usersOf[g]]
      BY <3>1, <3>2
    <3>4. DOMAIN usersOf = FileNames
      BY DEF usersOf
    <3>5. QED
      BY <3>3, <3>4
  <2>4. Store!Close(f, ch)
    BY <2>1, <2>2, <2>3, StoredSame DEF Store!Close, Store!Forget
  <2>5. QED
    BY <2>1, <2>4 DEF StoreStep, Store!Next
<1>3. QED
  BY <1>1, <1>2

LEMMA OpenStore ==
  ASSUME FInv, NEW f \in FileNames, NEW iomode \in IoModes, NEW ch \in Channels,
         executeOpen(f, iomode, ch)
  PROVE  StoreStep
<1>1. CASE disk[f] = Absent /\ iomode = "IOREAD"
  BY <1>1, FailsStore DEF executeOpen
<1>2. CASE ~ (disk[f] = Absent /\ iomode = "IOREAD")
  <2> DEFINE c   == opened(f, iomode)
             new == [filename |-> f, iomode |-> iomode, fileType |-> fileTypeOf(f),
                     recNo |-> 0, pos |-> 0, unread |-> 0, reader |-> hasReader(fileTypeOf(f))]
  <2>1. new \in FileRecs
    BY DEF FileRecs, fileTypeOf, hasReader
  <2>2. c \in Contents
    BY <2>1, OpenedKnows DEF FInv
  <2>3. disk' = [disk EXCEPT ![f] = c]
    BY <1>2 DEF executeOpen
  <2>4. filesOf' = [filesOf EXCEPT ![f] = Stored(c)] /\ DOMAIN filesOf = FileNames
    BY <2>2, <2>3, StoredChange, StoredFiles DEF FInv
  <2>5. Stored(c) # Absent
    <3>1. Stored(c) \in [type : {"empty", "text", "record"}, body : Seq(Blocks)]
      BY <2>2 DEF Stored, typeOf, Contents
    <3>2. QED
      BY <3>1, StoreAssumption
  <2>6. Store!Create(f) \/ Store!Truncate(f) \/ filesOf' = filesOf
    <3>1. CASE disk[f] = Absent
      <4>1. Stored(c) = [type |-> "empty", body |-> <<>>]
        BY <3>1 DEF opened, Stored, typeOf
      <4>2. QED
        BY <2>4, <3>1, <4>1, StoredFiles DEF FInv, Store!Create
    <3>2. CASE disk[f] # Absent
      <4>1. filesOf[f] = Stored(disk[f]) /\ filesOf[f] # Absent /\ disk[f] \in Contents
        BY <3>2, StoredFiles, FileThere DEF FInv
      <4>2. CASE iomode = "IOWRITE"
        <5>1. c = [disk[f] EXCEPT !.body = <<>>]
          BY <3>2, <4>2 DEF opened
        <5>2. c.sticky = disk[f].sticky /\ c.body = <<>>
          BY <4>1, <5>1 DEF Contents
        <5>3. filesOf[f].type = "record" <=> disk[f].sticky
          BY <4>1 DEF Stored, typeOf
        <5>4. Stored(c) = [type |-> IF filesOf[f].type = "record" THEN "record" ELSE "empty",
                           body |-> <<>>]
          BY <5>2, <5>3 DEF Stored, typeOf
        <5>5. QED
          BY <2>4, <4>1, <5>4 DEF Store!Truncate
      <4>3. CASE iomode # "IOWRITE"
        <5>1. c = disk[f]
          BY <3>2, <4>3 DEF opened
        <5>2. [filesOf EXCEPT ![f] = filesOf[f]] = filesOf
          BY <2>4 DEF filesOf
        <5> HIDE DEF c
        <5>3. QED
          BY <2>4, <4>1, <5>1, <5>2
      <4>4. QED
        BY <4>2, <4>3
    <3>3. QED
      BY <3>1, <3>2
  <2>7. (Store!Use(f, ch) /\ filesOf'[f] # Absent) \/ usersOf' = usersOf
    <3>1. CASE ch \in DOMAIN openFiles
      <4>1. openFiles' = openFiles
        BY <1>2, <3>1 DEF executeOpen
      <4>2. QED
        BY <4>1, UsersSame
    <3>2. CASE ch \notin DOMAIN openFiles
      <4>1. openFiles' = [d \in DOMAIN openFiles \cup {ch} |-> IF d # ch THEN openFiles[d] ELSE new]
        BY <1>2, <3>2 DEF executeOpen
      <4>2. new.filename = f
        OBVIOUS
      <4> HIDE DEF new
      <4>3. \A g \in FileNames :
              {d \in DOMAIN openFiles' : openFiles'[d].filename = g}
                = IF g = f THEN usersOf[f] \cup {ch} ELSE usersOf[g]
        BY <3>2, <4>1, <4>2 DEF usersOf
      <4>4. usersOf' = [g \in FileNames |-> {d \in DOMAIN openFiles' : openFiles'[d].filename = g}]
        BY DEF usersOf
      <4>5. usersOf' = [g \in FileNames |-> IF g = f THEN usersOf[f] \cup {ch} ELSE usersOf[g]]
        BY <4>3, <4>4
      <4>6. DOMAIN usersOf = FileNames
        BY DEF usersOf
      <4>7. usersOf' = [usersOf EXCEPT ![f] = @ \cup {ch}]
        BY <4>5, <4>6
      <4>8. QED
        BY <2>4, <2>5, <4>7 DEF Store!Use
    <3>3. QED
      BY <3>1, <3>2
  <2>8. Store!Open(f, ch)
    BY <2>6, <2>7 DEF Store!Open
  <2>9. QED
    BY <2>8 DEF StoreStep, Store!Next
<1>3. QED
  BY <1>1, <1>2

LEMMA PrintStore ==
  ASSUME FInv, ~ OpenTwice, NEW ch \in Channels, basicPrint(ch)
  PROVE  StoreStep
<1>1. CASE Fails
  BY <1>1, FailsStore
<1>2. CASE ~ Fails
  <2> DEFINE of   == openFiles[ch]
             f    == of.filename
             file == disk[f]
             new  == [of EXCEPT !.fileType = "printFile", !.pos = @ + 1]
             body == written(file.body, of.pos + 1, "line")
             c    == [file EXCEPT !.body = body]
  <2>1. ch \in DOMAIN openFiles /\ of.fileType # "recordFile"
    BY <1>2 DEF basicPrint
  <2>2. /\ of \in FileRecs /\ f \in FileNames /\ file \in Contents /\ disk[f] # Absent
        /\ of.pos \in Nat /\ of.unread \in Nat /\ file.body \in Seq(Blocks)
    BY <2>1, ChannelTypes DEF FInv, Rest, FileRecs, Contents, OpenFilesExist
  <2>3. Knows(of, file) /\ of.fileType \in {"emptyFile", "printFile"}
    BY <2>1, <2>2 DEF FInv, Rest, ChannelsKnowTheirFile, FileRecs
  <2>4. ~ file.sticky /\ of.pos <= Len(file.body)
    BY <2>2, <2>3 DEF Knows
  <2>5. body \in Seq(Blocks) /\ body # <<>>
    BY <2>2, WrittenBody DEF Blocks
  <2>6. c \in Contents /\ ~ c.sticky /\ c.body = body
    BY <2>2, <2>4, <2>5 DEF Contents
  <2>7. /\ disk' = [disk EXCEPT ![f] = c]
        /\ openFiles' = [openFiles EXCEPT ![ch] = new] /\ new.filename = f
    <3>1. disk' = [disk EXCEPT ![f] = c] /\ openFiles' = [openFiles EXCEPT ![ch] = new]
      BY <1>2 DEF basicPrint
    <3>2. QED
      BY <2>2, <3>1 DEF FileRecs
  <2> HIDE DEF c, new
  <2>8. usersOf' = usersOf
    BY <2>1, <2>7, EntryChange
  <2>9. filesOf' = [filesOf EXCEPT ![f] = [type |-> "text", body |-> body]]
    <3>1. Stored(c) = [type |-> "text", body |-> body]
      BY <2>5, <2>6 DEF Stored, typeOf
    <3>2. QED
      BY <2>2, <2>6, <2>7, <3>1, StoredChange DEF FInv
  <2>10. /\ filesOf[f] = Stored(file) /\ Stored(file).body = file.body
         /\ Stored(file).type \in {"empty", "text"}
    BY <2>2, <2>4, StoredFiles DEF FInv, Stored, typeOf
  <2>11. of.pos + 1 \in 1 .. Len(file.body) + 1
    BY <2>2, <2>4
  <2>12. Store!WriteLine(f)
    <3>1. body = Store!Put(filesOf[f].body, of.pos + 1, "line")
      BY <2>10 DEF Store!Put, written
    <3> HIDE DEF body, file
    <3>2. QED
      BY <2>1, <2>2, <2>8, <2>9, <2>10, <2>11, <3>1, UsesFile DEF Store!WriteLine, Store!TypeOf
  <2>13. QED
    BY <2>2, <2>12 DEF StoreStep, Store!Next
<1>3. QED
  BY <1>1, <1>2

LEMMA RecordStore ==
  ASSUME FInv, ~ OpenTwice, NEW ch \in Channels, UsesRecord(ch)
  PROVE  StoreStep
<1> DEFINE f    == openFiles[ch].filename
           file == disk[f]
<1>1. ch \in DOMAIN openFiles /\ openFiles[ch].fileType # "printFile"
  BY DEF UsesRecord
<1>2. /\ openFiles[ch] \in FileRecs /\ f \in FileNames /\ file \in Contents /\ file # Absent
      /\ file.body \in Seq(Blocks)
  BY <1>1, ChannelTypes DEF FInv, Rest, OpenFilesExist, Contents
<1>3. PICK of \in FileRecs : RecordEntry(ch, of) /\ openFiles' = [openFiles EXCEPT ![ch] = of]
  BY DEF UsesRecord
<1>4. usersOf' = usersOf /\ usersOf[f] # {}
  BY <1>1, <1>2, <1>3, EntryChange, UsesFile DEF RecordEntry
<1>5. PICK c \in Contents :
        /\ disk' = [disk EXCEPT ![f] = c]
        /\ c.sticky = (openFiles[ch].fileType = "emptyFile" \/ file.sticky)
        /\ \/ c.body = file.body
           \/ \E k \in 1 .. MaxRecord : c.body = written(file.body, k, "record")
  BY RecordFile DEF FInv, Rest
<1>6. /\ openFiles[ch].fileType = "emptyFile" => ~ file.sticky /\ file.body = <<>>
      /\ openFiles[ch].fileType # "emptyFile" => file.sticky
      /\ c.sticky
  <2>1. Knows(openFiles[ch], file)
    BY <1>1 DEF FInv, Rest, ChannelsKnowTheirFile
  <2>2. openFiles[ch].fileType \in {"emptyFile", "recordFile"}
    BY <1>1, <1>2 DEF FileRecs
  <2>3. QED
    BY <1>5, <2>1, <2>2 DEF Knows
<1>7. filesOf' = [filesOf EXCEPT ![f] = [type |-> "record", body |-> c.body]]
  <2>1. Stored(c) = [type |-> "record", body |-> c.body]
    BY <1>6 DEF Stored, typeOf
  <2>2. QED
    BY <1>2, <1>5, <2>1, StoredChange DEF FInv
<1>8. filesOf[f] = [type |-> IF file.sticky THEN "record" ELSE "empty", body |-> file.body]
  BY <1>2, <1>6, StoredFiles DEF FInv, Stored, typeOf
<1> HIDE DEF file
<1>9. CASE \E k \in 1 .. MaxRecord : c.body = written(file.body, k, "record")
  <2>1. PICK k \in 1 .. MaxRecord : c.body = written(file.body, k, "record")
    BY <1>9
  <2>2. c.body = Store!Put(filesOf[f].body, k, "record")
    BY <1>8, <2>1 DEF Store!Put, written
  <2>3. Store!WriteRecord(f, k)
    BY <1>4, <1>7, <1>8, <2>2 DEF Store!WriteRecord, Store!TypeOf
  <2>4. QED
    BY <1>2, <2>3 DEF StoreStep, Store!Next
<1>10. CASE c.body = file.body
  <2>1. CASE file.sticky
    <3>1. filesOf' = [filesOf EXCEPT ![f] = filesOf[f]]
      BY <1>7, <1>8, <1>10, <2>1
    <3>2. filesOf' = filesOf
      BY <1>2, <3>1 DEF filesOf
    <3>3. QED
      BY <1>4, <3>2, SameStore
  <2>2. CASE ~ file.sticky
    <3>1. filesOf[f] = [type |-> "empty", body |-> file.body]
      BY <1>8, <2>2
    <3>2. filesOf' = [filesOf EXCEPT ![f].type = "record"]
      <4>1. [filesOf[f] EXCEPT !.type = "record"] = [type |-> "record", body |-> c.body]
        BY <1>10, <3>1
      <4>2. QED
        BY <1>7, <4>1
    <3>3. Store!Format(f)
      BY <1>4, <3>1, <3>2 DEF Store!Format, Store!TypeOf
    <3>4. QED
      BY <1>2, <3>3 DEF StoreStep, Store!Next
  <2>3. QED
    BY <2>1, <2>2
<1>11. QED
  BY <1>5, <1>9, <1>10

LEMMA InputStore ==
  ASSUME FInv, NEW ch \in Channels, readInputLine(ch)
  PROVE  StoreStep
<1>1. CASE Fails
  BY <1>1, FailsStore
<1>2. CASE ~ Fails
  <2> DEFINE of   == openFiles[ch]
             size == Len(disk[of.filename].body)
  <2>1. ch \in DOMAIN openFiles /\ (of.unread > 0 \/ of.pos < size)
    BY <1>2 DEF readInputLine
  <2>2. of \in FileRecs /\ size \in Nat
    BY <2>1, ChannelTypes DEF FInv, Rest, Contents
  <2>3. lineTaken(of, size).filename = of.filename
    BY <2>1, <2>2, LineTaken
  <2>4. openFiles' = [openFiles EXCEPT ![ch] = lineTaken(of, size)] /\ disk' = disk
    BY <1>2 DEF readInputLine
  <2>5. usersOf' = usersOf
    BY <2>1, <2>3, <2>4, EntryChange
  <2>6. QED
    BY <2>4, <2>5, StoredSame, SameStore
<1>3. QED
  BY <1>1, <1>2

LEMMA NextStore ==
  ASSUME FInv, ~ OpenTwice, Next
  PROVE  StoreStep
<1>1. CASE initializeRun
  BY <1>1, InitializeStore
<1>2. ASSUME NEW f \in FileNames, executeKill(f) PROVE StoreStep
  BY <1>2, KillStore
<1>3. ASSUME NEW f \in FileNames, NEW iomode \in IoModes, NEW ch \in Channels,
             executeOpen(f, iomode, ch)
      PROVE  StoreStep
  BY <1>3, OpenStore
<1>4. ASSUME NEW ch \in Channels, executeClose(ch) \/ basicPrint(ch) \/ readInputLine(ch)
      PROVE  StoreStep
  BY <1>4, CloseStore, PrintStore, InputStore
<1>5. ASSUME NEW ch \in Channels, NEW length \in 1 .. blockSize, executeField(ch, length)
      PROVE  StoreStep
  BY <1>5, FailsStore, StoredSame, UsersSame, SameStore DEF executeField
<1>6. ASSUME NEW ch \in Channels, NEW n \in 0 .. MaxRecord, executeGet(ch, n) \/ executePut(ch, n)
      PROVE  StoreStep
  BY <1>6, GetUsesRecord, PutUsesRecord, FailsStore, RecordStore DEF FInv
<1>7. QED
  BY <1>1, <1>2, <1>3, <1>4, <1>5, <1>6 DEF Next

\* Text and records never mix, a file keeps its type while anything is in it, and none is
\* removed in use, as long as no file is opened twice: OPEN, CLOSE, PRINT #, INPUT #, FIELD,
\* GET, PUT and KILL in any order implement the file store.
THEOREM FilesImplementStore == ~ OpenTwice => (Spec => ImplementsStore)
<1> SUFFICES ASSUME ~ OpenTwice PROVE Spec => ImplementsStore
  OBVIOUS
<1>1. Init => Store!Init
  BY DEF Init, Store!Init, filesOf, usersOf
<1>2. FInv /\ [Next]_vars => [Store!Next]_(Store!store)
  <2>1. ASSUME FInv, Next PROVE [Store!Next]_(Store!store)
    BY <2>1, NextStore DEF StoreStep
  <2>2. ASSUME UNCHANGED vars PROVE [Store!Next]_(Store!store)
    BY <2>2, StoredSame, UsersSame, SameStore DEF vars, StoreStep
  <2>3. QED
    BY <2>1, <2>2
<1>3. QED
  BY <1>1, <1>2, FilesAreSound, PTL DEF Spec, ImplementsStore, Store!Spec
=============================================================================
