------------------------------ MODULE FilesProps ------------------------------
(***************************************************************************)
(* What the channels must know of their files, and the file store that    *)
(* they implement.                                                         *)
(***************************************************************************)
EXTENDS Files

\* What is on the disk under a name.
Contents == [sticky : BOOLEAN, body : Seq(Blocks)]

\* The channels' entries.
FileRecs == [filename : FileNames, iomode : IoModes,
             fileType : {"emptyFile", "printFile", "recordFile"},
             recNo : Nat, pos : Nat, unread : Nat, reader : BOOLEAN]

\* The variables have their types; only channels of text have readers, and record numbers
\* are used from one on.
TypeOK ==
  /\ disk \in [FileNames -> {Absent} \cup Contents]
  /\ DOMAIN openFiles \subseteq Channels /\ openFiles \in [DOMAIN openFiles -> FileRecs]
  /\ \A ch \in DOMAIN openFiles : openFiles[ch].reader => openFiles[ch].fileType = "printFile"
  /\ fieldMap \in [Channels -> 0 .. MaxMapped]
  /\ last.op # "none" => last.used \in 1 .. MaxRecord

\* An entry is right about a file: the file is there, it is one of records exactly if the
\* channel takes it for one, it is empty and untouched if the channel takes it for empty, and
\* text is read and written within it.
Knows(of, file) ==
  /\ file # Absent
  /\ of.fileType = "recordFile" <=> file.sticky
  /\ of.fileType = "emptyFile" => file.body = <<>> /\ of.pos = 0 /\ of.unread = 0
  /\ of.fileType = "printFile" => of.pos <= Len(file.body) /\ of.unread <= of.pos

\* What a channel learnt of its file when it was opened, and has made of it since, is
\* still true.  (As long as no file is opened twice.)
ChannelsKnowTheirFile ==
  \A ch \in DOMAIN openFiles : Knows(openFiles[ch], disk[openFiles[ch].filename])

-----------------------------------------------------------------------------

\* Absent is no file of the store either.
ASSUME StoreAssumption ==
  Absent \notin [type : {"empty", "text", "record"}, body : Seq(Blocks)]

typeOf(file) == IF file.sticky THEN "record" ELSE IF file.body = <<>> THEN "empty" ELSE "text"

filesOf ==
  [f \in FileNames |->
     IF disk[f] = Absent THEN Absent ELSE [type |-> typeOf(disk[f]), body |-> disk[f].body]]

usersOf ==
  [f \in FileNames |-> {ch \in DOMAIN openFiles : openFiles[ch].filename = f}]

Store == INSTANCE FileStore WITH files <- filesOf, users <- usersOf, RecordNos <- 1 .. MaxRecord

\* The channels implement the file store: whatever the order of statements, errors and
\* abandoned runs, text and records do not mix, a file keeps its type while anything is in
\* it, and none is removed in use.  (As long as no file is opened twice.)
ImplementsStore == Store!Spec

-----------------------------------------------------------------------------

\* A PUT with a record number writes that record: "If we were passed a record number, use
\* it, otherwise bump the last used record number" (executePut).
PutGoesWhereAsked ==
  [][last'.op = "put" /\ last'.asked # 0 => last'.used = last'.asked]_vars
=============================================================================
