----------------------------- MODULE MessageParts -----------------------------
(***************************************************************************)
(* One message of Slack as a text, files and image attachments, and the    *)
(* Matrix events that show its parts (src/pkg/msgconv/from-slack.go): how  *)
(* ToMatrix splits or merges it, and how EditToMatrix finds the events to  *)
(* edit and to delete when the message was changed any number of times in  *)
(* between.                                                                *)
(***************************************************************************)
EXTENDS Integers, Sequences, FiniteSets, FiniteSetsExt

CONSTANTS
  MaxFiles,     \* files of a message
  Images,       \* image attachments (positive numbers)
  MaxChanges    \* bound: changes of the message in Slack

ASSUME PartsAssumption ==
  /\ MaxFiles \in Nat /\ MaxChanges \in Nat
  /\ Images \subseteq Nat \ {0} /\ IsFiniteSet(Images)

VARIABLES
  posted,       \* the message as it was bridged first
  current,      \* the message in Slack now
  parts,        \* the rows of its Matrix events and what these show
  changes,      \* changes made so far
  pending,      \* a change is not bridged yet
  silent,       \* a bridged change left no text part to send
  orphaned      \* the edited event was deleted by the same change

partsVars == <<posted, current, parts, changes, pending, silent, orphaned>>

\* text: the version of the text, 0 for none; files: live or not ("tombstone");
\* bot: the message has a user name of its own.
Contents ==
  [text : 0 .. MaxChanges + 1, files : UNION {[1 .. n -> BOOLEAN] : n \in 0 .. MaxFiles},
   images : SUBSET Images, bot : BOOLEAN]

\* A row: the ID of the part (type and number), and what its event shows.
Part(type, id, text, file, image) ==
  [type |-> type, id |-> id, text |-> text, file |-> file, image |-> image]
Rows == [type : {"text", "file", "attachment"}, id : 0 .. MaxFiles \cup Images,
         text : 0 .. MaxChanges + 1, file : 0 .. MaxFiles, image : {0} \cup Images]

PartTypes ==
  /\ posted \in Contents /\ current \in Contents /\ parts \subseteq Rows
  /\ changes \in 0 .. MaxChanges
  /\ pending \in BOOLEAN /\ silent \in BOOLEAN /\ orphaned \in BOOLEAN

Live(m) == {i \in DOMAIN m.files : m.files[i]}
\* makeTextPart gives a part: text, or attachments that might have some.
HasTextPart(m) == m.text # 0 \/ m.images # {}
Empty(m) == m.text = 0 /\ Live(m) = {} /\ m.images = {}

-----------------------------------------------------------------------------
(***************************************************************************)
(* ToMatrix.                                                               *)
(***************************************************************************)
FileParts(m) == {Part("file", i, 0, i, 0) : i \in Live(m)}
ImageParts(m) == {Part("attachment", i, 0, 0, i) : i \in m.images}

\* MergeCaption: a text and one file or image become one event.
ToMatrix(m) ==
  LET media == FileParts(m) \cup ImageParts(m)
      one == CHOOSE p \in media : TRUE
  IN  CASE HasTextPart(m) /\ Cardinality(media) = 1 ->
             {Part("text", 0, m.text, one.file, one.image)}
        [] HasTextPart(m) /\ Cardinality(media) # 1 ->
             {Part("text", 0, m.text, 0, 0)} \cup media
        [] OTHER -> media

-----------------------------------------------------------------------------
(***************************************************************************)
(* EditToMatrix.                                                           *)
(***************************************************************************)

\* existing[0]: the rows are read in the order of their IDs.
Rank(p) == CASE p.type = "text" -> 0
             [] p.type = "attachment" -> p.id
             [] p.type = "file" -> p.id + Max({0} \cup Images)
First == CHOOSE p \in parts : \A q \in parts : Rank(p) <= Rank(q)

DeletedParts(m) ==
  {p \in parts : p.type = "attachment" /\ p.id \notin m.images}
  \cup {p \in parts : p.type = "file" /\ ~m.files[p.id]}

\* mutant: only the file of a message with one file is merged
MergesFileMutated(m) == HasTextPart(m) /\ Live(m) # {} /\ Len(m.files) = 1
\* The first file is merged into the edited event if it is the only one, or
\* if there was no text when the message was posted.
MergesFile(m) ==
  /\ HasTextPart(m) /\ Live(m) # {}
  /\ Len(m.files) = 1 \/ First.type # "text"
FirstFile(m) == Min(Live(m))
Target(m) ==
  IF MergesFile(m) /\ First.type # "text"
  THEN {p \in parts : p.type = "file" /\ p.id = FirstFile(m)} ELSE {First}

\* What the edited event shows afterwards.
Modified(p, m) == [p EXCEPT !.text = m.text, !.image = 0,
                            !.file = IF MergesFile(m) THEN FirstFile(m) ELSE 0]
\* A name without a text part, and a file without a row, are dereferenced.
Panics(m) == \/ m.bot /\ ~HasTextPart(m)
             \/ HasTextPart(m) /\ Target(m) = {}

EditToMatrix(m) ==
  {IF HasTextPart(m) /\ p \in Target(m) THEN Modified(p, m) ELSE p :
     p \in parts \ DeletedParts(m)}

-----------------------------------------------------------------------------
(***************************************************************************)
(* The message and its conversions.                                        *)
(***************************************************************************)
PartsInit ==
  /\ posted \in {m \in Contents : ~Empty(m) /\ m.text \in {0, 1}}
  /\ current = posted
  /\ parts = ToMatrix(posted)
  /\ changes = 0 /\ pending = FALSE /\ silent = FALSE /\ orphaned = FALSE

\* A user or the bot changes the message: writes another text or takes it
\* away, deletes a file, adds a new attachment or removes one.
Change(m) ==
  /\ changes < MaxChanges
  /\ ~Empty(m)
  /\ current' = m
  /\ changes' = changes + 1 /\ pending' = TRUE
  /\ UNCHANGED <<posted, parts, silent, orphaned>>
ChangeText ==
  \E v \in {0, changes + 2} : v # current.text /\ Change([current EXCEPT !.text = v])
DeleteFile ==
  \E i \in Live(current) : Change([current EXCEPT !.files[i] = FALSE])
ChangeImages ==
  \E i \in current.images \cup (Images \ posted.images) :
    Change([current EXCEPT !.images = IF i \in @ THEN @ \ {i} ELSE @ \cup {i}])

\* The edit that the bridge converts is the latest one; the changes before it
\* may have been missed.  An edit of a message without rows is ignored, and a
\* panic is caught with nothing done.
BridgeEdit ==
  /\ pending
  /\ pending' = FALSE
  /\ IF parts = {} \/ Panics(current)
     THEN parts' = parts /\ orphaned' = TRUE /\ silent' = silent
     ELSE /\ parts' = EditToMatrix(current)
          /\ silent' = (silent \/ ~HasTextPart(current))
          /\ orphaned' = (orphaned \/ (HasTextPart(current)
                                       /\ Target(current) \cap DeletedParts(current) # {}))
  /\ UNCHANGED <<posted, current, changes>>

PartsNext == ChangeText \/ DeleteFile \/ ChangeImages \/ BridgeEdit

PartsSpec == PartsInit /\ [][PartsNext]_partsVars

-----------------------------------------------------------------------------
(***************************************************************************)
(* Properties.                                                             *)
(***************************************************************************)

Showing(file) == {p \in parts : p.file = file}
ShowingImage(image) == {p \in parts : p.image = image}
Bridged == ~pending /\ ~silent /\ ~orphaned

\* One event shows the text, in its latest version.
TextShown ==
  current.text # 0 =>
    \E p \in parts : p.text = current.text /\ \A q \in parts \ {p} : q.text = 0
\* Deleted files are not shown, live ones are shown once, but for two shapes:
\* the only file of a message posted with images is not merged at first, and
\* merged by the edit although its own event stays; and the only live file of
\* several is merged at first, and not by the edit.
SeparateFile == Len(posted.files) = 1 /\ posted.images # {}
MergedFile == Len(posted.files) > 1 /\ Cardinality(Live(posted)) = 1
FilesShown ==
  \A i \in DOMAIN current.files :
    LET shown == Cardinality(Showing(i))
    IN  IF current.files[i]
        THEN shown = 1 \/ (shown = 2 /\ SeparateFile) \/ (shown = 0 /\ MergedFile)
        ELSE shown = 0
\* Removed images are not shown; those that had an event of their own still
\* have it.
ImagesShown ==
  /\ \A i \in Images \ current.images : ShowingImage(i) = {}
  /\ \A i \in current.images :
       Part("attachment", i, 0, 0, i) \in ToMatrix(posted) =>
         Cardinality(ShowingImage(i)) = 1

\* When the latest change is bridged, the events show the message as it is,
\* unless an edit had no text to send or deleted the event it edited.
PartsFollow ==
  /\ PartTypes
  /\ Bridged => TextShown /\ FilesShown /\ ImagesShown

===============================================================================
