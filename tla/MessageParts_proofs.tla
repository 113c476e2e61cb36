------------------------ MODULE MessageParts_proofs -------------------------
(***************************************************************************)
(* The events that show the parts of a message follow its changes, for any  *)
(* number of files, images and changes (ToMatrix and EditToMatrix).         *)
(***************************************************************************)
EXTENDS MessageParts, FiniteSetTheorems, SequenceTheorems, TLAPS

-----------------------------------------------------------------------------
(* Numbers and finite sets.                                                 *)

(* The bounds are numbers, and images are finitely many.                    *)
LEMMA Bounds ==
  MaxFiles \in Nat /\ MaxChanges \in Nat /\ Images \subseteq Nat \ {0} /\ IsFiniteSet(Images)
BY PartsAssumption

(* A set of naturals has a minimum.                                         *)
LEMMA MinExists ==
  ASSUME NEW S \in SUBSET Nat, S # {}
  PROVE  Min(S) \in S /\ \A s \in S : Min(S) <= s
<1>1. \E x \in S : \A y \in S : ~ (<<y, x>> \in OpToRel(<, Nat))
  BY NatLessThanWellFounded, WFMin
<1>2. PICK x \in S : \A y \in S : ~ (y < x)
  BY <1>1 DEF OpToRel
<1>3. \E z \in S : \A y \in S : z <= y
  BY <1>2
<1> QED
  BY <1>3, Zenon DEF Min

(* A finite one has a bound: the smallest without one would have one.       *)
LEMMA FiniteBound ==
  ASSUME NEW S \in SUBSET Nat, IsFiniteSet(S)
  PROVE  \E n \in Nat : \A s \in S : s <= n
<1> DEFINE Bounded(U) == \E n \in Nat : \A s \in U : s <= n
           T == {U \in FiniteSubsetsOf(S) : ~Bounded(U)}
<1>1. SUFFICES ASSUME T # {} PROVE FALSE
  <2>1. S \in FiniteSubsetsOf(S)
    BY DEF FiniteSubsetsOf
  <2> QED
    BY <2>1
<1>2. PICK U \in T : \A V \in T : ~ (<<V, U>> \in StrictSubsetOrdering(S))
  BY <1>1, FS_StrictSubsetOrderingWellFounded, WFMin
<1>3. U \in SUBSET S /\ IsFiniteSet(U) /\ ~Bounded(U)
  BY DEF FiniteSubsetsOf
<1>4. PICK x \in U : TRUE
  BY <1>3
<1>5. U \ {x} \in FiniteSubsetsOf(S)
  BY <1>3, FS_RemoveElement DEF FiniteSubsetsOf
<1>6. <<U \ {x}, U>> \in StrictSubsetOrdering(S)
  BY <1>3 DEF StrictSubsetOrdering
<1>7. PICK n \in Nat : \A s \in U \ {x} : s <= n
  BY <1>2, <1>5, <1>6
<1>8. x \in Nat
  BY <1>3
<1>9. PICK b \in Nat : n <= b /\ x <= b
  BY <1>8
<1>10. \A s \in U : s <= b
  BY <1>3, <1>7, <1>9
<1> QED
  BY <1>3, <1>10

(* So the first ranks are numbers.                                          *)
LEMMA ImagesBound == Max({0} \cup Images) \in Nat
<1> DEFINE S == {0} \cup Images
<1>1. S \in SUBSET Nat /\ IsFiniteSet(S)
  <2>1. IsFiniteSet({0}) /\ IsFiniteSet(Images) /\ Images \subseteq Nat
    BY Bounds, FS_Singleton
  <2>2. IsFiniteSet({0} \cup Images)
    BY <2>1, FS_Union
  <2> QED
    BY <2>1, <2>2
<1>2. PICK n \in Nat : \A s \in S : s <= n
  BY <1>1, FiniteBound
<1> DEFINE T == {n - s : s \in S}
<1>3. T \in SUBSET Nat /\ T # {}
  BY <1>1, <1>2
<1>4. PICK m \in T : \A y \in T : m <= y
  BY <1>3, MinExists
<1>5. PICK x \in S : m = n - x
  BY <1>4
<1>6. \A y \in S : x >= y
  <2>1. ASSUME NEW y \in S PROVE x >= y
    <3>1. n - x <= n - y
      BY <1>4, <1>5
    <3> QED
      BY <1>1, <3>1
  <2> QED
    BY <2>1
<1>7. Max(S) \in S
  BY <1>6, Zenon DEF Max
<1> QED
  BY <1>1, <1>7

(* The files of a message.                                                  *)
LEMMA Files ==
  ASSUME NEW m \in Contents
  PROVE  /\ Len(m.files) \in 0..MaxFiles /\ DOMAIN m.files = 1..Len(m.files)
         /\ m.files \in [DOMAIN m.files -> BOOLEAN]
         /\ Live(m) \subseteq 1..MaxFiles /\ Live(m) \subseteq DOMAIN m.files
         /\ m.images \subseteq Images /\ m.text \in 0 .. MaxChanges + 1 /\ m.bot \in BOOLEAN
<1>1. PICK n \in 0..MaxFiles : m.files \in [1..n -> BOOLEAN]
  BY DEF Contents
<1>2. n \in Nat
  BY <1>1, Bounds
<1>3. m.files \in Seq(BOOLEAN) /\ Len(m.files) = n /\ DOMAIN m.files = 1..n
  BY <1>1, <1>2
<1>4. Live(m) \subseteq 1..n
  BY <1>3 DEF Live
<1>5. 1..n \subseteq 1..MaxFiles
  BY Bounds
<1>6. m.images \subseteq Images /\ m.text \in 0 .. MaxChanges + 1 /\ m.bot \in BOOLEAN
  BY DEF Contents
<1> QED
  BY <1>1, <1>3, <1>4, <1>5, <1>6

-----------------------------------------------------------------------------
(* What is known of the rows while every edit had text to send and deleted  *)
(* no event that it edited.                                                 *)

(* The files and images that a message is posted with, and those of them    *)
(* that get events of their own.                                            *)
Media(m) == FileParts(m) \cup ImageParts(m)
Own == IF HasTextPart(posted) /\ Cardinality(Media(posted)) = 1 THEN {} ELSE Media(posted)

(* The message still has what the row shows.                                *)
Alive(p, m) ==
  /\ p.type = "file" => m.files[p.id]
  /\ p.type = "attachment" => p.id \in m.images

(* Files are only deleted.                                                  *)
Deleting ==
  /\ DOMAIN current.files = DOMAIN posted.files
  /\ Live(current) \subseteq Live(posted)

(* The rows are those of the message as it was posted.                      *)
Fresh == current = posted /\ parts = ToMatrix(posted)

(* A message with a text part: its row is always the one that is edited,    *)
(* and the others show what they showed at first.                           *)
TextRow(h) ==
  /\ h \in parts /\ h.type = "text" /\ h.id = 0
  /\ parts \ {h} \subseteq Own
  /\ \A p \in Own : Alive(p, current) => p \in parts
  /\ ~pending /\ ~Fresh =>
       /\ \A p \in parts \ {h} : Alive(p, current)
       /\ h.text = current.text /\ h.image = 0
       /\ h.file = IF Len(current.files) = 1 /\ current.files[1] THEN 1 ELSE 0

(* A message of files: their rows, the first of which gets the text.        *)
FileRows ==
  /\ \A p \in parts : p.type = "file" /\ p.file = p.id /\ p.image = 0 /\ p.id \in Live(posted)
  /\ \A p, q \in parts : p.id = q.id => p = q
  /\ \A i \in Live(current) : \E p \in parts : p.id = i
  /\ \A p, q \in parts : p.text # 0 => p.id <= q.id
  /\ ~pending => /\ \A p \in parts : p.id \in Live(current)
                 /\ Fresh \/ \E p \in parts : p.text = current.text

(* As long as every edit had something to send, one of the two holds.       *)
Tracked ==
  ~silent /\ ~orphaned =>
    IF HasTextPart(posted) THEN \E h \in parts : TextRow(h) ELSE FileRows

(* The inductive invariant.                                                 *)
IInv == PartTypes /\ Deleting /\ Tracked

(* A message has finitely many files and images.                            *)
LEMMA MediaFinite ==
  ASSUME NEW m \in Contents PROVE IsFiniteSet(Live(m)) /\ IsFiniteSet(Media(m))
<1>1. IsFiniteSet(Live(m)) /\ IsFiniteSet(m.images)
  <2>1. IsFiniteSet(1..MaxFiles)
    BY Bounds, FS_Interval
  <2> QED
    BY <2>1, Bounds, Files, FS_Subset
<1>2. IsFiniteSet(FileParts(m))
  <2> DEFINE f == [i \in Live(m) |-> Part("file", i, 0, i, 0)]
  <2>1. f \in Surjection(Live(m), FileParts(m))
    BY DEF FileParts, Surjection
  <2> QED
    BY <1>1, <2>1, FS_Surjection
<1>3. IsFiniteSet(ImageParts(m))
  <2> DEFINE f == [i \in m.images |-> Part("attachment", i, 0, 0, i)]
  <2>1. f \in Surjection(m.images, ImageParts(m))
    BY DEF ImageParts, Surjection
  <2> QED
    BY <1>1, <2>1, FS_Surjection
<1> QED
  BY <1>1, <1>2, <1>3, FS_Union DEF Media

(* The rows of files and images.                                            *)
LEMMA MediaRows ==
  ASSUME NEW m \in Contents, NEW p \in Media(m)
  PROVE  /\ p \in Rows /\ p.text = 0 /\ p.id \in Nat /\ p.id # 0
         /\ \/ p = Part("file", p.id, 0, p.id, 0) /\ p.id \in Live(m)
            \/ p = Part("attachment", p.id, 0, 0, p.id) /\ p.id \in m.images
<1>1. Live(m) \subseteq 1..MaxFiles /\ m.images \subseteq Images
  BY Files
<1>2. 1..MaxFiles \subseteq 0..MaxFiles \ {0} /\ 0 \in 0..MaxFiles
      /\ 1..MaxFiles \subseteq Nat \ {0} /\ Images \subseteq Nat \ {0} /\ 0 \in 0..MaxChanges + 1
  BY Bounds
<1>3. CASE p \in FileParts(m)
  <2>1. PICK i \in Live(m) : p = Part("file", i, 0, i, 0)
    BY <1>3 DEF FileParts
  <2> QED
    BY <1>1, <1>2, <2>1 DEF Part, Rows
<1>4. CASE p \in ImageParts(m)
  <2>1. PICK i \in m.images : p = Part("attachment", i, 0, 0, i)
    BY <1>4 DEF ImageParts
  <2> QED
    BY <1>1, <1>2, <2>1 DEF Part, Rows
<1> QED
  BY <1>3, <1>4 DEF Media

(* What ToMatrix makes: all media, a text and all media, or one event.      *)
LEMMA MergedOrNot ==
  ASSUME NEW m \in Contents
  PROVE  /\ ~HasTextPart(m) => ToMatrix(m) = Media(m) /\ m.text = 0 /\ m.images = {}
         /\ HasTextPart(m) /\ Cardinality(Media(m)) # 1 =>
              ToMatrix(m) = {Part("text", 0, m.text, 0, 0)} \cup Media(m)
         /\ HasTextPart(m) /\ Cardinality(Media(m)) = 1 =>
              \E one \in Media(m) : /\ Media(m) = {one}
                                    /\ ToMatrix(m) = {Part("text", 0, m.text, one.file, one.image)}
<1> DEFINE one == CHOOSE p \in Media(m) : TRUE
<1>1. CASE ~HasTextPart(m)
  BY <1>1 DEF ToMatrix, Media, HasTextPart
<1>2. CASE HasTextPart(m) /\ Cardinality(Media(m)) # 1
  BY <1>2 DEF ToMatrix, Media
<1>3. CASE HasTextPart(m) /\ Cardinality(Media(m)) = 1
  <2>1. PICK x : Media(m) = {x}
    BY <1>3, MediaFinite, FS_Singleton
  <2>2. one \in Media(m) /\ Media(m) = {one}
    BY <2>1
  <2>3. ToMatrix(m) = {Part("text", 0, m.text, one.file, one.image)}
    BY <1>3 DEF ToMatrix, Media
  <2> QED
    BY <1>3, <2>2, <2>3
<1> QED
  BY <1>1, <1>2, <1>3

(* ToMatrix makes rows, of which none is for something deleted.             *)
LEMMA ToMatrixRows ==
  ASSUME NEW m \in Contents
  PROVE  /\ ToMatrix(m) \subseteq Rows
         /\ HasTextPart(m) => \E h \in ToMatrix(m) :
              h.type = "text" /\ h.id = 0 /\ h.text = m.text
              /\ ToMatrix(m) \ {h} = IF Cardinality(Media(m)) = 1 THEN {} ELSE Media(m)
<1>1. ASSUME NEW p \in Media(m)
      PROVE  p.file \in 0..MaxFiles /\ p.image \in {0} \cup Images /\ p \in Rows /\ p.type # "text"
  BY MediaRows DEF Rows, Part
<1>2. ASSUME NEW file \in 0..MaxFiles, NEW image \in {0} \cup Images
      PROVE  Part("text", 0, m.text, file, image) \in Rows
  BY Files, Bounds DEF Part, Rows
<1>3. CASE ~HasTextPart(m)
  BY <1>1, <1>3, MergedOrNot
<1>4. CASE HasTextPart(m) /\ Cardinality(Media(m)) # 1
  <2> DEFINE h == Part("text", 0, m.text, 0, 0)
  <2>1. ToMatrix(m) = {h} \cup Media(m)
    BY <1>4, MergedOrNot
  <2>2. h.type = "text" /\ h.id = 0 /\ h.text = m.text /\ h \in Rows
    BY <1>2, Bounds DEF Part
  <2>3. h \notin Media(m)
    BY <1>1, <2>2
  <2> QED
    BY <1>1, <1>4, <2>1, <2>2, <2>3
<1>5. CASE HasTextPart(m) /\ Cardinality(Media(m)) = 1
  <2>1. PICK one \in Media(m) : ToMatrix(m) = {Part("text", 0, m.text, one.file, one.image)}
    BY <1>5, MergedOrNot
  <2> DEFINE h == Part("text", 0, m.text, one.file, one.image)
  <2>2. h.type = "text" /\ h.id = 0 /\ h.text = m.text /\ h \in Rows
    BY <1>1, <1>2 DEF Part
  <2> QED
    BY <1>5, <2>1, <2>2
<1> QED
  BY <1>3, <1>4, <1>5

-----------------------------------------------------------------------------
(* Types.                                                                   *)

(* The first file that is there.                                            *)
LEMMA FirstOfFiles ==
  ASSUME NEW m \in Contents, Live(m) # {}
  PROVE  FirstFile(m) \in Live(m) /\ \A i \in Live(m) : FirstFile(m) <= i
<1>1. Live(m) \in SUBSET Nat
  BY Files, Bounds
<1> QED
  BY <1>1, MinExists DEF FirstFile

(* EditToMatrix makes rows of rows.                                         *)
LEMMA EditRows ==
  ASSUME parts \subseteq Rows, NEW m \in Contents
  PROVE  EditToMatrix(m) \subseteq Rows
<1>1. ASSUME NEW p \in Rows PROVE Modified(p, m) \in Rows
  <2> DEFINE file == IF MergesFile(m) THEN FirstFile(m) ELSE 0
  <2>1. file \in 0..MaxFiles
    <3>1. CASE MergesFile(m)
      <4>1. FirstFile(m) \in 1..MaxFiles
        BY <3>1, FirstOfFiles, Files DEF MergesFile
      <4> QED
        BY <3>1, <4>1, Bounds
    <3>2. CASE ~MergesFile(m)
      BY <3>2, Bounds
    <3> QED
      BY <3>1, <3>2
  <2>2. m.text \in 0 .. MaxChanges + 1
    BY Files
  <2>3. Modified(p, m) = [p EXCEPT !.text = m.text, !.image = 0, !.file = file]
    BY DEF Modified
  <2> HIDE DEF file
  <2> QED
    BY <2>1, <2>2, <2>3 DEF Rows
<1> QED
  BY <1>1 DEF EditToMatrix

(* What a change in Slack does to the message.                              *)
Changed(m) ==
  /\ m \in Contents /\ Change(m)
  /\ DOMAIN m.files = DOMAIN current.files /\ Live(m) \subseteq Live(current)
  /\ \A i \in posted.images : i \in m.images => i \in current.images

(* It brings a new text, deletes a file, or takes or adds an image that the *)
(* message was not posted with.                                             *)
LEMMA ChangesDo ==
  ASSUME PartTypes, ChangeText \/ DeleteFile \/ ChangeImages
  PROVE  \E m : Changed(m)
<1>1. current \in Contents /\ changes \in 0..MaxChanges
  BY DEF PartTypes
<1>2. CASE ChangeText
  <2>1. PICK v \in {0, changes + 2} : Change([current EXCEPT !.text = v])
    BY <1>2 DEF ChangeText
  <2>2. changes < MaxChanges
    BY <2>1 DEF Change
  <2>3. v \in 0 .. MaxChanges + 1
    BY <1>1, <2>2, Bounds
  <2> DEFINE m == [current EXCEPT !.text = v]
  <2>4. m \in Contents /\ m.files = current.files /\ m.images = current.images
    BY <1>1, <2>3 DEF Contents
  <2>5. Live(m) = Live(current)
    BY <2>4 DEF Live
  <2> QED
    BY <2>1, <2>4, <2>5 DEF Changed
<1>3. CASE DeleteFile
  <2>1. PICK i \in Live(current) : Change([current EXCEPT !.files[i] = FALSE])
    BY <1>3 DEF DeleteFile
  <2> DEFINE m == [current EXCEPT !.files[i] = FALSE]
  <2>2. PICK n \in 0..MaxFiles : current.files \in [1..n -> BOOLEAN]
    BY <1>1 DEF Contents
  <2>3. m.files = [current.files EXCEPT ![i] = FALSE] /\ m.images = current.images
        /\ m.text = current.text /\ m.bot = current.bot
    BY <1>1 DEF Contents
  <2>4. m.files \in [1..n -> BOOLEAN]
    BY <2>2, <2>3
  <2>5. m \in Contents
    BY <1>1, <2>2, <2>4 DEF Contents
  <2>6. DOMAIN m.files = DOMAIN current.files
    BY <2>2, <2>4
  <2>7. Live(m) \subseteq Live(current)
    BY <2>2, <2>3 DEF Live
  <2> QED
    BY <2>1, <2>3, <2>5, <2>6, <2>7 DEF Changed
<1>4. CASE ChangeImages
  <2>1. PICK i \in current.images \cup (Images \ posted.images) :
          Change([current EXCEPT !.images = IF i \in @ THEN @ \ {i} ELSE @ \cup {i}])
    BY <1>4 DEF ChangeImages
  <2> DEFINE m == [current EXCEPT !.images = IF i \in @ THEN @ \ {i} ELSE @ \cup {i}]
  <2>2. m.images = IF i \in current.images THEN current.images \ {i} ELSE current.images \cup {i}
    BY <1>1 DEF Contents
  <2>3. current.images \subseteq Images
    BY <1>1 DEF Contents
  <2>4. m.images \subseteq Images
    BY <2>1, <2>2, <2>3
  <2>5. m \in Contents /\ m.files = current.files
    BY <1>1, <2>4 DEF Contents
  <2>6. Live(m) = Live(current)
    BY <2>5 DEF Live
  <2>7. \A j \in posted.images : j \in m.images => j \in current.images
    BY <2>1, <2>2
  <2> QED
    BY <2>1, <2>5, <2>6, <2>7 DEF Changed
<1> QED
  BY <1>2, <1>3, <1>4

(* Every step keeps the types.                                              *)
LEMMA TypesKept ==
  ASSUME PartTypes, [PartsNext]_partsVars PROVE PartTypes'
<1>1. CASE ChangeText \/ DeleteFile \/ ChangeImages
  <2>1. PICK m : Changed(m)
    BY <1>1, ChangesDo
  <2>2. changes' \in 0..MaxChanges
    BY <2>1, Bounds DEF Changed, Change, PartTypes
  <2> QED
    BY <2>1, <2>2 DEF Changed, Change, PartTypes
<1>2. CASE BridgeEdit
  <2>1. UNCHANGED <<posted, current, changes>> /\ pending' = FALSE
    BY <1>2 DEF BridgeEdit
  <2>2. EditToMatrix(current) \subseteq Rows
    BY EditRows DEF PartTypes
  <2>3. parts' \subseteq Rows
    BY <1>2, <2>2 DEF BridgeEdit, PartTypes
  <2>4. silent' \in BOOLEAN /\ orphaned' \in BOOLEAN
    BY <1>2 DEF BridgeEdit, PartTypes
  <2> QED
    BY <2>1, <2>3, <2>4 DEF PartTypes
<1>3. CASE UNCHANGED partsVars
  BY <1>3 DEF partsVars, PartTypes
<1> QED
  BY <1>1, <1>2, <1>3 DEF PartsNext

(* No step brings a file back.                                              *)
LEMMA DeletingKept ==
  ASSUME PartTypes, Deleting, [PartsNext]_partsVars PROVE Deleting'
<1>1. CASE ChangeText \/ DeleteFile \/ ChangeImages
  <2>1. PICK m : Changed(m)
    BY <1>1, ChangesDo
  <2>2. current' = m /\ posted' = posted
    BY <2>1 DEF Changed, Change
  <2> QED
    BY <2>1, <2>2 DEF Changed, Deleting, Live
<1>2. CASE BridgeEdit \/ UNCHANGED partsVars
  BY <1>2 DEF BridgeEdit, partsVars, Deleting, Live
<1> QED
  BY <1>1, <1>2 DEF PartsNext

-----------------------------------------------------------------------------
(* The rows are tracked.                                                    *)

(* Text comes first, then images, then files.                               *)
LEMMA Ranks ==
  ASSUME NEW p
  PROVE  /\ p.type = "text" => Rank(p) = 0
         /\ p.type = "attachment" => Rank(p) = p.id
         /\ p.type = "file" => Rank(p) = p.id + Max({0} \cup Images)
BY DEF Rank

(* So the text row is the first.                                            *)
LEMMA TextFirst ==
  ASSUME PartTypes, NEW h \in parts, TextRow(h)
  PROVE  First = h /\ h \notin Own /\ \A p \in parts \ {h} : p.type # "text" /\ p.text = 0
<1>1. posted \in Contents /\ Own \subseteq Media(posted)
  BY DEF PartTypes, Own
<1>2. ASSUME NEW p \in Own
      PROVE  p.type \in {"file", "attachment"} /\ p.id \in Nat /\ p.id # 0 /\ p.text = 0
  BY <1>1, MediaRows DEF Part
<1>3. h.type = "text" /\ Rank(h) = 0
  BY Ranks DEF TextRow
<1>4. ASSUME NEW p \in parts \ {h} PROVE Rank(p) \in Nat /\ Rank(p) > 0
  <2>1. p \in Own
    BY DEF TextRow
  <2> QED
    BY <1>2, <2>1, Ranks, ImagesBound
<1>5. \A q \in parts : Rank(h) <= Rank(q)
  BY <1>3, <1>4
<1>6. \A p \in parts : (\A q \in parts : Rank(p) <= Rank(q)) => p = h
  BY <1>3, <1>4
<1>7. First = h
  BY <1>5, <1>6, Zenon DEF First
<1>8. h \notin Own
  BY <1>2, <1>3
<1> QED
  BY <1>2, <1>7, <1>8 DEF TextRow

(* Rows are deleted if the message has no more what they show.              *)
LEMMA DeletedRows ==
  ASSUME NEW p \in parts, NEW m
  PROVE  p \in DeletedParts(m) <=> (p.type = "attachment" /\ p.id \notin m.images)
                                   \/ (p.type = "file" /\ ~m.files[p.id])
BY DEF DeletedParts

(* For rows as they were posted, that is when the message has no more what  *)
(* they show.                                                               *)
LEMMA DeletedAreDead ==
  ASSUME PartTypes, Deleting, NEW p \in parts, p \in Media(posted) \/ p.type = "text"
  PROVE  p \in DeletedParts(current) <=> ~Alive(p, current)
BY DeletedRows, MediaRows DEF Alive, PartTypes, Part

(* An edit of a message with a text row edits it, and shows its file in it  *)
(* if there is only one.                                                    *)
LEMMA TextEdited ==
  ASSUME PartTypes, Deleting, NEW h \in parts, TextRow(h), HasTextPart(current),
         parts' = EditToMatrix(current), UNCHANGED <<posted, current>>
  PROVE  \E g \in parts' : TextRow(g)'
<1>1. First = h /\ h \notin Own /\ h.type = "text" /\ \A p \in parts \ {h} : p.type # "text"
  BY TextFirst DEF TextRow
<1>2. Target(current) = {h}
  BY <1>1 DEF Target
<1>3. PICK g : g = Modified(h, current)
  OBVIOUS
<1>4. h \in Rows /\ current \in Contents /\ posted \in Contents
  BY DEF PartTypes
<1>5. /\ g.type = "text" /\ g.id = h.id /\ g.text = current.text /\ g.image = 0
      /\ g.file = IF MergesFile(current) THEN FirstFile(current) ELSE 0
  <2> DEFINE file == IF MergesFile(current) THEN FirstFile(current) ELSE 0
  <2>1. g = [h EXCEPT !.text = current.text, !.image = 0, !.file = file]
    BY <1>3 DEF Modified
  <2> HIDE DEF file
  <2>2. g.type = "text" /\ g.id = h.id /\ g.text = current.text /\ g.image = 0 /\ g.file = file
    BY <1>1, <1>4, <2>1 DEF Rows
  <2> QED
    BY <2>2 DEF file
<1>6. g.file = IF Len(current.files) = 1 /\ current.files[1] THEN 1 ELSE 0
  <2>1. DOMAIN current.files = 1..Len(current.files) /\ Len(current.files) \in Nat
    BY <1>4, Files, Bounds
  <2>2. CASE Len(current.files) = 1 /\ current.files[1]
    <3>1. 1 \in Live(current) /\ Live(current) \subseteq {1}
      BY <2>1, <2>2 DEF Live
    <3>2. FirstFile(current) = 1
      BY <1>4, <3>1, FirstOfFiles
    <3> QED
      BY <1>5, <2>2, <3>1, <3>2 DEF MergesFile
  <2>3. CASE ~(Len(current.files) = 1 /\ current.files[1])
    <3>1. Len(current.files) = 1 => Live(current) = {}
      BY <2>1, <2>3 DEF Live
    <3> QED
      BY <1>1, <1>5, <2>3, <3>1 DEF MergesFile
  <2> QED
    BY <2>2, <2>3
<1>7. \A p \in parts \ {h} : p \in Own /\ p \in Media(posted)
  BY DEF TextRow, Own
<1>8. \A p \in parts : p \in DeletedParts(current) <=> ~Alive(p, current)
  BY <1>1, <1>7, DeletedAreDead
<1>9. h \notin DeletedParts(current)
  BY <1>1, DeletedRows
<1>10. parts' = {g} \cup {p \in parts \ {h} : Alive(p, current)}
  <2>1. parts' = {IF p = h THEN g ELSE p : p \in parts \ DeletedParts(current)}
    BY <1>2, <1>3 DEF EditToMatrix
  <2> QED
    BY <1>8, <1>9, <2>1
<1>11. parts' \ {g} = {p \in parts \ {h} : Alive(p, current)}
  BY <1>1, <1>5, <1>10
<1>12. Own' = Own /\ g.id = 0
  BY <1>5 DEF Own, Media, HasTextPart, FileParts, ImageParts, Live, TextRow
<1>13. ASSUME NEW p \in Own, Alive(p, current) PROVE p \in parts'
  <2>1. p \in parts /\ p # h
    BY <1>1, <1>13 DEF TextRow
  <2> QED
    BY <1>10, <1>13, <2>1
<1>14. \A p : Alive(p, current)' <=> Alive(p, current)
  BY DEF Alive
<1>15. parts' \ {g} \subseteq Own /\ g \in parts' /\ \A p \in parts' \ {g} : Alive(p, current)
  BY <1>7, <1>10, <1>11
<1>16. TextRow(g)'
  BY <1>5, <1>6, <1>12, <1>13, <1>14, <1>15 DEF TextRow
<1> QED
  BY <1>15, <1>16

(* An edit of a message of files edits the first that is still there, which *)
(* had the text before if it was the first.                                 *)
LEMMA FilesEdited ==
  ASSUME PartTypes, Deleting, FileRows, parts # {}, HasTextPart(current),
         Target(current) \cap DeletedParts(current) = {}, ~Panics(current),
         parts' = EditToMatrix(current), UNCHANGED <<posted, current>>
  PROVE  FileRows'
<1>1. current \in Contents /\ posted \in Contents
  BY DEF PartTypes
<1>2. \A p \in parts : /\ p.type = "file" /\ p.file = p.id /\ p.image = 0
                       /\ p.id \in Live(posted) /\ p.id \in Nat /\ p.id # 0
  BY <1>1, Files, Bounds DEF FileRows
<1>3. First \in parts
  <2> DEFINE ids == {p.id : p \in parts}
  <2>1. ids \in SUBSET Nat /\ ids # {}
    BY <1>2
  <2>2. PICK n \in ids : \A i \in ids : n <= i
    BY <2>1, MinExists
  <2>3. PICK p \in parts : p.id = n
    BY <2>2
  <2>4. \A q \in parts : p.id <= q.id
    BY <2>2, <2>3
  <2>5. \A q \in parts : Rank(p) <= Rank(q)
    BY <1>2, <2>4, Ranks, ImagesBound
  <2> QED
    BY <2>5, Zenon DEF First
<1>4. \A p \in parts : p \in DeletedParts(current) <=> p.id \notin Live(current)
  <2>1. Live(posted) \subseteq DOMAIN current.files
    BY DEF Deleting, Live
  <2> QED
    BY <1>2, <2>1, DeletedRows DEF Live
<1>5. MergesFile(current)
  <2>1. SUFFICES ASSUME ~MergesFile(current) PROVE FALSE
    OBVIOUS
  <2>2. Target(current) = {First} /\ First.type = "file"
    BY <1>2, <1>3, <2>1 DEF Target
  <2>3. Live(current) = {}
    BY <2>1, <2>2 DEF MergesFile
  <2>4. First \in DeletedParts(current)
    BY <1>3, <1>4, <2>3
  <2> QED
    BY <2>2, <2>4
<1>6. PICK n : n = FirstFile(current) /\ n \in Live(current) /\ \A i \in Live(current) : n <= i
  BY <1>1, <1>5, FirstOfFiles DEF MergesFile
<1>7. PICK f \in parts : f.id = n
  BY <1>6 DEF FileRows
<1>8. Target(current) = {f}
  <2>1. Target(current) = {p \in parts : p.type = "file" /\ p.id = n}
    BY <1>2, <1>3, <1>5, <1>6 DEF Target
  <2>2. \A p \in parts : p.id = n => p = f
    BY <1>7 DEF FileRows
  <2> QED
    BY <1>2, <1>7, <2>1, <2>2
<1>9. PICK g : g = Modified(f, current)
  OBVIOUS
<1>10. g.type = "file" /\ g.id = n /\ g.text = current.text /\ g.image = 0 /\ g.file = n
  <2>1. f \in Rows /\ f.type = "file"
    BY <1>2 DEF PartTypes
  <2>2. g = [f EXCEPT !.text = current.text, !.image = 0, !.file = n]
    BY <1>5, <1>6, <1>9 DEF Modified
  <2> QED
    BY <1>7, <2>1, <2>2 DEF Rows
<1>11. parts' = {g} \cup {p \in parts \ {f} : p.id \in Live(current)}
  <2>1. parts' = {IF p = f THEN g ELSE p : p \in parts \ DeletedParts(current)}
    BY <1>8, <1>9 DEF EditToMatrix
  <2>2. f \notin DeletedParts(current)
    BY <1>4, <1>6, <1>7
  <2> QED
    BY <1>4, <2>1, <2>2
<1>12. Live(current)' = Live(current) /\ Live(posted)' = Live(posted)
  BY DEF Live
<1>13. \A p \in parts \ {f} : p.id # n
  BY <1>7 DEF FileRows
<1>14. Live(current) \subseteq Live(posted)
  BY DEF Deleting
<1>15. \A p \in parts' : p.type = "file" /\ p.file = p.id /\ p.image = 0 /\ p.id \in Live(posted)
  BY <1>2, <1>6, <1>10, <1>11, <1>14
<1>16. \A p, q \in parts' : p.id = q.id => p = q
  BY <1>10, <1>11, <1>13 DEF FileRows
<1>17. \A i \in Live(current) : \E p \in parts' : p.id = i
  <2>1. ASSUME NEW i \in Live(current), i # n PROVE \E p \in parts' : p.id = i
    <3>1. PICK p \in parts : p.id = i
      BY DEF FileRows
    <3> QED
      BY <1>7, <1>11, <2>1, <3>1
  <2> QED
    BY <1>10, <1>11, <2>1
<1>18. \A p \in parts' : p.id \in Live(current)
  BY <1>6, <1>10, <1>11
<1>19. \A p, q \in parts' : p.text # 0 => p.id <= q.id
  <2>1. ASSUME NEW p \in parts', NEW q \in parts', p.text # 0 PROVE p.id <= q.id
    <3>1. n <= q.id
      BY <1>6, <1>18
    <3>2. CASE p = g
      BY <1>10, <3>1, <3>2
    <3>3. CASE p \in parts \ {f} /\ p.id \in Live(current)
      <4>1. p.id <= f.id
        BY <2>1, <3>3 DEF FileRows
      <4>2. n <= p.id /\ p.id # n /\ n \in Nat /\ p.id \in Nat
        BY <1>2, <1>6, <1>7, <1>13, <3>3
      <4> QED
        BY <1>7, <4>1, <4>2
    <3> QED
      BY <1>11, <3>2, <3>3
  <2> QED
    BY <2>1
<1>20. \E p \in parts' : p.text = current'.text
  BY <1>10, <1>11
<1> QED
  BY <1>12, <1>15, <1>16, <1>17, <1>18, <1>19, <1>20 DEF FileRows

(* The rows that ToMatrix makes are tracked.                                *)
LEMMA TrackedInit == ASSUME PartsInit PROVE Tracked
<1>1. posted \in Contents /\ current = posted /\ parts = ToMatrix(posted)
  BY DEF PartsInit
<1>2. CASE HasTextPart(posted)
  <2>1. PICK h \in ToMatrix(posted) :
          h.type = "text" /\ h.id = 0 /\ h.text = posted.text
          /\ ToMatrix(posted) \ {h} = IF Cardinality(Media(posted)) = 1 THEN {} ELSE Media(posted)
    BY <1>1, <1>2, ToMatrixRows
  <2>2. ToMatrix(posted) \ {h} = Own
    BY <1>2, <2>1 DEF Own
  <2>3. TextRow(h)
    BY <1>1, <2>1, <2>2 DEF TextRow, Fresh
  <2> QED
    BY <1>1, <1>2, <2>1, <2>3 DEF Tracked
<1>3. CASE ~HasTextPart(posted)
  <2>1. parts = Media(posted) /\ posted.images = {}
    BY <1>1, <1>3, MergedOrNot
  <2>2. parts = {Part("file", i, 0, i, 0) : i \in Live(posted)}
    BY <2>1 DEF Media, FileParts, ImageParts
  <2>3. \A p \in parts : /\ p.type = "file" /\ p.file = p.id /\ p.image = 0 /\ p.text = 0
                         /\ p.id \in Live(posted) /\ p = Part("file", p.id, 0, p.id, 0)
    BY <2>2 DEF Part
  <2>4. \A p, q \in parts : p.id = q.id => p = q
    <3>1. ASSUME NEW p \in parts, NEW q \in parts, p.id = q.id PROVE p = q
      <4>1. p = Part("file", p.id, 0, p.id, 0) /\ q = Part("file", q.id, 0, q.id, 0)
        BY <2>3
      <4> QED
        BY <3>1, <4>1
    <3> QED
      BY <3>1
  <2>5. ASSUME NEW i \in Live(posted) PROVE \E p \in parts : p.id = i
    <3>1. Part("file", i, 0, i, 0) \in parts /\ Part("file", i, 0, i, 0).id = i
      BY <2>2 DEF Part
    <3> QED
      BY <3>1
  <2>6. Live(current) = Live(posted) /\ Fresh
    BY <1>1 DEF Fresh
  <2>7. FileRows
    BY <2>3, <2>4, <2>5, <2>6 DEF FileRows
  <2> QED
    BY <1>3, <2>7 DEF Tracked
<1> QED
  BY <1>2, <1>3

(* Changes leave the rows of the message where they were, and an edit that  *)
(* is not lost puts the latest version there.                               *)
LEMMA TrackedKept ==
  ASSUME PartTypes, Deleting, Tracked, [PartsNext]_partsVars PROVE Tracked'
<1>1. CASE ChangeText \/ DeleteFile \/ ChangeImages
  <2>1. PICK m : Changed(m)
    BY <1>1, ChangesDo
  <2>2. /\ current' = m /\ pending' = TRUE /\ UNCHANGED <<posted, parts, silent, orphaned>>
        /\ Live(m) \subseteq Live(current) /\ DOMAIN m.files = DOMAIN current.files
        /\ \A i \in posted.images : i \in m.images => i \in current.images
    BY <2>1 DEF Changed, Change
  <2>3. HasTextPart(posted)' <=> HasTextPart(posted)
    BY <2>2 DEF HasTextPart
  <2>4. ASSUME NEW h \in parts, TextRow(h), HasTextPart(posted) PROVE TextRow(h)'
    <3>1. Own' = Own /\ Own \subseteq Media(posted) /\ posted \in Contents
      BY <2>2 DEF Own, Media, HasTextPart, FileParts, ImageParts, Live, PartTypes
    <3>2. ASSUME NEW p \in Own, Alive(p, m) PROVE p \in parts
      <4>1. CASE p = Part("file", p.id, 0, p.id, 0) /\ p.id \in Live(posted)
        <5>1. p.id \in Live(m)
          BY <2>2, <3>2, <4>1 DEF Alive, Part, Live, Deleting
        <5>2. Alive(p, current)
          BY <2>2, <4>1, <5>1 DEF Alive, Part, Live
        <5> QED
          BY <2>4, <5>2 DEF TextRow
      <4>2. CASE p = Part("attachment", p.id, 0, 0, p.id) /\ p.id \in posted.images
        <5>1. Alive(p, current)
          BY <2>2, <3>2, <4>2 DEF Alive, Part
        <5> QED
          BY <2>4, <5>1 DEF TextRow
      <4> QED
        BY <3>1, <4>1, <4>2, MediaRows
    <3> QED
      BY <2>2, <2>4, <3>1, <3>2 DEF TextRow
  <2>5. FileRows => FileRows'
    <3>1. Live(current)' = Live(m) /\ Live(posted)' = Live(posted)
      BY <2>2 DEF Live
    <3> QED
      BY <2>2, <3>1 DEF FileRows
  <2> QED
    BY <2>2, <2>3, <2>4, <2>5 DEF Tracked
<1>2. CASE BridgeEdit
  <2>1. UNCHANGED <<posted, current>> /\ pending' = FALSE
    BY <1>2 DEF BridgeEdit
  <2>2. SUFFICES ASSUME ~silent', ~orphaned' PROVE Tracked'
    BY DEF Tracked
  <2>3. ~(parts = {} \/ Panics(current))
    BY <1>2, <2>2 DEF BridgeEdit
  <2>4. /\ ~silent /\ ~orphaned /\ HasTextPart(current) /\ parts' = EditToMatrix(current)
        /\ Target(current) \cap DeletedParts(current) = {}
    BY <1>2, <2>2, <2>3 DEF BridgeEdit, PartTypes
  <2>5. HasTextPart(posted)' <=> HasTextPart(posted)
    BY <2>1 DEF HasTextPart
  <2>6. CASE HasTextPart(posted)
    BY <2>1, <2>4, <2>5, <2>6, TextEdited DEF Tracked
  <2>7. CASE ~HasTextPart(posted)
    BY <2>1, <2>3, <2>4, <2>5, <2>7, FilesEdited DEF Tracked
  <2> QED
    BY <2>6, <2>7
<1>3. CASE UNCHANGED partsVars
  <2>1. HasTextPart(posted)' <=> HasTextPart(posted)
    BY <1>3 DEF HasTextPart, partsVars
  <2>2. ASSUME NEW h \in parts, TextRow(h) PROVE TextRow(h)'
    BY <1>3, <2>2 DEF partsVars, TextRow, Own, Media, HasTextPart, FileParts, ImageParts,
                      Live, Fresh, ToMatrix, Alive
  <2>3. FileRows => FileRows'
    BY <1>3 DEF partsVars, FileRows, Live, Fresh, ToMatrix, HasTextPart, FileParts, ImageParts
  <2> QED
    BY <1>3, <2>1, <2>2, <2>3 DEF Tracked, partsVars
<1> QED
  BY <1>1, <1>2, <1>3 DEF PartsNext

(* A new message is consistent.                                             *)
LEMMA PartsInitInv == ASSUME PartsInit PROVE IInv
<1>1. posted \in Contents /\ current = posted /\ parts = ToMatrix(posted)
      /\ changes = 0 /\ pending = FALSE /\ silent = FALSE /\ orphaned = FALSE
  BY DEF PartsInit
<1>2. parts \subseteq Rows
  BY <1>1, ToMatrixRows
<1>3. changes \in 0..MaxChanges /\ pending \in BOOLEAN /\ silent \in BOOLEAN /\ orphaned \in BOOLEAN
  <2>1. 0 \in 0..MaxChanges
    BY Bounds
  <2> QED
    BY <1>1, <2>1, Zenon
<1>4. PartTypes
  BY <1>1, <1>2, <1>3 DEF PartTypes
<1>5. Deleting
  BY <1>1 DEF Deleting
<1> QED
  BY <1>4, <1>5, TrackedInit DEF IInv

-----------------------------------------------------------------------------
(* What is tracked shows the message.                                       *)

(* How many rows a set of at most two has.                                  *)
LEMMA OneOrTwo ==
  /\ Cardinality({}) = 0
  /\ \A x : Cardinality({x}) = 1
  /\ \A x, y : x # y => Cardinality({x, y}) = 2
<1>1. Cardinality({}) = 0
  BY FS_EmptySet
<1>2. ASSUME NEW x PROVE Cardinality({x}) = 1 /\ IsFiniteSet({x})
  BY FS_Singleton
<1>3. ASSUME NEW x, NEW y, x # y PROVE Cardinality({x, y}) = 2
  <2>1. {x, y} = {x} \cup {y} /\ y \notin {x}
    BY <1>3
  <2>2. Cardinality({x} \cup {y}) = Cardinality({x}) + 1
    BY <1>2, <2>1, FS_AddElement
  <2> QED
    BY <1>2, <2>1, <2>2, 1 + 1 = 2
<1> QED
  BY <1>1, <1>2, <1>3

(* The rows of files show themselves, with the text in the first of them.   *)
LEMMA FilesFollow ==
  ASSUME PartTypes, Deleting, FileRows, ~HasTextPart(posted), ~pending
  PROVE  TextShown /\ FilesShown /\ ImagesShown
<1>1. posted \in Contents /\ current \in Contents
  BY DEF PartTypes
<1>2. ToMatrix(posted) = Media(posted) /\ posted.text = 0 /\ posted.images = {}
  BY <1>1, MergedOrNot
<1>3. \A p \in parts : p.type = "file" /\ p.file = p.id /\ p.image = 0 /\ p.id \in Live(current)
  BY DEF FileRows
<1>4. \A p \in parts : p.id \in Nat
  BY <1>1, <1>3, Files, Bounds
<1>5. TextShown
  <2>1. SUFFICES ASSUME current.text # 0
                 PROVE  \E p \in parts : p.text = current.text /\ \A q \in parts \ {p} : q.text = 0
    BY DEF TextShown
  <2>2. ~Fresh
    BY <1>2, <2>1 DEF Fresh
  <2>3. PICK p \in parts : p.text = current.text
    BY <2>2 DEF FileRows
  <2>4. ASSUME NEW q \in parts \ {p}, q.text # 0 PROVE FALSE
    <3>1. p.id <= q.id /\ q.id <= p.id
      BY <2>1, <2>3, <2>4 DEF FileRows
    <3>2. p.id = q.id
      BY <1>4, <3>1
    <3> QED
      BY <2>4, <3>2 DEF FileRows
  <2> QED
    BY <2>3, <2>4
<1>6. FilesShown
  <2>1. ASSUME NEW i \in DOMAIN current.files, current.files[i] PROVE Cardinality(Showing(i)) = 1
    <3>1. i \in Live(current)
      BY <2>1 DEF Live
    <3>2. PICK p \in parts : p.id = i
      BY <3>1 DEF FileRows
    <3>3. Showing(i) = {p}
      BY <1>3, <3>2 DEF Showing, FileRows
    <3> QED
      BY <3>3, OneOrTwo
  <2>2. ASSUME NEW i \in DOMAIN current.files, ~current.files[i] PROVE Cardinality(Showing(i)) = 0
    <3>1. i \notin Live(current)
      BY <2>2 DEF Live
    <3>2. Showing(i) = {}
      BY <1>3, <3>1 DEF Showing
    <3> QED
      BY <3>2, OneOrTwo
  <2> QED
    BY <2>1, <2>2 DEF FilesShown
<1>7. ImagesShown
  <2>1. ASSUME NEW i \in Images PROVE ShowingImage(i) = {}
    BY <1>3, Bounds DEF ShowingImage
  <2>2. ASSUME NEW i PROVE Part("attachment", i, 0, 0, i) \notin ToMatrix(posted)
    BY <1>2 DEF Media, FileParts, ImageParts, Part
  <2> QED
    BY <2>1, <2>2 DEF ImagesShown
<1> QED
  BY <1>5, <1>6, <1>7

(* A row of its own shows nothing but its file or its image.                *)
LEMMA MediaShows ==
  ASSUME NEW m \in Contents, NEW p \in Media(m), NEW i, i # 0
  PROVE  /\ p.file = i => p = Part("file", i, 0, i, 0) /\ i \in Live(m)
         /\ p.image = i => p = Part("attachment", i, 0, 0, i) /\ i \in m.images
BY MediaRows DEF Part

(* Each live file and each image has its row among them.                    *)
LEMMA MediaHas ==
  ASSUME NEW m, NEW i
  PROVE  /\ i \in Live(m) => Part("file", i, 0, i, 0) \in Media(m)
         /\ i \in m.images => Part("attachment", i, 0, 0, i) \in Media(m)
         /\ Part("file", i, 0, i, 0).file = i /\ Part("attachment", i, 0, 0, i).image = i
         /\ Part("file", i, 0, i, 0).id = i /\ Part("attachment", i, 0, 0, i).id = i
         /\ Part("file", i, 0, i, 0).type = "file"
         /\ Part("attachment", i, 0, 0, i).type = "attachment"
BY DEF Media, FileParts, ImageParts, Part

(* The text is shown by the text row.                                       *)
LEMMA TextRowShows ==
  ASSUME PartTypes, NEW h \in parts, TextRow(h), h.text = current.text PROVE TextShown
BY TextFirst DEF TextShown

(* A message as it was posted, its only file or image merged.               *)
LEMMA FreshMerged ==
  ASSUME PartTypes, Fresh, HasTextPart(posted), Cardinality(Media(posted)) = 1
  PROVE  TextShown /\ FilesShown /\ ImagesShown
<1>1. posted \in Contents /\ current = posted /\ parts = ToMatrix(posted)
  BY DEF PartTypes, Fresh
<1>2. PICK one \in Media(posted) :
        Media(posted) = {one} /\ parts = {Part("text", 0, posted.text, one.file, one.image)}
  BY <1>1, MergedOrNot
<1>3. PICK h : h = Part("text", 0, posted.text, one.file, one.image)
  OBVIOUS
<1>4. /\ parts = {h} /\ h.type = "text" /\ h.text = posted.text
      /\ h.file = one.file /\ h.image = one.image
  BY <1>2, <1>3 DEF Part
<1>5. \A i \in DOMAIN posted.files : i # 0
  BY <1>1, Files, Bounds
<1>6. \A i \in Images : i # 0
  BY Bounds
<1>7. TextShown
  BY <1>1, <1>4 DEF TextShown
<1>8. FilesShown
  <2>1. ASSUME NEW i \in DOMAIN posted.files, posted.files[i] PROVE Cardinality(Showing(i)) = 1
    <3>1. one.file = i
      BY <1>2, <2>1, MediaHas DEF Live
    <3>2. Showing(i) = {h}
      BY <1>4, <3>1 DEF Showing
    <3> QED
      BY <3>2, OneOrTwo
  <2>2. ASSUME NEW i \in DOMAIN posted.files, ~posted.files[i] PROVE Cardinality(Showing(i)) = 0
    <3>1. one.file # i
      BY <1>1, <1>5, <2>2, MediaShows DEF Live
    <3>2. Showing(i) = {}
      BY <1>4, <3>1 DEF Showing
    <3> QED
      BY <3>2, OneOrTwo
  <2> QED
    BY <1>1, <2>1, <2>2 DEF FilesShown
<1>9. ImagesShown
  <2>1. ASSUME NEW i \in Images \ posted.images PROVE ShowingImage(i) = {}
    <3>1. one.image # i
      BY <1>1, <1>6, <2>1, MediaShows
    <3> QED
      BY <1>4, <3>1 DEF ShowingImage
  <2>2. ASSUME NEW i PROVE Part("attachment", i, 0, 0, i) \notin ToMatrix(posted)
    BY <1>1, <1>4, MediaHas
  <2> QED
    BY <1>1, <2>1, <2>2 DEF ImagesShown
<1> QED
  BY <1>7, <1>8, <1>9

(* One with a text row and rows of its own for its files and images.        *)
LEMMA FreshSeparate ==
  ASSUME PartTypes, Fresh, HasTextPart(posted), Cardinality(Media(posted)) # 1
  PROVE  TextShown /\ FilesShown /\ ImagesShown
<1>1. posted \in Contents /\ current = posted /\ parts = ToMatrix(posted)
  BY DEF PartTypes, Fresh
<1>2. PICK h : h = Part("text", 0, posted.text, 0, 0)
  OBVIOUS
<1>3. /\ parts = {h} \cup Media(posted) /\ h.type = "text"
      /\ h.text = posted.text /\ h.file = 0 /\ h.image = 0
  BY <1>1, <1>2, MergedOrNot DEF Part
<1>4. \A i \in DOMAIN posted.files : i # 0
  BY <1>1, Files, Bounds
<1>5. \A i \in Images : i # 0
  BY Bounds
<1>6. TextShown
  BY <1>1, <1>3, MediaRows DEF TextShown
<1>7. FilesShown
  <2>1. ASSUME NEW i \in DOMAIN posted.files, posted.files[i] PROVE Cardinality(Showing(i)) = 1
    <3>1. i \in Live(posted) /\ Part("file", i, 0, i, 0) \in parts
      BY <1>3, <2>1, MediaHas DEF Live
    <3>2. \A p \in parts : p.file = i => p = Part("file", i, 0, i, 0)
      BY <1>1, <1>3, <1>4, MediaShows
    <3>3. Showing(i) = {Part("file", i, 0, i, 0)}
      BY <3>1, <3>2, MediaHas DEF Showing
    <3> QED
      BY <3>3, OneOrTwo
  <2>2. ASSUME NEW i \in DOMAIN posted.files, ~posted.files[i] PROVE Cardinality(Showing(i)) = 0
    <3>1. \A p \in parts : p.file # i
      BY <1>1, <1>3, <1>4, <2>2, MediaShows DEF Live
    <3>2. Showing(i) = {}
      BY <3>1 DEF Showing
    <3> QED
      BY <3>2, OneOrTwo
  <2> QED
    BY <1>1, <2>1, <2>2 DEF FilesShown
<1>8. ImagesShown
  <2>1. ASSUME NEW i \in Images \ posted.images PROVE ShowingImage(i) = {}
    <3>1. \A p \in parts : p.image # i
      BY <1>1, <1>3, <1>5, <2>1, MediaShows
    <3> QED
      BY <3>1 DEF ShowingImage
  <2>2. ASSUME NEW i \in posted.images PROVE Cardinality(ShowingImage(i)) = 1
    <3>1. Part("attachment", i, 0, 0, i) \in parts /\ i \in Images
      BY <1>1, <1>3, <2>2, MediaHas, Files
    <3>2. \A p \in parts : p.image = i => p = Part("attachment", i, 0, 0, i)
      BY <1>1, <1>3, <1>5, <3>1, MediaShows
    <3>3. ShowingImage(i) = {Part("attachment", i, 0, 0, i)}
      BY <3>1, <3>2, MediaHas DEF ShowingImage
    <3> QED
      BY <3>3, OneOrTwo
  <2> QED
    BY <1>1, <2>1, <2>2 DEF ImagesShown
<1> QED
  BY <1>6, <1>7, <1>8

(* After an edit, the text row shows the only file of a message, and the    *)
(* others show what is left.                                                *)
LEMMA EditedMerged ==
  ASSUME PartTypes, Deleting, NEW h \in parts, TextRow(h), ~pending, ~Fresh,
         HasTextPart(posted), Cardinality(Media(posted)) = 1
  PROVE  TextShown /\ FilesShown /\ ImagesShown
<1>1. posted \in Contents /\ current \in Contents
  BY DEF PartTypes
<1>2. PICK one \in Media(posted) :
        /\ Media(posted) = {one}
        /\ ToMatrix(posted) = {Part("text", 0, posted.text, one.file, one.image)}
  BY <1>1, MergedOrNot
<1>3. parts = {h}
  BY DEF TextRow, Own
<1>4. h.text = current.text /\ h.image = 0
      /\ h.file = IF Len(current.files) = 1 /\ current.files[1] THEN 1 ELSE 0
  BY DEF TextRow
<1>5. /\ DOMAIN current.files = 1..Len(current.files) /\ Len(current.files) \in Nat
      /\ DOMAIN posted.files = 1..Len(posted.files) /\ Len(posted.files) \in Nat
  BY <1>1, Files, Bounds
<1>6. FilesShown
  <2>1. ASSUME NEW i \in DOMAIN current.files, current.files[i]
        PROVE  Cardinality(Showing(i)) = 1 \/ (Cardinality(Showing(i)) = 0 /\ MergedFile)
    <3>1. CASE Len(current.files) = 1
      <4>1. i = 1 /\ h.file = i
        BY <1>4, <1>5, <2>1, <3>1
      <4>2. Showing(i) = {h}
        BY <1>3, <4>1 DEF Showing
      <4> QED
        BY <4>2, OneOrTwo
    <3>2. CASE Len(current.files) # 1
      <4>1. h.file # i /\ Len(current.files) > 1
        <5>1. Len(current.files) >= 1 /\ i # 0
          BY <1>5, <2>1
        <5>2. h.file = 0
          BY <1>4, <3>2, Zenon
        <5>3. Len(current.files) > 1
          <6>1. PICK n \in Nat : n = Len(current.files)
            BY <1>5
          <6>2. n # 0
            BY <5>1, <6>1
          <6>3. n # 1
            BY <3>2, <6>1
          <6>4. n > 1
            BY <6>2, <6>3
          <6> QED
            BY <6>1, <6>4
        <5> QED
          BY <5>1, <5>2, <5>3
      <4>2. Showing(i) = {}
        BY <1>3, <4>1 DEF Showing
      <4>3. Len(posted.files) > 1
        <5>1. Len(current.files) \in DOMAIN posted.files
          BY <1>5, <4>1 DEF Deleting
        <5> QED
          BY <1>5, <4>1, <5>1
      <4>4. i \in Live(posted)
        BY <2>1 DEF Live, Deleting
      <4>5. ASSUME NEW j \in Live(posted) PROVE j = one.file
        BY <1>2, <4>5, MediaHas
      <4>6. Live(posted) = {i}
        BY <4>4, <4>5
      <4> QED
        BY <4>2, <4>3, <4>6, OneOrTwo DEF MergedFile
    <3> QED
      BY <3>1, <3>2
  <2>2. ASSUME NEW i \in DOMAIN current.files, ~current.files[i] PROVE Cardinality(Showing(i)) = 0
    <3>1. h.file # i
      BY <1>4, <1>5, <2>2
    <3>2. Showing(i) = {}
      BY <1>3, <3>1 DEF Showing
    <3> QED
      BY <3>2, OneOrTwo
  <2> QED
    BY <2>1, <2>2 DEF FilesShown
<1>7. ImagesShown
  <2>1. ASSUME NEW i \in Images PROVE ShowingImage(i) = {}
    BY <1>3, <1>4, Bounds DEF ShowingImage
  <2>2. ASSUME NEW i PROVE Part("attachment", i, 0, 0, i) \notin ToMatrix(posted)
    BY <1>2 DEF Part
  <2> QED
    BY <2>1, <2>2 DEF ImagesShown
<1> QED
  BY <1>4, <1>6, <1>7, TextRowShows

(* The only file of a message posted with images is shown by both.          *)
LEMMA EditedSeparate ==
  ASSUME PartTypes, Deleting, NEW h \in parts, TextRow(h), ~pending, ~Fresh,
         HasTextPart(posted), Cardinality(Media(posted)) # 1
  PROVE  TextShown /\ FilesShown /\ ImagesShown
<1>1. posted \in Contents /\ current \in Contents
  BY DEF PartTypes
<1>2. Own = Media(posted) /\ h \notin Media(posted)
  BY TextFirst DEF Own
<1>3. /\ \A p \in parts \ {h} : p \in Media(posted) /\ Alive(p, current)
      /\ \A p \in Media(posted) : Alive(p, current) => p \in parts
      /\ h.text = current.text /\ h.image = 0
      /\ h.file = IF Len(current.files) = 1 /\ current.files[1] THEN 1 ELSE 0
  BY <1>2 DEF TextRow
<1>4. /\ DOMAIN current.files = 1..Len(current.files) /\ Len(current.files) \in Nat
      /\ DOMAIN posted.files = 1..Len(posted.files) /\ Len(posted.files) \in Nat
  BY <1>1, Files, Bounds
<1>5. FilesShown
  <2>1. ASSUME NEW i \in DOMAIN current.files, current.files[i]
        PROVE  Cardinality(Showing(i)) = 1 \/ (Cardinality(Showing(i)) = 2 /\ SeparateFile)
    <3>1. PICK p : p = Part("file", i, 0, i, 0)
      OBVIOUS
    <3>2. i \in Live(posted) /\ i # 0
      BY <1>4, <2>1 DEF Live, Deleting
    <3>3. p \in Media(posted) /\ p.file = i /\ Alive(p, current)
      BY <2>1, <3>1, <3>2, MediaHas DEF Alive
    <3>4. p \in parts /\ p # h
      BY <1>2, <1>3, <3>3
    <3>5. \A q \in parts \ {h} : q.file = i => q = p
      BY <1>1, <1>3, <3>1, <3>2, MediaShows
    <3>6. CASE h.file = i
      <4>1. Showing(i) = {h, p}
        BY <3>3, <3>4, <3>5, <3>6 DEF Showing
      <4>2. Len(current.files) = 1 /\ i = 1
        BY <1>3, <3>2, <3>6
      <4>3. 1..Len(posted.files) = 1..1
        BY <1>4, <4>2 DEF Deleting
      <4>4. Len(posted.files) = 1
        <5>1. 1 \in 1..Len(posted.files) /\ Len(posted.files) \in Nat
          BY <1>4, <4>3
        <5>2. Len(posted.files) \in 1..Len(posted.files)
          BY <5>1
        <5>3. Len(posted.files) \in 1..1
          BY <4>3, <5>2, Zenon
        <5> QED
          BY <5>3
      <4>5. posted.images # {}
        <5>1. SUFFICES ASSUME posted.images = {} PROVE FALSE
          OBVIOUS
        <5>2. ASSUME NEW q \in Media(posted) PROVE q = p
          <6>1. q = Part("file", q.id, 0, q.id, 0) /\ q.id \in Live(posted)
            BY <1>1, <5>1, MediaRows
          <6>2. q.id = 1
            BY <1>4, <4>3, <6>1 DEF Live
          <6> QED
            BY <3>1, <4>2, <6>1, <6>2
        <5>3. Media(posted) = {p}
          BY <3>3, <5>2
        <5> QED
          BY <5>3, OneOrTwo
      <4> QED
        <5>1. Cardinality(Showing(i)) = 2
          <6>1. Cardinality({h, p}) = 2
            BY <3>4, OneOrTwo
          <6> QED
            BY <4>1, <6>1
        <5>2. SeparateFile
          BY <4>4, <4>5 DEF SeparateFile
        <5> QED
          BY <5>1, <5>2
    <3>7. CASE h.file # i
      <4>1. Showing(i) = {p}
        BY <3>3, <3>4, <3>5, <3>7 DEF Showing
      <4> QED
        BY <4>1, OneOrTwo
    <3> QED
      BY <3>6, <3>7
  <2>2. ASSUME NEW i \in DOMAIN current.files, ~current.files[i] PROVE Cardinality(Showing(i)) = 0
    <3>1. h.file # i /\ i # 0
      BY <1>3, <1>4, <2>2
    <3>2. ASSUME NEW q \in parts \ {h}, q.file = i PROVE FALSE
      <4>1. q = Part("file", i, 0, i, 0) /\ Alive(q, current)
        BY <1>1, <1>3, <3>1, <3>2, MediaShows
      <4> QED
        BY <2>2, <4>1, MediaHas DEF Alive
    <3>3. Showing(i) = {}
      BY <3>1, <3>2 DEF Showing
    <3> QED
      BY <3>3, OneOrTwo
  <2> QED
    BY <2>1, <2>2 DEF FilesShown
<1>6. ImagesShown
  <2>1. ASSUME NEW i \in Images, NEW q \in parts, q.image = i
        PROVE  q = Part("attachment", i, 0, 0, i) /\ i \in current.images
    <3>1. i # 0
      BY Bounds
    <3>2. q \in Media(posted) /\ Alive(q, current)
      BY <1>3, <2>1, <3>1
    <3>3. q = Part("attachment", i, 0, 0, i)
      BY <1>1, <2>1, <3>1, <3>2, MediaShows
    <3> QED
      BY <3>2, <3>3, MediaHas DEF Alive
  <2>2. ASSUME NEW i \in Images \ current.images PROVE ShowingImage(i) = {}
    BY <2>1, <2>2 DEF ShowingImage
  <2>3. ASSUME NEW i \in current.images, Part("attachment", i, 0, 0, i) \in ToMatrix(posted)
        PROVE  Cardinality(ShowingImage(i)) = 1
    <3>1. PICK p : p = Part("attachment", i, 0, 0, i)
      OBVIOUS
    <3>2. p.type = "attachment" /\ p.id = i /\ p.image = i
      BY <3>1, MediaHas
    <3>3. p \in Media(posted)
      <4>1. p # Part("text", 0, posted.text, 0, 0)
        BY <3>2 DEF Part
      <4> QED
        BY <1>1, <2>3, <3>1, <4>1, MergedOrNot
    <3>4. p \in parts
      BY <1>3, <3>2, <3>3 DEF Alive
    <3>5. i \in Images
      BY <1>1, Files
    <3>6. ShowingImage(i) = {p}
      BY <2>1, <3>1, <3>2, <3>4, <3>5 DEF ShowingImage
    <3> QED
      BY <3>6, OneOrTwo
  <2> QED
    BY <2>2, <2>3 DEF ImagesShown
<1> QED
  BY <1>3, <1>5, <1>6, TextRowShows

(* So in every state that is tracked, the rows follow the message.          *)
LEMMA FollowsFromTracked == ASSUME IInv PROVE PartsFollow
<1>1. PartTypes /\ Deleting /\ Tracked
  BY DEF IInv
<1>2. ASSUME Bridged PROVE TextShown /\ FilesShown /\ ImagesShown
  <2>1. ~pending /\ ~silent /\ ~orphaned
    BY <1>2 DEF Bridged
  <2>2. CASE ~HasTextPart(posted)
    BY <1>1, <2>1, <2>2, FilesFollow DEF Tracked
  <2>3. CASE HasTextPart(posted)
    <3>1. PICK h \in parts : TextRow(h)
      BY <1>1, <2>1, <2>3 DEF Tracked
    <3> QED
      BY <1>1, <2>1, <2>3, <3>1, FreshMerged, FreshSeparate, EditedMerged, EditedSeparate
  <2> QED
    BY <2>2, <2>3
<1> QED
  BY <1>1, <1>2 DEF PartsFollow

-----------------------------------------------------------------------------
(* The events that ToMatrix made, edited and deleted by EditToMatrix after  *)
(* any changes of which any were missed, show the latest version of the     *)
(* message: its text once, no file or image that was deleted, every live    *)
(* file once but for the two known shapes; unless an edit had no text part  *)
(* to send or deleted the event that it edited.                             *)
THEOREM EventsFollow == PartsSpec => []PartsFollow
<1>1. ASSUME IInv, [PartsNext]_partsVars PROVE IInv'
  BY <1>1, TypesKept, DeletingKept, TrackedKept DEF IInv
<1> QED
  BY PartsInitInv, <1>1, FollowsFromTracked, PTL DEF PartsSpec

=============================================================================
