------------------------- MODULE EmojiStore_proofs -------------------------
(***************************************************************************)
(* Safety of EmojiStore for any number of emoji, goroutines, changes and   *)
(* faults: who holds the team's mutex, whose image a row names, that the   *)
(* table comes to what Slack has, and that full syncs repair the aliases.  *)
(***************************************************************************)
EXTENDS EmojiStore, FiniteSetTheorems, TLAPS

-----------------------------------------------------------------------------
(* Values, rows and tables. *)

Table == [Names -> Row \cup {None}]

(* Every image row of t names the upload of its own URL, or nothing.        *)
Own(t) == \A n \in Names : t[n] # None /\ t[n].alias = None => t[n].image \in {None, t[n].url}

LEMMA NotNone == None \notin Names /\ None \notin Urls /\ None \notin Row /\ None \notin Value /\ Free \notin Procs
BY NamesAssumption, RowAssumption

LEMMA ValueFields ==
  ASSUME NEW v \in Value
  PROVE  /\ v.url \in Urls \cup {None}
         /\ v.alias \in Names \cup {None}
BY DEF Value

LEMMA RowFields ==
  ASSUME NEW r \in Row
  PROVE  /\ r.url \in Urls \cup {None}
         /\ r.alias \in Names \cup {None}
         /\ r.image \in Urls \cup {None}
BY DEF Row

LEMMA EntryFields ==
  ASSUME NEW v, NEW image
  PROVE  /\ Entry(v, image).url = v.url
         /\ Entry(v, image).alias = v.alias
         /\ Entry(v, image).image = image
BY DEF Entry

LEMMA EntryType ==
  ASSUME NEW v \in Value, NEW image \in Urls \cup {None}
  PROVE  Entry(v, image) \in Row
BY ValueFields DEF Entry, Row

LEMMA WithImage ==
  ASSUME NEW r \in Row, NEW image \in Urls \cup {None}
  PROVE  /\ [r EXCEPT !.image = image] \in Row
         /\ [r EXCEPT !.image = image].url = r.url
         /\ [r EXCEPT !.image = image].alias = r.alias
         /\ [r EXCEPT !.image = image].image = image
BY DEF Row

LEMMA RowAt ==
  ASSUME TableType, NEW n \in Names
  PROVE  table[n] \in Row \cup {None}
BY DEF TableType

LEMMA TablePut ==
  ASSUME TableType, NEW n, NEW r \in Row
  PROVE  [table EXCEPT ![n] = r] \in Table
BY DEF TableType, Table

LEMMA HasFields ==
  ASSUME NEW n, NEW v, Has(n, v)
  PROVE  table[n] # None /\ table[n].url = v.url /\ table[n].alias = v.alias
<1>1. ValueOf(table[n]) = v /\ table[n] # None
  BY DEF Has
<1>2. ValueOf(table[n]).url = table[n].url /\ ValueOf(table[n]).alias = table[n].alias
  BY DEF ValueOf
<1> QED
  BY <1>1, <1>2

LEMMA AddType ==
  ASSUME TableType, NEW n \in Names, NEW v \in Value
  PROVE  addEmoji(n, v) \in Table
<1> DEFINE kept == IF Has(n, v) THEN table[n].image ELSE None
           found == v.alias # None /\ table[v.alias] # None /\ table[v.alias].image # None
           image == IF found THEN table[v.alias].image ELSE kept
<1>1. kept \in Urls \cup {None}
  BY RowAt, RowFields, HasFields
<1>2. image \in Urls \cup {None}
  BY <1>1, ValueFields, RowAt, RowFields
<1>3. Entry(v, image) \in Row
  <2> HIDE DEF image
  <2> QED
    BY <1>2, EntryType
<1>4. [table EXCEPT ![n] = Entry(v, image)] \in Table
  <2> HIDE DEF image
  <2> QED
    BY <1>3, TablePut
<1> QED
  BY <1>4 DEF addEmoji

LEMMA AddHere ==
  ASSUME TableType, NEW n \in Names, NEW v \in Value
  PROVE  addEmoji(n, v)[n] \in Row
<1> DEFINE kept == IF Has(n, v) THEN table[n].image ELSE None
           found == v.alias # None /\ table[v.alias] # None /\ table[v.alias].image # None
           image == IF found THEN table[v.alias].image ELSE kept
<1>1. image \in Urls \cup {None}
  BY ValueFields, RowAt, RowFields, HasFields
<1>2. addEmoji(n, v) = [table EXCEPT ![n] = Entry(v, image)]
  BY DEF addEmoji
<1> HIDE DEF image
<1> QED
  BY <1>1, <1>2, EntryType DEF TableType

LEMMA AddOwn ==
  ASSUME TableType, Own(table), NEW n \in Names, NEW v \in Value
  PROVE  Own(addEmoji(n, v))
<1> DEFINE kept == IF Has(n, v) THEN table[n].image ELSE None
           found == v.alias # None /\ table[v.alias] # None /\ table[v.alias].image # None
           image == IF found THEN table[v.alias].image ELSE kept
<1>1. v.alias = None => image \in {None, v.url}
  BY HasFields DEF Own
<1>2. addEmoji(n, v) = [table EXCEPT ![n] = Entry(v, image)]
  BY DEF addEmoji
<1> HIDE DEF image
<1>3. \A m \in Names : addEmoji(n, v)[m] = IF m = n THEN Entry(v, image) ELSE table[m]
  BY <1>2 DEF TableType
<1> QED
  BY <1>1, <1>3, EntryFields DEF Own

LEMMA DeleteFacts ==
  ASSUME TableType, NEW names
  PROVE  /\ DeleteMany(names) \in Table
         /\ Own(table) => Own(DeleteMany(names))
<1>1. DeleteMany(names) \in Table
  BY DEF TableType, DeleteMany, Table
<1>2. \A m \in Names : DeleteMany(names)[m] \in {None, table[m]}
  BY DEF DeleteMany
<1> QED
  BY <1>1, <1>2 DEF Own

LEMMA PruneFacts ==
  ASSUME TableType, NEW names
  PROVE  /\ Prune(names) \in Table
         /\ Own(table) => Own(Prune(names))
<1>1. Prune(names) \in Table
  BY DEF TableType, Prune, Table
<1>2. \A m \in Names : Prune(names)[m] \in {None, table[m]}
  BY DEF Prune
<1> QED
  BY <1>1, <1>2 DEF Own

LEMMA RenameFacts ==
  ASSUME TableType, NEW o \in Names, NEW n \in Names
  PROVE  /\ Rename(o, n) \in Table
         /\ Own(table) => Own(Rename(o, n))
<1>1. Rename(o, n) \in Table
  BY DEF TableType, Rename, Table
<1>2. \A m \in Names : Rename(o, n)[m] \in {None, table[m], table[o]}
  BY DEF Rename, TableType
<1> QED
  BY <1>1, <1>2 DEF Own

LEMMA SaveType ==
  ASSUME TableType, NEW n, NEW image \in Urls \cup {None}
  PROVE  SaveMXC(n, image) \in Table
<1>1. ASSUME NEW m \in Names
      PROVE  (IF table[m] # None /\ (m = n \/ table[m].alias = n)
              THEN [table[m] EXCEPT !.image = image] ELSE table[m]) \in Row \cup {None}
  BY <1>1, RowAt, WithImage
<1> QED
  BY <1>1 DEF SaveMXC, Table

(* The upload of a URL is saved to the row it was read from.                *)
LEMMA SaveOwn ==
  ASSUME TableType, Own(table), NEW n \in Names, NEW r \in Row,
         Has(n, ValueOf(r)) \/ ~(table[n] # None /\ table[n].alias = None)
  PROVE  Own(SaveMXC(n, r.url))
<1>1. ValueOf(r).url = r.url /\ ValueOf(r).alias = r.alias
  BY DEF ValueOf
<1>2. SUFFICES ASSUME NEW m \in Names, SaveMXC(n, r.url)[m] # None,
                      SaveMXC(n, r.url)[m].alias = None
               PROVE  SaveMXC(n, r.url)[m].image \in {None, SaveMXC(n, r.url)[m].url}
  BY DEF Own
<1>3. SaveMXC(n, r.url)[m] = IF table[m] # None /\ (m = n \/ table[m].alias = n)
                             THEN [table[m] EXCEPT !.image = r.url] ELSE table[m]
  BY DEF SaveMXC
<1>4. table[m] \in Row
  BY <1>2, <1>3, RowAt, NotNone
<1>5. table[m].alias = None
  BY <1>2, <1>3, <1>4, RowFields, WithImage
<1>6. CASE m = n
  <2>1. table[n].url = r.url
    BY <1>1, <1>4, <1>5, <1>6, HasFields, NotNone
  <2>2. SaveMXC(n, r.url)[m] = [table[m] EXCEPT !.image = r.url]
    BY <1>3, <1>4, <1>6, NotNone
  <2> QED
    BY <1>4, <1>6, <2>1, <2>2, RowFields, WithImage
<1>7. CASE m # n
  BY <1>3, <1>4, <1>5, <1>7, NotNone DEF Own
<1> QED
  BY <1>6, <1>7

-----------------------------------------------------------------------------
(* Events. *)

LEMMA EventFields ==
  ASSUME NEW e \in Event
  PROVE  /\ e.type \in {"add", "remove", "rename"}
         /\ e.type = "add" => e.names \in Only /\ e.value \in Value
         /\ e.type = "rename" => e.names \in Only /\ e.value \in Value /\ e.old \in Names
BY DEF Event

LEMMA OnlyName ==
  ASSUME NEW names \in Only
  PROVE  (CHOOSE m \in names : TRUE) \in Names
BY DEF Only

LEMMA AppliedFacts ==
  ASSUME TableType, NEW e \in Event
  PROVE  /\ Applied(e) \in Table
         /\ Own(table) => Own(Applied(e))
<1> DEFINE n == CHOOSE m \in e.names : TRUE
<1>1. CASE e.type = "add"
  <2>1. n \in Names /\ e.value \in Value
    BY <1>1, EventFields, OnlyName
  <2>2. Applied(e) = addEmoji(n, e.value)
    BY <1>1 DEF Applied
  <2> HIDE DEF n
  <2> QED
    BY <2>1, <2>2, AddType, AddOwn
<1>2. CASE e.type = "remove"
  <2>1. Applied(e) = DeleteMany(e.names)
    BY <1>2 DEF Applied
  <2> QED
    BY <2>1, DeleteFacts
<1>3. CASE e.type = "rename"
  <2>1. n \in Names /\ e.value \in Value /\ e.old \in Names
    BY <1>3, EventFields, OnlyName
  <2>2. Applied(e) = IF Has(e.old, e.value) THEN Rename(e.old, n) ELSE addEmoji(n, e.value)
    BY <1>3 DEF Applied
  <2> HIDE DEF n
  <2>3. CASE Has(e.old, e.value)
    BY <2>1, <2>2, <2>3, RenameFacts
  <2>4. CASE ~Has(e.old, e.value)
    BY <2>1, <2>2, <2>4, AddType, AddOwn
  <2> QED
    BY <2>3, <2>4
<1> QED
  BY <1>1, <1>2, <1>3, EventFields

LEMMA Overtake ==
  ASSUME NEW e \in Event, NEW b \in BOOLEAN
  PROVE  [e EXCEPT !.overtaken = b] \in Event
<1>1. CASE e \in [type : {"add"}, names : Only, old : {None}, value : Value, overtaken : BOOLEAN]
  BY <1>1 DEF Event
<1>2. CASE e \in [type : {"remove"}, names : SUBSET Names, old : {None}, value : {None}, overtaken : BOOLEAN]
  BY <1>2 DEF Event
<1>3. CASE e \in [type : {"rename"}, names : Only, old : Names, value : Value, overtaken : BOOLEAN]
  BY <1>3 DEF Event
<1> QED
  BY <1>1, <1>2, <1>3 DEF Event

LEMMA RemoveAtType ==
  ASSUME NEW S, NEW s \in Seq(S), NEW i \in 1..Len(s)
  PROVE  RemoveAt(s, i) \in Seq(S)
<1>1. SubSeq(s, 1, i - 1) \in Seq(S)
  OBVIOUS
<1>2. SubSeq(s, i + 1, Len(s)) \in Seq(S)
  OBVIOUS
<1> QED
  BY <1>1, <1>2 DEF RemoveAt

LEMMA OthersType ==
  ASSUME PendingType, NEW i \in DOMAIN pending
  PROVE  Others(i) \in Seq(Event)
<1> DEFINE marked == [j \in DOMAIN pending |->
                        [pending[j] EXCEPT !.overtaken = @ \/ j \in Overtaken(i)]]
<1>1. DOMAIN pending = 1..Len(pending) /\ Len(pending) \in Nat
  BY DEF PendingType
<1>2. \A j \in 1..Len(pending) : pending[j] \in Event
  BY DEF PendingType
<1>3. ASSUME NEW j \in 1..Len(pending)
      PROVE  [pending[j] EXCEPT !.overtaken = @ \/ j \in Overtaken(i)] \in Event
  <2>1. (pending[j].overtaken \/ j \in Overtaken(i)) \in BOOLEAN
    OBVIOUS
  <2> QED
    BY <1>2, <1>3, <2>1, Overtake
<1>4. marked \in [1..Len(pending) -> Event]
  BY <1>1, <1>3
<1>5. marked \in Seq(Event) /\ Len(marked) = Len(pending)
  <2> HIDE DEF marked
  <2> QED
    BY <1>1, <1>4
<1>6. RemoveAt(marked, i) \in Seq(Event)
  <2> HIDE DEF marked
  <2> QED
    BY <1>1, <1>5, RemoveAtType
<1> QED
  BY <1>6 DEF Others

-----------------------------------------------------------------------------
(* The steps. *)

LEMMA InitInv == Init => Inv
<1> SUFFICES ASSUME Init PROVE Inv
  OBVIOUS
<1>1. SlackType /\ TableType /\ PendingType
  BY DEF Init, Nowhere, SlackType, TableType, PendingType
<1>2. PlaceType /\ LookupType
  BY DEF Init, PlaceType, LookupType, PCs, Tasks
<1>3. SyncType /\ HistoryType
  BY DEF Init, Nowhere, SyncType, HistoryType
<1>7. BoundType
  BY BoundAssumption DEF Init, BoundType
<1>4. LockIsHeld
  BY NotNone DEF Init, LockIsHeld, Locked, Syncing
<1>5. Control
  BY DEF Init, Control, ControlAt, Syncing
<1>6. OwnImages
  BY DEF Init, OwnImages, Nowhere
<1> QED
  BY <1>1, <1>2, <1>3, <1>4, <1>5, <1>6, <1>7 DEF Inv, TypeOK

LEMMA OwnFrom ==
  ASSUME NEW t, table' = t, late => late', OwnImages, Own(table) => Own(t)
  PROVE  OwnImages'
BY DEF OwnImages, Own

LEMMA FaultCounts ==
  ASSUME BoundType, changes' = changes, Fault \/ faults' = faults
  PROVE  BoundType'
BY BoundAssumption DEF Fault, BoundType

(* What a change in Slack, an event and the calls of the other goroutines   *)
(* leave alone.                                                             *)
LEMMA SameProcs ==
  ASSUME Inv, UNCHANGED <<lock, procs>>
  PROVE  PlaceType' /\ LookupType' /\ SyncType' /\ LockIsHeld' /\ Control'
<1> USE DEF Inv, TypeOK, procs
<1>1. PlaceType'
  BY DEF PlaceType
<1>2. LookupType'
  BY DEF LookupType
<1>3. SyncType'
  BY DEF SyncType
<1>4. LockIsHeld'
  BY DEF LockIsHeld, Locked
<1>5. Control'
  BY DEF Control, ControlAt, Present
<1> QED
  BY <1>1, <1>2, <1>3, <1>4, <1>5

LEMMA ChangeInv ==
  ASSUME Inv, NEW event \in Event, NEW after \in [Names -> Value \cup {None}],
         Change(event, after)
  PROVE  Inv'
<1>1. SlackType'
  BY DEF Change, SlackType
<1>2. PendingType'
  BY DEF Change, PendingType, Inv, TypeOK
<1>3. TableType' /\ OwnImages'
  BY DEF Change, TableType, OwnImages, Inv, TypeOK
<1>4. BoundType' /\ HistoryType'
  <2>1. BoundType'
    BY BoundAssumption DEF Change, BoundType, Inv, TypeOK
  <2>2. HistoryType'
    BY DEF Change, HistoryType, Inv, TypeOK
  <2> QED
    BY <2>1, <2>2
<1>5. PlaceType' /\ LookupType' /\ SyncType' /\ LockIsHeld' /\ Control'
  BY SameProcs DEF Change
<1> QED
  BY <1>1, <1>2, <1>3, <1>4, <1>5 DEF Inv, TypeOK

LEMMA AddImageInv ==
  ASSUME Inv, NEW n \in Names, NEW u \in Urls, AddImage(n, u)
  PROVE  Inv'
<1> DEFINE value == [url |-> u, alias |-> None]
           event == [type |-> "add", names |-> {n}, old |-> None, value |-> value, overtaken |-> FALSE]
<1>1. value \in Value
  BY DEF Value
<1>2. event \in Event
  BY <1>1 DEF Event, Only
<1>3. [slack EXCEPT ![n] = value] \in [Names -> Value \cup {None}]
  BY <1>1 DEF Inv, TypeOK, SlackType
<1>4. Change(event, [slack EXCEPT ![n] = value])
  BY DEF AddImage
<1> HIDE DEF event, value
<1> QED
  BY <1>2, <1>3, <1>4, ChangeInv

LEMMA AddAliasInv ==
  ASSUME Inv, NEW n \in Names, NEW t \in Names, AddAlias(n, t)
  PROVE  Inv'
<1> DEFINE value == [url |-> None, alias |-> t]
           event == [type |-> "add", names |-> {n}, old |-> None, value |-> value, overtaken |-> FALSE]
<1>1. value \in Value
  BY DEF Value
<1>2. event \in Event
  BY <1>1 DEF Event, Only
<1>3. [slack EXCEPT ![n] = value] \in [Names -> Value \cup {None}]
  BY <1>1 DEF Inv, TypeOK, SlackType
<1>4. Change(event, [slack EXCEPT ![n] = value])
  BY DEF AddAlias
<1> HIDE DEF event, value
<1> QED
  BY <1>2, <1>3, <1>4, ChangeInv

LEMMA RemoveEmojiInv ==
  ASSUME Inv, NEW n \in Names, RemoveEmoji(n)
  PROVE  Inv'
<1> DEFINE gone == {n} \cup Aliases(n)
           event == [type |-> "remove", names |-> gone, old |-> None, value |-> None, overtaken |-> FALSE]
           after == [m \in Names |-> IF m \in gone THEN None ELSE slack[m]]
<1>1. gone \subseteq Names
  BY DEF Aliases, Present
<1>2. event \in Event
  BY <1>1 DEF Event
<1>3. after \in [Names -> Value \cup {None}]
  BY DEF Inv, TypeOK, SlackType
<1>4. Change(event, after)
  BY DEF RemoveEmoji
<1> HIDE DEF event, after
<1> QED
  BY <1>2, <1>3, <1>4, ChangeInv

LEMMA RenameEmojiInv ==
  ASSUME Inv, NEW o \in Names, NEW n \in Names, RenameEmoji(o, n)
  PROVE  Inv'
<1> DEFINE event == [type |-> "rename", names |-> {n}, old |-> o, value |-> slack[o], overtaken |-> FALSE]
           after == [slack EXCEPT ![o] = None, ![n] = slack[o]]
<1>1. slack[o] \in Value
  BY DEF RenameEmoji, Inv, TypeOK, SlackType
<1>2. event \in Event
  BY <1>1 DEF Event, Only
<1>3. after \in [Names -> Value \cup {None}]
  BY <1>1 DEF Inv, TypeOK, SlackType
<1>4. Change(event, after)
  BY DEF RenameEmoji
<1> HIDE DEF event, after
<1> QED
  BY <1>2, <1>3, <1>4, ChangeInv

LEMMA EventInv ==
  ASSUME Inv, NEW i \in DOMAIN pending, handleEmojiChange(i)
  PROVE  Inv'
<1>1. pending[i] \in Event
  BY DEF Inv, TypeOK, PendingType
<1>2. PendingType'
  BY OthersType DEF handleEmojiChange, Inv, TypeOK, PendingType
<1>3. SlackType'
  BY DEF handleEmojiChange, SlackType, Inv, TypeOK
<1>4. TableType' /\ OwnImages'
  <2>1. CASE table' = Applied(pending[i])
    <3>1. Applied(pending[i]) \in Table /\ (Own(table) => Own(Applied(pending[i])))
      BY <1>1, AppliedFacts DEF Inv, TypeOK
    <3>2. late' = late
      BY DEF handleEmojiChange
    <3>3. OwnImages'
      BY <2>1, <3>1, <3>2, OwnFrom DEF Inv
    <3> QED
      BY <2>1, <3>1, <3>3 DEF TableType, Table
  <2>2. CASE UNCHANGED table
    BY <2>2 DEF handleEmojiChange, TableType, OwnImages, Inv, TypeOK
  <2> QED
    BY <2>1, <2>2 DEF handleEmojiChange
<1>5. BoundType' /\ HistoryType'
  <2>1. BoundType'
    BY FaultCounts DEF handleEmojiChange, BoundType, Inv, TypeOK
  <2>2. trusted' \in BOOLEAN /\ late' = late
    BY DEF handleEmojiChange, Inv, TypeOK, HistoryType
  <2>3. dirty' \in [Procs -> BOOLEAN]
    BY DEF handleEmojiChange, Inv, TypeOK, HistoryType
  <2> QED
    BY <2>1, <2>2, <2>3 DEF HistoryType, Inv, TypeOK
<1>6. PlaceType' /\ LookupType' /\ SyncType' /\ LockIsHeld' /\ Control'
  BY SameProcs DEF handleEmojiChange
<1> QED
  BY <1>2, <1>3, <1>4, <1>5, <1>6 DEF Inv, TypeOK

-----------------------------------------------------------------------------
(* The steps of a goroutine. *)

Elsewhere(p) ==
  \A q \in Procs \ {p} :
    /\ pc'[q] = pc[q] /\ task'[q] = task[q] /\ name'[q] = name[q] /\ row'[q] = row[q]
    /\ todo'[q] = todo[q] /\ list'[q] = list[q]

LEMMA ControlFrom ==
  ASSUME Control, NEW p \in Procs, Elsewhere(p), ControlAt(p)'
  PROVE  Control'
<1> SUFFICES ASSUME NEW q \in Procs \ {p} PROVE ControlAt(q)'
  BY DEF Control
<1>1. ControlAt(q)
  BY DEF Control
<1>2. pc'[q] = pc[q] /\ task'[q] = task[q] /\ name'[q] = name[q] /\ row'[q] = row[q]
      /\ todo'[q] = todo[q] /\ list'[q] = list[q]
  BY DEF Elsewhere
<1> QED
  BY <1>1, <1>2 DEF ControlAt, Present

LEMMA LockFrom ==
  ASSUME LockIsHeld, NEW p \in Procs, Elsewhere(p), lock' = p <=> Locked(p)',
         \A q \in Procs \ {p} : lock' = q <=> lock = q
  PROVE  LockIsHeld'
<1> SUFFICES ASSUME NEW q \in Procs \ {p} PROVE lock' = q <=> Locked(q)'
  BY DEF LockIsHeld
<1>1. lock = q <=> Locked(q)
  BY DEF LockIsHeld
<1>2. pc'[q] = pc[q] /\ task'[q] = task[q]
  BY DEF Elsewhere
<1> QED
  BY <1>1, <1>2 DEF Locked

LEMMA SameWorld ==
  ASSUME Inv, UNCHANGED <<slack, pending, table, late>>
  PROVE  SlackType' /\ PendingType' /\ TableType' /\ OwnImages'
<1>1. SlackType' /\ PendingType'
  BY DEF SlackType, PendingType, Inv, TypeOK
<1>2. TableType' /\ OwnImages'
  BY DEF TableType, OwnImages, Inv, TypeOK
<1> QED
  BY <1>1, <1>2

LEMMA SameHistory ==
  ASSUME Inv, UNCHANGED <<changes, dirty, trusted, late>>, Fault \/ UNCHANGED faults
  PROVE  BoundType' /\ HistoryType'
<1>1. BoundType'
  BY FaultCounts DEF Inv, TypeOK
<1>2. HistoryType'
  BY DEF HistoryType, Inv, TypeOK
<1> QED
  BY <1>1, <1>2

LEMMA SameSync ==
  ASSUME Inv, UNCHANGED <<list, todo, created>>
  PROVE  SyncType'
BY DEF SyncType, Inv, TypeOK

LEMMA SameLookup ==
  ASSUME Inv, UNCHANGED <<name, deep, again, row>>
  PROVE  LookupType'
BY DEF LookupType, Inv, TypeOK

LEMMA PlaceStep ==
  ASSUME Inv, NEW p \in Procs, NEW label \in PCs, Goto(p, label), UNCHANGED task,
         lock' \in Procs \cup {Free}
  PROVE  /\ PlaceType'
         /\ pc'[p] = label /\ task'[p] = task[p]
         /\ \A q \in Procs \ {p} : pc'[q] = pc[q] /\ task'[q] = task[q]
BY DEF PlaceType, Goto, Inv, TypeOK

LEMMA LookupReturns ==
  ASSUME Inv, NEW p \in Procs, Return(p), UNCHANGED task, lock' \in Procs \cup {Free}
  PROVE  /\ PlaceType' /\ LookupType'
         /\ pc'[p] \in {"idle", "next"} /\ task'[p] = task[p]
         /\ \A q \in Procs \ {p} : /\ pc'[q] = pc[q] /\ task'[q] = task[q]
                                   /\ name'[q] = name[q] /\ row'[q] = row[q]
<1>1. Goto(p, IF task[p] = "pack" THEN "next" ELSE "idle")
  BY DEF Return
<1>2. PlaceType' /\ pc'[p] \in {"idle", "next"} /\ task'[p] = task[p]
      /\ \A q \in Procs \ {p} : pc'[q] = pc[q] /\ task'[q] = task[q]
  BY <1>1, PlaceStep DEF PCs
<1>3. LookupType'
  BY DEF Return, LookupType, Inv, TypeOK
<1>4. \A q \in Procs \ {p} : name'[q] = name[q] /\ row'[q] = row[q]
  BY DEF Return, LookupType, Inv, TypeOK
<1> QED
  BY <1>2, <1>3, <1>4

LEMMA StartInv ==
  ASSUME Inv, NEW p \in Procs, NEW kind \in Kinds, NEW n \in Names, Start(p, kind, n)
  PROVE  Inv'
<1> DEFINE label == CASE kind = "lookup" -> "read" [] kind = "pack" -> "fetch" [] OTHER -> "wait"
<1>1. kind \in Tasks
  BY BoundAssumption
<1>2. /\ pc[p] = "idle" /\ lock' = lock
      /\ pc' = [pc EXCEPT ![p] = label] /\ task' = [task EXCEPT ![p] = kind]
  BY DEF Start, Goto
<1>3. /\ PlaceType' /\ pc'[p] = label /\ task'[p] = kind
      /\ \A q \in Procs \ {p} : pc'[q] = pc[q] /\ task'[q] = task[q]
  <2>1. label \in PCs
    BY DEF PCs, Syncing
  <2> HIDE DEF label
  <2> QED
    BY <1>1, <1>2, <2>1 DEF PlaceType, Inv, TypeOK
<1>4. LookupType' /\ (kind = "lookup" => name'[p] = n)
      /\ \A q \in Procs \ {p} : name'[q] = name[q] /\ row'[q] = row[q]
  BY DEF Start, LookupType, Inv, TypeOK
<1>5. UNCHANGED <<slack, pending, table, list, todo, created, history>>
  BY DEF Start
<1>6. Elsewhere(p)
  BY <1>3, <1>4, <1>5 DEF Elsewhere
<1>7. LockIsHeld'
  <2>1. ~Locked(p) /\ ~Locked(p)'
    BY <1>1, <1>2, <1>3 DEF Locked, Syncing, Tasks
  <2> QED
    BY <1>2, <1>6, <2>1, LockFrom DEF LockIsHeld, Inv
<1>8. Control'
  <2>1. ControlAt(p)'
    BY <1>1, <1>3, <1>4 DEF ControlAt, Syncing, Tasks
  <2> QED
    BY <1>6, <2>1, ControlFrom DEF Inv
<1>9. SlackType' /\ PendingType' /\ TableType' /\ OwnImages' /\ BoundType' /\ HistoryType' /\ SyncType'
  BY <1>5, SameWorld, SameHistory, SameSync DEF history
<1> QED
  BY <1>3, <1>4, <1>7, <1>8, <1>9 DEF Inv, TypeOK

LEMMA ReadInv ==
  ASSUME Inv, NEW p \in Procs, Read(p)
  PROVE  Inv'
<1>1. /\ pc[p] = "read" /\ lock' = lock /\ lock' \in Procs \cup {Free} /\ name[p] \in Names
      /\ UNCHANGED <<slack, pending, table, task, list, todo, created, changes, dirty, trusted, late>>
      /\ Fault \/ UNCHANGED faults
  BY DEF Read, Inv, TypeOK, PlaceType, Control, ControlAt
<1>2. table[name[p]] \in Row \cup {None}
  BY <1>1, RowAt DEF Inv, TypeOK
<1>3. /\ PlaceType' /\ LookupType' /\ task'[p] = task[p]
      /\ pc'[p] \in {"idle", "next", "try", "read", "queue"}
      /\ pc'[p] \in {"try", "read", "queue"} => name'[p] \in Names
      /\ pc'[p] = "queue" => row'[p] \in Row
      /\ pc'[p] = "try" => task'[p] = "lookup"
      /\ \A q \in Procs \ {p} : /\ pc'[q] = pc[q] /\ task'[q] = task[q]
                                /\ name'[q] = name[q] /\ row'[q] = row[q]
  <2>1. CASE Return(p)
    BY <1>1, <2>1, LookupReturns
  <2>2. CASE Goto(p, "try") /\ UNCHANGED <<name, deep, again, row>> /\ task[p] = "lookup"
    BY <1>1, <2>2, PlaceStep, SameLookup DEF PCs
  <2>3. CASE /\ table[name[p]] # None /\ table[name[p]].alias # None
             /\ name' = [name EXCEPT ![p] = table[name[p]].alias]
             /\ deep' = [deep EXCEPT ![p] = TRUE]
             /\ UNCHANGED <<pc, again, row>>
    <3>1. table[name[p]].alias \in Names
      BY <1>2, <2>3, RowFields
    <3>2. LookupType' /\ name'[p] \in Names /\ \A q \in Procs \ {p} : name'[q] = name[q]
      BY <2>3, <3>1 DEF LookupType, Inv, TypeOK
    <3>3. PlaceType'
      BY <1>1, <2>3 DEF PlaceType, Inv, TypeOK
    <3> QED
      BY <1>1, <2>3, <3>2, <3>3
  <2>4. CASE /\ table[name[p]] # None /\ row' = [row EXCEPT ![p] = table[name[p]]]
             /\ Goto(p, "queue") /\ UNCHANGED <<name, deep, again>>
    <3>1. LookupType' /\ row'[p] \in Row /\ \A q \in Procs \ {p} : row'[q] = row[q]
      BY <1>2, <2>4 DEF LookupType, Inv, TypeOK
    <3> QED
      BY <1>1, <2>4, <3>1, PlaceStep DEF PCs
  <2> QED
    BY <2>1, <2>2, <2>3, <2>4 DEF Read, NotFound
<1>4. Elsewhere(p)
  BY <1>1, <1>3 DEF Elsewhere
<1>5. LockIsHeld'
  <2>1. ~Locked(p) /\ ~Locked(p)'
    BY <1>1, <1>3 DEF Locked, Syncing
  <2> QED
    BY <1>1, <1>4, <2>1, LockFrom DEF LockIsHeld, Inv
<1>6. Control'
  <2>1. ControlAt(p)'
    BY <1>3 DEF ControlAt, Syncing
  <2> QED
    BY <1>4, <2>1, ControlFrom DEF Inv
<1>7. SlackType' /\ PendingType' /\ TableType' /\ OwnImages' /\ BoundType' /\ HistoryType' /\ SyncType'
  BY <1>1, SameWorld, SameHistory, SameSync
<1> QED
  BY <1>3, <1>5, <1>6, <1>7 DEF Inv, TypeOK

LEMMA LockUploadInv ==
  ASSUME Inv, NEW p \in Procs, LockUpload(p)
  PROVE  Inv'
<1>1. /\ pc[p] = "queue" /\ lock = Free /\ lock' = p
      /\ name[p] \in Names /\ row[p] \in Row
      /\ UNCHANGED <<slack, pending, table, task, name, deep, again, row, list, todo, created, history>>
  BY DEF LockUpload, Inv, Control, ControlAt
<1>2. /\ PlaceType' /\ pc'[p] = "upload"
      /\ \A q \in Procs \ {p} : pc'[q] = pc[q]
  BY <1>1, PlaceStep DEF LockUpload, PCs
<1>3. Elsewhere(p)
  BY <1>1, <1>2 DEF Elsewhere
<1>4. LockIsHeld'
  BY <1>1, <1>2, <1>3, LockFrom, NotNone DEF Locked, Inv
<1>5. Control'
  <2>1. ControlAt(p)'
    BY <1>1, <1>2 DEF ControlAt, Syncing
  <2> QED
    BY <1>3, <2>1, ControlFrom DEF Inv
<1>6. /\ SlackType' /\ PendingType' /\ TableType' /\ OwnImages' /\ BoundType' /\ HistoryType'
      /\ SyncType' /\ LookupType'
  BY <1>1, SameWorld, SameHistory, SameSync, SameLookup DEF history
<1> QED
  BY <1>2, <1>4, <1>5, <1>6 DEF Inv, TypeOK

LEMMA UploadInv ==
  ASSUME Inv, NEW p \in Procs, Upload(p)
  PROVE  Inv'
<1>1. /\ pc[p] = "upload" /\ lock' = Free /\ Return(p)
      /\ name[p] \in Names /\ row[p] \in Row
      /\ UNCHANGED <<slack, pending, task, list, todo, created, changes, dirty, trusted>>
  BY DEF Upload, Inv, Control, ControlAt
<1>2. lock = p
  BY <1>1 DEF LockIsHeld, Locked, Inv
<1>3. /\ PlaceType' /\ LookupType'
      /\ pc'[p] \in {"idle", "next"} /\ task'[p] = task[p]
      /\ \A q \in Procs \ {p} : /\ pc'[q] = pc[q] /\ task'[q] = task[q]
                                /\ name'[q] = name[q] /\ row'[q] = row[q]
  BY <1>1, LookupReturns
<1>4. Elsewhere(p)
  BY <1>1, <1>3 DEF Elsewhere
<1>5. LockIsHeld'
  BY <1>1, <1>2, <1>3, <1>4, LockFrom, NotNone DEF Locked, Syncing, Inv
<1>6. Control'
  <2>1. ControlAt(p)'
    BY <1>3 DEF ControlAt, Syncing
  <2> QED
    BY <1>4, <2>1, ControlFrom DEF Inv
<1>7. TableType' /\ OwnImages' /\ late' \in BOOLEAN /\ (Fault \/ UNCHANGED faults)
  <2>1. CASE /\ table' = SaveMXC(name[p], row[p].url)
             /\ late' = (late \/ ~Has(name[p], ValueOf(row[p])))
             /\ UNCHANGED faults
    <3>1. row[p].url \in Urls \cup {None}
      BY <1>1, RowFields
    <3>2. TableType'
      BY <2>1, <3>1, SaveType DEF TableType, Table, Inv, TypeOK
    <3>3. OwnImages'
      <4>1. SUFFICES ASSUME ~late' PROVE OwnImages'
        BY DEF OwnImages
      <4>2. ~late /\ Has(name[p], ValueOf(row[p]))
        BY <2>1, <4>1
      <4>3. Own(table) => Own(SaveMXC(name[p], row[p].url))
        BY <1>1, <4>2, SaveOwn DEF Inv, TypeOK
      <4> QED
        BY <2>1, <4>2, <4>3, OwnFrom DEF Inv
    <3>4. late' \in BOOLEAN
      BY <2>1 DEF HistoryType, Inv, TypeOK
    <3> QED
      BY <2>1, <3>2, <3>3, <3>4
  <2>2. CASE Fault /\ UNCHANGED <<table, late>>
    BY <2>2 DEF TableType, OwnImages, HistoryType, Inv, TypeOK
  <2> QED
    BY <2>1, <2>2 DEF Upload
<1>8. BoundType' /\ HistoryType'
  <2>1. BoundType'
    BY <1>1, <1>7, FaultCounts DEF Inv, TypeOK
  <2> QED
    BY <1>1, <1>7, <2>1 DEF HistoryType, Inv, TypeOK
<1>9. SlackType' /\ PendingType' /\ SyncType'
  BY <1>1, SameSync DEF SlackType, PendingType, Inv, TypeOK
<1> QED
  BY <1>3, <1>5, <1>6, <1>7, <1>8, <1>9 DEF Inv, TypeOK

LEMMA TryLockInv ==
  ASSUME Inv, NEW p \in Procs, TryLock(p)
  PROVE  Inv'
<1>1. /\ pc[p] = "try" /\ task[p] = "lookup" /\ name[p] \in Names /\ lock \in Procs \cup {Free}
      /\ UNCHANGED <<slack, pending, table, task, list, todo, created, history>>
  BY DEF TryLock, Inv, Control, ControlAt, TypeOK, PlaceType
<1>2. ~Locked(p) /\ lock # p
  BY <1>1 DEF LockIsHeld, Locked, Syncing, Inv
<1>3. /\ PlaceType' /\ LookupType' /\ Elsewhere(p) /\ LockIsHeld' /\ ControlAt(p)'
  <2>1. CASE /\ lock = Free /\ lock' = p /\ Goto(p, "fetch")
             /\ UNCHANGED <<name, deep, again, row>>
    <3>1. /\ PlaceType' /\ pc'[p] = "fetch" /\ task'[p] = "lookup"
          /\ \A q \in Procs \ {p} : pc'[q] = pc[q] /\ task'[q] = task[q]
      BY <1>1, <2>1, PlaceStep DEF PCs, Syncing
    <3>2. Elsewhere(p)
      BY <1>1, <2>1, <3>1 DEF Elsewhere
    <3>3. LockIsHeld'
      BY <2>1, <3>1, <3>2, LockFrom, NotNone DEF Locked, Syncing, Inv
    <3>4. ControlAt(p)'
      BY <1>1, <2>1, <3>1 DEF ControlAt, Syncing
    <3> QED
      BY <2>1, <3>1, <3>2, <3>3, <3>4, SameLookup
  <2>2. CASE lock # Free /\ Return(p) /\ UNCHANGED lock
    <3>1. /\ PlaceType' /\ LookupType' /\ pc'[p] \in {"idle", "next"}
          /\ \A q \in Procs \ {p} : /\ pc'[q] = pc[q] /\ task'[q] = task[q]
                                    /\ name'[q] = name[q] /\ row'[q] = row[q]
      BY <1>1, <2>2, LookupReturns
    <3>2. Elsewhere(p)
      BY <1>1, <3>1 DEF Elsewhere
    <3>3. LockIsHeld'
      BY <1>2, <2>2, <3>1, <3>2, LockFrom DEF Locked, Syncing, Inv
    <3>4. ControlAt(p)'
      BY <3>1 DEF ControlAt, Syncing
    <3> QED
      BY <3>1, <3>2, <3>3, <3>4
  <2> QED
    BY <2>1, <2>2 DEF TryLock
<1>4. Control'
  BY <1>3, ControlFrom DEF Inv
<1>5. SlackType' /\ PendingType' /\ TableType' /\ OwnImages' /\ BoundType' /\ HistoryType' /\ SyncType'
  BY <1>1, SameWorld, SameHistory, SameSync DEF history
<1> QED
  BY <1>3, <1>4, <1>5 DEF Inv, TypeOK

LEMMA LockSyncInv ==
  ASSUME Inv, NEW p \in Procs, LockSync(p)
  PROVE  Inv'
<1>1. /\ pc[p] = "wait" /\ task[p] \in {"startup", "unknown"} /\ lock = Free /\ lock' = p
      /\ UNCHANGED <<slack, pending, table, task, name, deep, again, row, list, todo, created, history>>
  BY DEF LockSync, Inv, Control, ControlAt
<1>2. /\ PlaceType' /\ pc'[p] = "fetch" /\ task'[p] = task[p]
      /\ \A q \in Procs \ {p} : pc'[q] = pc[q]
  BY <1>1, PlaceStep DEF LockSync, PCs, Syncing
<1>3. Elsewhere(p)
  BY <1>1, <1>2 DEF Elsewhere
<1>4. LockIsHeld'
  BY <1>1, <1>2, <1>3, LockFrom, NotNone DEF Locked, Syncing, Inv
<1>5. Control'
  <2>1. ControlAt(p)'
    BY <1>1, <1>2 DEF ControlAt, Syncing
  <2> QED
    BY <1>3, <2>1, ControlFrom DEF Inv
<1>6. /\ SlackType' /\ PendingType' /\ TableType' /\ OwnImages' /\ BoundType' /\ HistoryType'
      /\ SyncType' /\ LookupType'
  BY <1>1, SameWorld, SameHistory, SameSync, SameLookup DEF history
<1> QED
  BY <1>2, <1>4, <1>5, <1>6 DEF Inv, TypeOK

-----------------------------------------------------------------------------
(* The steps of a sync. *)

LEMMA LeaveFacts ==
  ASSUME Inv, NEW p \in Procs, Leave(p), pc[p] \in Syncing
  PROVE  PlaceType' /\ LookupType' /\ SyncType' /\ LockIsHeld' /\ Control'
<1>1. /\ lock' = (IF lock = p THEN Free ELSE lock)
      /\ pc' = [pc EXCEPT ![p] = "idle"] /\ task' = [task EXCEPT ![p] = "lookup"]
      /\ name' = [name EXCEPT ![p] = None]
      /\ UNCHANGED <<deep, again, row, list, todo, created>>
  BY DEF Leave, Unlock, Goto
<1>2. /\ PlaceType' /\ pc'[p] = "idle"
      /\ \A q \in Procs \ {p} : pc'[q] = pc[q] /\ task'[q] = task[q]
  BY <1>1 DEF PlaceType, PCs, Tasks, Inv, TypeOK
<1>3. LookupType' /\ \A q \in Procs \ {p} : name'[q] = name[q]
  BY <1>1 DEF LookupType, Inv, TypeOK
<1>4. Elsewhere(p)
  BY <1>1, <1>2, <1>3 DEF Elsewhere
<1>5. LockIsHeld'
  BY <1>1, <1>2, <1>4, LockFrom, NotNone DEF Locked, Syncing, Inv
<1>6. Control'
  <2>1. ControlAt(p)'
    BY <1>2 DEF ControlAt, Syncing
  <2> QED
    BY <1>4, <2>1, ControlFrom DEF Inv
<1> QED
  BY <1>1, <1>2, <1>3, <1>5, <1>6, SameSync

LEMMA FetchInv ==
  ASSUME Inv, NEW p \in Procs, Fetch(p)
  PROVE  Inv'
<1>1. /\ pc[p] = "fetch"
      /\ UNCHANGED <<slack, pending, table, changes, trusted, late>>
      /\ Fault \/ UNCHANGED faults
  BY DEF Fetch
<1>2. /\ PlaceType' /\ LookupType' /\ SyncType' /\ LockIsHeld' /\ Control'
      /\ dirty' \in [Procs -> BOOLEAN]
  <2>1. CASE Leave(p) /\ UNCHANGED dirty
    BY <1>1, <2>1, LeaveFacts DEF Syncing, HistoryType, Inv, TypeOK
  <2>2. CASE /\ list' = [list EXCEPT ![p] = slack]
             /\ todo' = [todo EXCEPT ![p] = Present(slack)]
             /\ created' = [created EXCEPT ![p] = Nowhere]
             /\ dirty' = [dirty EXCEPT ![p] = ~Replayable]
             /\ Goto(p, "put")
             /\ UNCHANGED <<lock, task, name, deep, again, row>>
    <3>1. /\ PlaceType' /\ pc'[p] = "put" /\ task'[p] = task[p]
          /\ \A q \in Procs \ {p} : pc'[q] = pc[q] /\ task'[q] = task[q]
      BY <2>2, PlaceStep DEF PCs, Syncing, Inv, TypeOK, PlaceType
    <3>2. slack \in [Names -> Value \cup {None}] /\ Present(slack) \subseteq Names
      BY DEF Inv, TypeOK, SlackType, Present
    <3>3. Nowhere \in [Names -> Urls \cup {None}]
      BY DEF Nowhere
    <3>4. list' \in [Procs -> [Names -> Value \cup {None}]]
          /\ list'[p] = slack /\ \A q \in Procs \ {p} : list'[q] = list[q]
      BY <2>2, <3>2 DEF Inv, TypeOK, SyncType
    <3>5. todo' \in [Procs -> SUBSET Names]
          /\ todo'[p] = Present(slack) /\ \A q \in Procs \ {p} : todo'[q] = todo[q]
      BY <2>2, <3>2 DEF Inv, TypeOK, SyncType
    <3>6. SyncType'
      BY <2>2, <3>3, <3>4, <3>5 DEF Inv, TypeOK, SyncType
    <3>7. Elsewhere(p)
      BY <2>2, <3>1, <3>4, <3>5 DEF Elsewhere
    <3>8. LockIsHeld'
      BY <1>1, <2>2, <3>1, <3>7, LockFrom DEF LockIsHeld, Locked, Syncing, Inv
    <3>9. Control'
      <4>1. Present(list[p])' = Present(slack)
        BY <3>4 DEF Present
      <4>2. ControlAt(p)'
        BY <1>1, <2>2, <3>1, <3>5, <4>1 DEF ControlAt, Control, Syncing, Inv
      <4> QED
        BY <3>7, <4>2, ControlFrom DEF Inv
    <3>10. dirty' \in [Procs -> BOOLEAN]
      BY <2>2 DEF HistoryType, Inv, TypeOK
    <3> QED
      BY <2>2, <3>1, <3>6, <3>8, <3>9, <3>10, SameLookup
  <2> QED
    BY <2>1, <2>2 DEF Fetch
<1>3. BoundType' /\ HistoryType'
  <2>1. BoundType'
    BY <1>1, FaultCounts DEF Inv, TypeOK
  <2> QED
    BY <1>1, <1>2, <2>1 DEF HistoryType, Inv, TypeOK
<1>4. SlackType' /\ PendingType' /\ TableType' /\ OwnImages'
  BY <1>1, SameWorld
<1> QED
  BY <1>2, <1>3, <1>4 DEF Inv, TypeOK

(* One entry of the answer, saved.                                          *)
LEMMA EntrySaved ==
  ASSUME Inv, NEW p \in Procs, NEW n \in Names, list[p][n] \in Value, late' = late,
         IF list[p][n].alias = None
         THEN /\ table' = addEmoji(n, list[p][n])
              /\ created' = [created EXCEPT ![p][n] = table'[n].image]
         ELSE /\ table' = Deferred(p, n)
              /\ UNCHANGED created
  PROVE  TableType' /\ OwnImages' /\ created' \in [Procs -> [Names -> Urls \cup {None}]]
<1> DEFINE v == list[p][n]
<1>1. v \in Value /\ TableType /\ created \in [Procs -> [Names -> Urls \cup {None}]]
  BY DEF Inv, TypeOK, SyncType
<1>2. CASE v.alias = None
  <2>1. table' = addEmoji(n, v) /\ created' = [created EXCEPT ![p][n] = table'[n].image]
    BY <1>2
  <2>2. table' \in Table
    BY <1>1, <2>1, AddType
  <2>3. OwnImages'
    BY <1>1, <2>1, AddOwn, OwnFrom DEF Inv
  <2>4. table'[n].image \in Urls \cup {None}
    BY <1>1, <2>1, AddHere, RowFields
  <2>5. created' \in [Procs -> [Names -> Urls \cup {None}]]
    BY <1>1, <2>1, <2>4
  <2> QED
    BY <2>2, <2>3, <2>5 DEF TableType, Table
<1>3. CASE v.alias # None
  <2> DEFINE image == created[p][v.alias]
  <2>1. table' = [table EXCEPT ![n] = Entry(v, image)] /\ UNCHANGED created
    BY <1>3 DEF Deferred
  <2>2. v.alias \in Names
    BY <1>1, <1>3, ValueFields
  <2>3. image \in Urls \cup {None}
    BY <1>1, <2>2
  <2> HIDE DEF image
  <2>4. Entry(v, image) \in Row /\ Entry(v, image).alias # None
    BY <1>1, <1>3, <2>3, EntryType, EntryFields
  <2>5. TableType'
    BY <1>1, <2>1, <2>4, TablePut DEF TableType, Table
  <2>6. \A m \in Names : table'[m] = IF m = n THEN Entry(v, image) ELSE table[m]
    BY <1>1, <2>1 DEF TableType
  <2>7. OwnImages'
    BY <2>4, <2>6 DEF OwnImages, Inv
  <2> QED
    BY <1>1, <2>1, <2>5, <2>7
<1> QED
  BY <1>2, <1>3

LEMMA PutInv ==
  ASSUME Inv, NEW p \in Procs, Put(p)
  PROVE  Inv'
<1>1. /\ pc[p] = "put" /\ todo[p] \subseteq Present(list[p])
      /\ UNCHANGED <<slack, pending, lock, pc, task, name, deep, again, row, list, changes, late>>
  BY DEF Put, Inv, Control, ControlAt
<1>2. PICK n \in Due(p) :
        /\ todo' = [todo EXCEPT ![p] = @ \ {n}]
        /\ \/ /\ IF list[p][n].alias = None
                 THEN /\ table' = addEmoji(n, list[p][n])
                      /\ created' = [created EXCEPT ![p][n] = table'[n].image]
                 ELSE /\ table' = Deferred(p, n)
                      /\ UNCHANGED created
              /\ trusted' = (trusted /\ ~dirty[p])
              /\ Soil(p)
              /\ UNCHANGED faults
           \/ /\ Fault
              /\ dirty' = [dirty EXCEPT ![p] = TRUE]
              /\ trusted' = FALSE
              /\ UNCHANGED <<table, created>>
  BY DEF Put
<1>3. n \in todo[p] /\ n \in Names /\ list[p][n] \in Value
  BY <1>1 DEF Due, Present, Inv, TypeOK, SyncType
<1>4. /\ TableType' /\ OwnImages' /\ created' \in [Procs -> [Names -> Urls \cup {None}]]
      /\ dirty' \in [Procs -> BOOLEAN] /\ trusted' \in BOOLEAN
      /\ Fault \/ UNCHANGED faults
  <2>1. CASE Fault /\ dirty' = [dirty EXCEPT ![p] = TRUE] /\ trusted' = FALSE
             /\ UNCHANGED <<table, created>>
    <3>1. TableType' /\ OwnImages' /\ created' \in [Procs -> [Names -> Urls \cup {None}]]
      BY <1>1, <2>1, SameWorld DEF Inv, TypeOK, SyncType
    <3> QED
      BY <2>1, <3>1 DEF Inv, TypeOK, HistoryType
  <2>2. CASE /\ IF list[p][n].alias = None
                THEN /\ table' = addEmoji(n, list[p][n])
                     /\ created' = [created EXCEPT ![p][n] = table'[n].image]
                ELSE /\ table' = Deferred(p, n)
                     /\ UNCHANGED created
             /\ trusted' = (trusted /\ ~dirty[p]) /\ Soil(p) /\ UNCHANGED faults
    <3>1. TableType' /\ OwnImages' /\ created' \in [Procs -> [Names -> Urls \cup {None}]]
      BY <1>1, <1>3, <2>2, EntrySaved
    <3>2. dirty' \in [Procs -> BOOLEAN]
      BY <2>2 DEF Soil, Inv, TypeOK, HistoryType
    <3>3. trusted' \in BOOLEAN
      BY <2>2 DEF Inv, TypeOK, HistoryType
    <3> QED
      BY <2>2, <3>1, <3>2, <3>3
  <2> QED
    BY <1>2, <2>1, <2>2
<1>5. todo' \in [Procs -> SUBSET Names] /\ todo'[p] = todo[p] \ {n}
      /\ \A q \in Procs \ {p} : todo'[q] = todo[q]
  BY <1>2 DEF Inv, TypeOK, SyncType
<1>6. SyncType'
  BY <1>1, <1>4, <1>5 DEF Inv, TypeOK, SyncType
<1>7. Elsewhere(p)
  BY <1>1, <1>5 DEF Elsewhere
<1>8. LockIsHeld'
  BY <1>1 DEF LockIsHeld, Locked, Inv
<1>9. Control'
  <2>1. ControlAt(p)'
    BY <1>1, <1>5 DEF ControlAt, Control, Present, Syncing, Inv
  <2> QED
    BY <1>7, <2>1, ControlFrom DEF Inv
<1>10. BoundType' /\ HistoryType'
  <2>1. BoundType'
    BY <1>1, <1>4, FaultCounts DEF Inv, TypeOK
  <2> QED
    BY <1>1, <1>4, <2>1 DEF HistoryType, Inv, TypeOK
<1>11. SlackType' /\ PendingType' /\ PlaceType' /\ LookupType'
  BY <1>1, SameLookup DEF SlackType, PendingType, PlaceType, Inv, TypeOK
<1> QED
  BY <1>4, <1>6, <1>8, <1>9, <1>10, <1>11 DEF Inv, TypeOK

LEMMA PutDoneInv ==
  ASSUME Inv, NEW p \in Procs, PutDone(p)
  PROVE  Inv'
<1>1. /\ pc[p] = "put"
      /\ UNCHANGED <<slack, pending, table, lock, task, name, deep, again, row, list, todo, created, history>>
  BY DEF PutDone
<1>2. /\ PlaceType' /\ pc'[p] = "prune"
      /\ \A q \in Procs \ {p} : pc'[q] = pc[q]
  BY <1>1, PlaceStep DEF PutDone, PCs, Syncing, Inv, TypeOK, PlaceType
<1>3. Elsewhere(p)
  BY <1>1, <1>2 DEF Elsewhere
<1>4. LockIsHeld'
  BY <1>1, <1>2, <1>3, LockFrom DEF LockIsHeld, Locked, Syncing, Inv
<1>5. Control'
  <2>1. ControlAt(p)'
    BY <1>1, <1>2 DEF Control, ControlAt, Syncing, Inv
  <2> QED
    BY <1>3, <2>1, ControlFrom DEF Inv
<1>6. /\ SlackType' /\ PendingType' /\ TableType' /\ OwnImages' /\ BoundType' /\ HistoryType'
      /\ SyncType' /\ LookupType'
  BY <1>1, SameWorld, SameHistory, SameSync, SameLookup DEF history
<1> QED
  BY <1>2, <1>4, <1>5, <1>6 DEF Inv, TypeOK

LEMMA PruneInv ==
  ASSUME Inv, NEW p \in Procs, PruneRemoved(p)
  PROVE  Inv'
<1> DEFINE label == CASE task[p] = "lookup" -> "read" [] task[p] = "pack" -> "next" [] OTHER -> "idle"
<1>1. /\ pc[p] = "prune" /\ Synced(p)
      /\ UNCHANGED <<slack, pending, name, deep, row, changes, late>>
      /\ Fault \/ UNCHANGED faults
  BY DEF PruneRemoved
<1>2. TableType' /\ OwnImages' /\ trusted' \in BOOLEAN
  <2>1. CASE UNCHANGED table
    BY <1>1, <2>1, SameWorld DEF PruneRemoved, Inv, TypeOK, HistoryType
  <2>2. CASE table' = Prune(Present(list[p]))
    <3>1. TableType' /\ OwnImages'
      BY <1>1, <2>2, PruneFacts, OwnFrom DEF TableType, Table, Inv, TypeOK
    <3>2. trusted' \in BOOLEAN
      BY DEF PruneRemoved, Inv, TypeOK, HistoryType
    <3> QED
      BY <3>1, <3>2
  <2> QED
    BY <2>1, <2>2 DEF PruneRemoved
<1>3. /\ lock' = (IF lock = p THEN Free ELSE lock)
      /\ pc' = [pc EXCEPT ![p] = label]
      /\ task' = [task EXCEPT ![p] = IF @ = "pack" THEN @ ELSE "lookup"]
  BY <1>1 DEF Synced, Unlock, Goto
<1>4. /\ PlaceType' /\ pc'[p] = label
      /\ task'[p] = IF task[p] = "pack" THEN "pack" ELSE "lookup"
      /\ \A q \in Procs \ {p} : pc'[q] = pc[q] /\ task'[q] = task[q]
  <2>1. label \in PCs
    BY DEF PCs
  <2> HIDE DEF label
  <2>2. pc' \in [Procs -> PCs] /\ pc'[p] = label /\ \A q \in Procs \ {p} : pc'[q] = pc[q]
    BY <1>3, <2>1 DEF Inv, TypeOK, PlaceType
  <2>3. /\ task' \in [Procs -> Tasks]
        /\ task'[p] = IF task[p] = "pack" THEN "pack" ELSE "lookup"
        /\ \A q \in Procs \ {p} : task'[q] = task[q]
    BY <1>3 DEF Inv, TypeOK, PlaceType, Tasks
  <2> QED
    BY <1>3, <2>2, <2>3 DEF Inv, TypeOK, PlaceType
<1>5. pc'[p] \in {"read", "next", "idle"} /\ (pc'[p] = "read" => task[p] = "lookup")
  BY <1>4
<1>6. LookupType'
  BY <1>1 DEF Synced, LookupType, Inv, TypeOK
<1>7. /\ SyncType'
      /\ \A q \in Procs \ {p} : todo'[q] = todo[q] /\ list'[q] = list[q]
  <2>1. list' \in [Procs -> [Names -> Value \cup {None}]] /\ \A q \in Procs \ {p} : list'[q] = list[q]
    BY <1>1 DEF Synced, Nowhere, SyncType, Inv, TypeOK
  <2>2. created' \in [Procs -> [Names -> Urls \cup {None}]]
    BY <1>1 DEF Synced, Nowhere, SyncType, Inv, TypeOK
  <2>3. todo' \in [Procs -> SUBSET Names] /\ \A q \in Procs \ {p} : todo'[q] = todo[q]
    BY <1>1 DEF Synced, Present, SyncType, Inv, TypeOK
  <2> QED
    BY <2>1, <2>2, <2>3 DEF SyncType
<1>8. Elsewhere(p)
  BY <1>1, <1>4, <1>7 DEF Elsewhere
<1>9. LockIsHeld'
  BY <1>3, <1>5, <1>8, LockFrom, NotNone DEF Locked, Syncing, Inv
<1>10. Control'
  <2>1. ControlAt(p)'
    BY <1>1, <1>5 DEF Control, ControlAt, Syncing, Inv
  <2> QED
    BY <1>8, <2>1, ControlFrom DEF Inv
<1>11. BoundType' /\ HistoryType'
  <2>1. BoundType'
    BY <1>1, FaultCounts DEF Inv, TypeOK
  <2>2. dirty' \in [Procs -> BOOLEAN]
    BY <1>1 DEF Synced, HistoryType, Inv, TypeOK
  <2> QED
    BY <1>1, <1>2, <2>1, <2>2 DEF HistoryType, Inv, TypeOK
<1>12. SlackType' /\ PendingType'
  BY <1>1 DEF SlackType, PendingType, Inv, TypeOK
<1> QED
  BY <1>2, <1>4, <1>6, <1>7, <1>9, <1>10, <1>11, <1>12 DEF Inv, TypeOK

LEMMA NextOfPackInv ==
  ASSUME Inv, NEW p \in Procs, NextOfPack(p)
  PROVE  Inv'
<1>1. /\ pc[p] = "next"
      /\ UNCHANGED <<slack, pending, table, lock, deep, again, row, list, created, history>>
  BY DEF NextOfPack
<1>2. /\ PlaceType' /\ LookupType' /\ SyncType'
      /\ pc'[p] \in {"read", "idle"} /\ (pc'[p] = "read" => name'[p] \in Names)
      /\ \A q \in Procs \ {p} : /\ pc'[q] = pc[q] /\ task'[q] = task[q]
                                /\ name'[q] = name[q] /\ todo'[q] = todo[q]
  <2>1. ASSUME NEW n \in todo[p], todo' = [todo EXCEPT ![p] = @ \ {n}],
               name' = [name EXCEPT ![p] = n], Goto(p, "read"), UNCHANGED task
        PROVE  /\ PlaceType' /\ LookupType' /\ SyncType'
               /\ pc'[p] \in {"read", "idle"} /\ (pc'[p] = "read" => name'[p] \in Names)
               /\ \A q \in Procs \ {p} : /\ pc'[q] = pc[q] /\ task'[q] = task[q]
                                         /\ name'[q] = name[q] /\ todo'[q] = todo[q]
    <3>1. n \in Names
      BY DEF Inv, TypeOK, SyncType
    <3>2. /\ PlaceType' /\ pc'[p] = "read"
          /\ \A q \in Procs \ {p} : pc'[q] = pc[q] /\ task'[q] = task[q]
      BY <1>1, <2>1 DEF Goto, PlaceType, PCs, Inv, TypeOK
    <3>3. LookupType' /\ name'[p] = n /\ \A q \in Procs \ {p} : name'[q] = name[q]
      BY <1>1, <2>1, <3>1 DEF LookupType, Inv, TypeOK
    <3>4. todo' \in [Procs -> SUBSET Names] /\ \A q \in Procs \ {p} : todo'[q] = todo[q]
      BY <2>1 DEF SyncType, Inv, TypeOK
    <3>5. SyncType'
      BY <1>1, <3>4 DEF SyncType, Inv, TypeOK
    <3> QED
      BY <3>1, <3>2, <3>3, <3>4, <3>5
  <2>2. CASE Goto(p, "idle") /\ task' = [task EXCEPT ![p] = "lookup"] /\ UNCHANGED <<todo, name>>
    <3>1. /\ PlaceType' /\ pc'[p] = "idle"
          /\ \A q \in Procs \ {p} : pc'[q] = pc[q] /\ task'[q] = task[q]
      BY <1>1, <2>2 DEF Goto, PlaceType, PCs, Tasks, Inv, TypeOK
    <3> QED
      BY <1>1, <2>2, <3>1, SameLookup, SameSync
  <2> QED
    BY <2>1, <2>2 DEF NextOfPack
<1>3. Elsewhere(p)
  BY <1>1, <1>2 DEF Elsewhere
<1>4. LockIsHeld'
  BY <1>1, <1>2, <1>3, LockFrom DEF LockIsHeld, Locked, Syncing, Inv
<1>5. Control'
  <2>1. ControlAt(p)'
    BY <1>2 DEF ControlAt, Syncing
  <2> QED
    BY <1>3, <2>1, ControlFrom DEF Inv
<1>6. SlackType' /\ PendingType' /\ TableType' /\ OwnImages' /\ BoundType' /\ HistoryType'
  BY <1>1, SameWorld, SameHistory DEF history
<1> QED
  BY <1>2, <1>4, <1>5, <1>6 DEF Inv, TypeOK

-----------------------------------------------------------------------------
(* The end of the process. *)

LEMMA StopInv ==
  ASSUME Inv, Stop, Fault \/ UNCHANGED faults
  PROVE  Inv'
<1>1. SlackType' /\ TableType' /\ PendingType' /\ OwnImages'
  BY DEF Stop, SlackType, TableType, PendingType, OwnImages, Inv, TypeOK
<1>2. PlaceType' /\ LookupType'
  BY DEF Stop, PlaceType, LookupType, PCs, Tasks
<1>3. SyncType'
  BY DEF Stop, Nowhere, SyncType
<1>4. LockIsHeld'
  BY NotNone DEF Stop, LockIsHeld, Locked, Syncing
<1>5. Control'
  BY DEF Stop, Control, ControlAt, Syncing
<1>6. BoundType'
  BY FaultCounts DEF Stop, Inv, TypeOK
<1>7. trusted' \in BOOLEAN
  BY DEF Stop, HistoryType, Inv, TypeOK
<1>8. HistoryType'
  BY <1>7 DEF Stop, HistoryType, Inv, TypeOK
<1> QED
  BY <1>1, <1>2, <1>3, <1>4, <1>5, <1>6, <1>8 DEF Inv, TypeOK

LEMMA PanicInv ==
  ASSUME Inv, NEW p \in Procs, Panic(p)
  PROVE  Inv'
<1>1. CASE Stop /\ UNCHANGED faults
  BY <1>1, StopInv
<1>2. CASE /\ Leave(p) /\ trusted' = FALSE
           /\ UNCHANGED <<slack, pending, table, changes, faults, dirty, late>>
  <2>1. PlaceType' /\ LookupType' /\ SyncType' /\ LockIsHeld' /\ Control'
    BY <1>2, LeaveFacts DEF Panic, Syncing
  <2>2. SlackType' /\ PendingType' /\ TableType' /\ OwnImages'
    BY <1>2, SameWorld
  <2>3. BoundType' /\ HistoryType'
    BY <1>2, FaultCounts DEF HistoryType, Inv, TypeOK
  <2> QED
    BY <2>1, <2>2, <2>3 DEF Inv, TypeOK
<1> QED
  BY <1>1, <1>2 DEF Panic

LEMMA StutterInv ==
  ASSUME Inv, UNCHANGED vars
  PROVE  Inv'
<1>1. PlaceType' /\ LookupType' /\ SyncType' /\ LockIsHeld' /\ Control'
  BY SameProcs DEF vars
<1>2. SlackType' /\ PendingType' /\ TableType' /\ OwnImages' /\ BoundType' /\ HistoryType'
  BY SameWorld, SameHistory DEF vars, history
<1> QED
  BY <1>1, <1>2 DEF Inv, TypeOK

-----------------------------------------------------------------------------
(* The team's mutex is held exactly by the goroutine that uploads or syncs, *)
(* and no image row names the upload of another URL, except after an upload *)
(* that waited for the lock while its row changed (emoji.go:86-342).        *)
THEOREM Invariance == Spec => []Inv
<1>1. ASSUME Inv, [Next]_vars PROVE Inv'
  <2>1. CASE \E n \in Names, u \in Urls : AddImage(n, u)
    BY <1>1, <2>1, AddImageInv
  <2>2. CASE \E n, t \in Names : AddAlias(n, t)
    BY <1>1, <2>2, AddAliasInv
  <2>3. CASE \E n \in Names : RemoveEmoji(n)
    BY <1>1, <2>3, RemoveEmojiInv
  <2>4. CASE \E o, n \in Names : RenameEmoji(o, n)
    BY <1>1, <2>4, RenameEmojiInv
  <2>5. CASE \E i \in DOMAIN pending : handleEmojiChange(i)
    BY <1>1, <2>5, EventInv
  <2>6. CASE \E p \in Procs, kind \in Kinds, n \in Names : Start(p, kind, n)
    BY <1>1, <2>6, StartInv
  <2>7. ASSUME NEW p \in Procs, Step(p) PROVE Inv'
    BY <1>1, <2>7, ReadInv, LockUploadInv, UploadInv, TryLockInv, LockSyncInv, FetchInv, PutInv,
       PutDoneInv, PruneInv, PanicInv, NextOfPackInv DEF Step
  <2>8. CASE Restart
    BY <1>1, <2>8, StopInv DEF Restart
  <2>9. CASE UNCHANGED vars
    BY <1>1, <2>9, StutterInv
  <2> QED
    BY <1>1, <2>1, <2>2, <2>3, <2>4, <2>5, <2>6, <2>7, <2>8, <2>9 DEF Next
<1> QED
  BY <1>1, InitInv, PTL DEF Spec

(* Two goroutines never work under the team's mutex at once, and no exit    *)
(* leaves it locked (emoji.go:203-223, 322).                                *)
THEOREM MutexDiscipline == Spec => []LockIsHeld
BY Invariance, PTL DEF Inv

(* No add, rename, sync or prune moves an image to another URL.             *)
THEOREM ImagesAreOwn == Spec => []OwnImages
BY Invariance, PTL DEF Inv

-----------------------------------------------------------------------------
(* What the waiting events tell. *)

(* What an event says of an emoji that it touches.                          *)
Tells(e, n) == IF e.type = "remove" \/ n = e.old THEN None ELSE e.value

(* No event of q at an index of S touches n.                                *)
Silent(q, S, n) == \A k \in S : n \notin Touched(q[k])

(* Where f is the state before the events q, and those before i are         *)
(* applied, n has the value v.                                              *)
At(q, f, n, i, v) ==
  /\ Silent(q, 1..(i - 1), n) => f[n] = v
  /\ \A j \in 1..(i - 1) :
       n \in Touched(q[j]) /\ Silent(q, (j + 1)..(i - 1), n) => Tells(q[j], n) = v

(* After all of the events, f has become s; and a rename finds the old name *)
(* and not the new one.                                                     *)
Follows(q, f, s) ==
  /\ \A n \in Names : At(q, f, n, Len(q) + 1, s[n])
  /\ \A i \in 1..Len(q) : q[i].type = "rename" =>
       /\ At(q, f, q[i].old, i, q[i].value)
       /\ \A n \in q[i].names : At(q, f, n, i, None)

(* The last event of an emoji tells what it is, if it was not overtaken.    *)
Told(q, s) ==
  \A i \in 1..Len(q), n \in Names :
    n \in Touched(q[i]) /\ ~q[i].overtaken /\ Silent(q, (i + 1)..Len(q), n) => Tells(q[i], n) = s[n]

-----------------------------------------------------------------------------
(* The inductive invariant of the values and of the aliases' images. *)

Values(t) == [n \in Names |-> IF t[n] = None THEN None ELSE ValueOf(t[n])]

(* Rows are images or aliases.                                              *)
Valued == \A n \in Names : table[n] # None => ValueOf(table[n]) \in Value

(* The target of an alias is an image.                                      *)
Closed(s) ==
  \A n \in Names : s[n] # None /\ s[n].alias # None =>
    s[s[n].alias] # None /\ s[s[n].alias].alias = None

(* What an undisturbed sync has written, of the answer it works on.         *)
Written(p) == Present(list[p]) \ todo[p]
Images(p) == {n \in Present(list[p]) : list[p][n].alias = None}

(* The answer is what the events still waiting start from, its entries are  *)
(* in the table as far as they are done, and aliases come last and have the *)
(* images of their targets.                                                 *)
Undisturbed(p) ==
  /\ Follows(pending, list[p], slack)
  /\ Closed(list[p])
  /\ \A n \in Written(p) : Has(n, list[p][n])
  /\ \A n \in Written(p) \ Images(p) : Images(p) \subseteq Written(p)
  /\ ~late => /\ \A n \in Written(p) \cap Images(p) : created[p][n] \in {None, list[p][n].url}
              /\ \A n \in Written(p) \ Images(p) :
                   table[n].image \in {None, list[p][list[p][n].alias].url}

Saving == {"put", "prune"}
SyncAt(p) ==
  /\ pc[p] = "prune" => todo[p] = {}
  /\ pc[p] \in Saving /\ ~dirty[p] => Undisturbed(p)
  /\ pc[p] \in {"queue", "upload"} => row[p].alias = None

MirrorInv ==
  /\ Told(pending, slack)
  /\ Closed(slack)
  /\ Valued
  /\ trusted => Follows(pending, Values(table), slack)
  /\ \A p \in Procs : SyncAt(p)

-----------------------------------------------------------------------------
(* Sequences of events. *)

(* A queue of events.                                                       *)
LEMMA EventSeq ==
  ASSUME NEW q \in Seq(Event)
  PROVE  Len(q) \in Nat /\ DOMAIN q = 1..Len(q) /\ \A i \in 1..Len(q) : q[i] \in Event
OBVIOUS

(* What an event touches.                                                   *)
LEMMA TouchedNames ==
  ASSUME NEW e \in Event
  PROVE  /\ e.overtaken \in BOOLEAN
         /\ \A n \in Names : n \in Touched(e) <=> n \in e.names \/ (e.type = "rename" /\ n = e.old)
         /\ e.type # "rename" => e.old = None
         /\ e.type = "rename" => e.old \in Names
BY NotNone DEF Event, Touched, Only

(* A new event changes nothing before it.                                   *)
LEMMA AtAppend ==
  ASSUME NEW q \in Seq(Event), NEW e \in Event, NEW f, NEW n, NEW v, NEW i \in 1..(Len(q) + 1)
  PROVE  At(Append(q, e), f, n, i, v) <=> At(q, f, n, i, v)
<1>1. PICK r : r = Append(q, e)
  OBVIOUS
<1>2. \A j \in 1..(i - 1) : r[j] = q[j]
  BY <1>1
<1>3. \A j \in 1..(i - 1) : (j + 1)..(i - 1) \subseteq 1..(i - 1)
  OBVIOUS
<1>4. Silent(r, 1..(i - 1), n) <=> Silent(q, 1..(i - 1), n)
  BY <1>2 DEF Silent
<1>5. \A j \in 1..(i - 1) : Silent(r, (j + 1)..(i - 1), n) <=> Silent(q, (j + 1)..(i - 1), n)
  BY <1>2, <1>3 DEF Silent
<1> QED
  BY <1>1, <1>2, <1>4, <1>5 DEF At

(* What the new event tells of an emoji is what comes after it.             *)
LEMMA AtAfterAppend ==
  ASSUME NEW q \in Seq(Event), NEW e \in Event, NEW f, NEW n, NEW v
  PROVE  At(Append(q, e), f, n, Len(q) + 2, v) <=>
           IF n \in Touched(e) THEN Tells(e, n) = v ELSE At(q, f, n, Len(q) + 1, v)
<1>1. PICK r : r = Append(q, e)
  OBVIOUS
<1>2. PICK l \in Nat : l = Len(q)
  BY EventSeq
<1>3. (\A j \in 1..l : r[j] = q[j]) /\ r[l + 1] = e
  BY <1>1, <1>2
<1>4. (l + 2) - 1 = l + 1 /\ (l + 1) - 1 = l /\ 1..(l + 1) = 1..l \cup {l + 1} /\ l + 1 \in 1..(l + 1)
  BY <1>2
<1>5. CASE n \in Touched(e)
  <2>1. ~Silent(r, 1..(l + 1), n) /\ \A j \in 1..l : ~Silent(r, (j + 1)..(l + 1), n)
    BY <1>2, <1>3, <1>5 DEF Silent
  <2>2. Silent(r, ((l + 1) + 1)..(l + 1), n)
    BY <1>2 DEF Silent
  <2>3. At(r, f, n, l + 2, v) <=> Tells(r[l + 1], n) = v
    BY <1>3, <1>4, <1>5, <2>1, <2>2 DEF At
  <2> QED
    BY <1>1, <1>2, <1>3, <1>5, <2>3
<1>6. CASE n \notin Touched(e)
  <2>1. Silent(r, 1..(l + 1), n) <=> Silent(q, 1..l, n)
    BY <1>3, <1>4, <1>6 DEF Silent
  <2>2. ASSUME NEW j \in 1..l PROVE Silent(r, (j + 1)..(l + 1), n) <=> Silent(q, (j + 1)..l, n)
    <3>1. (j + 1)..(l + 1) = (j + 1)..l \cup {l + 1} /\ (j + 1)..l \subseteq 1..l
      BY <1>2
    <3> QED
      BY <1>3, <1>6, <3>1 DEF Silent
  <2>3. At(r, f, n, l + 2, v) <=> At(q, f, n, l + 1, v)
    BY <1>3, <1>4, <1>6, <2>1, <2>2 DEF At
  <2> QED
    BY <1>1, <1>2, <1>6, <2>3
<1> QED
  BY <1>5, <1>6

(* What a change in Slack tells.                                            *)
Changes(e, s, t) ==
  /\ \A n \in Names : t[n] = IF n \in Touched(e) THEN Tells(e, n) ELSE s[n]
  /\ e.type = "rename" => s[e.old] = e.value /\ \A n \in e.names : s[n] = None

(* A change in Slack and its event keep the answer to follow.               *)
LEMMA FollowsAppend ==
  ASSUME NEW q \in Seq(Event), NEW e \in Event, NEW f, NEW s, NEW t, Follows(q, f, s), Changes(e, s, t)
  PROVE  Follows(Append(q, e), f, t)
<1>1. PICK r : r = Append(q, e)
  OBVIOUS
<1>2. PICK l \in Nat : l = Len(q)
  BY EventSeq
<1>3. Len(r) = l + 1 /\ (\A j \in 1..l : r[j] = q[j]) /\ r[l + 1] = e
  BY <1>1, <1>2
<1>4. ASSUME NEW n \in Names PROVE At(r, f, n, (l + 1) + 1, t[n])
  <2>1. At(q, f, n, l + 1, s[n])
    BY <1>2 DEF Follows
  <2>2. (l + 1) + 1 = l + 2
    BY <1>2
  <2> QED
    BY <1>1, <1>2, <2>1, <2>2, AtAfterAppend DEF Changes
<1>5. ASSUME NEW i \in 1..(l + 1), r[i].type = "rename"
      PROVE  At(r, f, r[i].old, i, r[i].value) /\ \A n \in r[i].names : At(r, f, n, i, None)
  <2>1. CASE i \in 1..l
    <3>1. At(q, f, q[i].old, i, q[i].value) /\ \A n \in q[i].names : At(q, f, n, i, None)
      BY <1>2, <1>3, <1>5, <2>1 DEF Follows
    <3> QED
      BY <1>1, <1>2, <1>3, <2>1, <3>1, AtAppend
  <2>2. CASE i = l + 1
    <3>1. e.type = "rename" /\ s[e.old] = e.value /\ \A n \in e.names : s[n] = None
      BY <1>3, <1>5, <2>2 DEF Changes
    <3>2. e.old \in Names /\ e.names \subseteq Names
      BY <3>1, EventFields DEF Only
    <3>3. At(q, f, e.old, l + 1, e.value) /\ \A n \in e.names : At(q, f, n, l + 1, None)
      BY <1>2, <3>1, <3>2 DEF Follows
    <3> QED
      BY <1>1, <1>2, <1>3, <2>2, <3>3, AtAppend
  <2> QED
    BY <1>2, <2>1, <2>2
<1> QED
  BY <1>1, <1>3, <1>4, <1>5 DEF Follows

(* The newest event tells what Slack has.                                   *)
LEMMA ToldAppend ==
  ASSUME NEW q \in Seq(Event), NEW e \in Event, NEW s, NEW t, Told(q, s), Changes(e, s, t)
  PROVE  Told(Append(q, e), t)
<1>1. PICK r : r = Append(q, e)
  OBVIOUS
<1>2. PICK l \in Nat : l = Len(q)
  BY EventSeq
<1>3. Len(r) = l + 1 /\ (\A j \in 1..l : r[j] = q[j]) /\ r[l + 1] = e
  BY <1>1, <1>2
<1>4. SUFFICES ASSUME NEW i \in 1..(l + 1), NEW n \in Names, n \in Touched(r[i]), ~r[i].overtaken,
                      Silent(r, (i + 1)..(l + 1), n)
               PROVE  Tells(r[i], n) = t[n]
  BY <1>1, <1>3 DEF Told
<1>5. CASE i = l + 1
  BY <1>3, <1>4, <1>5 DEF Changes
<1>6. CASE i \in 1..l
  <2>1. l + 1 \in (i + 1)..(l + 1) /\ (i + 1)..l \subseteq (i + 1)..(l + 1) /\ (i + 1)..l \subseteq 1..l
    BY <1>2, <1>6
  <2>2. n \notin Touched(e) /\ Silent(q, (i + 1)..l, n)
    BY <1>3, <1>4, <2>1 DEF Silent
  <2>3. Tells(q[i], n) = s[n]
    BY <1>2, <1>3, <1>4, <1>6, <2>2 DEF Told
  <2> QED
    BY <1>3, <1>6, <2>2, <2>3 DEF Changes
<1> QED
  BY <1>2, <1>5, <1>6

(* The events before the one at i that touch the same emoji.                *)
Earlier(q, i) == {j \in 1..(i - 1) : (Touched(q[j]) \cap Touched(q[i])) \ {None} # {}}

(* Where the event at j of the others was.                                  *)
Was(i, j) == IF j < i THEN j ELSE j + 1

(* r are the events of q without the one at i.                              *)
Rest(q, i, r) ==
  /\ Len(r) = Len(q) - 1
  /\ \A j \in 1..(Len(q) - 1) :
       /\ r[j].type = q[Was(i, j)].type /\ r[j].value = q[Was(i, j)].value
       /\ r[j].names = q[Was(i, j)].names /\ r[j].old = q[Was(i, j)].old
       /\ r[j].overtaken <=> q[Was(i, j)].overtaken \/ Was(i, j) \in Earlier(q, i)

(* handleEmojiChange leaves them.                                           *)
LEMMA OthersRest ==
  ASSUME PendingType, NEW i \in DOMAIN pending
  PROVE  Rest(pending, i, Others(i)) /\ Overtaken(i) = Earlier(pending, i)
<1>1. pending \in Seq(Event)
  BY DEF PendingType
<1>2. PICK l \in Nat : l = Len(pending) /\ DOMAIN pending = 1..l
  BY <1>1, EventSeq
<1>3. Overtaken(i) = Earlier(pending, i)
  BY DEF Overtaken, Earlier
<1>4. PICK m : m = [j \in 1..l |-> [pending[j] EXCEPT !.overtaken = @ \/ j \in Overtaken(i)]]
  OBVIOUS
<1>5. m \in Seq(Event) /\ Len(m) = l
  <2>1. ASSUME NEW j \in 1..l
        PROVE  [pending[j] EXCEPT !.overtaken = @ \/ j \in Overtaken(i)] \in Event
    <3>1. (pending[j].overtaken \/ j \in Overtaken(i)) \in BOOLEAN
      OBVIOUS
    <3> QED
      BY <1>1, <1>2, <3>1, EventSeq, Overtake
  <2> QED
    BY <1>2, <1>4, <2>1
<1>6. Others(i) = SubSeq(m, 1, i - 1) \o SubSeq(m, i + 1, l)
  BY <1>2, <1>4, <1>5 DEF Others, RemoveAt
<1>7. i \in 1..l
  BY <1>2
<1>8. Len(Others(i)) = l - 1 /\ \A j \in 1..(l - 1) : Others(i)[j] = m[Was(i, j)]
  <2>1. PICK a : a = SubSeq(m, 1, i - 1) /\ a \in Seq(Event) /\ Len(a) = i - 1
                 /\ \A j \in 1..(i - 1) : a[j] = m[j]
    <3>1. SubSeq(m, 1, i - 1) \in Seq(Event)
      BY <1>2, <1>5, <1>7
    <3>2. Len(SubSeq(m, 1, i - 1)) = i - 1
      BY <1>2, <1>5, <1>7
    <3>3. \A j \in 1..(i - 1) : SubSeq(m, 1, i - 1)[j] = m[j]
      BY <1>2, <1>5, <1>7
    <3> QED
      BY <3>1, <3>2, <3>3
  <2>2. PICK b : b = SubSeq(m, i + 1, l) /\ b \in Seq(Event) /\ Len(b) = l - i
                 /\ \A j \in 1..(l - i) : b[j] = m[i + j]
    <3>1. SubSeq(m, i + 1, l) \in Seq(Event)
      BY <1>2, <1>5, <1>7
    <3>2. Len(SubSeq(m, i + 1, l)) = l - i
      BY <1>2, <1>5, <1>7
    <3>3. \A j \in 1..(l - i) : SubSeq(m, i + 1, l)[j] = m[i + j]
      BY <1>2, <1>5, <1>7
    <3> QED
      BY <3>1, <3>2, <3>3
  <2>3. Len(a \o b) = l - 1
    BY SMTT(30), <1>2, <1>7, <2>1, <2>2
  <2>4. ASSUME NEW j \in 1..(l - 1) PROVE (a \o b)[j] = m[Was(i, j)]
    <3>1. CASE j < i
      BY SMTT(30), <1>2, <1>7, <2>1, <2>2, <3>1 DEF Was
    <3>2. CASE ~(j < i)
      <4>1. (a \o b)[j] = b[j - (i - 1)]
        <5>1. j \in 1..(Len(a) + Len(b)) /\ j > Len(a) /\ Len(a) = i - 1
          BY SMTT(30), <1>2, <1>7, <2>1, <2>2, <3>2
        <5>2. a \in Seq(Event) /\ b \in Seq(Event)
          BY <2>1, <2>2
        <5> QED
          BY <5>1, <5>2
      <4>2. j - (i - 1) \in 1..(l - i) /\ i + (j - (i - 1)) = j + 1
        BY <1>2, <1>7, <3>2
      <4> QED
        BY <2>2, <3>2, <4>1, <4>2 DEF Was
    <3> QED
      BY <3>1, <3>2
  <2> QED
    BY <1>6, <2>1, <2>2, <2>3, <2>4
<1>9. ASSUME NEW k \in 1..l
      PROVE  /\ m[k].type = pending[k].type /\ m[k].value = pending[k].value
             /\ m[k].names = pending[k].names /\ m[k].old = pending[k].old
             /\ m[k].overtaken <=> pending[k].overtaken \/ k \in Overtaken(i)
  <2>1. pending[k] \in Event /\ m[k] = [pending[k] EXCEPT !.overtaken = @ \/ k \in Overtaken(i)]
    BY <1>1, <1>2, <1>4, EventSeq
  <2> QED
    BY <2>1 DEF Event
<1>10. \A j \in 1..(l - 1) : Was(i, j) \in 1..l
  BY <1>2, <1>7 DEF Was
<1> QED
  BY <1>2, <1>3, <1>8, <1>9, <1>10 DEF Rest

(* The others touch what they touched.                                      *)
LEMMA RestEvents ==
  ASSUME NEW q \in Seq(Event), NEW i \in 1..Len(q), NEW r, Rest(q, i, r), NEW j \in 1..(Len(q) - 1)
  PROVE  /\ Was(i, j) \in 1..Len(q) \ {i}
         /\ Touched(r[j]) = Touched(q[Was(i, j)])
<1>1. Len(q) \in Nat
  BY EventSeq
<1> QED
  BY <1>1 DEF Rest, Was, Touched


(* Nothing after an event that was not overtaken is lost with the one at i. *)
LEMMA SilentRest ==
  ASSUME NEW q \in Seq(Event), NEW i \in 1..Len(q), NEW r, Rest(q, i, r),
         NEW k \in i..Len(q), NEW j \in 1..(k - 1), NEW n \in Names,
         n \in Touched(r[j]), Was(i, j) \notin Earlier(q, i), Silent(r, (j + 1)..(k - 1), n)
  PROVE  Silent(q, (Was(i, j) + 1)..k, n)
<1>1. PICK l \in Nat : l = Len(q) /\ i \in 1..l /\ k \in i..l /\ j \in 1..(l - 1)
  BY EventSeq
<1>2. SUFFICES ASSUME NEW x \in (Was(i, j) + 1)..k, n \in Touched(q[x]) PROVE FALSE
  BY DEF Silent
<1>3. n \in Touched(q[Was(i, j)])
  BY <1>1, RestEvents
<1>4. CASE x = i
  <2>1. Was(i, j) \in 1..(i - 1)
    BY <1>1, <1>4 DEF Was
  <2>2. n # None
    BY NotNone
  <2> QED
    BY <1>2, <1>3, <1>4, <2>1, <2>2 DEF Earlier
<1>5. CASE x # i
  <2>1. PICK y \in (j + 1)..(k - 1) : x = Was(i, y)
    <3>1. CASE x < i
      BY <1>1, <3>1 DEF Was
    <3>2. CASE x > i
      <4>1. x - 1 \in (j + 1)..(k - 1) /\ x = Was(i, x - 1)
        BY <1>1, <3>2 DEF Was
      <4> QED
        BY <4>1
    <3> QED
      BY <1>1, <1>5, <3>1, <3>2 DEF Was
  <2>2. y \in 1..(Len(q) - 1)
    BY <1>1
  <2> QED
    BY <1>2, <2>1, <2>2, RestEvents DEF Silent
<1> QED
  BY <1>4, <1>5

(* An event that is lost or overtaken is marked on those it leaves: the     *)
(* last events still tell what Slack has.                                   *)
LEMMA ToldRest ==
  ASSUME NEW q \in Seq(Event), NEW i \in 1..Len(q), NEW r, Rest(q, i, r), NEW s, Told(q, s)
  PROVE  Told(r, s)
<1>1. PICK l \in Nat : l = Len(q) /\ i \in 1..l /\ Len(r) = l - 1
  BY EventSeq DEF Rest
<1>2. SUFFICES ASSUME NEW j \in 1..(l - 1), NEW n \in Names, n \in Touched(r[j]), ~r[j].overtaken,
                      Silent(r, (j + 1)..(l - 1), n)
               PROVE  Tells(r[j], n) = s[n]
  BY <1>1 DEF Told
<1>3. Was(i, j) \in 1..l /\ ~q[Was(i, j)].overtaken /\ Was(i, j) \notin Earlier(q, i)
  BY <1>1, <1>2, RestEvents DEF Rest
<1>4. l \in i..Len(q) /\ j \in 1..(l - 1)
  BY <1>1
<1>5. Silent(q, (Was(i, j) + 1)..l, n)
  BY <1>2, <1>3, <1>4, SilentRest
<1>6. n \in Touched(q[Was(i, j)]) /\ Tells(r[j], n) = Tells(q[Was(i, j)], n)
  <2>1. j \in 1..(Len(q) - 1)
    BY <1>1
  <2>2. Tells(r[j], n) = Tells(q[Was(i, j)], n)
    BY <2>1 DEF Rest, Tells
  <2>3. Touched(r[j]) = Touched(q[Was(i, j)])
    BY <2>1, RestEvents
  <2> QED
    BY <1>2, <2>2, <2>3
<1> QED
  BY <1>1, <1>3, <1>5, <1>6 DEF Told

(* g is f with the event applied.                                           *)
After(e, f, g) == \A n \in Names : g[n] = IF n \in Touched(e) THEN Tells(e, n) ELSE f[n]

(* Before the event at k of the others.                                     *)
LEMMA AtOthers ==
  ASSUME NEW q \in Seq(Event), NEW i \in 1..Len(q), NEW r, Rest(q, i, r), Earlier(q, i) = {},
         NEW f, NEW g, After(q[i], f, g), NEW n \in Names, NEW v, NEW k \in 1..Len(q),
         k < i => n \notin Touched(q[i]), At(q, f, n, Was(i, k), v)
  PROVE  At(r, g, n, k, v)
<1>1. PICK l \in Nat : l = Len(q) /\ i \in 1..l /\ k \in 1..l
  BY EventSeq
<1>2. CASE k < i
  <2>1. Was(i, k) = k /\ \A j \in 1..(k - 1) : Was(i, j) = j /\ j \in 1..(Len(q) - 1)
    BY <1>1, <1>2 DEF Was
  <2>2. \A j \in 1..(k - 1) : Touched(r[j]) = Touched(q[j]) /\ Tells(r[j], n) = Tells(q[j], n)
    <3>1. ASSUME NEW j \in 1..(k - 1)
          PROVE  Touched(r[j]) = Touched(q[j]) /\ Tells(r[j], n) = Tells(q[j], n)
      <4>1. Was(i, j) = j /\ j \in 1..(Len(q) - 1)
        BY <2>1
      <4>2. Tells(r[j], n) = Tells(q[Was(i, j)], n)
        BY <4>1 DEF Rest, Tells
      <4>3. Touched(r[j]) = Touched(q[Was(i, j)])
        BY <4>1, RestEvents
      <4> QED
        BY <4>1, <4>2, <4>3
    <3> QED
      BY <3>1
  <2>3. Silent(r, 1..(k - 1), n) <=> Silent(q, 1..(k - 1), n)
    BY <2>2 DEF Silent
  <2>4. ASSUME NEW j \in 1..(k - 1)
        PROVE  Silent(r, (j + 1)..(k - 1), n) <=> Silent(q, (j + 1)..(k - 1), n)
    <3>1. (j + 1)..(k - 1) \subseteq 1..(k - 1)
      BY <1>1
    <3> QED
      BY <2>2, <3>1 DEF Silent
  <2>5. g[n] = f[n]
    BY <1>2 DEF After
  <2> QED
    BY <2>1, <2>2, <2>3, <2>4, <2>5 DEF At
<1>3. CASE ~(k < i)
  <2>1. Was(i, k) = k + 1 /\ (k + 1) - 1 = k /\ k \in i..Len(q) /\ i \in 1..k
    BY <1>1, <1>3 DEF Was
  <2>2. ASSUME Silent(r, 1..(k - 1), n) PROVE g[n] = v
    <3>1. ASSUME NEW x \in 1..k, x # i PROVE n \notin Touched(q[x])
      <4>1. PICK y \in 1..(k - 1) : x = Was(i, y)
        <5>1. CASE x < i
          <6>1. x \in 1..(k - 1) /\ x = Was(i, x)
            BY <1>1, <1>3, <5>1 DEF Was
          <6> QED
            BY <6>1
        <5>2. CASE x > i
          <6>1. x - 1 \in 1..(k - 1) /\ x = Was(i, x - 1)
            BY <1>1, <5>2 DEF Was
          <6> QED
            BY <6>1
        <5> QED
          BY <1>1, <3>1, <5>1, <5>2
      <4>2. y \in 1..(Len(q) - 1)
        BY <1>1
      <4> QED
        BY <2>2, <4>1, <4>2, RestEvents DEF Silent
    <3>2. CASE n \in Touched(q[i])
      <4>1. Silent(q, (i + 1)..k, n)
        <5>1. ASSUME NEW x \in (i + 1)..k PROVE n \notin Touched(q[x])
          <6>1. x \in 1..k /\ x # i
            BY <1>1
          <6> QED
            BY <3>1, <6>1
        <5> QED
          BY <5>1 DEF Silent
      <4>2. Tells(q[i], n) = v
        BY <2>1, <3>2, <4>1 DEF At
      <4> QED
        BY <3>2, <4>2 DEF After
    <3>3. CASE n \notin Touched(q[i])
      <4>1. Silent(q, 1..k, n)
        BY <3>1, <3>3 DEF Silent
      <4>2. f[n] = v
        BY <2>1, <4>1 DEF At
      <4> QED
        BY <3>3, <4>2 DEF After
    <3> QED
      BY <3>2, <3>3
  <2>3. ASSUME NEW j \in 1..(k - 1), n \in Touched(r[j]), Silent(r, (j + 1)..(k - 1), n)
        PROVE  Tells(r[j], n) = v
    <3>1. Was(i, j) \in 1..k /\ j \in 1..(Len(q) - 1)
      BY <1>1, <1>3 DEF Was
    <3>2. Silent(q, (Was(i, j) + 1)..k, n)
      BY <2>1, <2>3, SilentRest
    <3>3. n \in Touched(q[Was(i, j)]) /\ Tells(r[j], n) = Tells(q[Was(i, j)], n)
      <4>1. Tells(r[j], n) = Tells(q[Was(i, j)], n)
        BY <3>1 DEF Rest, Tells
      <4>2. Touched(r[j]) = Touched(q[Was(i, j)])
        BY <3>1, RestEvents
      <4> QED
        BY <2>3, <4>1, <4>2
    <3> QED
      BY <2>1, <3>1, <3>2, <3>3 DEF At
  <2> QED
    BY <2>2, <2>3 DEF At
<1> QED
  BY <1>2, <1>3

(* An event applied in its turn leaves the rest to be followed.             *)
LEMMA FollowsRest ==
  ASSUME NEW q \in Seq(Event), NEW i \in 1..Len(q), NEW r, Rest(q, i, r), Earlier(q, i) = {},
         NEW f, NEW g, After(q[i], f, g), NEW s, Follows(q, f, s)
  PROVE  Follows(r, g, s)
<1>1. PICK l \in Nat : l = Len(q) /\ i \in 1..l /\ Len(r) = l - 1 /\ l \in 1..Len(q)
  BY EventSeq DEF Rest
<1>2. ASSUME NEW n \in Names PROVE At(r, g, n, Len(r) + 1, s[n])
  <2>1. Was(i, l) = l + 1 /\ ~(l < i) /\ Len(r) + 1 = l
    BY <1>1 DEF Was
  <2>2. At(q, f, n, l + 1, s[n])
    BY <1>1 DEF Follows
  <2> QED
    BY <1>1, <2>1, <2>2, AtOthers
<1>3. ASSUME NEW k \in 1..Len(r), r[k].type = "rename"
      PROVE  At(r, g, r[k].old, k, r[k].value) /\ \A n \in r[k].names : At(r, g, n, k, None)
  <2>1. k \in 1..(Len(q) - 1) /\ k \in 1..Len(q)
    BY <1>1
  <2>2. PICK e : e = q[Was(i, k)]
    OBVIOUS
  <2>3. Was(i, k) \in 1..l /\ r[k].value = e.value /\ r[k].names = e.names
        /\ r[k].old = e.old /\ e.type = "rename" /\ e \in Event
    BY <1>1, <1>3, <2>1, <2>2, RestEvents, EventSeq DEF Rest
  <2>4. At(q, f, e.old, Was(i, k), e.value) /\ \A n \in e.names : At(q, f, n, Was(i, k), None)
    BY <1>1, <2>2, <2>3 DEF Follows
  <2>5. e.old \in Names /\ e.names \subseteq Names
    BY <2>3, EventFields DEF Only
  <2>6. ASSUME k < i, NEW n \in e.names \cup {e.old} PROVE n \notin Touched(q[i])
    <3>1. Was(i, k) = k /\ k \in 1..(i - 1) /\ n # None
      BY <1>1, <2>5, <2>6, NotNone DEF Was
    <3> QED
      BY <2>2, <3>1 DEF Earlier, Touched
  <2> QED
    BY <2>1, <2>3, <2>4, <2>5, <2>6, AtOthers
<1> QED
  BY <1>2, <1>3 DEF Follows

(* Two states that the same events lead to may be mixed.                    *)
LEMMA FollowsMixed ==
  ASSUME NEW q \in Seq(Event), NEW s, NEW f, NEW g, NEW h, Follows(q, f, s), Follows(q, g, s),
         \A n \in Names : h[n] \in {f[n], g[n]}
  PROVE  Follows(q, h, s)
<1>1. ASSUME NEW n \in Names, NEW i, NEW v, At(q, f, n, i, v), At(q, g, n, i, v)
      PROVE  At(q, h, n, i, v)
  BY <1>1 DEF At
<1>2. \A n \in Names : At(q, h, n, Len(q) + 1, s[n])
  BY <1>1 DEF Follows
<1>3. ASSUME NEW i \in 1..Len(q), q[i].type = "rename"
      PROVE  At(q, h, q[i].old, i, q[i].value) /\ \A n \in q[i].names : At(q, h, n, i, None)
  <2>1. q[i].old \in Names /\ q[i].names \subseteq Names
    BY <1>3, EventSeq, EventFields DEF Only
  <2> QED
    BY <1>1, <1>3, <2>1 DEF Follows
<1> QED
  BY <1>2, <1>3 DEF Follows

(* What Slack has now is where the waiting events start from as well, if    *)
(* they can be applied again.                                               *)
LEMMA FollowsFresh ==
  ASSUME NEW q \in Seq(Event), NEW s, Told(q, s),
         \A i \in 1..Len(q) : ~q[i].overtaken /\ q[i].type # "rename"
  PROVE  Follows(q, s, s)
<1>1. PICK l \in Nat : l = Len(q) /\ (l + 1) - 1 = l
  BY EventSeq
<1>2. ASSUME NEW n \in Names PROVE At(q, s, n, l + 1, s[n])
  BY <1>1 DEF At, Told
<1> QED
  BY <1>1, <1>2 DEF Follows

(* Without events nothing is still to come.                                 *)
LEMMA FollowsNothing ==
  ASSUME NEW f, NEW s
  PROVE  /\ Told(<<>>, s)
         /\ Follows(<<>>, f, s) <=> \A n \in Names : f[n] = s[n]
<1>1. Len(<<>>) = 0 /\ 1..0 = {} /\ (0 + 1) - 1 = 0
  OBVIOUS
<1>2. \A n, v : At(<<>>, f, n, 0 + 1, v) <=> f[n] = v
  BY <1>1 DEF At, Silent
<1> QED
  BY <1>1, <1>2 DEF Told, Follows

-----------------------------------------------------------------------------
(* Tables and what they tell. *)

(* The fields of a value.                                                   *)
LEMMA ValueOfFields ==
  ASSUME NEW r PROVE ValueOf(r).url = r.url /\ ValueOf(r).alias = r.alias
BY DEF ValueOf

(* An entry has the value it is made of.                                    *)
LEMMA EntryValue ==
  ASSUME NEW v \in Value, NEW image PROVE ValueOf(Entry(v, image)) = v
BY DEF ValueOf, Entry, Value

(* An image does not change a value.                                        *)
LEMMA ImageValue ==
  ASSUME NEW r \in Row, NEW image \in Urls \cup {None}
  PROVE  ValueOf([r EXCEPT !.image = image]) = ValueOf(r)
BY WithImage DEF ValueOf

(* An entry is put, and only there.                                         *)
LEMMA PutAt ==
  ASSUME NEW t \in Table, NEW n \in Names, NEW r, NEW m \in Names
  PROVE  [t EXCEPT ![n] = r][m] = IF m = n THEN r ELSE t[m]
BY DEF Table

(* The values after an entry is put.                                        *)
LEMMA PutValues ==
  ASSUME NEW t, NEW u, NEW n \in Names, NEW v \in Value, NEW image \in Urls \cup {None},
         NEW m \in Names, u[m] = IF m = n THEN Entry(v, image) ELSE t[m]
  PROVE  Values(u)[m] = IF m = n THEN v ELSE Values(t)[m]
<1>1. Entry(v, image) # None /\ ValueOf(Entry(v, image)) = v
  BY EntryType, EntryValue, NotNone
<1> QED
  BY <1>1 DEF Values

(* addEmoji as one entry put.                                               *)
LEMMA AddIsPut ==
  ASSUME TableType, NEW n \in Names, NEW v \in Value
  PROVE  \E image \in Urls \cup {None} : addEmoji(n, v) = [table EXCEPT ![n] = Entry(v, image)]
<1> DEFINE kept == IF Has(n, v) THEN table[n].image ELSE None
           found == v.alias # None /\ table[v.alias] # None /\ table[v.alias].image # None
           image == IF found THEN table[v.alias].image ELSE kept
<1>1. image \in Urls \cup {None}
  BY ValueFields, RowAt, RowFields, HasFields
<1>2. addEmoji(n, v) = [table EXCEPT ![n] = Entry(v, image)]
  BY DEF addEmoji
<1> HIDE DEF image
<1> QED
  BY <1>1, <1>2

(* addEmoji puts the value (emoji.go:124-149).                              *)
LEMMA AddValues ==
  ASSUME TableType, NEW n \in Names, NEW v \in Value, NEW m \in Names
  PROVE  Values(addEmoji(n, v))[m] = IF m = n THEN v ELSE Values(table)[m]
<1>1. PICK image \in Urls \cup {None} : addEmoji(n, v) = [table EXCEPT ![n] = Entry(v, image)]
  BY AddIsPut
<1>2. table \in Table
  BY DEF TableType, Table
<1>3. addEmoji(n, v)[m] = IF m = n THEN Entry(v, image) ELSE table[m]
  BY <1>1, <1>2, PutAt
<1> QED
  BY <1>3, PutValues

(* A row with a value.                                                      *)
LEMMA HasValue ==
  ASSUME TableType, NEW n \in Names, NEW v \in Value
  PROVE  Has(n, v) <=> Values(table)[n] = v
BY NotNone DEF Has, Values

(* An event does to the table what it tells.                                *)
LEMMA AppliedTells ==
  ASSUME TableType, Valued, NEW e \in Event,
         e.type = "rename" => /\ Values(table)[e.old] = e.value
                              /\ \A n \in e.names : Values(table)[n] = None
  PROVE  After(e, Values(table), Values(Applied(e)))
<1> DEFINE c == CHOOSE m \in e.names : TRUE
<1>1. table \in Table
  BY DEF TableType, Table
<1>2. CASE e.type = "add"
  <2>1. c \in Names /\ e.value \in Value /\ e.names = {c} /\ e.old = None
    BY <1>2, EventFields, TouchedNames DEF Only
  <2>2. Applied(e) = addEmoji(c, e.value)
    BY <1>2 DEF Applied
  <2> HIDE DEF c
  <2>3. \A m \in Names : Values(Applied(e))[m] = IF m = c THEN e.value ELSE Values(table)[m]
    BY <2>1, <2>2, AddValues
  <2> QED
    BY <1>2, <2>1, <2>3, NotNone DEF After, Tells, Touched
<1>3. CASE e.type = "remove"
  <2>1. Applied(e) = DeleteMany(e.names) /\ e.old = None
    BY <1>3, TouchedNames DEF Applied
  <2>2. \A m \in Names : Values(Applied(e))[m] = IF m \in e.names THEN None ELSE Values(table)[m]
    BY <2>1 DEF Values, DeleteMany
  <2> QED
    BY <1>3, <2>1, <2>2, NotNone DEF After, Tells, Touched
<1>4. CASE e.type = "rename"
  <2>1. c \in Names /\ e.value \in Value /\ e.names = {c} /\ e.old \in Names
    BY <1>4, EventFields DEF Only
  <2>2. Applied(e) = IF Has(e.old, e.value) THEN Rename(e.old, c) ELSE addEmoji(c, e.value)
    BY <1>4 DEF Applied
  <2> HIDE DEF c
  <2>3. Has(e.old, e.value) /\ table[c] = None /\ c # e.old
    <3>1. Has(e.old, e.value)
      BY <1>4, <2>1, HasValue
    <3>2. Values(table)[c] = None
      BY <1>4, <2>1
    <3>3. table[c] = None
      BY <2>1, <3>2, NotNone DEF Values, Valued
    <3> QED
      BY <3>1, <3>3 DEF Has
  <2>4. Applied(e) = [table EXCEPT ![e.old] = None, ![c] = table[e.old]]
    BY <2>2, <2>3 DEF Rename
  <2>5. \A m \in Names : Applied(e)[m] = IF m = c THEN table[e.old] ELSE IF m = e.old THEN None ELSE table[m]
    BY <1>1, <2>1, <2>3, <2>4 DEF Table
  <2>6. table[e.old] # None /\ ValueOf(table[e.old]) = e.value
    BY <2>3 DEF Has
  <2>7. \A m \in Names : Values(Applied(e))[m] =
          IF m = c THEN e.value ELSE IF m = e.old THEN None ELSE Values(table)[m]
    BY <2>5, <2>6 DEF Values
  <2> QED
    BY <1>4, <2>1, <2>3, <2>7 DEF After, Tells, Touched
<1> QED
  BY <1>2, <1>3, <1>4, EventFields

-----------------------------------------------------------------------------
(* What a goroutine keeps. *)

(* The types in Inv, as the proofs below use them.                          *)
LEMMA Typed ==
  ASSUME Inv
  PROVE  /\ SlackType /\ TableType /\ table \in Table /\ pending \in Seq(Event)
         /\ slack \in [Names -> Value \cup {None}]
         /\ \A p \in Procs : list[p] \in [Names -> Value \cup {None}] /\ todo[p] \in SUBSET Names
                             /\ created[p] \in [Names -> Urls \cup {None}] /\ dirty[p] \in BOOLEAN
BY DEF Inv, TypeOK, SlackType, TableType, Table, PendingType, SyncType, HistoryType

(* Its own variables are the same.                                          *)
Same(q) == /\ pc'[q] = pc[q] /\ todo'[q] = todo[q] /\ row'[q] = row[q]
           /\ list'[q] = list[q] /\ created'[q] = created[q]

(* A goroutine keeps what its sync knows while it waits, unless something   *)
(* was written beside it.                                                   *)
LEMMA SyncAtKept ==
  ASSUME NEW q \in Procs, SyncAt(q), Same(q), dirty[q] => dirty'[q],
         pc[q] \in Saving /\ ~dirty'[q] /\ Undisturbed(q) => Undisturbed(q)'
  PROVE  SyncAt(q)'
BY DEF SyncAt, Same, Saving

(* What a step of another must leave for a sync to stay undisturbed.        *)
LEMMA UndisturbedKept ==
  ASSUME NEW q \in Procs, Undisturbed(q), Same(q), Follows(pending', list[q], slack'),
         late => late',
         \A n \in Written(q) : Has(n, list[q][n])',
         ~late' => \A n \in Written(q) \ Images(q) :
                     table'[n].image \in {None, list[q][list[q][n].alias].url}
  PROVE  Undisturbed(q)'
<1>1. Written(q)' = Written(q) /\ Images(q)' = Images(q)
  BY DEF Written, Images, Present, Same
<1>2. list'[q] = list[q] /\ created'[q] = created[q]
  BY DEF Same
<1>3. Closed(list[q]) /\ \A n \in Written(q) \ Images(q) : Images(q) \subseteq Written(q)
  BY DEF Undisturbed
<1>4. ~late' => \A n \in Written(q) \cap Images(q) : created[q][n] \in {None, list[q][n].url}
  BY DEF Undisturbed
<1>5. \A n \in Written(q)' : Has(n, list[q][n])'
  BY <1>1
<1> QED
  BY <1>1, <1>2, <1>3, <1>4, <1>5 DEF Undisturbed

(* If nothing in the world changes, the others keep what they have.         *)
LEMMA SameKept ==
  ASSUME NEW q \in Procs, SyncAt(q), Same(q), dirty[q] => dirty'[q],
         UNCHANGED <<slack, pending, table, late>>
  PROVE  SyncAt(q)'
<1>1. ASSUME Undisturbed(q) PROVE Undisturbed(q)'
  <2>1. \A n \in Written(q) : Has(n, list[q][n])'
    BY <1>1 DEF Undisturbed, Has, Same
  <2>2. Follows(pending', list[q], slack')
    BY <1>1 DEF Undisturbed
  <2>3. ~late' => \A n \in Written(q) \ Images(q) :
                     table'[n].image \in {None, list[q][list[q][n].alias].url}
    BY <1>1 DEF Undisturbed
  <2> QED
    BY <1>1, <2>1, <2>2, <2>3, UndisturbedKept
<1> QED
  BY <1>1, SyncAtKept

(* A step that changes neither Slack, the queue nor the table.              *)
LEMMA QuietKept ==
  ASSUME MirrorInv, UNCHANGED <<slack, pending, table, late>>, trusted' => trusted,
         \A q \in Procs : SyncAt(q)'
  PROVE  MirrorInv'
BY DEF MirrorInv, Valued

(* A step of p that leaves the world alone.                                 *)
LEMMA StepKept ==
  ASSUME MirrorInv, NEW p \in Procs, UNCHANGED <<slack, pending, table, late, dirty>>, trusted' => trusted,
         \A q \in Procs \ {p} : Same(q), SyncAt(p)'
  PROVE  MirrorInv'
<1>1. ASSUME NEW q \in Procs \ {p} PROVE SyncAt(q)'
  <2>1. SyncAt(q)
    BY DEF MirrorInv
  <2> QED
    BY <2>1, SameKept
<1> QED
  BY <1>1, QuietKept

-----------------------------------------------------------------------------
(* Slack changes. *)

(* Every change in Slack comes with an event that tells it.                 *)
LEMMA ChangeKept ==
  ASSUME Inv, MirrorInv, NEW e \in Event, NEW t, Change(e, t), Changes(e, slack, t), Closed(t)
  PROVE  MirrorInv'
<1>1. /\ slack' = t /\ pending' = Append(pending, e)
      /\ UNCHANGED <<table, pc, row, list, todo, created, dirty, trusted, late>>
  BY DEF Change, procs
<1>2. pending \in Seq(Event)
  BY Typed
<1>3. Told(pending', slack') /\ Closed(slack') /\ Valued'
  BY <1>1, <1>2, ToldAppend DEF MirrorInv, Valued
<1>4. \A f : Follows(pending, f, slack) => Follows(pending', f, slack')
  BY <1>1, <1>2, FollowsAppend
<1>5. trusted' => Follows(pending', Values(table'), slack')
  BY <1>1, <1>4 DEF MirrorInv
<1>6. ASSUME NEW q \in Procs PROVE SyncAt(q)'
  <2>1. SyncAt(q) /\ Same(q)
    BY <1>1 DEF MirrorInv, Same
  <2>2. ASSUME Undisturbed(q) PROVE Undisturbed(q)'
    <3>1. \A n \in Written(q) : Has(n, list[q][n])'
      BY <1>1, <2>2 DEF Undisturbed, Has
    <3>2. Follows(pending', list[q], slack')
      BY <1>4, <2>2 DEF Undisturbed
    <3>3. ~late' => \A n \in Written(q) \ Images(q) :
                       table'[n].image \in {None, list[q][list[q][n].alias].url}
      BY <1>1, <2>2 DEF Undisturbed
    <3> QED
      BY <1>1, <2>1, <2>2, <3>1, <3>2, <3>3, UndisturbedKept
  <2> QED
    BY <1>1, <2>1, <2>2, SyncAtKept
<1> QED
  BY <1>3, <1>5, <1>6 DEF MirrorInv

(* An image is added.                                                       *)
LEMMA AddImageKept ==
  ASSUME Inv, MirrorInv, NEW n \in Names, NEW u \in Urls, AddImage(n, u)
  PROVE  MirrorInv'
<1> DEFINE v == [url |-> u, alias |-> None]
           e == [type |-> "add", names |-> {n}, old |-> None, value |-> v, overtaken |-> FALSE]
           t == [slack EXCEPT ![n] = v]
<1>1. v \in Value /\ v # None /\ v.alias = None
  BY NotNone DEF Value
<1>2. e \in Event /\ e.type = "add" /\ e.names = {n} /\ e.old = None /\ e.value = v
  BY <1>1 DEF Event, Only
<1>3. slack[n] = None /\ Change(e, t)
  BY DEF AddImage
<1>4. \A m \in Names : t[m] = IF m = n THEN v ELSE slack[m]
  BY Typed
<1> HIDE DEF v, e, t
<1>5. Changes(e, slack, t)
  BY <1>2, <1>4, NotNone DEF Changes, Touched, Tells
<1>6. Closed(t)
  <2>1. ASSUME NEW m \in Names, t[m] # None, t[m].alias # None
        PROVE  t[t[m].alias] # None /\ t[t[m].alias].alias = None
    <3>1. m # n /\ t[m] = slack[m]
      BY <1>1, <1>4, <2>1
    <3>2. slack[m].alias \in Names
      BY <2>1, <3>1, Typed, ValueFields
    <3>3. slack[slack[m].alias] # None /\ slack[slack[m].alias].alias = None
      BY <2>1, <3>1 DEF MirrorInv, Closed
    <3> QED
      BY <1>3, <1>4, <3>1, <3>2, <3>3
  <2> QED
    BY <2>1 DEF Closed
<1> QED
  BY <1>2, <1>3, <1>5, <1>6, ChangeKept

(* An alias is added to an image.                                           *)
LEMMA AddAliasKept ==
  ASSUME Inv, MirrorInv, NEW n \in Names, NEW a \in Names, AddAlias(n, a)
  PROVE  MirrorInv'
<1> DEFINE v == [url |-> None, alias |-> a]
           e == [type |-> "add", names |-> {n}, old |-> None, value |-> v, overtaken |-> FALSE]
           t == [slack EXCEPT ![n] = v]
<1>1. v \in Value /\ v # None /\ v.alias = a
  BY NotNone DEF Value
<1>2. e \in Event /\ e.type = "add" /\ e.names = {n} /\ e.old = None /\ e.value = v
  BY <1>1 DEF Event, Only
<1>3. slack[n] = None /\ slack[a] # None /\ slack[a].alias = None /\ Change(e, t)
  BY DEF AddAlias
<1>4. \A m \in Names : t[m] = IF m = n THEN v ELSE slack[m]
  BY Typed
<1> HIDE DEF v, e, t
<1>5. Changes(e, slack, t)
  BY <1>2, <1>4, NotNone DEF Changes, Touched, Tells
<1>6. Closed(t)
  <2>1. ASSUME NEW m \in Names, t[m] # None, t[m].alias # None
        PROVE  t[t[m].alias] # None /\ t[t[m].alias].alias = None
    <3>1. CASE m = n
      BY <1>1, <1>3, <1>4, <3>1
    <3>2. CASE m # n
      <4>1. t[m] = slack[m] /\ slack[m] # None
        BY <1>4, <2>1, <3>2
      <4>2. slack[m].alias \in Names
        BY <2>1, <4>1, Typed, ValueFields
      <4>3. slack[slack[m].alias] # None /\ slack[slack[m].alias].alias = None
        BY <2>1, <4>1 DEF MirrorInv, Closed
      <4> QED
        BY <1>3, <1>4, <4>1, <4>2, <4>3
    <3> QED
      BY <3>1, <3>2
  <2> QED
    BY <2>1 DEF Closed
<1> QED
  BY <1>2, <1>3, <1>5, <1>6, ChangeKept

(* An emoji is removed with its aliases.                                    *)
LEMMA RemoveEmojiKept ==
  ASSUME Inv, MirrorInv, NEW n \in Names, RemoveEmoji(n)
  PROVE  MirrorInv'
<1> DEFINE gone == {n} \cup Aliases(n)
           e == [type |-> "remove", names |-> gone, old |-> None, value |-> None, overtaken |-> FALSE]
           t == [m \in Names |-> IF m \in gone THEN None ELSE slack[m]]
<1>1. gone \subseteq Names
  BY DEF Aliases, Present
<1>2. e \in Event /\ e.type = "remove" /\ e.names = gone /\ e.old = None
  BY <1>1 DEF Event
<1>3. Change(e, t)
  BY DEF RemoveEmoji
<1>4. \A m \in Names : t[m] = IF m \in gone THEN None ELSE slack[m]
  OBVIOUS
<1>5. n \in gone /\ \A m \in Names : slack[m] # None /\ slack[m].alias = n => m \in gone
  BY DEF Aliases, Present
<1>6. \A m \in gone : m = n \/ slack[m].alias = n
  BY DEF Aliases
<1> HIDE DEF gone, e, t
<1>7. Changes(e, slack, t)
  BY <1>2, <1>4, NotNone DEF Changes, Touched, Tells
<1>8. Closed(t)
  <2>1. ASSUME NEW m \in Names, t[m] # None, t[m].alias # None
        PROVE  t[t[m].alias] # None /\ t[t[m].alias].alias = None
    <3>1. m \notin gone /\ t[m] = slack[m]
      BY <1>4, <2>1
    <3>2. slack[m].alias \in Names
      BY <2>1, <3>1, Typed, ValueFields
    <3>3. slack[slack[m].alias] # None /\ slack[slack[m].alias].alias = None
      BY <2>1, <3>1 DEF MirrorInv, Closed
    <3>4. slack[m].alias \notin gone
      BY <1>5, <1>6, <2>1, <3>1, <3>3, NotNone
    <3> QED
      BY <1>4, <3>1, <3>2, <3>3, <3>4
  <2> QED
    BY <2>1 DEF Closed
<1> QED
  BY <1>2, <1>3, <1>7, <1>8, ChangeKept

(* An emoji without aliases is renamed.                                     *)
LEMMA RenameEmojiKept ==
  ASSUME Inv, MirrorInv, NEW o \in Names, NEW n \in Names, RenameEmoji(o, n)
  PROVE  MirrorInv'
<1> DEFINE e == [type |-> "rename", names |-> {n}, old |-> o, value |-> slack[o], overtaken |-> FALSE]
           t == [slack EXCEPT ![o] = None, ![n] = slack[o]]
<1>1. slack[o] # None /\ slack[n] = None /\ o # n /\ slack[o] \in Value /\ Change(e, t)
  BY Typed DEF RenameEmoji
<1>2. e \in Event /\ e.type = "rename" /\ e.names = {n} /\ e.old = o /\ e.value = slack[o]
  BY <1>1 DEF Event, Only
<1>3. \A m \in Names : t[m] = IF m = n THEN slack[o] ELSE IF m = o THEN None ELSE slack[m]
  BY Typed
<1>4. \A m \in Names : slack[m] # None => slack[m].alias # o
  BY DEF RenameEmoji, Aliases, Present
<1> HIDE DEF e, t
<1>5. Changes(e, slack, t)
  BY <1>1, <1>2, <1>3, NotNone DEF Changes, Touched, Tells
<1>6. Closed(t)
  <2>1. ASSUME NEW m \in Names, t[m] # None, t[m].alias # None
        PROVE  t[t[m].alias] # None /\ t[t[m].alias].alias = None
    <3>1. PICK k \in Names : t[m] = slack[k] /\ slack[k] # None
      BY <1>1, <1>3, <2>1
    <3>2. slack[k].alias \in Names /\ slack[k].alias # o
      BY <1>4, <2>1, <3>1, Typed, ValueFields
    <3>3. slack[slack[k].alias] # None /\ slack[slack[k].alias].alias = None
      BY <2>1, <3>1 DEF MirrorInv, Closed
    <3> QED
      BY <1>1, <1>3, <3>1, <3>2, <3>3
  <2> QED
    BY <2>1 DEF Closed
<1> QED
  BY <1>1, <1>2, <1>5, <1>6, ChangeKept

-----------------------------------------------------------------------------
(* An event is handled. *)

(* Rows stay images or aliases.                                             *)
LEMMA AppliedValued ==
  ASSUME TableType, Valued, NEW e \in Event, NEW m \in Names, Applied(e)[m] # None
  PROVE  ValueOf(Applied(e)[m]) \in Value
<1> DEFINE c == CHOOSE n \in e.names : TRUE
<1>1. ASSUME NEW n \in Names, NEW v \in Value, addEmoji(n, v)[m] # None
      PROVE  ValueOf(addEmoji(n, v)[m]) \in Value
  <2>1. PICK image \in Urls \cup {None} : addEmoji(n, v) = [table EXCEPT ![n] = Entry(v, image)]
    BY AddIsPut
  <2>2. table \in Table
    BY DEF TableType, Table
  <2>3. addEmoji(n, v)[m] = IF m = n THEN Entry(v, image) ELSE table[m]
    BY <2>1, <2>2, PutAt
  <2> QED
    BY <1>1, <2>3, EntryValue DEF Valued
<1>2. CASE e.type = "add"
  <2>1. c \in Names /\ e.value \in Value /\ Applied(e) = addEmoji(c, e.value)
    BY <1>2, EventFields, OnlyName DEF Applied
  <2> HIDE DEF c
  <2> QED
    BY <1>1, <2>1
<1>3. CASE e.type = "remove"
  <2>1. Applied(e)[m] = IF m \in e.names THEN None ELSE table[m]
    BY <1>3 DEF Applied, DeleteMany
  <2> QED
    BY <2>1 DEF Valued
<1>4. CASE e.type = "rename"
  <2>1. /\ c \in Names /\ e.value \in Value /\ e.old \in Names
        /\ Applied(e) = IF Has(e.old, e.value) THEN Rename(e.old, c) ELSE addEmoji(c, e.value)
    BY <1>4, EventFields, OnlyName DEF Applied
  <2> HIDE DEF c
  <2>2. CASE Has(e.old, e.value)
    <3>1. Rename(e.old, c)[m] \in {None, table[m], table[e.old]}
      BY <2>1 DEF Rename, TableType
    <3> QED
      BY <2>1, <2>2, <3>1 DEF Valued
  <2>3. CASE ~Has(e.old, e.value)
    BY <1>1, <2>1, <2>3
  <2> QED
    BY <2>2, <2>3
<1> QED
  BY <1>2, <1>3, <1>4, EventFields

(* In order, an event does to the table what it tells.                      *)
LEMMA InOrder ==
  ASSUME Inv, Valued, NEW i \in 1..Len(pending), Earlier(pending, i) = {},
         Follows(pending, Values(table), slack)
  PROVE  After(pending[i], Values(table), Values(Applied(pending[i])))
<1>1. PICK e : e = pending[i] /\ e \in Event
  BY Typed, EventSeq
<1>2. ASSUME NEW n \in Names, n \in Touched(e) PROVE Silent(pending, 1..(i - 1), n)
  BY <1>1, <1>2, NotNone DEF Earlier, Silent
<1>3. ASSUME e.type = "rename"
      PROVE  Values(table)[e.old] = e.value /\ \A n \in e.names : Values(table)[n] = None
  <2>1. /\ At(pending, Values(table), e.old, i, e.value)
        /\ \A n \in e.names : At(pending, Values(table), n, i, None)
    BY <1>1, <1>3 DEF Follows
  <2>2. e.old \in Names /\ e.names \subseteq Names
    BY <1>1, <1>3, EventFields DEF Only
  <2>3. e.old \in Touched(e) /\ e.names \subseteq Touched(e)
    BY DEF Touched
  <2> QED
    BY <1>2, <2>1, <2>2, <2>3 DEF At
<1> QED
  BY <1>1, <1>3, AppliedTells, Typed

(* handleEmojiChange: in order it follows Slack, out of order or failed the *)
(* table is not trusted, and every sync that runs is dirty                  *)
(* (emoji.go:86-122).                                                       *)
LEMMA EventKept ==
  ASSUME Inv, MirrorInv, NEW i \in DOMAIN pending, handleEmojiChange(i)
  PROVE  MirrorInv'
<1>1. /\ pending' = Others(i) /\ slack' = slack /\ late' = late
      /\ UNCHANGED <<pc, row, list, todo, created>>
      /\ dirty' = [q \in Procs |-> dirty[q] \/ pc[q] \in Syncing]
  BY DEF handleEmojiChange, procs
<1>2. pending \in Seq(Event) /\ i \in 1..Len(pending) /\ pending[i] \in Event /\ TableType
  BY Typed, EventSeq
<1>3. Rest(pending, i, pending') /\ Overtaken(i) = Earlier(pending, i)
  BY <1>1, OthersRest DEF Inv, TypeOK
<1>4. Told(pending', slack') /\ Closed(slack')
  BY <1>1, <1>2, <1>3, ToldRest DEF MirrorInv
<1>5. \/ table' = Applied(pending[i]) /\ trusted' = (trusted /\ Overtaken(i) = {})
      \/ table' = table /\ trusted' = FALSE
  BY DEF handleEmojiChange
<1>6. Valued'
  <2>1. CASE table' = Applied(pending[i])
    <3>1. \A m \in Names : Applied(pending[i])[m] # None => ValueOf(Applied(pending[i])[m]) \in Value
      BY <1>2, AppliedValued DEF MirrorInv
    <3> QED
      BY <2>1, <3>1 DEF Valued
  <2>2. CASE table' = table
    BY <2>2 DEF Valued, MirrorInv
  <2> QED
    BY <1>5, <2>1, <2>2
<1>7. ASSUME trusted' PROVE Follows(pending', Values(table'), slack')
  <2>1. table' = Applied(pending[i]) /\ trusted /\ Earlier(pending, i) = {}
    BY <1>3, <1>5, <1>7
  <2>2. Follows(pending, Values(table), slack)
    BY <2>1 DEF MirrorInv
  <2>3. PICK f : f = Values(table)
    OBVIOUS
  <2>4. PICK g : g = Values(Applied(pending[i]))
    OBVIOUS
  <2>5. After(pending[i], f, g)
    BY <1>2, <2>1, <2>2, <2>3, <2>4, InOrder DEF MirrorInv
  <2>6. Follows(pending', g, slack)
    BY <1>2, <1>3, <2>1, <2>2, <2>3, <2>5, FollowsRest
  <2> QED
    BY <1>1, <2>1, <2>4, <2>6
<1>8. ASSUME NEW q \in Procs PROVE SyncAt(q)'
  <2>1. SyncAt(q) /\ Same(q)
    BY <1>1 DEF MirrorInv, Same
  <2>2. dirty[q] => dirty'[q]
    BY <1>1
  <2>3. pc[q] \in Saving => dirty'[q]
    BY <1>1 DEF Saving, Syncing
  <2> QED
    BY <2>1, <2>2, <2>3, SyncAtKept
<1> QED
  BY <1>4, <1>6, <1>7, <1>8 DEF MirrorInv

-----------------------------------------------------------------------------
(* Lookups and the lock. *)

(* The others keep what they have.                                          *)
LEMMA SameOthers ==
  ASSUME Inv, NEW p \in Procs, NEW label, Goto(p, label), UNCHANGED <<list, todo, created>>,
         row' = row \/ \E r : row' = [row EXCEPT ![p] = r]
  PROVE  /\ \A q \in Procs \ {p} : Same(q)
         /\ pc'[p] = label
<1>1. pc' = [pc EXCEPT ![p] = label] /\ pc \in [Procs -> PCs]
  BY DEF Goto, Inv, TypeOK, PlaceType
<1>2. row \in [Procs -> Row \cup {None}]
  BY DEF Inv, TypeOK, LookupType
<1>3. \A q \in Procs \ {p} : pc'[q] = pc[q] /\ row'[q] = row[q]
  BY <1>1, <1>2
<1> QED
  BY <1>1, <1>3 DEF Same

(* The end of a lookup is the goroutine's own.                              *)
LEMMA ReturnOthers ==
  ASSUME Inv, NEW p \in Procs, Return(p), UNCHANGED <<list, todo, created>>
  PROVE  (\A q \in Procs \ {p} : Same(q)) /\ pc'[p] \in {"next", "idle"}
<1>1. Goto(p, IF task[p] = "pack" THEN "next" ELSE "idle") /\ row' = [row EXCEPT ![p] = None]
  BY DEF Return
<1> QED
  BY <1>1, SameOthers

(* Where nothing is known.                                                  *)
LEMMA AwayAt == ASSUME NEW p, pc'[p] \notin Saving \cup {"queue", "upload"} PROVE SyncAt(p)'
BY DEF SyncAt, Saving

(* A task begins.                                                           *)
LEMMA StartKept ==
  ASSUME Inv, MirrorInv, NEW p \in Procs, NEW kind, NEW n, Start(p, kind, n)
  PROVE  MirrorInv'
<1> DEFINE label == CASE kind = "lookup" -> "read" [] kind = "pack" -> "fetch" [] OTHER -> "wait"
<1>1. /\ Goto(p, label)
      /\ UNCHANGED <<slack, pending, table, late, dirty, trusted, row, list, todo, created>>
  BY DEF Start, history
<1>2. label \notin Saving \cup {"queue", "upload"}
  BY DEF Saving
<1> HIDE DEF label
<1>3. (\A q \in Procs \ {p} : Same(q)) /\ pc'[p] = label
  BY <1>1, SameOthers
<1> QED
  BY <1>1, <1>2, <1>3, AwayAt, StepKept

(* tryGetEmoji: only an image row is uploaded (emoji.go:298-320).           *)
LEMMA ReadKept ==
  ASSUME Inv, MirrorInv, NEW p \in Procs, Read(p)
  PROVE  MirrorInv'
<1>1. /\ pc[p] = "read"
      /\ UNCHANGED <<slack, pending, table, list, todo, created, dirty, trusted, late>>
  BY DEF Read
<1>2. (\A q \in Procs \ {p} : Same(q)) /\ SyncAt(p)'
  <2>1. CASE Return(p)
    <3>1. (\A q \in Procs \ {p} : Same(q)) /\ pc'[p] \in {"next", "idle"}
      BY <1>1, <2>1, ReturnOthers
    <3> QED
      BY <3>1, AwayAt DEF Saving
  <2>2. CASE Goto(p, "try") /\ UNCHANGED row
    <3>1. (\A q \in Procs \ {p} : Same(q)) /\ pc'[p] = "try"
      BY <1>1, <2>2, SameOthers
    <3> QED
      BY <3>1, AwayAt DEF Saving
  <2>3. CASE UNCHANGED <<pc, row>>
    <3>1. pc'[p] = "read" /\ \A q \in Procs \ {p} : Same(q)
      BY <1>1, <2>3 DEF Same
    <3> QED
      BY <3>1, AwayAt DEF Saving
  <2>4. CASE /\ table[name[p]].alias = None
             /\ row' = [row EXCEPT ![p] = table[name[p]]] /\ Goto(p, "queue")
    <3>1. (\A q \in Procs \ {p} : Same(q)) /\ pc'[p] = "queue"
      BY <1>1, <2>4, SameOthers
    <3>2. row'[p].alias = None
      BY <2>4 DEF Inv, TypeOK, LookupType
    <3> QED
      BY <3>1, <3>2 DEF SyncAt, Saving
  <2> QED
    BY <2>1, <2>2, <2>3, <2>4 DEF Read, NotFound
<1> QED
  BY <1>1, <1>2, StepKept

(* The upload gets the lock.                                                *)
LEMMA LockUploadKept ==
  ASSUME Inv, MirrorInv, NEW p \in Procs, LockUpload(p)
  PROVE  MirrorInv'
<1>1. /\ pc[p] = "queue" /\ Goto(p, "upload")
      /\ UNCHANGED <<slack, pending, table, late, dirty, trusted, row, list, todo, created>>
  BY DEF LockUpload, history
<1>2. (\A q \in Procs \ {p} : Same(q)) /\ pc'[p] = "upload"
  BY <1>1, SameOthers
<1>3. SyncAt(p)'
  BY <1>1, <1>2 DEF SyncAt, Saving, MirrorInv
<1> QED
  BY <1>1, <1>2, <1>3, StepKept

(* The resync after a lookup gets the lock or gives up.                     *)
LEMMA TryLockKept ==
  ASSUME Inv, MirrorInv, NEW p \in Procs, TryLock(p)
  PROVE  MirrorInv'
<1>1. UNCHANGED <<slack, pending, table, late, dirty, trusted, list, todo, created>>
  BY DEF TryLock, history
<1>2. (\A q \in Procs \ {p} : Same(q)) /\ pc'[p] \in {"fetch", "next", "idle"}
  <2>1. CASE Goto(p, "fetch") /\ UNCHANGED row
    BY <1>1, <2>1, SameOthers
  <2>2. CASE Return(p)
    BY <1>1, <2>2, ReturnOthers
  <2> QED
    BY <2>1, <2>2 DEF TryLock
<1>3. SyncAt(p)'
  BY <1>2, AwayAt DEF Saving
<1> QED
  BY <1>1, <1>2, <1>3, StepKept

(* A sync gets the lock.                                                    *)
LEMMA LockSyncKept ==
  ASSUME Inv, MirrorInv, NEW p \in Procs, LockSync(p)
  PROVE  MirrorInv'
<1>1. /\ Goto(p, "fetch")
      /\ UNCHANGED <<slack, pending, table, late, dirty, trusted, row, list, todo, created>>
  BY DEF LockSync, history
<1>2. (\A q \in Procs \ {p} : Same(q)) /\ pc'[p] = "fetch"
  BY <1>1, SameOthers
<1>3. SyncAt(p)'
  BY <1>2, AwayAt DEF Saving
<1> QED
  BY <1>1, <1>2, <1>3, StepKept

(* The next emoji of a pack.                                                *)
LEMMA NextOfPackKept ==
  ASSUME Inv, MirrorInv, NEW p \in Procs, NextOfPack(p)
  PROVE  MirrorInv'
<1>1. UNCHANGED <<slack, pending, table, late, dirty, trusted, row, list, created>>
  BY DEF NextOfPack, history
<1>2. \E label \in {"read", "idle"} : Goto(p, label)
  BY DEF NextOfPack
<1>3. \A q \in Procs \ {p} : pc'[q] = pc[q] /\ todo'[q] = todo[q]
  <2>1. \A q \in Procs \ {p} : pc'[q] = pc[q]
    BY <1>2 DEF Goto, Inv, TypeOK, PlaceType
  <2>2. todo' = todo \/ \E n : todo' = [todo EXCEPT ![p] = @ \ {n}]
    BY DEF NextOfPack
  <2> QED
    BY <2>1, <2>2 DEF Inv, TypeOK, SyncType
<1>4. \A q \in Procs \ {p} : Same(q)
  BY <1>1, <1>3 DEF Same
<1>5. pc'[p] \in {"read", "idle"}
  BY <1>2 DEF Goto, Inv, TypeOK, PlaceType
<1>6. SyncAt(p)'
  BY <1>5, AwayAt DEF Saving
<1> QED
  BY <1>1, <1>4, <1>6, StepKept

(* A saved image does not change values; unless it comes late, an alias     *)
(* gets the image of its target.                                            *)
LEMMA UploadKept ==
  ASSUME Inv, MirrorInv, NEW p \in Procs, Upload(p)
  PROVE  MirrorInv'
<1>1. /\ pc[p] = "upload" /\ Return(p)
      /\ UNCHANGED <<slack, pending, list, todo, created, dirty, trusted>>
  BY DEF Upload
<1>2. (\A q \in Procs \ {p} : Same(q)) /\ pc'[p] \in {"next", "idle"}
  BY <1>1, ReturnOthers
<1>3. SyncAt(p)'
  BY <1>2, AwayAt DEF Saving
<1>4. CASE UNCHANGED <<table, late>>
  BY <1>1, <1>2, <1>3, <1>4, StepKept
<1>5. CASE /\ table' = SaveMXC(name[p], row[p].url)
           /\ late' = (late \/ ~Has(name[p], ValueOf(row[p])))
  <2>1. name[p] \in Names /\ row[p] \in Row /\ row[p].alias = None
    BY <1>1 DEF Inv, Control, ControlAt, MirrorInv, SyncAt
  <2>2. PICK n \in Names : n = name[p]
    BY <2>1
  <2>3. PICK image \in Urls \cup {None} : image = row[p].url
    BY <2>1, RowFields
  <2>4. ASSUME NEW m \in Names
        PROVE  /\ table'[m] = None <=> table[m] = None
               /\ table[m] # None => /\ ValueOf(table'[m]) = ValueOf(table[m])
                                     /\ table'[m].image = IF m = n \/ table[m].alias = n
                                                          THEN image ELSE table[m].image
    <3>1. table'[m] = IF table[m] # None /\ (m = n \/ table[m].alias = n)
                      THEN [table[m] EXCEPT !.image = image] ELSE table[m]
      BY <1>5, <2>2, <2>3 DEF SaveMXC
    <3>2. table[m] \in Row \cup {None}
      BY RowAt, Typed
    <3>3. table[m] \in Row => /\ [table[m] EXCEPT !.image = image] # None
                              /\ ValueOf([table[m] EXCEPT !.image = image]) = ValueOf(table[m])
                              /\ [table[m] EXCEPT !.image = image].image = image
      BY ImageValue, WithImage, NotNone
    <3> QED
      BY <3>1, <3>2, <3>3
  <2>6. Values(table') = Values(table) /\ Valued'
    BY <2>4 DEF Values, Valued, MirrorInv
  <2>7. ASSUME ~late' PROVE table[n] # None /\ table[n].url = image /\ table[n].alias = None
    <3>1. Has(n, ValueOf(row[p]))
      BY <1>5, <2>2, <2>7
    <3> QED
      BY <2>1, <2>3, <3>1, HasFields, ValueOfFields
  <2>8. late => late'
    BY <1>5
  <2>9. ASSUME NEW q \in Procs \ {p}, Undisturbed(q) PROVE Undisturbed(q)'
    <3>1. Same(q) /\ Written(q) \subseteq Names /\ Images(q) \subseteq Names
      BY <1>2 DEF Written, Images, Present
    <3>2. ASSUME NEW m \in Written(q) PROVE Has(m, list[q][m])'
      <4>1. m \in Names /\ Has(m, list[q][m]) /\ list'[q] = list[q]
        BY <1>1, <2>9, <3>1 DEF Undisturbed
      <4> QED
        BY <2>4, <4>1 DEF Has
    <3>3. ASSUME ~late', NEW m \in Written(q) \ Images(q)
          PROVE  table'[m].image \in {None, list[q][list[q][m].alias].url}
      <4>1. ~late
        BY <2>8, <3>3
      <4>2. table[m].image \in {None, list[q][list[q][m].alias].url}
        BY <2>9, <3>3, <4>1 DEF Undisturbed
      <4>3. m \in Names /\ Has(m, list[q][m]) /\ table[m] # None /\ table[m].alias = list[q][m].alias
        BY <2>9, <3>1, <3>3, HasFields DEF Undisturbed
      <4>4. list[q][m] # None /\ list[q][m].alias # None
        BY <3>3 DEF Written, Images, Present
      <4>5. CASE m = n \/ table[m].alias = n
        <5>1. list[q][m].alias = n
          BY <2>7, <3>3, <4>3, <4>4, <4>5
        <5>2. list[q][n] # None /\ list[q][n].alias = None
          BY <2>9, <4>3, <4>4, <5>1 DEF Undisturbed, Closed
        <5>3. n \in Images(q)
          BY <5>2 DEF Images, Present
        <5>4. n \in Written(q)
          BY <2>9, <3>3, <5>3 DEF Undisturbed
        <5>5. table[n].url = list[q][n].url
          BY <2>9, <5>4, HasFields DEF Undisturbed
        <5> QED
          BY <2>4, <2>7, <3>3, <4>3, <4>5, <5>1, <5>5
      <4>6. CASE ~(m = n \/ table[m].alias = n)
        BY <2>4, <4>2, <4>3, <4>6
      <4> QED
        BY <4>5, <4>6
    <3>4. Follows(pending', list[q], slack')
      BY <1>1, <2>9 DEF Undisturbed
    <3> QED
      BY <2>8, <2>9, <3>1, <3>2, <3>3, <3>4, UndisturbedKept
  <2>10. ASSUME NEW q \in Procs \ {p} PROVE SyncAt(q)'
    <3>1. SyncAt(q) /\ Same(q) /\ (dirty[q] => dirty'[q])
      BY <1>1, <1>2 DEF MirrorInv
    <3> QED
      BY <2>9, <3>1, SyncAtKept
  <2>11. trusted' => Follows(pending', Values(table'), slack')
    BY <1>1, <2>6 DEF MirrorInv
  <2> QED
    BY <1>1, <1>3, <2>6, <2>10, <2>11 DEF MirrorInv
<1> QED
  BY <1>4, <1>5 DEF Upload

-----------------------------------------------------------------------------
(* Full syncs. *)

(* At first there is nothing in Slack and nothing in the table.             *)
LEMMA InitKept == Init => MirrorInv
<1> SUFFICES ASSUME Init PROVE MirrorInv
  OBVIOUS
<1>1. /\ pending = <<>> /\ slack = Nowhere /\ table = Nowhere
      /\ pc = [p \in Procs |-> "idle"]
  BY DEF Init
<1>2. \A n \in Names : slack[n] = None /\ table[n] = None /\ Values(table)[n] = None
  BY <1>1 DEF Nowhere, Values
<1>3. Told(pending, slack) /\ Follows(pending, Values(table), slack)
  BY <1>1, <1>2, FollowsNothing
<1>4. Closed(slack) /\ Valued
  BY <1>2 DEF Closed, Valued
<1>5. ASSUME NEW p \in Procs PROVE SyncAt(p)
  BY <1>1 DEF SyncAt, Saving
<1> QED
  BY <1>3, <1>4, <1>5 DEF MirrorInv

(* A sync that gives up knows nothing.                                      *)
LEMMA LeaveAway ==
  ASSUME Inv, NEW p \in Procs, Leave(p)
  PROVE  (\A q \in Procs \ {p} : Same(q)) /\ SyncAt(p)'
<1>1. Goto(p, "idle") /\ UNCHANGED <<row, list, todo, created>>
  BY DEF Leave
<1>2. (\A q \in Procs \ {p} : Same(q)) /\ pc'[p] = "idle"
  BY <1>1, SameOthers
<1> QED
  BY <1>2, AwayAt DEF Saving

(* A sync starts from what Slack has now.                                   *)
LEMMA FetchKept ==
  ASSUME Inv, MirrorInv, NEW p \in Procs, Fetch(p)
  PROVE  MirrorInv'
<1>1. UNCHANGED <<slack, pending, table, trusted, late>>
  BY DEF Fetch
<1>2. CASE Leave(p) /\ UNCHANGED dirty
  <2>1. (\A q \in Procs \ {p} : Same(q)) /\ SyncAt(p)'
    BY <1>2, LeaveAway
  <2> QED
    BY <1>1, <1>2, <2>1, StepKept
<1>3. CASE /\ list' = [list EXCEPT ![p] = slack]
           /\ todo' = [todo EXCEPT ![p] = Present(slack)]
           /\ created' = [created EXCEPT ![p] = Nowhere]
           /\ dirty' = [dirty EXCEPT ![p] = ~Replayable]
           /\ Goto(p, "put")
           /\ UNCHANGED row
  <2>1. /\ pc' = [pc EXCEPT ![p] = "put"] /\ pc \in [Procs -> PCs]
        /\ DOMAIN list = Procs /\ DOMAIN todo = Procs /\ DOMAIN created = Procs /\ DOMAIN dirty = Procs
    BY <1>3 DEF Goto, Inv, TypeOK, PlaceType, SyncType, HistoryType
  <2>2. ASSUME NEW q \in Procs \ {p} PROVE Same(q) /\ dirty'[q] = dirty[q]
    BY <1>3, <2>1 DEF Same
  <2>3. pc'[p] = "put" /\ list'[p] = slack /\ todo'[p] = Present(slack) /\ dirty'[p] = ~Replayable
    BY <1>3, <2>1
  <2>4. ASSUME ~dirty'[p] PROVE Undisturbed(p)'
    <3>1. \A i \in 1..Len(pending) : ~pending[i].overtaken /\ pending[i].type # "rename"
      BY <2>3, <2>4, Typed, EventSeq DEF Replayable
    <3>2. pending \in Seq(Event) /\ Told(pending, slack) /\ Closed(slack)
      BY Typed DEF MirrorInv
    <3>3. Follows(pending, slack, slack)
      BY <3>1, <3>2, FollowsFresh
    <3>4. Written(p)' = {}
      BY <2>3 DEF Written, Present
    <3>5. Follows(pending', list'[p], slack') /\ Closed(list'[p])
      BY <1>1, <2>3, <3>2, <3>3
    <3> QED
      BY <3>4, <3>5 DEF Undisturbed
  <2>5. SyncAt(p)'
    BY <2>3, <2>4 DEF SyncAt
  <2>6. ASSUME NEW q \in Procs \ {p} PROVE SyncAt(q)'
    <3>1. SyncAt(q)
      BY DEF MirrorInv
    <3> QED
      BY <1>1, <2>2, <3>1, SameKept
  <2> QED
    BY <1>1, <2>5, <2>6, QuietKept
<1> QED
  BY <1>2, <1>3 DEF Fetch

(* What Put writes, of an image or an alias.                                *)
LEMMA PutIsPut ==
  ASSUME Inv, NEW p \in Procs, NEW n \in Names, list[p][n] \in Value,
         IF list[p][n].alias = None THEN table' = addEmoji(n, list[p][n]) ELSE table' = Deferred(p, n)
  PROVE  \E image \in Urls \cup {None} :
           /\ \A m \in Names : table'[m] = IF m = n THEN Entry(list[p][n], image) ELSE table[m]
           /\ list[p][n].alias # None => image = created[p][list[p][n].alias]
<1>1. TableType /\ table \in Table
  BY Typed
<1>2. CASE list[p][n].alias = None
  <2>1. PICK image \in Urls \cup {None} : table' = [table EXCEPT ![n] = Entry(list[p][n], image)]
    BY <1>1, <1>2, AddIsPut
  <2> QED
    BY <1>1, <1>2, <2>1, PutAt
<1>3. CASE list[p][n].alias # None
  <2>1. created[p][list[p][n].alias] \in Urls \cup {None}
    BY <1>3, Typed, ValueFields
  <2>2. PICK image \in Urls \cup {None} : image = created[p][list[p][n].alias]
    BY <2>1
  <2>3. table' = [table EXCEPT ![n] = Entry(list[p][n], image)]
    BY <1>3, <2>2 DEF Deferred
  <2>4. \A m \in Names : table'[m] = IF m = n THEN Entry(list[p][n], image) ELSE table[m]
    BY <1>1, <2>3, PutAt
  <2> QED
    BY <2>2, <2>4
<1> QED
  BY <1>2, <1>3

(* An undisturbed sync stays so when it writes an entry that is due.        *)
LEMMA PutUndisturbed ==
  ASSUME Inv, Inv', NEW p \in Procs, Undisturbed(p), NEW n \in Due(p), list[p][n] \in Value,
         todo[p] \subseteq Present(list[p]), todo'[p] = todo[p] \ {n},
         UNCHANGED <<slack, pending, list, late>>,
         IF list[p][n].alias = None
         THEN table' = addEmoji(n, list[p][n]) /\ created' = [created EXCEPT ![p][n] = table'[n].image]
         ELSE table' = Deferred(p, n) /\ UNCHANGED created
  PROVE  Undisturbed(p)'
<1>1. n \in todo[p] /\ n \in Names /\ n \in Present(list[p])
  BY DEF Due, Present
<1>2. PICK v \in Value : v = list[p][n]
  OBVIOUS
<1>3. PICK image \in Urls \cup {None} :
        /\ \A m \in Names : table'[m] = IF m = n THEN Entry(v, image) ELSE table[m]
        /\ v.alias # None => image = created[p][v.alias]
  BY <1>1, <1>2, PutIsPut
<1>4. Written(p)' = Written(p) \cup {n} /\ Images(p)' = Images(p) /\ list'[p] = list[p]
  BY <1>1 DEF Written, Images, Present
<1>5. Written(p) \subseteq Names /\ n \notin Written(p)
  BY <1>1 DEF Written, Present
<1>6. table'[n] # None /\ ValueOf(table'[n]) = v /\ table'[n].image = image
      /\ table'[n].url = v.url /\ table'[n].alias = v.alias
  BY <1>1, <1>3, EntryType, EntryValue, EntryFields, NotNone
<1>7. \A m \in Written(p) : table'[m] = table[m]
  BY <1>3, <1>5
<1>8. Follows(pending', list'[p], slack') /\ Closed(list'[p])
  BY <1>4 DEF Undisturbed
<1>9. ASSUME NEW m \in Written(p)' PROVE Has(m, list[p][m])'
  <2>1. CASE m = n
    BY <1>2, <1>4, <1>6, <2>1 DEF Has
  <2>2. CASE m \in Written(p)
    <3>1. table[m] # None /\ ValueOf(table[m]) = list[p][m]
      BY <2>2 DEF Undisturbed, Has
    <3> QED
      BY <1>4, <1>7, <2>2, <3>1 DEF Has
  <2> QED
    BY <1>4, <2>1, <2>2
<1>10. v.alias # None => Images(p) \subseteq Written(p)
  BY <1>1, <1>2 DEF Due, Images, Written
<1>11. v.alias = None <=> n \in Images(p)
  BY <1>1, <1>2 DEF Images
<1>12. ASSUME NEW m \in Written(p)' \ Images(p)' PROVE Images(p)' \subseteq Written(p)'
  BY <1>4, <1>10, <1>11, <1>12 DEF Undisturbed
<1>13. ASSUME ~late', NEW m \in Written(p)' \cap Images(p)'
       PROVE  created'[p][m] \in {None, list'[p][m].url}
  <2>1. created \in [Procs -> [Names -> Urls \cup {None}]]
    BY DEF Inv, TypeOK, SyncType
  <2>2. CASE m = n
    <3>1. v.alias = None
      BY <1>4, <1>11, <1>13, <2>2
    <3>2. created'[p][n] = image
      BY <1>1, <1>2, <1>6, <2>1, <3>1
    <3>3. OwnImages'
      BY DEF Inv
    <3>4. image \in {None, v.url}
      BY <1>1, <1>6, <1>13, <3>1, <3>3 DEF OwnImages
    <3> QED
      BY <1>2, <1>4, <2>2, <3>2, <3>4
  <2>3. CASE m # n
    <3>1. m \in Written(p) \cap Images(p)
      BY <1>4, <2>3
    <3>2. created'[p][m] = created[p][m]
      BY <1>5, <2>1, <2>3, <3>1
    <3> QED
      BY <1>4, <1>13, <3>1, <3>2 DEF Undisturbed
  <2> QED
    BY <2>2, <2>3
<1>14. ASSUME ~late', NEW m \in Written(p)' \ Images(p)'
       PROVE  table'[m].image \in {None, list'[p][list'[p][m].alias].url}
  <2>1. CASE m = n
    <3>1. v.alias # None /\ v.alias \in Names
      BY <1>4, <1>11, <1>14, <2>1, ValueFields
    <3>2. list[p][v.alias] # None /\ list[p][v.alias].alias = None
      BY <1>1, <1>2, <3>1, NotNone DEF Undisturbed, Closed
    <3>3. v.alias \in Images(p)
      BY <3>1, <3>2 DEF Images, Present
    <3>4. v.alias \in Written(p)
      BY <1>10, <3>1, <3>3
    <3>5. created[p][v.alias] \in {None, list[p][v.alias].url}
      BY <1>14, <3>3, <3>4 DEF Undisturbed
    <3> QED
      BY <1>2, <1>3, <1>4, <1>6, <2>1, <3>1, <3>5
  <2>2. CASE m # n
    <3>1. m \in Written(p) \ Images(p)
      BY <1>4, <2>2
    <3>2. table[m].image \in {None, list[p][list[p][m].alias].url}
      BY <1>14, <3>1 DEF Undisturbed
    <3> QED
      BY <1>4, <1>7, <3>1, <3>2
  <2> QED
    BY <2>1, <2>2
<1> QED
  BY <1>8, <1>9, <1>12, <1>13, <1>14 DEF Undisturbed

(* Put: an entry of an undisturbed sync is one that the waiting events      *)
(* start from, so a trusted table may mix old rows and new                  *)
(* (emoji.go:243-283).                                                      *)
LEMMA PutKept ==
  ASSUME Inv, Inv', MirrorInv, NEW p \in Procs, Put(p)
  PROVE  MirrorInv'
<1>1. /\ pc[p] = "put"
      /\ UNCHANGED <<slack, pending, pc, row, list, late>>
  BY DEF Put
<1>2. PICK n \in Due(p) :
        /\ todo' = [todo EXCEPT ![p] = @ \ {n}]
        /\ \/ /\ IF list[p][n].alias = None
                 THEN /\ table' = addEmoji(n, list[p][n])
                      /\ created' = [created EXCEPT ![p][n] = table'[n].image]
                 ELSE /\ table' = Deferred(p, n)
                      /\ UNCHANGED created
              /\ trusted' = (trusted /\ ~dirty[p])
              /\ Soil(p)
              /\ UNCHANGED faults
           \/ /\ Fault
              /\ dirty' = [dirty EXCEPT ![p] = TRUE]
              /\ trusted' = FALSE
              /\ UNCHANGED <<table, created>>
  BY DEF Put
<1>3. todo[p] \subseteq Present(list[p]) /\ n \in todo[p] /\ n \in Names
  BY <1>1 DEF Due, Inv, Control, ControlAt, Present
<1>4. PICK v \in Value : v = list[p][n]
  BY <1>3, Typed DEF Present
<1>5. /\ todo \in [Procs -> SUBSET Names] /\ dirty \in [Procs -> BOOLEAN]
      /\ created \in [Procs -> [Names -> Urls \cup {None}]]
  BY DEF Inv, TypeOK, SyncType, HistoryType
<1>6. todo'[p] = todo[p] \ {n} /\ \A q \in Procs \ {p} : todo'[q] = todo[q]
  BY <1>2, <1>5
<1>7. \A q \in Procs \ {p} : created'[q] = created[q]
  BY <1>2, <1>5
<1>8. \A q \in Procs \ {p} : Same(q)
  BY <1>1, <1>6, <1>7 DEF Same
<1>9. CASE /\ dirty' = [dirty EXCEPT ![p] = TRUE]
           /\ trusted' = FALSE
           /\ UNCHANGED <<table, created>>
  <2>1. dirty'[p] /\ \A q \in Procs \ {p} : dirty'[q] = dirty[q]
    BY <1>5, <1>9
  <2>2. SyncAt(p)'
    BY <1>1, <2>1 DEF SyncAt
  <2>3. ASSUME NEW q \in Procs \ {p} PROVE SyncAt(q)'
    <3>1. SyncAt(q)
      BY DEF MirrorInv
    <3> QED
      BY <1>1, <1>8, <1>9, <2>1, <3>1, SameKept
  <2> QED
    BY <1>1, <1>9, <2>2, <2>3, QuietKept
<1>10. CASE /\ IF list[p][n].alias = None
               THEN /\ table' = addEmoji(n, list[p][n])
                    /\ created' = [created EXCEPT ![p][n] = table'[n].image]
               ELSE /\ table' = Deferred(p, n)
                    /\ UNCHANGED created
            /\ trusted' = (trusted /\ ~dirty[p])
            /\ Soil(p)
  <2>1. dirty' = [q \in Procs |-> dirty[q] \/ (q # p /\ pc[q] \in Syncing)]
    BY <1>10 DEF Soil
  <2>2. PICK image \in Urls \cup {None} :
          \A m \in Names : table'[m] = IF m = n THEN Entry(v, image) ELSE table[m]
    BY <1>3, <1>4, <1>10, PutIsPut
  <2>3. ASSUME NEW m \in Names PROVE Values(table')[m] = IF m = n THEN v ELSE Values(table)[m]
    <3>1. PICK t : t = table
      OBVIOUS
    <3>2. PICK u : u = table'
      OBVIOUS
    <3> QED
      BY <1>3, <2>2, <3>1, <3>2, PutValues
  <2>4. Valued'
    BY <2>2, EntryValue DEF Valued, MirrorInv
  <2>5. Undisturbed(p) => Undisturbed(p)'
    <3> SUFFICES ASSUME Undisturbed(p) PROVE Undisturbed(p)'
      OBVIOUS
    <3> QED
      BY <1>1, <1>3, <1>4, <1>6, <1>10, PutUndisturbed
  <2>6. ASSUME trusted' PROVE Follows(pending', Values(table'), slack')
    <3>1. trusted /\ ~dirty[p]
      BY <1>10, <2>6
    <3>2. Undisturbed(p) /\ Follows(pending, Values(table), slack)
      BY <1>1, <3>1 DEF MirrorInv, SyncAt, Saving
    <3>3. Follows(pending, list[p], slack)
      BY <3>2 DEF Undisturbed
    <3>4. PICK f, g, h : f = Values(table) /\ g = list[p] /\ h = Values(table')
      OBVIOUS
    <3>5. \A m \in Names : h[m] \in {f[m], g[m]}
      BY <1>4, <2>3, <3>4
    <3>6. Follows(pending, h, slack)
      BY <3>2, <3>3, <3>4, <3>5, FollowsMixed, Typed
    <3> QED
      BY <1>1, <3>4, <3>6
  <2>7. SyncAt(p)'
    <3>1. dirty'[p] = dirty[p] /\ pc'[p] = "put"
      BY <1>1, <1>5, <2>1
    <3>2. ~dirty[p] => Undisturbed(p)
      BY <1>1 DEF MirrorInv, SyncAt, Saving
    <3> QED
      BY <2>5, <3>1, <3>2 DEF SyncAt
  <2>8. ASSUME NEW q \in Procs \ {p} PROVE SyncAt(q)'
    <3>1. SyncAt(q) /\ Same(q)
      BY <1>8 DEF MirrorInv
    <3>2. (dirty[q] => dirty'[q]) /\ (pc[q] \in Saving => dirty'[q])
      BY <2>1 DEF Saving, Syncing
    <3> QED
      BY <3>1, <3>2, SyncAtKept
  <2>9. Told(pending', slack') /\ Closed(slack')
    BY <1>1 DEF MirrorInv
  <2> QED
    BY <2>4, <2>6, <2>7, <2>8, <2>9 DEF MirrorInv
<1> QED
  BY <1>2, <1>9, <1>10

(* All entries are written.                                                 *)
LEMMA PutDoneKept ==
  ASSUME Inv, MirrorInv, NEW p \in Procs, PutDone(p)
  PROVE  MirrorInv'
<1>1. /\ pc[p] = "put" /\ todo[p] = {} /\ Goto(p, "prune")
      /\ UNCHANGED <<slack, pending, table, late, dirty, trusted, row, list, todo, created>>
  BY DEF PutDone, history
<1>2. (\A q \in Procs \ {p} : Same(q)) /\ pc'[p] = "prune"
  BY <1>1, SameOthers
<1>3. Undisturbed(p) => Undisturbed(p)'
  BY <1>1 DEF Undisturbed, Written, Images, Present, Has
<1>4. SyncAt(p)'
  BY <1>1, <1>2, <1>3 DEF SyncAt, Saving, MirrorInv
<1> QED
  BY <1>1, <1>2, <1>4, StepKept

(* A sync that has written what Slack answered has removed the rest.        *)
LEMMA PrunedIsAnswer ==
  ASSUME Inv, NEW p \in Procs, Undisturbed(p), todo[p] = {}, NEW m \in Names,
         table' = IF TooMany(p) THEN Prune(Present(list[p])) ELSE table
  PROVE  /\ Values(table')[m] = list[p][m]
         /\ list[p][m] # None => table'[m] = table[m]
<1>1. Written(p) = Present(list[p])
  BY DEF Written
<1>2. CASE list[p][m] # None
  <2>1. Has(m, list[p][m]) /\ m \in Present(list[p])
    BY <1>1, <1>2 DEF Undisturbed, Present
  <2>2. table'[m] = table[m]
    BY <2>1 DEF Prune
  <2> QED
    BY <2>1, <2>2 DEF Has, Values
<1>3. CASE list[p][m] = None
  <2>1. CASE TooMany(p)
    <3>1. table'[m] = None
      BY <1>3, <2>1 DEF Prune, Present
    <3> QED
      BY <1>3, <3>1 DEF Values
  <2>2. CASE ~TooMany(p)
    <3>1. Present(list[p]) \subseteq Present(table)
      BY <1>1 DEF Undisturbed, Has, Present
    <3>2. IsFiniteSet(Present(table))
      BY NamesAssumption, FS_Subset DEF Present
    <3>3. /\ Cardinality(Present(list[p])) <= Cardinality(Present(table))
          /\ Cardinality(Present(table)) = Cardinality(Present(list[p])) => Present(table) = Present(list[p])
          /\ IsFiniteSet(Present(list[p]))
      BY <3>1, <3>2, FS_Subset
    <3>4. Cardinality(Present(table)) \in Nat /\ Cardinality(Present(list[p])) \in Nat
      BY <3>2, <3>3, FS_CardinalityType
    <3>5. Cardinality(Present(table)) = Cardinality(Present(list[p]))
      BY <2>2, <3>3, <3>4 DEF TooMany
    <3>6. Present(table) = Present(list[p])
      BY <3>3, <3>5
    <3>7. table[m] = None
      BY <1>3, <3>6 DEF Present
    <3> QED
      BY <1>3, <2>2, <3>7 DEF Values
  <2> QED
    BY <2>1, <2>2
<1> QED
  BY <1>2, <1>3

(* The end of a sync is the goroutine's own, but for what it soils.         *)
LEMMA SyncedFacts ==
  ASSUME Inv, NEW p \in Procs, Synced(p), UNCHANGED row
  PROVE  /\ \A q \in Procs \ {p} : Same(q) /\ dirty'[q] = (dirty[q] \/ pc[q] \in Syncing)
         /\ pc'[p] \in {"read", "next", "idle"}
<1>1. /\ Goto(p, CASE task[p] = "lookup" -> "read" [] task[p] = "pack" -> "next" [] OTHER -> "idle")
      /\ todo' = [todo EXCEPT ![p] = IF task[p] = "pack" THEN Present(list[p]) ELSE {}]
      /\ list' = [list EXCEPT ![p] = Nowhere]
      /\ created' = [created EXCEPT ![p] = Nowhere]
      /\ dirty' = [q \in Procs |-> IF q = p THEN FALSE ELSE dirty[q] \/ pc[q] \in Syncing]
  BY DEF Synced
<1>2. /\ pc \in [Procs -> PCs] /\ DOMAIN todo = Procs /\ DOMAIN list = Procs /\ DOMAIN created = Procs
  BY DEF Inv, TypeOK, PlaceType, SyncType
<1>3. PICK label \in {"read", "next", "idle"} : pc' = [pc EXCEPT ![p] = label]
  BY <1>1 DEF Goto
<1>4. ASSUME NEW q \in Procs \ {p}
      PROVE  /\ pc'[q] = pc[q] /\ todo'[q] = todo[q] /\ list'[q] = list[q] /\ created'[q] = created[q]
             /\ dirty'[q] = (dirty[q] \/ pc[q] \in Syncing)
  BY <1>1, <1>2, <1>3
<1>5. pc'[p] = label
  BY <1>2, <1>3
<1> QED
  BY <1>4, <1>5 DEF Same

(* PruneRemoved: the table of an undisturbed sync is trusted from now on,   *)
(* whatever it was before (emoji.go:285-296).                               *)
LEMMA PruneKept ==
  ASSUME Inv, MirrorInv, NEW p \in Procs, PruneRemoved(p)
  PROVE  MirrorInv'
<1>1. pc[p] = "prune" /\ Synced(p) /\ UNCHANGED <<slack, pending, row, late>>
  BY DEF PruneRemoved
<1>2. /\ \A q \in Procs \ {p} : Same(q) /\ dirty'[q] = (dirty[q] \/ pc[q] \in Syncing)
      /\ pc'[p] \in {"read", "next", "idle"}
  BY <1>1, SyncedFacts
<1>3. ASSUME NEW q \in Procs PROVE SyncAt(q)'
  <2>1. CASE q = p
    BY <1>2, <2>1, AwayAt DEF Saving
  <2>2. CASE q # p
    <3>1. SyncAt(q) /\ Same(q) /\ (dirty[q] => dirty'[q]) /\ (pc[q] \in Saving => dirty'[q])
      BY <1>2, <2>2 DEF MirrorInv, Saving, Syncing
    <3> QED
      BY <3>1, SyncAtKept
  <2> QED
    BY <2>1, <2>2
<1>4. Told(pending', slack') /\ Closed(slack')
  BY <1>1 DEF MirrorInv
<1>5. CASE trusted' = FALSE /\ UNCHANGED table
  <2>1. Valued'
    BY <1>5 DEF Valued, MirrorInv
  <2> QED
    BY <1>3, <1>4, <1>5, <2>1 DEF MirrorInv
<1>6. CASE /\ table' = IF TooMany(p) THEN Prune(Present(list[p])) ELSE table
           /\ trusted' = ~dirty[p]
  <2>1. ASSUME NEW m \in Names PROVE table'[m] \in {None, table[m]}
    BY <1>6 DEF Prune
  <2>2. Valued'
    BY <2>1 DEF Valued, MirrorInv
  <2>3. ASSUME trusted' PROVE Follows(pending', Values(table'), slack')
    <3>1. Undisturbed(p) /\ todo[p] = {}
      BY <1>1, <1>6, <2>3 DEF MirrorInv, SyncAt, Saving
    <3>2. \A m \in Names : Values(table')[m] = list[p][m]
      BY <1>6, <3>1, PrunedIsAnswer
    <3>3. Follows(pending, list[p], slack)
      BY <3>1 DEF Undisturbed
    <3>4. PICK f, h : f = list[p] /\ h = Values(table')
      OBVIOUS
    <3>5. Follows(pending, h, slack)
      BY <3>2, <3>3, <3>4, FollowsMixed, Typed
    <3> QED
      BY <1>1, <3>4, <3>5
  <2> QED
    BY <1>3, <1>4, <2>2, <2>3 DEF MirrorInv
<1> QED
  BY <1>5, <1>6 DEF PruneRemoved

-----------------------------------------------------------------------------
(* The process ends. *)

(* A restart loses the events that wait, and the syncs.                     *)
LEMMA StopKept ==
  ASSUME MirrorInv, Stop
  PROVE  MirrorInv'
<1>1. /\ pending' = <<>> /\ UNCHANGED <<slack, table>>
      /\ pc' = [p \in Procs |-> "idle"]
      /\ trusted' => trusted /\ pending = <<>>
  BY DEF Stop
<1>2. Told(pending', slack') /\ Closed(slack') /\ Valued'
  BY <1>1, FollowsNothing DEF MirrorInv, Valued
<1>3. trusted' => Follows(pending', Values(table'), slack')
  BY <1>1 DEF MirrorInv
<1>4. ASSUME NEW p \in Procs PROVE SyncAt(p)'
  BY <1>1, AwayAt DEF Saving
<1> QED
  BY <1>2, <1>3, <1>4 DEF MirrorInv

(* A panic in the deletion of no names.                                     *)
LEMMA PanicKept ==
  ASSUME Inv, MirrorInv, NEW p \in Procs, Panic(p)
  PROVE  MirrorInv'
<1>1. CASE Stop
  BY <1>1, StopKept
<1>2. CASE /\ Leave(p) /\ trusted' = FALSE
           /\ UNCHANGED <<slack, pending, table, late, dirty>>
  <2>1. (\A q \in Procs \ {p} : Same(q)) /\ SyncAt(p)'
    BY <1>2, LeaveAway
  <2> QED
    BY <1>2, <2>1, StepKept
<1> QED
  BY <1>1, <1>2 DEF Panic

(* Nothing happens.                                                         *)
LEMMA StutterKept ==
  ASSUME Inv, MirrorInv, UNCHANGED vars
  PROVE  MirrorInv'
<1>1. UNCHANGED <<slack, pending, table, late, dirty, trusted, pc, row, list, todo, created>>
  BY DEF vars, procs, history
<1>2. ASSUME NEW q \in Procs PROVE SyncAt(q)'
  <2>1. SyncAt(q) /\ Same(q) /\ (dirty[q] => dirty'[q])
    BY <1>1 DEF MirrorInv, Same
  <2> QED
    BY <1>1, <2>1, SameKept
<1> QED
  BY <1>1, <1>2, QuietKept

-----------------------------------------------------------------------------
(* The theorems. *)

(* A step of a goroutine keeps the invariant.                               *)
LEMMA StepOfKept ==
  ASSUME Inv, Inv', MirrorInv, NEW p \in Procs, Step(p)
  PROVE  MirrorInv'
BY ReadKept, LockUploadKept, UploadKept, TryLockKept, LockSyncKept, FetchKept, PutKept, PutDoneKept,
   PruneKept, PanicKept, NextOfPackKept DEF Step

(* Every step keeps the invariant.                                          *)
LEMMA NextKept ==
  ASSUME Inv, Inv', MirrorInv, [Next]_vars
  PROVE  MirrorInv'
<1>1. CASE \E n \in Names, u \in Urls : AddImage(n, u)
  BY <1>1, AddImageKept
<1>2. CASE \E n, t \in Names : AddAlias(n, t)
  BY <1>2, AddAliasKept
<1>3. CASE \E n \in Names : RemoveEmoji(n)
  BY <1>3, RemoveEmojiKept
<1>4. CASE \E o, n \in Names : RenameEmoji(o, n)
  BY <1>4, RenameEmojiKept
<1>5. CASE \E i \in DOMAIN pending : handleEmojiChange(i)
  BY <1>5, EventKept
<1>6. CASE \E p \in Procs, kind \in Kinds, n \in Names : Start(p, kind, n)
  BY <1>6, StartKept
<1>7. CASE \E p \in Procs : Step(p)
  BY <1>7, StepOfKept
<1>8. CASE Restart
  BY <1>8, StopKept DEF Restart
<1>9. CASE UNCHANGED vars
  BY <1>9, StutterKept
<1> QED
  BY <1>1, <1>2, <1>3, <1>4, <1>5, <1>6, <1>7, <1>8, <1>9 DEF Next

(* What Slack has is what the waiting events tell, a trusted table is what  *)
(* they start from, and so is the answer that an undisturbed sync works on; *)
(* its rows are in the table as far as it is done (emoji.go:86-122,         *)
(* 225-296).                                                                *)
THEOREM MirrorInvariance == Spec => []MirrorInv
<1>1. Init => MirrorInv
  BY InitKept
<1>2. Inv /\ Inv' /\ MirrorInv /\ [Next]_vars => MirrorInv'
  BY NextKept
<1> QED
  BY <1>1, <1>2, Invariance, PTL DEF Spec

(* With no event waiting and no sync under way a trusted table has Slack's  *)
(* shortcodes and values, for any number of emoji, goroutines, changes and  *)
(* faults: events handled in their order, and full syncs that run           *)
(* undisturbed in whatever order with them, reach what Slack has            *)
(* (emoji.go:86-122 and 225-296).                                           *)
THEOREM TableMirrors == Spec => []Mirrors
<1>1. MirrorInv => Mirrors
  <2> SUFFICES ASSUME MirrorInv, trusted, AtRest, NEW n \in Names
               PROVE  IF slack[n] = None THEN table[n] = None ELSE Has(n, slack[n])
    BY DEF Mirrors
  <2>1. Follows(<<>>, Values(table), slack)
    BY DEF MirrorInv, AtRest
  <2>2. Values(table)[n] = slack[n]
    BY <2>1, FollowsNothing
  <2>3. table[n] # None => ValueOf(table[n]) # None
    BY NotNone DEF MirrorInv, Valued
  <2> QED
    BY <2>2, <2>3 DEF Values, Has
<1> QED
  BY <1>1, MirrorInvariance, PTL

(* A goroutine that is in prune leaves it by the end of its sync.           *)
LEMMA LeavesPrune ==
  ASSUME Inv, [Next]_vars, NEW p \in Procs, pc[p] = "prune", pc'[p] # "prune", trusted'
  PROVE  PruneRemoved(p)
<1>1. pc \in [Procs -> PCs]
  BY DEF Inv, TypeOK, PlaceType
<1>2. ~Stop
  BY DEF Stop, Syncing
<1>3. ASSUME NEW q \in Procs \ {p}, NEW label, Goto(q, label) PROVE FALSE
  BY <1>1, <1>3 DEF Goto
<1>4. ~UNCHANGED pc
  OBVIOUS
<1>5. ASSUME NEW e, NEW t, Change(e, t) PROVE FALSE
  BY <1>4, <1>5 DEF Change, procs
<1>6. ASSUME NEW i \in DOMAIN pending, handleEmojiChange(i) PROVE FALSE
  BY <1>4, <1>6 DEF handleEmojiChange, procs
<1>7. ASSUME NEW q \in Procs, NEW kind \in Kinds, NEW n \in Names, Start(q, kind, n) PROVE FALSE
  <2>1. q # p /\ \E label : Goto(q, label)
    BY <1>7 DEF Start
  <2> QED
    BY <1>3, <2>1
<1>8. ASSUME NEW q \in Procs, Step(q) PROVE q = p
  <2> SUFFICES ASSUME q # p PROVE FALSE
    OBVIOUS
  <2>1. (\E label : Goto(q, label)) \/ UNCHANGED pc
    <3>1. Return(q) => \E label : Goto(q, label)
      BY DEF Return
    <3>2. Leave(q) => \E label : Goto(q, label)
      BY DEF Leave
    <3>3. Read(q) => (\E label : Goto(q, label)) \/ UNCHANGED pc
      BY <3>1 DEF Read, NotFound
    <3>4. LockUpload(q) \/ LockSync(q) \/ PutDone(q) => \E label : Goto(q, label)
      BY DEF LockUpload, LockSync, PutDone
    <3>5. Upload(q) \/ TryLock(q) => \E label : Goto(q, label)
      BY <3>1 DEF Upload, TryLock
    <3>6. Fetch(q) => \E label : Goto(q, label)
      BY <3>2 DEF Fetch
    <3>7. Put(q) => UNCHANGED pc
      BY DEF Put
    <3>8. PruneRemoved(q) => \E label : Goto(q, label)
      BY DEF PruneRemoved, Synced
    <3>9. Panic(q) => \E label : Goto(q, label)
      BY <1>2, <3>2 DEF Panic
    <3>10. NextOfPack(q) => \E label : Goto(q, label)
      BY DEF NextOfPack
    <3> QED
      BY <1>8, <3>3, <3>4, <3>5, <3>6, <3>7, <3>8, <3>9, <3>10 DEF Step
  <2> QED
    BY <1>3, <1>4, <2>1
<1>9. \E q \in Procs : Step(q)
  <2>1. ~\E n \in Names, u \in Urls : AddImage(n, u)
    BY <1>5 DEF AddImage
  <2>2. ~\E n, t \in Names : AddAlias(n, t)
    BY <1>5 DEF AddAlias
  <2>3. ~\E n \in Names : RemoveEmoji(n)
    BY <1>5 DEF RemoveEmoji
  <2>4. ~\E o, n \in Names : RenameEmoji(o, n)
    BY <1>5 DEF RenameEmoji
  <2>5. ~Restart
    BY <1>2 DEF Restart
  <2>6. ~UNCHANGED vars
    BY <1>4 DEF vars, procs
  <2> QED
    BY <1>6, <1>7, <2>1, <2>2, <2>3, <2>4, <2>5, <2>6 DEF Next
<1>10. Step(p)
  BY <1>8, <1>9
<1>11. ~Panic(p)
  BY <1>2 DEF Panic
<1> QED
  BY <1>10, <1>11 DEF Step, Read, LockUpload, Upload, TryLock, LockSync, Fetch, Put, PutDone, NextOfPack

(* At the end of an undisturbed sync each alias has the image of its target.*)
LEMMA PruneRepairs ==
  ASSUME Inv, MirrorInv, NEW p \in Procs, PruneRemoved(p), trusted', ~late
  PROVE  AliasImages'
<1>1. /\ table' = IF TooMany(p) THEN Prune(Present(list[p])) ELSE table
      /\ ~dirty[p] /\ pc[p] = "prune"
  BY DEF PruneRemoved
<1>2. Undisturbed(p) /\ todo[p] = {}
  BY <1>1 DEF MirrorInv, SyncAt, Saving
<1>3. Written(p) = Present(list[p]) /\ list[p] \in [Names -> Value \cup {None}]
  BY <1>2, Typed DEF Written
<1>4. ASSUME NEW m \in Names
      PROVE  Values(table')[m] = list[p][m] /\ (list[p][m] # None => table'[m] = table[m])
  BY <1>1, <1>2, PrunedIsAnswer
<1>5. ASSUME NEW m \in Names, list[p][m] # None
      PROVE  table'[m] # None /\ table'[m].url = list[p][m].url /\ table'[m].alias = list[p][m].alias
  <2>1. Has(m, list[p][m])
    BY <1>2, <1>3, <1>5 DEF Undisturbed, Present
  <2>2. table'[m] = table[m]
    BY <1>4, <1>5
  <2> QED
    BY <2>1, <2>2, HasFields
<1>6. ASSUME NEW m \in Names, table'[m] # None PROVE list[p][m] # None
  <2>1. table[m] = table'[m]
    BY <1>1, <1>6 DEF Prune
  <2>2. ValueOf(table'[m]) # None
    BY <1>6, <2>1, NotNone DEF MirrorInv, Valued
  <2> QED
    BY <1>4, <1>6, <2>2 DEF Values
<1> SUFFICES ASSUME NEW n \in Names, table'[n] # None, table'[n].alias # None
             PROVE  /\ table'[table'[n].alias] # None
                    /\ table'[n].image \in {None, table'[table'[n].alias].url}
  BY DEF AliasImages
<1>7. list[p][n] # None /\ table'[n].alias = list[p][n].alias /\ table'[n] = table[n]
  BY <1>4, <1>5, <1>6
<1>8. PICK t \in Names : t = list[p][n].alias
  BY <1>3, <1>7, ValueFields
<1>9. list[p][t] # None
  BY <1>2, <1>7, <1>8, NotNone DEF Undisturbed, Closed
<1>10. table'[t] # None /\ table'[t].url = list[p][t].url
  BY <1>5, <1>9
<1>11. table[n].image \in {None, list[p][t].url}
  <2>1. n \in Written(p) \ Images(p)
    BY <1>3, <1>7, <1>8, NotNone DEF Images, Present
  <2> QED
    BY <1>2, <1>8, <2>1 DEF Undisturbed
<1> QED
  BY <1>7, <1>8, <1>10, <1>11

(* A full sync that ends undisturbed leaves every alias with a target and   *)
(* its image or none, whatever images the table had before                  *)
(* (emoji.go:263-276, 286-293).                                             *)
THEOREM SyncsRepair == Spec => SyncRepairs
<1>1. Inv /\ MirrorInv /\ [Next]_vars =>
        [\A p \in Procs : pc[p] = "prune" /\ pc'[p] # "prune" /\ trusted' /\ ~late => AliasImages']_vars
  <2> SUFFICES ASSUME Inv, MirrorInv, [Next]_vars, NEW p \in Procs,
                      pc[p] = "prune", pc'[p] # "prune", trusted', ~late
               PROVE  AliasImages'
    OBVIOUS
  <2>1. PruneRemoved(p)
    BY LeavesPrune
  <2> QED
    BY <2>1, PruneRepairs
<1> QED
  BY <1>1, Invariance, MirrorInvariance, PTL DEF Spec, SyncRepairs

=============================================================================
