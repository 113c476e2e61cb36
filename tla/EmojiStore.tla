----------------------------- MODULE EmojiStore -----------------------------
(***************************************************************************)
(* The custom emoji of one Slack team: pkg/connector/emoji.go over the     *)
(* table of pkg/connector/slackdb/emoji.go.                                *)
(*                                                                         *)
(* Every change event is handled in a goroutine of its own, so the events  *)
(* wait in any order for the team's lock.  Start-up syncs, lookups of      *)
(* single emoji and downloads of the whole image pack run beside them.     *)
(* Database calls outside the lock, calls to Slack and uploads are steps.  *)
(***************************************************************************)
EXTENDS Integers, FiniteSets, Sequences, SequencesExt

CONSTANTS
  Names,       \* shortcodes of the team's custom emoji
  Urls,        \* image URLs; an upload to Matrix is named by what it shows
  None,        \* NULL, "" or a missing row
  Procs,       \* goroutines that look up and sync
  Free,        \* the team's mutex is not locked
  Kinds,       \* tasks to be run
  MaxChanges,  \* bound on the changes in Slack
  MaxFaults    \* bound on failed calls and restarts

Tasks == {"lookup", "startup", "unknown", "pack"}

ASSUME NamesAssumption == IsFiniteSet(Names) /\ None \notin Names \cup Urls /\ Free \notin Procs
ASSUME BoundAssumption == MaxChanges \in Nat /\ MaxFaults \in Nat /\ Kinds \subseteq Tasks

(* An emoji is an image or an alias: the value starts with "alias:".        *)
Value == [url : Urls, alias : {None}] \cup [url : {None}, alias : Names]
Row == [url : Urls \cup {None}, alias : Names \cup {None}, image : Urls \cup {None}]
Only == {{n} : n \in Names}
Event ==
  [type : {"add"}, names : Only, old : {None}, value : Value, overtaken : BOOLEAN]
    \cup [type : {"remove"}, names : SUBSET Names, old : {None}, value : {None}, overtaken : BOOLEAN]
    \cup [type : {"rename"}, names : Only, old : Names, value : Value, overtaken : BOOLEAN]

ASSUME RowAssumption == None \notin Row \cup Value

VARIABLES
  slack,     \* emoji.list of the team
  pending,   \* change events not handled yet, in the order of the changes
  table,     \* rows of the team
  lock,      \* holder of the team's mutex
  \* each goroutine
  pc,
  task,
  name,      \* shortcode looked up
  deep,      \* the lookup followed an alias (allowRecurse = false)
  again,     \* the lookup after a resync
  row,       \* the row to upload the image of
  list,      \* answer of GetEmojiContext
  todo,      \* entries of the answer not handled yet
  created,   \* images of the rows in the map created
  \* bounds and history
  changes,
  faults,
  dirty,     \* a call of the sync failed, or something was written beside it
  trusted,   \* the table was right and no event was lost or overtaken since
  late       \* an image was saved after the row it was read from had changed

procs == <<pc, task, name, deep, again, row, list, todo, created>>
history == <<changes, faults, dirty, trusted, late>>
vars == <<slack, pending, table, lock, procs, history>>

Syncing == {"fetch", "put", "prune"}
PCs == Syncing \cup {"idle", "wait", "read", "try", "queue", "upload", "next"}

Nowhere == [n \in Names |-> None]
Present(f) == {n \in Names : f[n] # None}

Init ==
  /\ slack = Nowhere
  /\ pending = <<>>
  /\ table = Nowhere
  /\ lock = Free
  /\ pc = [p \in Procs |-> "idle"]
  /\ task = [p \in Procs |-> "lookup"]
  /\ name = [p \in Procs |-> None]
  /\ deep = [p \in Procs |-> FALSE]
  /\ again = [p \in Procs |-> FALSE]
  /\ row = [p \in Procs |-> None]
  /\ list = [p \in Procs |-> Nowhere]
  /\ todo = [p \in Procs |-> {}]
  /\ created = [p \in Procs |-> Nowhere]
  /\ changes = 0
  /\ faults = 0
  /\ dirty = [p \in Procs |-> FALSE]
  /\ trusted = TRUE
  /\ late = FALSE

-----------------------------------------------------------------------------
(* Slack.  Removing an emoji removes its aliases in the same event; one     *)
(* that has aliases is not renamed here.                                    *)
Change(event, after) ==
  /\ changes < MaxChanges
  /\ changes' = changes + 1
  /\ slack' = after
  /\ pending' = Append(pending, event)
  /\ UNCHANGED <<table, lock, procs, faults, dirty, trusted, late>>

Aliases(n) == {a \in Present(slack) : slack[a].alias = n}

AddImage(n, u) ==
  LET value == [url |-> u, alias |-> None]
  IN /\ slack[n] = None
     /\ \A m \in Present(slack) : slack[m].url # u
     /\ Change([type |-> "add", names |-> {n}, old |-> None, value |-> value, overtaken |-> FALSE],
               [slack EXCEPT ![n] = value])

AddAlias(n, t) ==
  LET value == [url |-> None, alias |-> t]
  IN /\ slack[n] = None
     /\ slack[t] # None
     /\ slack[t].alias = None
     /\ Change([type |-> "add", names |-> {n}, old |-> None, value |-> value, overtaken |-> FALSE],
               [slack EXCEPT ![n] = value])

RemoveEmoji(n) ==
  LET gone == {n} \cup Aliases(n)
  IN /\ slack[n] # None
     /\ Change([type |-> "remove", names |-> gone, old |-> None, value |-> None, overtaken |-> FALSE],
               [m \in Names |-> IF m \in gone THEN None ELSE slack[m]])

RenameEmoji(o, n) ==
  /\ slack[o] # None /\ slack[n] = None /\ Aliases(o) = {}
  /\ Change([type |-> "rename", names |-> {n}, old |-> o, value |-> slack[o],
             overtaken |-> FALSE],
            [slack EXCEPT ![o] = None, ![n] = slack[o]])

-----------------------------------------------------------------------------
(* The table. *)

ValueOf(r) == [url |-> r.url, alias |-> r.alias]
Entry(value, image) == [url |-> value.url, alias |-> value.alias, image |-> image]
Has(n, value) == table[n] # None /\ ValueOf(table[n]) = value

(* addEmoji: the image survives if the value is the same; a new alias takes *)
(* the image its target has by now.                                         *)
addEmoji(n, value) ==
  LET kept == IF Has(n, value) THEN table[n].image ELSE None
      target == value.alias
      found == target # None /\ table[target] # None /\ table[target].image # None
  IN [table EXCEPT ![n] = Entry(value, IF found THEN table[target].image ELSE kept)]

DeleteMany(names) == [n \in Names |-> IF n \in names THEN None ELSE table[n]]

(* Mutant: the row of the old name stays.                                   *)
RenameCopy(o, n) == [table EXCEPT ![n] = table[o]]

(* UPDATE of the primary key: fails if the new name has a row.              *)
Rename(o, n) ==
  IF table[n] # None THEN table
  ELSE [table EXCEPT ![o] = None, ![n] = table[o]]

(* Mutant: every row of the team gets the image.                            *)
SaveMXCTeam(n, image) ==
  [m \in Names |-> IF table[m] # None THEN [table[m] EXCEPT !.image = image] ELSE None]

SaveMXC(n, image) ==
  [m \in Names |-> IF table[m] # None /\ (m = n \/ table[m].alias = n)
                   THEN [table[m] EXCEPT !.image = image] ELSE table[m]]

Prune(names) == [n \in Names |-> IF n \in names THEN table[n] ELSE None]

Applied(e) ==
  LET n == CHOOSE m \in e.names : TRUE
  IN CASE e.type = "add" -> addEmoji(n, e.value)
       [] e.type = "remove" -> DeleteMany(e.names)
       [] e.type = "rename" -> IF Has(e.old, e.value) THEN Rename(e.old, n)
                               ELSE addEmoji(n, e.value)

-----------------------------------------------------------------------------
Goto(p, label) == pc' = [pc EXCEPT ![p] = label]
Fault == faults < MaxFaults /\ faults' = faults + 1

(* What p writes makes every other sync that runs work on an old list.      *)
Soil(p) == dirty' = [q \in Procs |-> dirty[q] \/ (q # p /\ pc[q] \in Syncing)]

(* The event at i overtakes the earlier ones of the same emoji.             *)
Touched(e) == e.names \cup {e.old}
Overtaken(i) == {j \in 1..i - 1 : (Touched(pending[j]) \cap Touched(pending[i])) \ {None} # {}}
Others(i) == RemoveAt([j \in DOMAIN pending |->
                         [pending[j] EXCEPT !.overtaken = @ \/ j \in Overtaken(i)]], i)

(* handleEmojiChange under the lock, by the goroutines in any order.        *)
handleEmojiChange(i) ==
  LET e == pending[i]
  IN /\ lock = Free
     /\ pending' = Others(i)
     /\ \/ /\ table' = Applied(e)
           /\ trusted' = (trusted /\ Overtaken(i) = {})
           /\ UNCHANGED faults
        \/ /\ Fault
           /\ trusted' = FALSE
           /\ UNCHANGED table
     /\ dirty' = [q \in Procs |-> dirty[q] \/ pc[q] \in Syncing]
     /\ UNCHANGED <<slack, lock, procs, changes, late>>

-----------------------------------------------------------------------------
Start(p, kind, n) ==
  /\ pc[p] = "idle"
  /\ task' = [task EXCEPT ![p] = kind]
  /\ name' = [name EXCEPT ![p] = IF kind = "lookup" THEN n ELSE None]
  /\ Goto(p, CASE kind = "lookup" -> "read"
               [] kind = "pack" -> "fetch"
               [] OTHER -> "wait")
  /\ UNCHANGED <<slack, pending, table, lock, deep, again, row, list, todo, created, history>>

(* The lookup ends: a pack goes on with the next emoji.                     *)
Return(p) ==
  /\ Goto(p, IF task[p] = "pack" THEN "next" ELSE "idle")
  /\ name' = [name EXCEPT ![p] = None]
  /\ deep' = [deep EXCEPT ![p] = FALSE]
  /\ again' = [again EXCEPT ![p] = FALSE]
  /\ row' = [row EXCEPT ![p] = None]

(* Mutant: a lookup that finds nothing resyncs again and again.             *)
NotFoundAgain(p) ==
  IF task[p] = "lookup" /\ ~deep[p] THEN Goto(p, "try") /\ UNCHANGED <<name, deep, again, row>>
  ELSE Return(p)

(* tryGetEmoji reads a row, without the lock.  A failed query counts as not *)
(* found.                                                                   *)
NotFound(p) ==
  IF task[p] = "lookup" /\ ~deep[p] /\ ~again[p]
  THEN Goto(p, "try") /\ UNCHANGED <<name, deep, again, row>>
  ELSE Return(p)

Read(p) ==
  LET r == table[name[p]]
  IN /\ pc[p] = "read"
     /\ \/ /\ r = None
           /\ NotFound(p)
           /\ UNCHANGED faults
        \/ Fault /\ NotFound(p)
        \/ /\ r # None
           /\ r.image # None \/ (r.alias # None /\ deep[p])
           /\ Return(p)
           /\ UNCHANGED faults
        \/ /\ r # None
           /\ r.image = None /\ r.alias # None /\ ~deep[p]
           /\ name' = [name EXCEPT ![p] = r.alias]
           /\ deep' = [deep EXCEPT ![p] = TRUE]
           /\ UNCHANGED <<pc, again, row, faults>>
        \/ /\ r # None
           /\ r.image = None /\ r.alias = None
           /\ row' = [row EXCEPT ![p] = r]
           /\ Goto(p, "queue")
           /\ UNCHANGED <<name, deep, again, faults>>
     /\ UNCHANGED <<slack, pending, table, lock, task, list, todo, created, changes, dirty,
                    trusted, late>>

LockUpload(p) ==
  /\ pc[p] = "queue"
  /\ lock = Free
  /\ lock' = p
  /\ Goto(p, "upload")
  /\ UNCHANGED <<slack, pending, table, task, name, deep, again, row, list, todo, created,
                 history>>

(* reuploadEmoji of the URL that was read before the lock, then SaveMXC.    *)
Upload(p) ==
  LET n == name[p]
  IN /\ pc[p] = "upload"
     /\ \/ /\ table' = SaveMXC(n, row[p].url)
           /\ late' = (late \/ ~Has(n, ValueOf(row[p])))
           /\ UNCHANGED faults
        \/ Fault /\ UNCHANGED <<table, late>>
     /\ lock' = Free
     /\ Return(p)
     /\ UNCHANGED <<slack, pending, task, list, todo, created, changes, dirty, trusted>>

(* ResyncEmojisDueToNotFound: without the lock the lookup gives up.         *)
TryLock(p) ==
  /\ pc[p] = "try"
  /\ \/ /\ lock = Free
        /\ lock' = p
        /\ Goto(p, "fetch")
        /\ UNCHANGED <<name, deep, again, row>>
     \/ /\ lock # Free
        /\ Return(p)
        /\ UNCHANGED lock
  /\ UNCHANGED <<slack, pending, table, task, list, todo, created, history>>

(* SyncEmojis, and handleEmojiChange with an unknown subtype.               *)
LockSync(p) ==
  /\ pc[p] = "wait"
  /\ lock = Free
  /\ lock' = p
  /\ Goto(p, "fetch")
  /\ UNCHANGED <<slack, pending, table, task, name, deep, again, row, list, todo, created,
                 history>>

-----------------------------------------------------------------------------
(* syncEmojis. *)

Unlock(p) == lock' = IF lock = p THEN Free ELSE lock

(* Mutant: the lock is kept on the way out.                                 *)
LeaveLocked(p) ==
  /\ Goto(p, "idle")
  /\ task' = [task EXCEPT ![p] = "lookup"]
  /\ name' = [name EXCEPT ![p] = None]
  /\ UNCHANGED <<lock, deep, again, row, list, todo, created>>

(* It returns an error, or nothing because the counts agree.                *)
Leave(p) ==
  /\ Unlock(p)
  /\ Goto(p, "idle")
  /\ task' = [task EXCEPT ![p] = "lookup"]
  /\ name' = [name EXCEPT ![p] = None]
  /\ UNCHANGED <<deep, again, row, list, todo, created>>

CountsAgree == Cardinality(Present(table)) = Cardinality(Present(slack))

(* Events of changes that the answer includes already may come after it. An *)
(* old one that was overtaken undoes a later one, and a rename finds its    *)
(* new name taken: Slack's answer is not reached then.                      *)
Replayable == \A i \in DOMAIN pending : ~pending[i].overtaken /\ pending[i].type # "rename"

Fetch(p) ==
  /\ pc[p] = "fetch"
  /\ \/ /\ task[p] = "startup" /\ CountsAgree
        /\ Leave(p)
        /\ UNCHANGED <<faults, dirty>>
     \/ Fault /\ Leave(p) /\ UNCHANGED dirty
     \/ /\ ~(task[p] = "startup" /\ CountsAgree)
        /\ list' = [list EXCEPT ![p] = slack]
        /\ todo' = [todo EXCEPT ![p] = Present(slack)]
        /\ created' = [created EXCEPT ![p] = Nowhere]
        /\ dirty' = [dirty EXCEPT ![p] = ~Replayable]
        /\ Goto(p, "put")
        /\ UNCHANGED <<lock, task, name, deep, again, row, faults>>
  /\ UNCHANGED <<slack, pending, table, changes, trusted, late>>

(* The images in any order, then the aliases with the images of created.    *)
Due(p) ==
  LET images == {n \in todo[p] : list[p][n].alias = None}
  IN IF images # {} THEN images ELSE todo[p]

(* Mutant: an alias whose target has no image keeps its own.                *)
DeferredKeeping(p, n) ==
  LET image == created[p][list[p][n].alias]
  IN [table EXCEPT ![n] =
        Entry(list[p][n], IF image = None /\ Has(n, list[p][n]) THEN table[n].image ELSE image)]

Deferred(p, n) ==
  LET target == list[p][n].alias
  IN [table EXCEPT ![n] = Entry(list[p][n], created[p][target])]

Put(p) ==
  /\ pc[p] = "put"
  /\ \E n \in Due(p) :
       /\ todo' = [todo EXCEPT ![p] = @ \ {n}]
       /\ \/ /\ IF list[p][n].alias = None
                THEN /\ table' = addEmoji(n, list[p][n])
                     /\ created' = [created EXCEPT ![p][n] = table'[n].image]
                ELSE /\ table' = Deferred(p, n)
                     /\ UNCHANGED created
             /\ trusted' = (trusted /\ ~dirty[p])
             /\ Soil(p)
             /\ UNCHANGED faults
          \/ /\ Fault
             /\ dirty' = [dirty EXCEPT ![p] = TRUE]
             /\ trusted' = FALSE
             /\ UNCHANGED <<table, created>>
  /\ UNCHANGED <<slack, pending, lock, pc, task, name, deep, again, row, list, changes, late>>

PutDone(p) ==
  /\ pc[p] = "put" /\ todo[p] = {}
  /\ Goto(p, "prune")
  /\ UNCHANGED <<slack, pending, table, lock, task, name, deep, again, row, list, todo, created,
                 history>>

(* Mutant: one row too many is not noticed.                                 *)
TooManyByTwo(p) == Cardinality(Present(table)) > Cardinality(Present(list[p])) + 1

TooMany(p) == Cardinality(Present(table)) > Cardinality(Present(list[p]))

(* With no names the query builder slices an empty string at -1 and panics. *)
Panics(p) == TooMany(p) /\ Present(list[p]) = {}

(* The sync is over: a lookup is repeated, a pack looks up what it listed.  *)
Synced(p) ==
  /\ Unlock(p)
  /\ Goto(p, CASE task[p] = "lookup" -> "read"
               [] task[p] = "pack" -> "next"
               [] OTHER -> "idle")
  /\ task' = [task EXCEPT ![p] = IF @ = "pack" THEN @ ELSE "lookup"]
  /\ again' = [again EXCEPT ![p] = (task[p] = "lookup")]
  /\ todo' = [todo EXCEPT ![p] = IF task[p] = "pack" THEN Present(list[p]) ELSE {}]
  /\ list' = [list EXCEPT ![p] = Nowhere]
  /\ created' = [created EXCEPT ![p] = Nowhere]
  /\ dirty' = [q \in Procs |-> IF q = p THEN FALSE ELSE dirty[q] \/ pc[q] \in Syncing]

PruneRemoved(p) ==
  /\ pc[p] = "prune"
  /\ ~Panics(p)
  /\ \/ /\ table' = IF TooMany(p) THEN Prune(Present(list[p])) ELSE table
        /\ trusted' = ~dirty[p]
        /\ UNCHANGED faults
     \/ /\ Fault
        /\ trusted' = FALSE
        /\ UNCHANGED table
  /\ Synced(p)
  /\ UNCHANGED <<slack, pending, name, deep, row, changes, late>>

NextOfPack(p) ==
  /\ pc[p] = "next"
  /\ \/ \E n \in todo[p] : /\ todo' = [todo EXCEPT ![p] = @ \ {n}]
                           /\ name' = [name EXCEPT ![p] = n]
                           /\ Goto(p, "read")
                           /\ UNCHANGED task
     \/ /\ todo[p] = {}
        /\ Goto(p, "idle")
        /\ task' = [task EXCEPT ![p] = "lookup"]
        /\ UNCHANGED <<todo, name>>
  /\ UNCHANGED <<slack, pending, table, lock, deep, again, row, list, created, history>>

(* The process ends; the events that were not handled are lost.             *)
Stop ==
  /\ pending' = <<>>
  /\ lock' = Free
  /\ pc' = [p \in Procs |-> "idle"]
  /\ task' = [p \in Procs |-> "lookup"]
  /\ name' = [p \in Procs |-> None]
  /\ deep' = [p \in Procs |-> FALSE]
  /\ again' = [p \in Procs |-> FALSE]
  /\ row' = [p \in Procs |-> None]
  /\ list' = [p \in Procs |-> Nowhere]
  /\ todo' = [p \in Procs |-> {}]
  /\ created' = [p \in Procs |-> Nowhere]
  /\ dirty' = [p \in Procs |-> FALSE]
  /\ trusted' = (trusted /\ pending = <<>> /\ \A p \in Procs : pc[p] \notin Syncing)
  /\ UNCHANGED <<slack, table, changes, late>>

Restart == Fault /\ Stop

(* A panic in the goroutine of SyncEmojis or of an event ends the process.  *)
(* In a caller of the bridge library it may be recovered: the lock is       *)
(* released on the way.                                                     *)
Panic(p) ==
  /\ pc[p] = "prune"
  /\ Panics(p)
  /\ \/ Stop /\ UNCHANGED faults
     \/ /\ task[p] \in {"lookup", "pack"}
        /\ Leave(p)
        /\ trusted' = FALSE
        /\ UNCHANGED <<slack, pending, table, changes, faults, dirty, late>>

-----------------------------------------------------------------------------
Step(p) == \/ Read(p) \/ LockUpload(p) \/ Upload(p) \/ TryLock(p) \/ LockSync(p)
           \/ Fetch(p) \/ Put(p) \/ PutDone(p) \/ PruneRemoved(p) \/ Panic(p) \/ NextOfPack(p)

Next ==
  \/ \E n \in Names, u \in Urls : AddImage(n, u)
  \/ \E n, t \in Names : AddAlias(n, t)
  \/ \E n \in Names : RemoveEmoji(n)
  \/ \E o, n \in Names : RenameEmoji(o, n)
  \/ \E i \in DOMAIN pending : handleEmojiChange(i)
  \/ \E p \in Procs, kind \in Kinds, n \in Names : Start(p, kind, n)
  \/ \E p \in Procs : Step(p)
  \/ Restart

Spec == Init /\ [][Next]_vars

Locked(p) == pc[p] = "upload" \/ (pc[p] \in Syncing /\ task[p] # "pack")

Fairness ==
  /\ \A p \in Procs : WF_vars(Read(p) \/ Upload(p) \/ TryLock(p) \/ Fetch(p) \/ Put(p) \/ PutDone(p)
                              \/ PruneRemoved(p) \/ Panic(p) \/ NextOfPack(p))
  /\ \A p \in Procs : SF_vars(LockUpload(p) \/ LockSync(p))

FairSpec == Spec /\ Fairness

-----------------------------------------------------------------------------
SlackType == slack \in [Names -> Value \cup {None}]
TableType == table \in [Names -> Row \cup {None}]
PendingType == pending \in Seq(Event)

PlaceType ==
  /\ lock \in Procs \cup {Free}
  /\ pc \in [Procs -> PCs]
  /\ task \in [Procs -> Tasks]

LookupType ==
  /\ name \in [Procs -> Names \cup {None}]
  /\ deep \in [Procs -> BOOLEAN]
  /\ again \in [Procs -> BOOLEAN]
  /\ row \in [Procs -> Row \cup {None}]

SyncType ==
  /\ list \in [Procs -> [Names -> Value \cup {None}]]
  /\ todo \in [Procs -> SUBSET Names]
  /\ created \in [Procs -> [Names -> Urls \cup {None}]]

BoundType == changes \in 0..MaxChanges /\ faults \in 0..MaxFaults

HistoryType ==
  /\ dirty \in [Procs -> BOOLEAN]
  /\ trusted \in BOOLEAN
  /\ late \in BOOLEAN

(* The variables hold values of their types. *)
TypeOK ==
  /\ SlackType /\ TableType /\ PendingType
  /\ PlaceType /\ LookupType /\ SyncType
  /\ BoundType /\ HistoryType

(* The mutex is held by a goroutine exactly while it uploads or syncs: no   *)
(* exit of the code keeps it, and two never work in it at once.  Only the   *)
(* download of an image pack syncs without it (emoji.go:44).                *)
LockIsHeld == \A p \in Procs : lock = p <=> Locked(p)

(* What a goroutine has where it is.                                        *)
ControlAt(p) ==
  /\ pc[p] \in {"read", "try", "queue", "upload"} => name[p] \in Names
  /\ pc[p] \in Syncing /\ task[p] = "lookup" => name[p] \in Names
  /\ pc[p] \in {"queue", "upload"} => row[p] \in Row
  /\ pc[p] = "try" => task[p] = "lookup"
  /\ pc[p] = "wait" => task[p] \in {"startup", "unknown"}
  /\ pc[p] = "put" => todo[p] \subseteq Present(list[p])

Control == \A p \in Procs : ControlAt(p)

(* What an image row names on Matrix is the upload of its own URL, except   *)
(* after an upload that waited for the lock while its row changed           *)
(* (emoji.go:322-337): no add, rename or sync moves an image to another URL.*)
OwnImages ==
  ~late => \A n \in Names :
    table[n] # None /\ table[n].alias = None => table[n].image \in {None, table[n].url}

(* The inductive invariant: types, the mutex, what the goroutines hold, the *)
(* images (handleEmojiChange to tryGetEmoji, emoji.go:86-342).              *)
Inv == TypeOK /\ LockIsHeld /\ Control /\ OwnImages

AtRest == pending = <<>> /\ \A p \in Procs : pc[p] \notin Syncing

(* With no event waiting and no sync under way the table has the shortcodes *)
(* and the values that Slack has, if no call failed and no event was lost   *)
(* or overtaken, or a full sync ran undisturbed since (emoji.go:86-122 and  *)
(* 225-296): applying an event after a sync that saw its change already     *)
(* does no harm, nor does a second sync after an event.                     *)
Mirrors ==
  trusted /\ AtRest => \A n \in Names :
    IF slack[n] = None THEN table[n] = None ELSE Has(n, slack[n])

(* Every alias has a target, and the image of its target or none.           *)
AliasImages ==
  \A n \in Names : table[n] # None /\ table[n].alias # None =>
    /\ table[table[n].alias] # None
    /\ table[n].image \in {None, table[table[n].alias].url}

(* An alias can keep the image of an emoji that was replaced meanwhile.  A  *)
(* full sync that ends undisturbed repairs that: every alias has a target,  *)
(* and its image or none (emoji.go:263-276, 286-293).                       *)
SyncRepairs ==
  [][\A p \in Procs :
       pc[p] = "prune" /\ pc'[p] # "prune" /\ trusted' /\ ~late => AliasImages']_vars

(* Every lookup, sync and pack download ends, whoever waits for the lock    *)
(* and whatever fails or panics: none waits for a lock it has itself        *)
(* (emoji.go:203-217, 322 and 344-348).                                     *)
Ends == \A p \in Procs : pc[p] # "idle" ~> pc[p] = "idle"

=============================================================================
