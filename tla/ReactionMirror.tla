--------------------------- MODULE ReactionMirror ---------------------------
(***************************************************************************)
(* pkg/connector/reactionmirror.go for one bridged message: the hook that  *)
(* runs after a Matrix reaction, the debounced refresh, the summary reply  *)
(* it keeps in the Slack thread, the reaction it mirrors natively, and the *)
(* error notices it posts into the same thread.                            *)
(*                                                                         *)
(* A refresh is a goroutine of its own.  Every call that leaves the        *)
(* process (Matrix relations, Slack, the database) is a step, so that      *)
(* hooks, notices, other refreshes, Slack users and crashes come between.  *)
(*                                                                         *)
(* The debouncer is used through its promise (DebounceSpec): a slot holds  *)
(* at most one function, which is started once.  All functions of a slot   *)
(* do the same refresh, so the slot is a flag here.                        *)
(***************************************************************************)
EXTENDS Integers, FiniteSetsExt

CONSTANTS
  Refreshers,   \* goroutines a refresh may run in
  Reactions,    \* (sender, emoji) pairs that can be on the Matrix message
  Discord,      \* the reactions that IsDiscordSourcedReaction accepts
  Emoji,
  EmojiOf,      \* Slack shortcode of a reaction
  NoEmoji,      \* MirroredEmoji = ""
  Free,         \* the mutex is not locked
  Parts,        \* number of parts of the bridged message
  Attempts,     \* tries of aggregateMirrorReactions (6 in the code)
  MaxChanges,   \* bound on the reaction events
  MaxFaults     \* bound on failed calls, crashes and Slack users' deletions

ASSUME ReactionAssumption == /\ Discord \subseteq Reactions
                             /\ EmojiOf \in [Reactions -> Emoji]
                             /\ NoEmoji \notin Emoji
                             /\ Free \notin Refreshers
ASSUME CountAssumption == /\ Parts \in Nat \ {0}
                          /\ Attempts \in Nat \ {0}
                          /\ MaxChanges \in Nat
                          /\ MaxFaults \in Nat

NoTS == 0       \* SummaryMessageTS = ""; Slack timestamps are 1, 2, ...
Meta == [ts : Nat, emoji : Emoji \cup {NoEmoji}]
NoMeta == [ts |-> NoTS, emoji |-> NoEmoji]
Message == [ts : Nat, kind : {"summary", "error"}, body : SUBSET Reactions]

(* reactionMirrorLockKey: the key of the Slack message, or that of the      *)
(* Matrix event when the database lookup failed.                            *)
Slots == {"message", "event"}

VARIABLES
  \* Matrix, Slack and the database
  reactions,   \* the reactions on the Matrix message
  thread,      \* the bot's messages in the Slack thread that
               \* isReactionSummaryText recognises
  nextTS,      \* Slack's next message timestamp
  native,      \* the emoji the bot has put on the Slack message
  parts,       \* MessageMetadata of each part's row
  \* the process
  hooks,       \* reaction events whose hook has not run
  passed,      \* hooks that found the key not refreshing
  pending,     \* slots of slackReactionMirrorDebouncer in use
  notice,      \* slackReactionMirrorErrorDebouncer holds an error notice
  refreshing,  \* slackReactionMirrorRefreshing has the key
  mutex,       \* the refresh that holds the key's mutex of
               \* slackReactionMirrorLocks, or Free
  \* each refresh
  pc,
  slot,        \* the debouncer slot it was started from
  meta,        \* its copy of the merged metadata
  events,      \* result of FetchAnnotationRelations
  aggregated,  \* result of AggregateReactions
  tries,       \* attempts of aggregateMirrorReactions left
  keep,        \* result of dedupeSlackReactionSummaryMessages
  extras,      \* the messages it is going to delete
  again,       \* it is in the second round, after a failed update
  part,        \* the part to be persisted next
  \* bounds and history
  changes,
  faults,
  degraded     \* since the last Schedule a reaction was dropped too late, a
               \* call failed, the process crashed or a user interfered

world == <<reactions, thread, nextTS, native, parts>>
process == <<hooks, passed, pending, notice, refreshing, mutex>>
locals == <<slot, meta, events, aggregated, tries, keep, extras, again, part>>
vars == <<world, process, pc, locals, changes, faults, degraded>>

Critical == {"load", "events", "aggregate", "list", "delete", "write", "persist",
             "native", "unlock"}
PCs == Critical \cup {"idle", "check", "trigger", "flag", "lock", "clear"}

TimeStamps == {m.ts : m \in thread}
Summaries == {m \in thread : m.kind = "summary"}
SummaryOf(t, body) == [ts |-> t, kind |-> "summary", body |-> body]
ErrorNotice(t) == [ts |-> t, kind |-> "error", body |-> {}]

(* mergeReactionMirrorMetadata: of the non-empty values the last part's.    *)
Merged ==
  LET LastTS(i) == /\ parts[i].ts # NoTS
                   /\ \A j \in 1..Parts : j > i => parts[j].ts = NoTS
      LastEmoji(i) == /\ parts[i].emoji # NoEmoji
                      /\ \A j \in 1..Parts : j > i => parts[j].emoji = NoEmoji
  IN [ts    |-> IF \E i \in 1..Parts : LastTS(i)
                THEN parts[CHOOSE i \in 1..Parts : LastTS(i)].ts ELSE NoTS,
      emoji |-> IF \E i \in 1..Parts : LastEmoji(i)
                THEN parts[CHOOSE i \in 1..Parts : LastEmoji(i)].emoji ELSE NoEmoji]

Init ==
  /\ reactions = {}
  /\ thread = {}
  /\ nextTS = 1
  /\ native = {}
  /\ parts = [i \in 1..Parts |-> NoMeta]
  /\ hooks = 0
  /\ passed = 0
  /\ pending = {}
  /\ notice = FALSE
  /\ refreshing = FALSE
  /\ mutex = Free
  /\ pc = [r \in Refreshers |-> "idle"]
  /\ slot = [r \in Refreshers |-> "message"]
  /\ meta = [r \in Refreshers |-> NoMeta]
  /\ events = [r \in Refreshers |-> {}]
  /\ aggregated = [r \in Refreshers |-> {}]
  /\ tries = [r \in Refreshers |-> 0]
  /\ keep = [r \in Refreshers |-> NoTS]
  /\ extras = [r \in Refreshers |-> {}]
  /\ again = [r \in Refreshers |-> FALSE]
  /\ part = [r \in Refreshers |-> 1]
  /\ changes = 0
  /\ faults = 0
  /\ degraded = TRUE     \* nothing was mirrored yet

-----------------------------------------------------------------------------
Goto(r, label) == pc' = [pc EXCEPT ![r] = label]

Fault == faults < MaxFaults /\ faults' = faults + 1 /\ degraded' = TRUE

(* A refresh is going to read the relations, so it will see every reaction  *)
(* that is on the message now.                                              *)
Unread == \E r \in Refreshers :
            pc[r] \in {"trigger", "flag", "lock", "load", "events", "aggregate"}

(* A Matrix user adds or removes a reaction; its hook comes later.          *)
React(x) ==
  /\ changes < MaxChanges
  /\ changes' = changes + 1
  /\ reactions' = IF x \in reactions THEN reactions \ {x} ELSE reactions \cup {x}
  /\ hooks' = hooks + 1
  /\ UNCHANGED <<thread, nextTS, native, parts, passed, pending, notice, refreshing, mutex,
                 pc, locals, faults, degraded>>

(* ReactionMirrorHook up to the test of the flag: a reaction that arrives   *)
(* while the key is being refreshed is dropped.                             *)
Hook ==
  /\ hooks > 0
  /\ hooks' = hooks - 1
  /\ \/ refreshing /\ degraded' = (degraded \/ ~Unread) /\ UNCHANGED passed
     \/ ~refreshing /\ passed' = passed + 1 /\ UNCHANGED degraded
  /\ UNCHANGED <<world, pending, notice, refreshing, mutex, pc, locals, changes, faults>>

(* The same when the message is not found: the key of the event is never    *)
(* marked as refreshing.                                                    *)
HookUnresolved ==
  /\ hooks > 0
  /\ hooks' = hooks - 1
  /\ faults < MaxFaults
  /\ faults' = faults + 1
  /\ pending' = pending \cup {"event"}
  /\ degraded' = FALSE
  /\ UNCHANGED <<world, passed, notice, refreshing, mutex, pc, locals, changes>>

HookSchedule ==
  /\ passed > 0
  /\ passed' = passed - 1
  /\ pending' = pending \cup {"message"}
  /\ degraded' = FALSE
  /\ UNCHANGED <<world, hooks, notice, refreshing, mutex, pc, locals, changes, faults>>

(* The debouncer starts the function of a slot in a goroutine. *)
Start(r, s) ==
  /\ pc[r] = "idle"
  /\ s \in pending
  /\ pending' = pending \ {s}
  /\ slot' = [slot EXCEPT ![r] = s]
  /\ Goto(r, "check")
  /\ UNCHANGED <<world, hooks, passed, notice, refreshing, mutex, meta, events, aggregated,
                 tries, keep, extras, again, part, changes, faults, degraded>>

(* The closure looks at the flag again and gives up if it is set. *)
Check(r) ==
  /\ pc[r] = "check"
  /\ \/ /\ refreshing /\ slot[r] = "message"
        /\ Goto(r, "idle")
        /\ degraded' = (degraded \/ ~Unread)
     \/ /\ ~(refreshing /\ slot[r] = "message")
        /\ Goto(r, "trigger")
        /\ UNCHANGED degraded
  /\ UNCHANGED <<world, process, locals, changes, faults>>

(* refreshReactionMirror: the first lookup and the test of the trigger.  If *)
(* either fails nothing else happens: the notice would have no channel.     *)
Trigger(r) ==
  /\ pc[r] = "trigger"
  /\ \/ Goto(r, "flag") /\ UNCHANGED <<faults, degraded>>
     \/ Goto(r, "idle") /\ Fault
  /\ UNCHANGED <<world, process, locals, changes>>

SetFlag(r) ==
  /\ pc[r] = "flag"
  /\ refreshing' = TRUE
  /\ Goto(r, "lock")
  /\ UNCHANGED <<world, hooks, passed, pending, notice, mutex, locals, changes, faults, degraded>>

(* Fault for a mutant: each refresh locks a mutex of its own.               *)
MutexOfItsOwn == TRUE

(* LoadOrStore gives every refresh of the key the same mutex.               *)
MutexFree == mutex = Free

Acquire(r) ==
  /\ pc[r] = "lock"
  /\ MutexFree
  /\ mutex' = r
  /\ Goto(r, "load")
  /\ UNCHANGED <<world, hooks, passed, pending, notice, refreshing, locals, changes, faults, degraded>>

(* Fault for a mutant: the error path returns without the unlock.           *)
AbortLocked(r) == Goto(r, "clear") /\ notice' = TRUE

(* A failure in the critical section: a notice is scheduled, both deferred  *)
(* calls run.                                                               *)
Abort(r) == Goto(r, "unlock") /\ notice' = TRUE

(* The lookup under the lock, the relay login and the Matrix client.  If    *)
(* only the second query fails, the row of the reacted-to part is used.     *)
Load(r) ==
  /\ pc[r] = "load"
  /\ \/ /\ meta' = [meta EXCEPT ![r] = Merged]
        /\ Goto(r, "events")
        /\ UNCHANGED <<notice, faults, degraded>>
     \/ /\ \E primary \in 1..Parts : meta' = [meta EXCEPT ![r] = parts[primary]]
        /\ Goto(r, "events")
        /\ Fault
        /\ UNCHANGED notice
     \/ Goto(r, "unlock") /\ Fault /\ UNCHANGED <<notice, meta>>
     \/ Abort(r) /\ Fault /\ UNCHANGED meta
  /\ tries' = [tries EXCEPT ![r] = Attempts]
  /\ UNCHANGED <<world, hooks, passed, pending, refreshing, mutex, slot, events, aggregated,
                 keep, extras, again, part, changes>>

(* aggregateMirrorReactions reads the relations twice: the first result is  *)
(* for the choice of MirroredEmoji, the second for the summary.             *)
FetchEvents(r) ==
  /\ pc[r] = "events"
  /\ \/ /\ events' = [events EXCEPT ![r] = reactions]
        /\ Goto(r, "aggregate")
        /\ UNCHANGED <<notice, faults, degraded>>
     \/ Abort(r) /\ Fault /\ UNCHANGED events
  /\ UNCHANGED <<world, hooks, passed, pending, refreshing, mutex, slot, meta, aggregated,
                 tries, keep, extras, again, part, changes>>

(* Fault for a mutant: the emoji is chosen at every refresh.                *)
ChooseEmojiAgain(r) ==
  LET seen == {EmojiOf[x] : x \in events[r] \cap Discord} IN
  IF seen # {}
  THEN \E e \in seen : meta' = [meta EXCEPT ![r].emoji = e]
  ELSE UNCHANGED meta

(* MirroredEmoji is chosen once, from the Discord reactions that were seen; *)
(* which of them has the smallest timestamp is left open.                   *)
ChooseEmoji(r) ==
  LET seen == {EmojiOf[x] : x \in events[r] \cap Discord} IN
  IF meta[r].emoji = NoEmoji /\ seen # {}
  THEN \E e \in seen : meta' = [meta EXCEPT ![r].emoji = e]
  ELSE UNCHANGED meta

Aggregate(r) ==
  /\ pc[r] = "aggregate"
  /\ \/ /\ aggregated' = [aggregated EXCEPT ![r] = reactions]
        /\ \/ /\ events[r] = {} \/ reactions = {}
              /\ tries[r] > 1
              /\ tries' = [tries EXCEPT ![r] = @ - 1]
              /\ Goto(r, "events")
              /\ UNCHANGED meta
           \/ /\ (events[r] # {} /\ reactions # {}) \/ tries[r] = 1
              /\ ChooseEmoji(r)
              /\ Goto(r, "list")
              /\ UNCHANGED tries
        /\ UNCHANGED <<notice, faults, degraded>>
     \/ Abort(r) /\ Fault /\ UNCHANGED <<meta, tries, aggregated>>
  /\ UNCHANGED <<world, hooks, passed, pending, refreshing, mutex, slot, events, keep, extras,
                 again, part, changes>>

(* dedupeSlackReactionSummaryMessages: the preferred message if it is among *)
(* those found, else the oldest, and the preferred one if none was found.   *)
Kept(found, preferred) ==
  IF found = {} \/ preferred \in found THEN preferred ELSE Min(found)

(* The replies are listed; a failed call looks like an empty thread.        *)
List(r) ==
  LET preferred == IF again[r] THEN NoTS ELSE meta[r].ts IN
  /\ pc[r] = "list"
  /\ \E found \in {TimeStamps, {}} :
       /\ \/ found = TimeStamps /\ UNCHANGED <<faults, degraded>>
          \/ found # TimeStamps /\ Fault
       /\ keep' = [keep EXCEPT ![r] = Kept(found, preferred)]
       /\ extras' = [extras EXCEPT ![r] = found \ {Kept(found, preferred)}]
       /\ meta' = IF again[r] THEN meta
                  ELSE [meta EXCEPT ![r].ts = Kept(found, preferred)]
  /\ Goto(r, "delete")
  /\ UNCHANGED <<world, process, slot, events, aggregated, tries, again, part, changes>>

(* The other messages are deleted; errors are ignored. *)
Delete(r) ==
  /\ pc[r] = "delete"
  /\ \E failed \in SUBSET extras[r] :
       /\ \/ failed = {} /\ UNCHANGED <<faults, degraded>>
          \/ failed # {} /\ Fault
       /\ thread' = {m \in thread : m.ts \notin extras[r] \ failed}
  /\ Goto(r, "write")
  /\ UNCHANGED <<reactions, nextTS, native, parts, process, locals, changes>>

(* ensureSlackReactionMirrorThread without a message to keep: a new reply.  *)
(* A failed call may have posted it.                                        *)
Post(r) ==
  LET posted == thread \cup {SummaryOf(nextTS, aggregated[r])} IN
  /\ pc[r] = "write"
  /\ ~again[r] /\ keep[r] = NoTS
  /\ \/ /\ thread' = posted
        /\ nextTS' = nextTS + 1
        /\ meta' = [meta EXCEPT ![r].ts = nextTS]
        /\ Goto(r, "persist")
        /\ UNCHANGED <<notice, faults, degraded>>
     \/ /\ Abort(r) /\ Fault
        /\ \/ UNCHANGED <<thread, nextTS>>
           \/ thread' = posted /\ nextTS' = nextTS + 1
        /\ UNCHANGED meta
  /\ part' = [part EXCEPT ![r] = 1]
  /\ UNCHANGED <<reactions, native, parts, hooks, passed, pending, refreshing, mutex, slot,
                 events, aggregated, tries, keep, extras, again, changes>>

(* With a message to keep: an update, of whatever text it has.  After a     *)
(* failure the thread is searched again without a preferred message, and    *)
(* another message that turns up is updated instead.                        *)
Updated(r) == {IF m.ts = keep[r] THEN SummaryOf(m.ts, aggregated[r]) ELSE m : m \in thread}

Update(r) ==
  /\ pc[r] = "write"
  /\ keep[r] \in TimeStamps
  /\ again[r] => keep[r] # meta[r].ts
  /\ thread' = Updated(r)
  /\ meta' = [meta EXCEPT ![r].ts = keep[r]]
  /\ part' = [part EXCEPT ![r] = 1]
  /\ Goto(r, "persist")
  /\ UNCHANGED <<reactions, nextTS, native, parts, process, slot, events, aggregated,
                 tries, keep, extras, again, changes, faults, degraded>>

UpdateFails(r) ==
  /\ pc[r] = "write"
  /\ keep[r] # NoTS
  /\ again[r] => keep[r] # meta[r].ts
  /\ \/ /\ keep[r] \notin TimeStamps
        /\ degraded' = (degraded \/ again[r])
        /\ UNCHANGED <<thread, faults>>
     \/ keep[r] \in TimeStamps /\ Fault /\ thread' \in {thread, Updated(r)}
  /\ \/ ~again[r] /\ Goto(r, "list") /\ UNCHANGED notice
     \/ again[r] /\ Abort(r)
  /\ again' = [again EXCEPT ![r] = TRUE]
  /\ UNCHANGED <<reactions, nextTS, native, parts, hooks, passed, pending, refreshing, mutex,
                 slot, meta, events, aggregated, tries, keep, extras, part, changes>>

(* The second search found nothing else: the refresh fails. *)
GiveUp(r) ==
  /\ pc[r] = "write"
  /\ again[r] /\ keep[r] \in {NoTS, meta[r].ts}
  /\ Abort(r)
  /\ degraded' = TRUE
  /\ UNCHANGED <<world, hooks, passed, pending, refreshing, mutex, locals, changes, faults>>

(* Fault for a mutant: the last row is left as it is.                       *)
LastPartEarly(r) == part[r] >= Parts - 1
LastPart(r) == part[r] = Parts

(* persistReactionMirrorMetadata: the rows of the parts one after another;  *)
(* after an error the refresh ends without a notice.                        *)
PersistPart(r) ==
  /\ pc[r] = "persist"
  /\ \/ /\ parts' = [parts EXCEPT ![part[r]] = meta[r]]
        /\ \/ ~LastPart(r) /\ part' = [part EXCEPT ![r] = @ + 1] /\ UNCHANGED pc
           \/ LastPart(r) /\ Goto(r, "native") /\ UNCHANGED part
        /\ UNCHANGED <<faults, degraded>>
     \/ Goto(r, "unlock") /\ Fault /\ UNCHANGED <<parts, part>>
  /\ UNCHANGED <<reactions, thread, nextTS, native, process, slot, meta, events,
                 aggregated, tries, keep, extras, again, changes>>

(* The bot's own reaction follows the count in the aggregate; an error is   *)
(* ignored.                                                                 *)
Wanted(r) == {meta[r].emoji} \cap {EmojiOf[x] : x \in aggregated[r]}
(* Fault for a mutant: a reaction that nobody has any more is kept.         *)
NativeKept(r) == native \cup Wanted(r)
NativeAfter(r) == (native \ {meta[r].emoji}) \cup Wanted(r)
Native(r) ==
  /\ pc[r] = "native"
  /\ \/ native' = NativeAfter(r) /\ UNCHANGED <<faults, degraded>>
     \/ meta[r].emoji # NoEmoji /\ Fault /\ UNCHANGED native
  /\ Goto(r, "unlock")
  /\ UNCHANGED <<reactions, thread, nextTS, parts, process, locals, changes>>

FlagDeleted == refreshing' = FALSE

(* The deferred calls: first the mutex, then the flag, whoever set it last. *)
Unlock(r) ==
  /\ pc[r] = "unlock"
  /\ mutex' = Free
  /\ Goto(r, "clear")
  /\ UNCHANGED <<world, hooks, passed, pending, notice, refreshing, locals, changes, faults, degraded>>

ClearFlag(r) ==
  /\ pc[r] = "clear"
  /\ FlagDeleted
  /\ Goto(r, "idle")
  /\ slot' = [slot EXCEPT ![r] = "message"]
  /\ meta' = [meta EXCEPT ![r] = NoMeta]
  /\ events' = [events EXCEPT ![r] = {}]
  /\ aggregated' = [aggregated EXCEPT ![r] = {}]
  /\ tries' = [tries EXCEPT ![r] = 0]
  /\ keep' = [keep EXCEPT ![r] = NoTS]
  /\ extras' = [extras EXCEPT ![r] = {}]
  /\ again' = [again EXCEPT ![r] = FALSE]
  /\ part' = [part EXCEPT ![r] = 1]
  /\ UNCHANGED <<world, hooks, passed, pending, notice, mutex, changes, faults, degraded>>

(* notifyReactionMirrorError, two minutes later and outside the lock.       *)
PostNotice ==
  /\ notice
  /\ notice' = FALSE
  /\ \/ /\ thread' = thread \cup {ErrorNotice(nextTS)}
        /\ nextTS' = nextTS + 1
        /\ UNCHANGED <<faults, degraded>>
     \/ Fault /\ UNCHANGED <<thread, nextTS>>
  /\ UNCHANGED <<reactions, native, parts, hooks, passed, pending, refreshing, mutex, pc,
                 locals, changes>>

(* The process stops and is started again: only Matrix, Slack and the       *)
(* database remain.  Hooks and scheduled refreshes are not repeated.        *)
Crash ==
  /\ Fault
  /\ hooks' = 0 /\ passed' = 0 /\ pending' = {} /\ notice' = FALSE
  /\ refreshing' = FALSE /\ mutex' = Free
  /\ pc' = [r \in Refreshers |-> "idle"]
  /\ slot' = [r \in Refreshers |-> "message"]
  /\ meta' = [r \in Refreshers |-> NoMeta]
  /\ events' = [r \in Refreshers |-> {}]
  /\ aggregated' = [r \in Refreshers |-> {}]
  /\ tries' = [r \in Refreshers |-> 0]
  /\ keep' = [r \in Refreshers |-> NoTS]
  /\ extras' = [r \in Refreshers |-> {}]
  /\ again' = [r \in Refreshers |-> FALSE]
  /\ part' = [r \in Refreshers |-> 1]
  /\ UNCHANGED <<world, changes>>

(* A Slack user deletes one of the bot's replies. *)
UserDeletes ==
  /\ Fault
  /\ \E m \in thread : thread' = thread \ {m}
  /\ UNCHANGED <<reactions, nextTS, native, parts, process, pc, locals, changes>>

Refresh(r) ==
  \/ Check(r) \/ Trigger(r) \/ SetFlag(r) \/ Acquire(r) \/ Load(r)
  \/ FetchEvents(r) \/ Aggregate(r) \/ List(r) \/ Delete(r)
  \/ Post(r) \/ Update(r) \/ UpdateFails(r) \/ GiveUp(r)
  \/ PersistPart(r) \/ Native(r) \/ Unlock(r) \/ ClearFlag(r)

Next ==
  \/ \E x \in Reactions : React(x)
  \/ Hook \/ HookUnresolved \/ HookSchedule
  \/ \E r \in Refreshers : (\E s \in Slots : Start(r, s)) \/ Refresh(r)
  \/ PostNotice \/ Crash \/ UserDeletes

(* Hooks run, the debouncer starts what it holds, a refresh goes on until   *)
(* it ends, and the mutex is not withheld from a waiter for ever.  Nothing  *)
(* makes a user react, a call fail or the process crash.                    *)
Fairness ==
  /\ WF_vars(Hook) /\ WF_vars(HookSchedule) /\ WF_vars(PostNotice)
  /\ WF_vars(\E r \in Refreshers, s \in Slots : Start(r, s))
  /\ \A r \in Refreshers : WF_vars(Refresh(r)) /\ SF_vars(Acquire(r))

Spec == Init /\ [][Next]_vars
FairSpec == Spec /\ Fairness

-----------------------------------------------------------------------------
WorldType ==
  /\ reactions \subseteq Reactions
  /\ thread \subseteq Message
  /\ nextTS \in Nat \ {0}
  /\ native \subseteq Emoji
  /\ parts \in [1..Parts -> Meta]

ProcessType ==
  /\ hooks \in Nat /\ passed \in Nat
  /\ pending \subseteq Slots
  /\ notice \in BOOLEAN /\ refreshing \in BOOLEAN
  /\ mutex \in Refreshers \cup {Free}

LocalsType ==
  /\ slot \in [Refreshers -> Slots]
  /\ meta \in [Refreshers -> Meta]
  /\ events \in [Refreshers -> SUBSET Reactions]
  /\ aggregated \in [Refreshers -> SUBSET Reactions]
  /\ tries \in [Refreshers -> 0..Attempts]
  /\ keep \in [Refreshers -> Nat]
  /\ extras \in [Refreshers -> SUBSET Nat]
  /\ again \in [Refreshers -> BOOLEAN]
  /\ part \in [Refreshers -> 1..Parts]

BoundsType ==
  /\ changes \in 0..MaxChanges
  /\ faults \in 0..MaxFaults
  /\ degraded \in BOOLEAN

TypeOK == WorldType /\ ProcessType /\ pc \in [Refreshers -> PCs] /\ LocalsType /\ BoundsType

(* Two refreshes of a message never read and write its thread and its       *)
(* metadata at the same time, whatever slots and keys they were started by. *)
OneWriter ==
  \A r, q \in Refreshers : pc[r] \in Critical /\ pc[q] \in Critical => r = q

(* Between Lock and Unlock the mutex is the refresh's own. *)
MutexHeld == \A r \in Refreshers : pc[r] \in Critical => mutex = r

(* The refreshing flag is never left behind: a flag without a refresh that  *)
(* will delete it would drop every later reaction.                          *)
FlagHasOwner ==
  refreshing => \E r \in Refreshers : pc[r] \in Critical \cup {"lock", "clear"}

(* Once every row of the message names the emoji that is mirrored natively, *)
(* it stays the same, whatever refresh reads the rows and whichever of its  *)
(* queries fails.  (While only some rows name one, a refresh that reads an  *)
(* empty row alone may choose again.)                                       *)
Recorded(e) == e # NoEmoji /\ \A i \in 1..Parts : parts[i].emoji = e
EmojiIsFinal == [][\A e \in Emoji : Recorded(e) => Recorded(e)']_vars

(* A refresh that has read the rows has the emoji that all of them name.    *)
Loaded == Critical \ {"load", "unlock"}
EmojiKept ==
  \A r \in Refreshers : pc[r] \in Loaded =>
     \A e \in Emoji : Recorded(e) => meta[r].emoji = e

(* Nothing is on its way. *)
Quiet ==
  /\ hooks = 0 /\ passed = 0 /\ pending = {}
  /\ \A r \in Refreshers : pc[r] = "idle"

(* There is exactly one summary, it shows the reactions of the message,     *)
(* every row points at it and names the same emoji, and the bot's native    *)
(* reaction is there if and only if somebody has that emoji.                *)
Mirrored ==
  \E m \in Summaries :
    /\ Summaries = {m}
    /\ m.body = reactions
    /\ \A i \in 1..Parts : parts[i] = [ts |-> m.ts, emoji |-> parts[1].emoji]
    /\ parts[1].emoji # NoEmoji =>
         (parts[1].emoji \in native <=> \E x \in reactions : EmojiOf[x] = parts[1].emoji)

(* At rest, unless a reaction was dropped by the flag after every running   *)
(* refresh had read the relations, or something failed since the last       *)
(* Schedule, the message is mirrored.                                       *)
Settled == Quiet /\ ~degraded => Mirrored

(* A refresh is going to read the relations, or will be started. *)
Reading == {"check", "trigger", "flag", "lock", "load", "events", "aggregate"}
Due == hooks > 0 \/ passed > 0 \/ pending # {} \/ \E r \in Refreshers : pc[r] \in Reading

(* How far a refresh that has read them is with the thread and the rows.    *)
Acting == {"list", "delete", "write", "persist", "native"}
Advanced(r) ==
  /\ pc[r] \in Acting => aggregated[r] = reactions
  /\ pc[r] = "delete" => \A m \in Summaries : m.ts \in extras[r] \cup {keep[r]}
  /\ pc[r] = "write" => \A m \in Summaries : m.ts = keep[r]
  /\ pc[r] \in {"persist", "native"} => Summaries = {SummaryOf(meta[r].ts, reactions)}
  /\ pc[r] = "persist" => \A i \in 1..Parts : i < part[r] => parts[i] = meta[r]
  /\ pc[r] = "native" => \A i \in 1..Parts : parts[i] = meta[r]

(* With nothing due, a refresh is on its way to the mirrored message, or    *)
(* has left it so.                                                          *)
Following ==
  ~degraded /\ ~Due =>
    /\ \A r \in Refreshers : Advanced(r)
    /\ (\A r \in Refreshers : pc[r] \notin Acting) => Mirrored

Stamped == \A m \in thread : m.ts # NoTS

(* The inductive invariant: types, mutex, flag, the copies of the emoji     *)
(* that refreshReactionMirror writes back, and its way from the relations   *)
(* to the summary, the rows and the reaction (reactionmirror.go:198-420).   *)
Inv ==
  TypeOK /\ MutexHeld /\ FlagHasOwner /\ EmojiKept /\ Stamped /\ Following

(* Every refresh ends: no exit of refreshReactionMirror keeps the mutex.    *)
RefreshEnds == \A r \in Refreshers : (pc[r] # "idle") ~> (pc[r] = "idle")

=============================================================================
