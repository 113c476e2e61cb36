---------------------------- MODULE MessageRows -----------------------------
(***************************************************************************)
(* One channel between Slack and Matrix for a user's login: messages,      *)
(* edits, deletions, reactions and read marks (handlematrix.go, handle-    *)
(* slack.go), the sync after a start (SyncChannels of client.go) and the   *)
(* backfill it asks for (backfill.go).                                     *)
(*                                                                         *)
(* The bridge handles the events of a channel one at a time, Matrix events *)
(* and Slack events alike; Slack goes on meanwhile, and so do the sync,    *)
(* the connection and the reaction mirror, which writes the same rows.     *)
(***************************************************************************)
EXTENDS Integers, FiniteSets, Sequences, FiniteSetsExt, SequencesExt

CONSTANTS
  MaxTime,   \* Slack timestamps are 1 to MaxTime
  Count,     \* messages that one backfill asks for
  None,      \* nothing: a deleted message, no row, an idle goroutine
  MaxSpent   \* bound on what users do and on failures, losses and crashes

ASSUME BoundAssumption == MaxTime \in Nat \ {0} /\ Count \in Nat \ {0} /\ MaxSpent \in Nat

Times == 1..MaxTime
Stamps == 0..MaxTime
Unsent == MaxTime + 1   \* an edit from Matrix that Slack has not taken

(* Messages are named by the time they were sent; joins, hidden messages    *)
(* and the like are not bridged, topics are chat information.               *)
Event ==
  [type : {"message", "deleted", "reacted", "unreacted"}, ts : Times, edit : {0}]
    \cup [type : {"changed"}, ts : Times, edit : Times]
    \cup [type : {"marked", "resync"}, ts : Stamps, edit : {0}]
Row == [edit : Stamps, mirrored : BOOLEAN]
Job == [kind : {"message", "edit", "post", "update", "fetch", "page"},
        step : {"send", "save"}, shows : [Times -> Stamps \cup {None}], row : Row, stale : BOOLEAN]
Sync == [step : {"counts", "install", "queue"}, latest : Stamps, read : Stamps]
Mirrored == [ts : Times, row : Row]

ASSUME NoneAssumption == None \notin Nat \cup Row \cup Job \cup Sync \cup Mirrored

VARIABLES
  \* Slack
  now,
  posts,      \* edit time of each message that is there, 0 if it was not edited
  reacted,    \* messages that the user's reaction is on
  mark,       \* the user's read mark
  \* the bridge
  up,
  online,     \* the connection delivers events
  stream,     \* events received
  queue,      \* events of the portal
  sync,       \* SyncChannels: its step and the counts
  cache,      \* lastReadCache
  job,        \* the event that is being handled
  pending,    \* uploads whose message is not known yet
  mirror,     \* persistReactionMirrorMetadata: the row it has read
  \* the database and Matrix
  rows,       \* message rows: LastEditTS, fields of the mirror
  reactions,  \* reaction rows
  shown,      \* the last edit that the room has
  copies,     \* Matrix events of a message
  \* bounds and history
  spent,
  torn,       \* messages sent but not saved at a crash, uploads fetched before their event,
              \* posts from Matrix whose answer was lost
  missed,     \* messages with a change the bridge was not told of, or a deletion from Matrix
              \* that Slack did not take
  excused,    \* messages no backfill was to find
  regressed,  \* the user marked messages as unread
  misread     \* a page was marked as read that was not

slack == <<now, posts, reacted, mark>>
bridge == <<up, online, stream, queue, sync, cache, job, pending, mirror>>
stored == <<rows, reactions, shown, copies>>
history == <<torn, missed, excused, regressed, misread>>
vars == <<slack, bridge, stored, history, spent>>

Nothing == [t \in Times |-> None]
Posted == {t \in Times : posts[t] # None}
Bridged == {t \in Times : rows[t] # None}
Latest(S) == IF S = {} THEN 0 ELSE Max(S)
Outside == spent < MaxSpent /\ spent' = spent + 1

Init ==
  /\ now = 0 /\ posts = Nothing /\ reacted = {} /\ mark = 0
  /\ up = TRUE /\ online = TRUE
  /\ stream = <<>> /\ queue = <<>>
  /\ sync = None /\ cache = 0 /\ job = None /\ pending = {} /\ mirror = None
  /\ rows = Nothing /\ reactions = {} /\ shown = Nothing
  /\ copies = [t \in Times |-> 0]
  /\ spent = 0
  /\ torn = {} /\ missed = {} /\ excused = {} /\ regressed = FALSE /\ misread = FALSE

-----------------------------------------------------------------------------
(* Slack, used by the user in another client or by the bridge. *)

Ev(type, t, edit) == [type |-> type, ts |-> t, edit |-> edit]

(* Slack tells those who are connected.                                     *)
Tell(event) ==
  /\ stream' = IF online THEN Append(stream, event) ELSE stream
  /\ missed' = IF online \/ event.type \in {"message", "marked"} THEN missed
               ELSE missed \cup {event.ts}

Posts(t) ==
  /\ t = now + 1 /\ now' = t
  /\ posts' = [posts EXCEPT ![t] = 0]
  /\ Tell(Ev("message", t, 0))
  /\ UNCHANGED <<reacted, mark>>

Edits(t) ==
  /\ now < MaxTime /\ now' = now + 1
  /\ posts' = [posts EXCEPT ![t] = now']
  /\ Tell(Ev("changed", t, now'))
  /\ UNCHANGED <<reacted, mark>>

Deletes(t) ==
  /\ posts' = [posts EXCEPT ![t] = None]
  /\ reacted' = reacted \ {t}
  /\ Tell(Ev("deleted", t, 0))
  /\ UNCHANGED <<now, mark>>

Reacts(t) ==
  /\ reacted' = reacted \cup {t}
  /\ Tell(Ev("reacted", t, 0))
  /\ UNCHANGED <<now, posts, mark>>

Unreacts(t) ==
  /\ reacted' = reacted \ {t}
  /\ Tell(Ev("unreacted", t, 0))
  /\ UNCHANGED <<now, posts, mark>>

Marks(t) ==
  /\ mark' = t
  /\ Tell(Ev("marked", t, 0))
  /\ UNCHANGED <<now, posts, reacted>>

InSlack == UNCHANGED <<up, online, queue, sync, cache, job, pending, mirror, stored, torn, excused,
                       misread>>

SlackUser ==
  /\ Outside
  /\ InSlack
  /\ \/ UNCHANGED regressed /\ \E t \in Times :
          \/ Posts(t)
          \/ t \in Posted /\ (Edits(t) \/ Deletes(t))
          \/ t \in Posted \ reacted /\ Reacts(t)
          \/ t \in reacted /\ Unreacts(t)
     \/ \E t \in 0..now \ {mark} : Marks(t) /\ regressed' = (regressed \/ t < mark)

-----------------------------------------------------------------------------
(* The connection and the process. *)

KeepSlack == UNCHANGED slack

Lose ==
  /\ up /\ online
  /\ Outside
  /\ online' = FALSE
  /\ KeepSlack
  /\ UNCHANGED <<up, stream, queue, sync, cache, job, pending, mirror, stored, history>>

(* A sync, or a fetch it asked for, is still to come.                       *)
ToBeSynced ==
  \/ sync # None
  \/ \E i \in DOMAIN queue : queue[i].type = "resync"
  \/ job # None /\ job.kind = "fetch"

Announced == {e.ts : e \in {e \in ToSet(stream) \cup ToSet(queue) : e.type = "message"}}
Unheard == Posted \ (Bridged \cup Announced
                       \cup IF job = None THEN {} ELSE {t \in Times : job.shows[t] # None})

(* The RTM connects again by itself; only connect asks for a sync.          *)
Online ==
  /\ up /\ ~online
  /\ online' = TRUE
  /\ excused' = IF ToBeSynced THEN excused ELSE excused \cup Unheard
  /\ KeepSlack
  /\ UNCHANGED <<up, stream, queue, sync, cache, job, pending, mirror, stored, torn, missed,
                 regressed, misread, spent>>

Crash ==
  /\ up
  /\ Outside
  /\ up' = FALSE /\ online' = FALSE
  /\ stream' = <<>> /\ queue' = <<>>
  /\ sync' = None /\ cache' = 0 /\ job' = None /\ pending' = {} /\ mirror' = None
  /\ torn' = torn \cup pending
               \cup IF job # None /\ job.step = "save" /\ job.kind \in {"message", "post", "page"}
                    THEN {t \in Times : job.shows[t] # None /\ rows[t] = None} ELSE {}
  /\ missed' = missed \cup {e.ts : e \in {e \in ToSet(stream) \cup ToSet(queue) :
                                            e.type \notin {"message", "marked", "resync"}}}
               \cup IF job = None THEN {} ELSE {t \in Times : job.shows[t] # None}
  /\ KeepSlack
  /\ UNCHANGED <<stored, excused, regressed, misread>>

Start ==
  /\ ~up
  /\ up' = TRUE
  /\ sync' = [step |-> "counts", latest |-> 0, read |-> 0]
  /\ KeepSlack
  /\ UNCHANGED <<online, stream, queue, cache, job, pending, mirror, stored, history, spent>>

(* HandleSlackEvent: a mark goes to the read cache at once, everything else *)
(* to the queue of the portal (the receipt of a mark is not followed).      *)
Receive ==
  /\ up /\ stream # <<>>
  /\ LET e == Head(stream)
     IN IF e.type = "marked"
        THEN cache' = e.ts /\ UNCHANGED queue
        ELSE queue' = Append(queue, e) /\ UNCHANGED cache
  /\ stream' = Tail(stream)
  /\ KeepSlack
  /\ UNCHANGED <<up, online, sync, job, pending, mirror, stored, history, spent>>

-----------------------------------------------------------------------------
(* SyncChannels and getLatestMessageIDs. *)

Syncing(step) == up /\ sync # None /\ sync.step = step
KeepSync == KeepSlack /\ UNCHANGED <<up, online, stream, job, pending, mirror, stored, history>>

Counts ==
  /\ Syncing("counts")
  /\ sync' = [step |-> "install", latest |-> Latest(Posted), read |-> mark]
  /\ KeepSync /\ UNCHANGED <<queue, cache, spent>>

(* Without counts nothing is known to be latest.                            *)
CountsFail ==
  /\ Syncing("counts")
  /\ Outside
  /\ sync' = [sync EXCEPT !.step = "queue"]
  /\ KeepSync /\ UNCHANGED <<queue, cache>>

Install ==
  /\ Syncing("install")
  /\ cache' = sync.read
  /\ sync' = [sync EXCEPT !.step = "queue"]
  /\ KeepSync /\ UNCHANGED <<queue, spent>>

QueueResync ==
  /\ Syncing("queue")
  /\ queue' = Append(queue, Ev("resync", sync.latest, 0))
  /\ sync' = None
  /\ KeepSync /\ UNCHANGED <<cache, spent>>

(* The channel is passed over: the portals or the conversations could not   *)
(* be read, a bot got no channel info, or the channel has no counts and is  *)
(* not listed.                                                              *)
SyncSkips ==
  /\ Syncing("queue")
  /\ Outside
  /\ sync' = None
  /\ excused' = excused \cup Unheard
  /\ KeepSlack
  /\ UNCHANGED <<up, online, stream, queue, cache, job, pending, mirror, stored, torn, missed,
                 regressed, misread>>

-----------------------------------------------------------------------------
(* The portal: Slack's events. *)

NewRow == [edit |-> 0, mirrored |-> FALSE]
Only(t, edit) == [Nothing EXCEPT ![t] = edit]
Task(kind, step, shows, row) ==
  [kind |-> kind, step |-> step, shows |-> shows, row |-> row, stale |-> FALSE]

Taking(types) == up /\ job = None /\ queue # <<>> /\ Head(queue).type \in types
Event1 == Head(queue)
KeepTaking == KeepSlack /\ UNCHANGED <<up, online, stream, sync, cache, mirror>>

(* GetTransactionID: the message of an upload that was pending.             *)
Awaited(t) == t \in pending

(* A message with a row is known, also the one whose upload was pending.    *)
TakeMessage ==
  /\ Taking({"message"})
  /\ queue' = Tail(queue)
  /\ LET t == Event1.ts
     IN \/ /\ rows[t] # None
           /\ UNCHANGED <<job, pending, rows>>
        \/ /\ rows[t] = None /\ Awaited(t)
           /\ rows' = [rows EXCEPT ![t] = NewRow]
           /\ pending' = pending \ {t}
           /\ UNCHANGED job
        \/ /\ rows[t] = None /\ ~Awaited(t)
           /\ job' = Task("message", "send", Only(t, 0), NewRow)
           /\ UNCHANGED <<pending, rows>>
  /\ KeepTaking /\ UNCHANGED <<reactions, shown, copies, history, spent>>

(* Mutant: the comparison is the wrong way round.                           *)
BridgedBeforeMutated(row, edit) == row.edit <= edit
(* ConvertEdit ignores what is not newer than the last edit.                *)
BridgedBefore(row, edit) == row.edit >= edit

(* Mutant: every edit brings new metadata.                                  *)
EditedMutated(row, edit, caption) == [NewRow EXCEPT !.edit = edit]

(* EditToMatrix notes the edit in the row that was read; the part of a      *)
(* merged caption gets new metadata instead.                                *)
Edited(row, edit, caption) == IF caption THEN NewRow ELSE [row EXCEPT !.edit = edit]

TakeEdit ==
  /\ Taking({"changed"})
  /\ queue' = Tail(queue)
  /\ LET t == Event1.ts
     IN IF rows[t] = None \/ (rows[t] # None /\ BridgedBefore(rows[t], Event1.edit))
        THEN UNCHANGED job
        ELSE \E caption \in BOOLEAN :
               job' = Task("edit", "send", Only(t, Event1.edit),
                           Edited(rows[t], Event1.edit, caption))
  /\ KeepTaking /\ UNCHANGED <<pending, stored, history, spent>>

TakeDeletion ==
  /\ Taking({"deleted"})
  /\ queue' = Tail(queue)
  /\ LET t == Event1.ts
     IN /\ rows' = [rows EXCEPT ![t] = None]
        /\ shown' = [shown EXCEPT ![t] = None]
        /\ copies' = [copies EXCEPT ![t] = 0]
        /\ reactions' = reactions \ {t}
  /\ KeepTaking /\ UNCHANGED <<job, pending, history, spent>>

TakeReaction ==
  /\ Taking({"reacted", "unreacted"})
  /\ queue' = Tail(queue)
  /\ LET t == Event1.ts
     IN reactions' = IF rows[t] = None THEN reactions
                     ELSE IF Event1.type = "reacted" THEN reactions \cup {t}
                     ELSE reactions \ {t}
  /\ KeepTaking /\ UNCHANGED <<job, pending, rows, shown, copies, history, spent>>

(* Mutant: without a bridged message there is nothing to compare with.      *)
CheckNeedsBackfillMutated(latest) == Bridged # {} /\ Latest(Bridged) < latest
(* CheckNeedsBackfill compares with the last message bridged.               *)
CheckNeedsBackfill(latest) == Latest(Bridged) < latest

(* What the resync cannot know of: older than a message that was bridged    *)
(* meanwhile, or newer than the counts.                                     *)
TakeResync ==
  /\ Taking({"resync"})
  /\ queue' = Tail(queue)
  /\ job' = IF CheckNeedsBackfill(Event1.ts) THEN Task("fetch", "send", Nothing, NewRow) ELSE None
  /\ excused' = excused \cup {t \in Posted \ Bridged : t < Latest(Bridged) \/ t > Event1.ts}
  /\ KeepTaking /\ UNCHANGED <<pending, stored, torn, missed, regressed, misread, spent>>

Working(kinds, step) == up /\ job # None /\ job.kind \in kinds /\ job.step = step

(* Slack answers with the newest Count messages after the anchor.           *)
Newer == {t \in Posted : t > Latest(Bridged)}
Page == {t \in Newer : Cardinality({n \in Newer : n > t}) < Count}

(* Mutant: the oldest message of the page is compared.                      *)
MarkReadMutated(page) == cache # 0 /\ page # {} /\ cache >= Min(page)
MarkRead(page) == cache # 0 /\ page # {} /\ cache >= Max(page)

(* FetchMessages, forward.                                                  *)
FetchMessages ==
  /\ Working({"fetch"}, "send")
  /\ job' = IF Page = {} THEN None
            ELSE Task("page", "send", [t \in Times |-> IF t \in Page THEN posts[t] ELSE None],
                      NewRow)
  /\ excused' = excused \cup (Newer \ Page)
  /\ torn' = torn \cup (Page \cap pending)
  /\ misread' = (misread \/ (MarkRead(Page) /\ mark < Max(Page) /\ ~regressed))
  /\ KeepSlack
  /\ UNCHANGED <<up, online, stream, queue, sync, cache, pending, mirror, stored, missed, regressed,
                 spent>>

FetchFails ==
  /\ Working({"fetch"}, "send")
  /\ Outside
  /\ job' = None
  /\ excused' = excused \cup Newer
  /\ KeepSlack
  /\ UNCHANGED <<up, online, stream, queue, sync, cache, pending, mirror, stored, torn, missed,
                 regressed, misread>>

(* The converted message, edit or page goes to the room...                  *)
Send ==
  /\ Working({"message", "edit", "page"}, "send")
  /\ job' = [job EXCEPT !.step = "save"]
  /\ shown' = [t \in Times |-> IF job.shows[t] # None THEN job.shows[t] ELSE shown[t]]
  /\ copies' = [t \in Times |-> IF job.kind # "edit" /\ job.shows[t] # None
                                THEN copies[t] + 1 ELSE copies[t]]
  /\ KeepSlack
  /\ UNCHANGED <<up, online, stream, queue, sync, cache, pending, mirror, rows, reactions, history,
                 spent>>

(* ... and the rows are saved.  A page also brings the reactions.           *)
Save ==
  /\ Working({"message", "edit", "page", "post", "update"}, "save")
  /\ rows' = [t \in Times |-> IF job.shows[t] # None THEN job.row ELSE rows[t]]
  /\ reactions' = IF job.kind = "page"
                  THEN reactions \cup {t \in reacted : job.shows[t] # None} ELSE reactions
  /\ job' = None
  /\ KeepSlack
  /\ UNCHANGED <<up, online, stream, queue, sync, cache, pending, mirror, shown, copies, history,
                 spent>>

-----------------------------------------------------------------------------
(* The portal: Matrix events, each a call to Slack.  A call that fails was   *)
(* refused, or was done by Slack and its answer lost; the room keeps what    *)
(* the user sent.  Refused posts, reactions and read receipts, an unknown    *)
(* emoji and one without a row change nothing here.                          *)

Matrix == up /\ job = None /\ Outside
KeepMatrix ==
  UNCHANGED <<up, online, queue, sync, cache, mirror, torn, excused, regressed, misread>>

(* Mutant: nothing is noted.                                                *)
AddPendingToSaveMutated(t) == UNCHANGED pending
AddPendingToSave(t) == pending' = pending \cup {t}

(* HandleMatrixMessage: the answer names the message, unless it is a file   *)
(* that Slack has not shared yet.                                           *)
MatrixMessage(t) ==
  /\ Matrix
  /\ Posts(t)
  /\ shown' = [shown EXCEPT ![t] = 0]
  /\ copies' = [copies EXCEPT ![t] = 1]
  /\ \/ job' = Task("post", "save", Only(t, 0), NewRow) /\ UNCHANGED pending
     \/ AddPendingToSave(t) /\ UNCHANGED job
  /\ KeepMatrix /\ UNCHANGED <<rows, reactions>>

(* Neither a row nor an upload is noted: the event of the message is that   *)
(* of another one.                                                          *)
PostUnanswered(t) ==
  /\ Matrix
  /\ Posts(t)
  /\ shown' = [shown EXCEPT ![t] = 0]
  /\ copies' = [copies EXCEPT ![t] = 1]
  /\ torn' = torn \cup {t}
  /\ UNCHANGED <<up, online, queue, sync, cache, job, pending, mirror, rows, reactions, excused,
                 regressed, misread>>

(* HandleMatrixEdit: LastEditTS is the time in Slack's answer, that of the  *)
(* message or of the edit.  Slack refuses to edit what was deleted.         *)
MatrixEdit(t) ==
  /\ Matrix /\ rows[t] # None /\ posts[t] # None
  /\ Edits(t)
  /\ shown' = [shown EXCEPT ![t] = now']
  /\ \E answer \in {t, now'} :
       job' = Task("update", "save", Only(t, now'), [rows[t] EXCEPT !.edit = answer])
  /\ KeepMatrix /\ UNCHANGED <<pending, rows, reactions, copies>>

(* The row keeps its LastEditTS, and the event of the edit is bridged.      *)
EditUnanswered(t) ==
  /\ Matrix /\ rows[t] # None /\ posts[t] # None
  /\ Edits(t)
  /\ shown' = [shown EXCEPT ![t] = now']
  /\ KeepMatrix /\ UNCHANGED <<job, pending, rows, reactions, copies>>

KeepRefused == KeepMatrix /\ KeepSlack /\ UNCHANGED <<stream, job, pending, rows, reactions>>

EditRefused(t) ==
  /\ Matrix /\ rows[t] # None
  /\ shown' = [shown EXCEPT ![t] = Unsent]
  /\ KeepRefused /\ UNCHANGED <<copies, missed>>

(* HandleMatrixMessageRemove; the row goes at once, or with the event when  *)
(* the answer is lost.                                                      *)
MatrixRemove(t) ==
  /\ Matrix /\ rows[t] # None /\ posts[t] # None
  /\ Deletes(t)
  /\ shown' = [shown EXCEPT ![t] = None]
  /\ copies' = [copies EXCEPT ![t] = 0]
  /\ \/ rows' = [rows EXCEPT ![t] = None] /\ reactions' = reactions \ {t}
     \/ UNCHANGED <<rows, reactions>>
  /\ KeepMatrix /\ UNCHANGED <<job, pending>>

(* The event is redacted all the same.                                      *)
RemovalRefused(t) ==
  /\ Matrix /\ rows[t] # None
  /\ shown' = [shown EXCEPT ![t] = None]
  /\ copies' = [copies EXCEPT ![t] = 0]
  /\ missed' = missed \cup ({t} \cap Posted)
  /\ KeepRefused

(* HandleMatrixReaction; Slack refuses a reaction that is there.  When the  *)
(* answer is lost, the row comes with the event.                            *)
MatrixReaction(t) ==
  /\ Matrix /\ rows[t] # None /\ posts[t] # None /\ t \notin reactions \cup reacted
  /\ Reacts(t)
  /\ reactions' \in {reactions \cup {t}, reactions}
  /\ KeepMatrix /\ UNCHANGED <<job, pending, rows, shown, copies>>

(* HandleMatrixReactionRemove; Slack refuses when the reaction is gone.     *)
(* When the answer is lost, the row stays until the event comes.            *)
MatrixReactionRemove(t) ==
  /\ Matrix /\ rows[t] # None /\ t \in reactions \cap reacted
  /\ Unreacts(t)
  /\ reactions' \in {reactions \ {t}, reactions}
  /\ KeepMatrix /\ UNCHANGED <<job, pending, rows, shown, copies>>

(* HandleMatrixReadReceipt, for a message or a time; Slack tells the mark   *)
(* back.                                                                    *)
MatrixReadReceipt(t) ==
  /\ up /\ job = None /\ Outside
  /\ t = Latest({b \in Bridged : b <= t}) /\ t # mark
  /\ Marks(t)
  /\ regressed' = (regressed \/ t < mark)
  /\ UNCHANGED <<up, online, queue, sync, cache, job, pending, mirror, stored, torn, excused,
                 misread>>

-----------------------------------------------------------------------------
(* persistReactionMirrorMetadata: reads the row, writes all of it.          *)
MirrorRead(t) ==
  /\ up /\ mirror = None /\ rows[t] # None
  /\ Outside
  /\ mirror' = [ts |-> t, row |-> [rows[t] EXCEPT !.mirrored = TRUE]]
  /\ KeepSlack
  /\ UNCHANGED <<up, online, stream, queue, sync, cache, job, pending, stored, history>>

MirrorWrite ==
  /\ up /\ mirror # None
  /\ rows' = [rows EXCEPT ![mirror.ts] = IF @ = None THEN None ELSE mirror.row]
  /\ mirror' = None
  /\ job' = IF job = None THEN None
            ELSE [job EXCEPT !.stale = @ \/ job.shows[mirror.ts] # None]
  /\ KeepSlack
  /\ UNCHANGED <<up, online, stream, queue, sync, cache, pending, reactions, shown, copies, history,
                 spent>>

-----------------------------------------------------------------------------
Handle ==
  \/ Receive \/ Counts \/ Install \/ QueueResync
  \/ TakeMessage \/ TakeEdit \/ TakeDeletion \/ TakeReaction \/ TakeResync
  \/ FetchMessages \/ Send \/ Save \/ MirrorWrite

Next ==
  \/ SlackUser \/ Lose \/ Online \/ Crash \/ Start \/ CountsFail \/ SyncSkips \/ FetchFails
  \/ Handle
  \/ \E t \in Times :
       \/ MatrixMessage(t) \/ MatrixEdit(t) \/ MatrixRemove(t) \/ MatrixReaction(t)
       \/ MatrixReactionRemove(t) \/ MatrixReadReceipt(t) \/ MirrorRead(t)
       \/ PostUnanswered(t) \/ EditUnanswered(t) \/ EditRefused(t) \/ RemovalRefused(t)

Spec == Init /\ [][Next]_vars

-----------------------------------------------------------------------------
Types ==
  /\ now \in Stamps /\ mark \in Stamps /\ cache \in Stamps
  /\ posts \in [Times -> Stamps \cup {None}]
  /\ shown \in [Times -> Stamps \cup {Unsent, None}]
  /\ rows \in [Times -> Row \cup {None}]
  /\ {reacted, reactions, pending, torn, missed, excused} \subseteq SUBSET Times
  /\ {up, online, regressed, misread} \subseteq BOOLEAN
  /\ stream \in Seq(Event) /\ queue \in Seq(Event)
  /\ sync \in Sync \cup {None}
  /\ job \in Job \cup {None}
  /\ mirror \in Mirrored \cup {None}
  /\ copies \in [Times -> Nat]
  /\ spent \in 0..MaxSpent

(* A message of Slack is in the room at most once, whether it came live, by *)
(* backfill or from Matrix itself, unless the bridge crashed between        *)
(* sending it and saving its row, a backfill met a pending upload, or       *)
(* Slack's answer to the post was lost.                                     *)
AtMostOnce == \A t \in Times : copies[t] > 1 => t \in torn

Inv == Types /\ AtMostOnce

AtRest == up /\ online /\ stream = <<>> /\ queue = <<>> /\ sync = None /\ job = None

(* When everything was handled, a bridged message shows Slack's last edit,  *)
(* is there if it is there in Slack, and has the reaction if it has it in   *)
(* Slack, unless a change of it was lost with the connection or a crash,    *)
(* Slack did not take its deletion from Matrix, or the last edit is one     *)
(* from Matrix that Slack did not take.                                     *)
Converges ==
  AtRest => \A t \in Bridged \ missed :
              /\ posts[t] # None
              /\ shown[t] \in {posts[t], Unsent}
              /\ t \in reactions <=> t \in reacted

(* When everything was handled, a message is missing only if a newer one    *)
(* was bridged before the resync, it came after the counts, the page was    *)
(* too short, the fetch failed, the sync passed the channel over for a      *)
(* failure or for want of counts, or the RTM reconnected by itself.         *)
NoGap == AtRest => Posted \ Bridged \subseteq excused \cup pending

(* A backfilled page is marked as read only if the user had read all of it, *)
(* or took marks back, which the read cache may not know yet.               *)
MarkReadIsTrue == ~misread

(* What the mirror saved in a row is kept unless an edit had read the row   *)
(* before or replaces it for a merged caption, and LastEditTS goes back     *)
(* only if either of them had read the row before, for a caption, or by the *)
(* answer to an edit from Matrix.                                           *)
RowsKeepFacts ==
  [][\A t \in Times :
       rows[t] # None /\ rows'[t] # None =>
         /\ rows[t].mirrored /\ ~rows'[t].mirrored =>
              job # None /\ (job.stale \/ job.row = NewRow)
         /\ rows'[t].edit < rows[t].edit =>
              \/ job # None /\ (job.stale \/ job.row = NewRow \/ job.kind = "update")
              \/ mirror # None /\ mirror.row.edit # rows[t].edit]_vars
=============================================================================
