------------------------ MODULE MessageRows_proofs ------------------------
(***************************************************************************)
(* Safety of MessageRows for any number of messages, any length of a page  *)
(* and any number of losses, crashes and calls that fail or whose answer   *)
(* is lost, with the exceptions that each property names: a message is     *)
(* sent once, and what was saved in a row is kept; a page is marked as     *)
(* read only if the user had read it, nothing is missing that the bridge   *)
(* could know of, and what is bridged ends up as it is in Slack.  The last *)
(* three follow the events that are under way in the stream and the        *)
(* portal's queue.                                                         *)
(***************************************************************************)
EXTENDS MessageRows, TLAPS, WellFoundedInduction

-----------------------------------------------------------------------------
(* Types, in the groups in which the actions change them. *)

(* Slack.                                                                   *)
Slacky ==
  /\ now \in Stamps /\ mark \in Stamps
  /\ posts \in [Times -> Stamps \cup {None}]
  /\ reacted \in SUBSET Times

(* What is recorded of messages.                                            *)
Sets ==
  /\ reactions \in SUBSET Times /\ pending \in SUBSET Times /\ torn \in SUBSET Times
  /\ missed \in SUBSET Times /\ excused \in SUBSET Times

(* Events, and the sync.                                                    *)
Streams ==
  /\ stream \in Seq(Event) /\ queue \in Seq(Event)
  /\ sync \in Sync \cup {None} /\ cache \in Stamps

(* Rows, and those who write them.                                          *)
Stored ==
  /\ rows \in [Times -> Row \cup {None}]
  /\ shown \in [Times -> Stamps \cup {Unsent, None}]
  /\ copies \in [Times -> Nat]
  /\ job \in Job \cup {None}
  /\ mirror \in Mirrored \cup {None}

(* The flags.                                                               *)
Flags ==
  /\ up \in BOOLEAN /\ online \in BOOLEAN /\ regressed \in BOOLEAN /\ misread \in BOOLEAN

(* All types.                                                               *)
Typed == Slacky /\ Sets /\ Streams /\ Stored /\ Flags /\ spent \in 0..MaxSpent

-----------------------------------------------------------------------------
(* Facts about the definitions of the model. *)

(* The bounds are numbers.                                                  *)
LEMMA Bounds == MaxTime \in Nat /\ MaxTime # 0 /\ Count \in Nat /\ MaxSpent \in Nat
BY BoundAssumption

(* None is no value of any other kind.                                      *)
LEMMA NoneIsNothing ==
  /\ None \notin Nat /\ None \notin Row /\ None \notin Job /\ None \notin Sync
  /\ None \notin Mirrored
BY NoneAssumption

(* Timestamps are numbers, and so is the edit time of what was not edited.  *)
LEMMA TimesAreStamps ==
  Times \subseteq Stamps /\ 0 \in Stamps /\ Times \subseteq Nat /\ Stamps \subseteq Nat
BY Bounds DEF Times, Stamps

(* A set of timestamps has a maximum: the distance to MaxTime has a         *)
(* minimum.                                                                 *)
LEMMA MaxExists ==
  ASSUME NEW S \in SUBSET Times, S # {}
  PROVE  Max(S) \in S /\ \A s \in S : s <= Max(S)
<1> DEFINE T == {MaxTime - s : s \in S}
<1>1. T \subseteq Nat /\ T # {}
  <2>1. T \subseteq Nat BY Bounds DEF Times
  <2>2. PICK s \in S : TRUE OBVIOUS
  <2>3. MaxTime - s \in T OBVIOUS
  <2> QED BY <2>1, <2>3
<1>2. \E x \in T : \A y \in T : ~ (<<y, x>> \in OpToRel(<, Nat))
  BY <1>1, NatLessThanWellFounded, WFMin
<1>3. PICK m \in T : \A y \in T : ~ (y < m)
  BY <1>1, <1>2 DEF OpToRel
<1>4. PICK s \in S : m = MaxTime - s OBVIOUS
<1>5. \A o \in S : s >= o
  <2> TAKE o \in S
  <2>1. ~(MaxTime - o < MaxTime - s) BY <1>3, <1>4
  <2> QED BY <2>1, Bounds DEF Times
<1>6. \E x \in S : \A y \in S : x >= y BY <1>5
<1>7. Max(S) \in S /\ \A y \in S : Max(S) >= y BY <1>6, Zenon DEF Max
<1> QED BY <1>7, Bounds DEF Times

(* Latest is a stamp, and no timestamp of the set is above it.              *)
LEMMA LatestIsMax ==
  ASSUME NEW S \in SUBSET Times
  PROVE  Latest(S) \in Stamps /\ \A s \in S : s <= Latest(S)
BY MaxExists, TimesAreStamps DEF Latest

(* What Slack tells of a message is an event.                               *)
LEMMA EvType ==
  ASSUME NEW t \in Times
  PROVE  /\ \A type \in {"message", "deleted", "reacted", "unreacted"} : Ev(type, t, 0) \in Event
         /\ \A e \in Times : Ev("changed", t, e) \in Event
BY DEF Ev, Event

(* So are a mark and a resync.                                              *)
LEMMA MarkType == \A t \in Stamps, type \in {"marked", "resync"} : Ev(type, t, 0) \in Event
BY DEF Ev, Event

(* All but marks and resyncs name a message.                                *)
LEMMA EventFields ==
  ASSUME NEW e \in Event
  PROVE  /\ e.ts \in Stamps /\ (e.type \notin {"marked", "resync"} => e.ts \in Times)
         /\ (e.type = "changed" => e.edit \in Times)
BY TimesAreStamps DEF Event

(* Who is told gets an event; who is not, misses a message.                 *)
LEMMA Told ==
  ASSUME Streams, Sets, NEW e \in Event, e.type # "resync", Tell(e)
  PROVE  stream' \in Seq(Event) /\ missed' \in SUBSET Times
<1>1. stream' = Append(stream, e) \/ stream' = stream BY Zenon DEF Tell
<1>2. missed' = missed \/ (e.type # "marked" /\ missed' = missed \cup {e.ts}) BY SMT DEF Tell
<1> QED BY <1>1, <1>2, EventFields DEF Streams, Sets

(* What a user does in Slack.                                               *)
Does(t) ==
  \/ Posts(t) \/ (t \in Posted /\ (Edits(t) \/ Deletes(t))) \/ Reacts(t) \/ Unreacts(t)

(* What a user does keeps the types of Slack and of the stream.             *)
LEMMA DoesTypes ==
  ASSUME Slacky, Streams, Sets, NEW t \in Times, Does(t)
  PROVE  Slacky' /\ stream' \in Seq(Event) /\ missed' \in SUBSET Times
<1> USE Bounds, TimesAreStamps
<1>1. CASE Posts(t)
  <2>1. Ev("message", t, 0) \in Event /\ Ev("message", t, 0).type # "resync" BY EvType DEF Ev
  <2>2. now' = t /\ posts' = [posts EXCEPT ![t] = 0] /\ UNCHANGED <<reacted, mark>>
    BY <1>1 DEF Posts
  <2>3. Tell(Ev("message", t, 0)) BY Zenon, <1>1 DEF Posts
  <2> QED BY <2>1, <2>2, <2>3, Told DEF Slacky
<1>2. CASE Edits(t)
  <2>1. /\ now < MaxTime /\ now' = now + 1 /\ posts' = [posts EXCEPT ![t] = now']
        /\ UNCHANGED <<reacted, mark>>
    BY <1>2 DEF Edits
  <2>2. now' \in Times BY <2>1 DEF Slacky, Stamps, Times
  <2>3. Ev("changed", t, now') \in Event /\ Ev("changed", t, now').type # "resync"
    BY <2>2, EvType DEF Ev
  <2>4. Tell(Ev("changed", t, now')) BY Zenon, <1>2 DEF Edits
  <2> QED BY <2>3, <2>1, <2>4, <2>2, Told DEF Slacky
<1>3. CASE Deletes(t)
  <2>1. Ev("deleted", t, 0) \in Event /\ Ev("deleted", t, 0).type # "resync" BY EvType DEF Ev
  <2>2. posts' = [posts EXCEPT ![t] = None] /\ reacted' = reacted \ {t} /\ UNCHANGED <<now, mark>>
    BY <1>3 DEF Deletes
  <2>3. Tell(Ev("deleted", t, 0)) BY Zenon, <1>3 DEF Deletes
  <2> QED BY <2>1, <2>2, <2>3, Told DEF Slacky
<1>4. CASE Reacts(t)
  <2>1. Ev("reacted", t, 0) \in Event /\ Ev("reacted", t, 0).type # "resync" BY EvType DEF Ev
  <2>2. reacted' = reacted \cup {t} /\ UNCHANGED <<now, posts, mark>> BY <1>4 DEF Reacts
  <2>3. Tell(Ev("reacted", t, 0)) BY Zenon, <1>4 DEF Reacts
  <2> QED BY <2>1, <2>2, <2>3, Told DEF Slacky
<1>5. CASE Unreacts(t)
  <2>1. Ev("unreacted", t, 0) \in Event /\ Ev("unreacted", t, 0).type # "resync" BY EvType DEF Ev
  <2>2. reacted' = reacted \ {t} /\ UNCHANGED <<now, posts, mark>> BY <1>5 DEF Unreacts
  <2>3. Tell(Ev("unreacted", t, 0)) BY Zenon, <1>5 DEF Unreacts
  <2> QED BY <2>1, <2>2, <2>3, Told DEF Slacky
<1> QED BY Zenon, <1>1, <1>2, <1>3, <1>4, <1>5 DEF Does

(* So does a mark.                                                          *)
LEMMA MarksTypes ==
  ASSUME Slacky, Streams, Sets, NEW t \in Stamps, Marks(t)
  PROVE  Slacky' /\ stream' \in Seq(Event) /\ missed' \in SUBSET Times
<1>1. Ev("marked", t, 0) \in Event /\ Ev("marked", t, 0).type # "resync" BY MarkType DEF Ev
<1>2. mark' = t /\ UNCHANGED <<now, posts, reacted>> BY DEF Marks
<1>3. Tell(Ev("marked", t, 0)) BY Zenon DEF Marks
<1> QED BY <1>1, <1>2, <1>3, Told DEF Slacky

(* A row with another edit is a row.                                        *)
LEMMA RowTypes == NewRow \in Row /\ \A r \in Row, e \in Stamps : [r EXCEPT !.edit = e] \in Row
BY TimesAreStamps DEF NewRow, Row

(* No message at all.                                                       *)
LEMMA NothingType == Nothing \in [Times -> Stamps \cup {None}]
BY DEF Nothing

(* One message of its edit.                                                 *)
LEMMA OnlyType ==
  ASSUME NEW t \in Times, NEW e \in Stamps PROVE Only(t, e) \in [Times -> Stamps \cup {None}]
BY NothingType DEF Only

(* A task is a job.                                                         *)
LEMMA TaskType ==
  ASSUME NEW kind \in {"message", "edit", "post", "update", "fetch", "page"},
         NEW step \in {"send", "save"}, NEW shows \in [Times -> Stamps \cup {None}], NEW r \in Row
  PROVE  Task(kind, step, shows, r) \in Job
BY DEF Task, Job

(* A job has a row for what it shows.                                       *)
LEMMA JobFields ==
  ASSUME NEW j \in Job
  PROVE  j.shows \in [Times -> Stamps \cup {None}] /\ j.row \in Row
BY DEF Job

(* What is received or taken is an event.                                   *)
LEMMA Heads ==
  ASSUME Streams
  PROVE  /\ stream # <<>> => Head(stream) \in Event /\ Tail(stream) \in Seq(Event)
         /\ queue # <<>> => Head(queue) \in Event /\ Tail(queue) \in Seq(Event)
BY DEF Streams

(* What the portal takes, resyncs apart, is an event of a message.          *)
LEMMA Taken ==
  ASSUME Streams, NEW types, types \cap {"marked", "resync"} = {}, Taking(types)
  PROVE  /\ Event1 \in Event /\ Event1.ts \in Times /\ Event1.type \in types
         /\ Event1.type = "changed" => Event1.edit \in Times
<1>1. queue # <<>> /\ Event1.type \in types BY Zenon DEF Taking, Event1
<1>2. Event1 \in Event BY <1>1, Heads DEF Event1
<1> QED BY <1>1, <1>2, EventFields

(* What waits is events.                                                    *)
LEMMA Waiting ==
  ASSUME Streams
  PROVE  /\ ToSet(stream) \subseteq Event
         /\ ToSet(queue) \subseteq Event
BY DEF Streams, ToSet

(* The sets of messages are such.                                           *)
LEMMA PageTimes ==
  /\ Posted \subseteq Times /\ Bridged \subseteq Times /\ Newer \subseteq Times
  /\ Page \subseteq Newer
BY DEF Posted, Bridged, Newer, Page

(* A step of SlackUser changes a message or the mark.                       *)
LEMMA UserDoes ==
  ASSUME Slacky, SlackUser
  PROVE  (\E t \in Times : Does(t)) \/ (\E t \in Stamps : Marks(t))
<1>1. \A t \in 0..now \ {mark} : t \in Stamps BY Bounds DEF Slacky, Stamps
<1> QED BY Zenon, <1>1 DEF SlackUser, Does

-----------------------------------------------------------------------------
(* Every step keeps the types. *)

(* The types of Slack.                                                      *)
LEMMA SlackyKept == ASSUME Slacky, Streams, Sets, [Next]_vars PROVE Slacky'
<1> USE DEF slack
<1>1. CASE SlackUser
  BY Zenon, <1>1, UserDoes, DoesTypes, MarksTypes
<1>2. CASE Lose
  <2>1. UNCHANGED <<now, mark, posts, reacted>> BY SMT, <1>2 DEF Lose, KeepSlack
  <2> QED BY <2>1 DEF Slacky
<1>3. CASE Online
  <2>1. UNCHANGED <<now, mark, posts, reacted>> BY SMT, <1>3 DEF Online, KeepSlack
  <2> QED BY <2>1 DEF Slacky
<1>4. CASE Crash
  <2>1. UNCHANGED <<now, mark, posts, reacted>> BY SMT, <1>4 DEF Crash, KeepSlack
  <2> QED BY <2>1 DEF Slacky
<1>5. CASE Start
  <2>1. UNCHANGED <<now, mark, posts, reacted>> BY SMT, <1>5 DEF Start, KeepSlack
  <2> QED BY <2>1 DEF Slacky
<1>6. CASE CountsFail
  <2>1. UNCHANGED <<now, mark, posts, reacted>> BY SMT, <1>6 DEF CountsFail, KeepSync, KeepSlack
  <2> QED BY <2>1 DEF Slacky
<1>7. CASE FetchFails
  <2>1. UNCHANGED <<now, mark, posts, reacted>> BY SMT, <1>7 DEF FetchFails, KeepSlack
  <2> QED BY <2>1 DEF Slacky
<1>8. CASE Receive
  <2>1. UNCHANGED <<now, mark, posts, reacted>> BY SMT, <1>8 DEF Receive, KeepSlack
  <2> QED BY <2>1 DEF Slacky
<1>9. CASE Counts
  <2>1. UNCHANGED <<now, mark, posts, reacted>> BY SMT, <1>9 DEF Counts, KeepSync, KeepSlack
  <2> QED BY <2>1 DEF Slacky
<1>10. CASE Install
  <2>1. UNCHANGED <<now, mark, posts, reacted>> BY SMT, <1>10 DEF Install, KeepSync, KeepSlack
  <2> QED BY <2>1 DEF Slacky
<1>11. CASE QueueResync
  <2>1. UNCHANGED <<now, mark, posts, reacted>> BY SMT, <1>11 DEF QueueResync, KeepSync, KeepSlack
  <2> QED BY <2>1 DEF Slacky
<1>12. CASE TakeMessage
  <2>1. UNCHANGED <<now, mark, posts, reacted>>
    BY SMT, <1>12 DEF TakeMessage, KeepTaking, KeepSlack
  <2> QED BY <2>1 DEF Slacky
<1>13. CASE TakeEdit
  <2>1. UNCHANGED <<now, mark, posts, reacted>> BY SMT, <1>13 DEF TakeEdit, KeepTaking, KeepSlack
  <2> QED BY <2>1 DEF Slacky
<1>14. CASE TakeDeletion
  <2>1. UNCHANGED <<now, mark, posts, reacted>>
    BY SMT, <1>14 DEF TakeDeletion, KeepTaking, KeepSlack
  <2> QED BY <2>1 DEF Slacky
<1>15. CASE TakeReaction
  <2>1. UNCHANGED <<now, mark, posts, reacted>>
    BY SMT, <1>15 DEF TakeReaction, KeepTaking, KeepSlack
  <2> QED BY <2>1 DEF Slacky
<1>16. CASE TakeResync
  <2>1. UNCHANGED <<now, mark, posts, reacted>>
    BY SMT, <1>16 DEF TakeResync, KeepTaking, KeepSlack
  <2> QED BY <2>1 DEF Slacky
<1>17. CASE FetchMessages
  <2>1. UNCHANGED <<now, mark, posts, reacted>> BY SMT, <1>17 DEF FetchMessages, KeepSlack
  <2> QED BY <2>1 DEF Slacky
<1>18. CASE Send
  <2>1. UNCHANGED <<now, mark, posts, reacted>> BY SMT, <1>18 DEF Send, KeepSlack
  <2> QED BY <2>1 DEF Slacky
<1>19. CASE Save
  <2>1. UNCHANGED <<now, mark, posts, reacted>> BY SMT, <1>19 DEF Save, KeepSlack
  <2> QED BY <2>1 DEF Slacky
<1>20. CASE MirrorWrite
  <2>1. UNCHANGED <<now, mark, posts, reacted>> BY SMT, <1>20 DEF MirrorWrite, KeepSlack
  <2> QED BY <2>1 DEF Slacky
<1>21. ASSUME NEW t \in Times, MatrixMessage(t) PROVE Slacky'
  <2>1. Does(t) BY Zenon, <1>21 DEF MatrixMessage, Does
  <2> QED BY <2>1, DoesTypes
<1>22. ASSUME NEW t \in Times, MatrixEdit(t) PROVE Slacky'
  <2>1. Does(t) BY Zenon, <1>22 DEF MatrixEdit, MatrixRemove, Does, Posted
  <2> QED BY <2>1, DoesTypes
<1>23. ASSUME NEW t \in Times, MatrixRemove(t) PROVE Slacky'
  <2>1. Does(t) BY Zenon, <1>23 DEF MatrixEdit, MatrixRemove, Does, Posted
  <2> QED BY <2>1, DoesTypes
<1>24. ASSUME NEW t \in Times, MatrixReaction(t) PROVE Slacky'
  <2>1. Does(t) BY Zenon, <1>24 DEF MatrixReaction, Does
  <2> QED BY <2>1, DoesTypes
<1>25. ASSUME NEW t \in Times, MatrixReactionRemove(t) PROVE Slacky'
  <2>1. Does(t) BY Zenon, <1>25 DEF MatrixReactionRemove, Does
  <2> QED BY <2>1, DoesTypes
<1>26. ASSUME NEW t \in Times, MatrixReadReceipt(t) PROVE Slacky'
  <2>1. Marks(t) /\ t \in Stamps BY <1>26, TimesAreStamps DEF MatrixReadReceipt
  <2> QED BY <2>1, MarksTypes
<1>27. ASSUME NEW t \in Times, MirrorRead(t) PROVE Slacky'
  <2>1. UNCHANGED <<now, mark, posts, reacted>> BY SMT, <1>27 DEF MirrorRead, KeepSlack
  <2> QED BY <2>1 DEF Slacky
<1>28. CASE UNCHANGED vars
  BY SMT, <1>28 DEF vars, slack, Slacky
<1>29. ASSUME NEW t \in Times, PostUnanswered(t) PROVE Slacky'
  <2>1. Does(t) BY Zenon, <1>29 DEF PostUnanswered, Does
  <2> QED BY <2>1, DoesTypes
<1>30. ASSUME NEW t \in Times, EditUnanswered(t) PROVE Slacky'
  <2>1. Does(t) BY Zenon, <1>30 DEF EditUnanswered, Does, Posted
  <2> QED BY <2>1, DoesTypes
<1>31. ASSUME NEW t \in Times, EditRefused(t) PROVE Slacky'
  <2>1. UNCHANGED <<now, mark, posts, reacted>>
    BY SMT, <1>31 DEF EditRefused, KeepRefused, KeepMatrix, KeepSlack
  <2> QED BY <2>1 DEF Slacky
<1>32. ASSUME NEW t \in Times, RemovalRefused(t) PROVE Slacky'
  <2>1. UNCHANGED <<now, mark, posts, reacted>>
    BY SMT, <1>32 DEF RemovalRefused, KeepRefused, KeepMatrix, KeepSlack
  <2> QED BY <2>1 DEF Slacky
<1>33. CASE SyncSkips
  <2>1. UNCHANGED <<now, mark, posts, reacted>> BY SMT, <1>33 DEF SyncSkips, KeepSlack
  <2> QED BY <2>1 DEF Slacky
<1> QED
  BY Zenon, <1>1, <1>2, <1>3, <1>4, <1>5, <1>6, <1>7, <1>8, <1>9, <1>10, <1>11, <1>12, <1>13,
     <1>14, <1>15, <1>16, <1>17, <1>18, <1>19, <1>20, <1>21, <1>22, <1>23, <1>24, <1>25, <1>26,
     <1>27, <1>28, <1>29, <1>30, <1>31, <1>32, <1>33 DEF Next, Handle

(* The types of events and of the sync.                                     *)
LEMMA StreamsKept == ASSUME Slacky, Streams, Sets, [Next]_vars PROVE Streams'
<1> USE DEF slack
<1>1. CASE SlackUser
  <2>1. UNCHANGED <<queue, sync, cache>> BY SMT, <1>1 DEF SlackUser, InSlack
  <2>2. stream' \in Seq(Event) BY Zenon, <1>1, UserDoes, DoesTypes, MarksTypes
  <2> QED BY <2>2, <2>1 DEF Streams
<1>2. CASE Lose
  <2>1. UNCHANGED <<stream, queue, sync, cache>> BY SMT, <1>2 DEF Lose, KeepSlack
  <2> QED BY <2>1 DEF Streams
<1>3. CASE Online
  <2>1. UNCHANGED <<stream, queue, sync, cache>> BY SMT, <1>3 DEF Online, KeepSlack
  <2> QED BY <2>1 DEF Streams
<1>4. CASE Crash
  <2>1. stream' = <<>> /\ queue' = <<>> /\ sync' = None /\ cache' = 0 BY Zenon, <1>4 DEF Crash
  <2> QED BY <2>1, TimesAreStamps DEF Streams
<1>5. CASE Start
  <2>1. UNCHANGED <<stream, queue, cache>> BY SMT, <1>5 DEF Start
  <2>2. sync' \in Sync BY SMT, <1>5, TimesAreStamps DEF Start, Sync
  <2> QED BY <2>1, <2>2 DEF Streams
<1>6. CASE CountsFail
  <2>1. UNCHANGED <<stream, queue, cache>> BY SMT, <1>6 DEF CountsFail, KeepSync
  <2>2. sync \in Sync BY SMT, <1>6 DEF CountsFail, Syncing, Streams
  <2>3. sync' = [sync EXCEPT !.step = "queue"] BY Zenon, <1>6 DEF CountsFail
  <2>4. sync' \in Sync /\ sync.read \in Stamps BY <2>2, <2>3 DEF Sync
  <2>5. cache' = cache \/ cache' = sync.read BY SMT, <1>6 DEF CountsFail
  <2> QED BY <2>1, <2>4, <2>5 DEF Streams
<1>7. CASE FetchFails
  <2>1. UNCHANGED <<stream, queue, sync, cache>> BY SMT, <1>7 DEF FetchFails, KeepSlack
  <2> QED BY <2>1 DEF Streams
<1>8. CASE Receive
  <2> DEFINE e == Head(stream)
  <2>1. stream # <<>> /\ stream' = Tail(stream) BY Zenon, <1>8 DEF Receive
  <2>2. e \in Event /\ e.ts \in Stamps BY <2>1, Heads, EventFields
  <2>3. UNCHANGED sync BY SMT, <1>8 DEF Receive
  <2>4. \/ cache' = e.ts /\ queue' = queue
        \/ queue' = Append(queue, e) /\ cache' = cache
    BY Zenon, <1>8 DEF Receive
  <2>5. stream' \in Seq(Event) BY <2>1, Heads
  <2> HIDE DEF e
  <2>6. CASE cache' = e.ts /\ queue' = queue BY <2>2, <2>3, <2>5, <2>6 DEF Streams
  <2>7. CASE queue' = Append(queue, e) /\ cache' = cache BY <2>2, <2>3, <2>5, <2>7 DEF Streams
  <2> QED BY Zenon, <2>4, <2>6, <2>7
<1>9. CASE Counts
  <2>1. UNCHANGED <<stream, queue, cache>> BY SMT, <1>9 DEF Counts, KeepSync
  <2>2. Latest(Posted) \in Stamps BY PageTimes, LatestIsMax
  <2>3. sync' = [step |-> "install", latest |-> Latest(Posted), read |-> mark]
    BY Zenon, <1>9 DEF Counts
  <2>4. sync' \in Sync BY SMT, <2>2, <2>3 DEF Sync, Slacky
  <2> QED BY <2>1, <2>4 DEF Streams
<1>10. CASE Install
  <2>1. UNCHANGED <<stream, queue>> BY SMT, <1>10 DEF Install, KeepSync
  <2>2. sync \in Sync BY SMT, <1>10 DEF Install, Syncing, Streams
  <2>3. sync' = [sync EXCEPT !.step = "queue"] BY Zenon, <1>10 DEF Install
  <2>4. sync' \in Sync /\ sync.read \in Stamps BY <2>2, <2>3 DEF Sync
  <2>5. cache' = cache \/ cache' = sync.read BY SMT, <1>10 DEF Install
  <2> QED BY <2>1, <2>4, <2>5 DEF Streams
<1>11. CASE QueueResync
  <2>1. UNCHANGED <<stream, cache>> /\ sync' = None BY SMT, <1>11 DEF QueueResync, KeepSync
  <2>2. sync \in Sync BY SMT, <1>11 DEF QueueResync, Syncing, Streams
  <2>3. queue' = Append(queue, Ev("resync", sync.latest, 0)) BY Zenon, <1>11 DEF QueueResync
  <2>4. Ev("resync", sync.latest, 0) \in Event BY <2>2, MarkType DEF Sync
  <2> QED BY <2>1, <2>3, <2>4 DEF Streams
<1>12. CASE TakeMessage
  <2>1. queue # <<>> /\ queue' = Tail(queue) BY Zenon, <1>12 DEF TakeMessage, Taking
  <2>2. UNCHANGED <<stream, sync, cache>> BY SMT, <1>12 DEF TakeMessage, KeepTaking
  <2> QED BY <2>1, <2>2, Heads DEF Streams
<1>13. CASE TakeEdit
  <2>1. queue # <<>> /\ queue' = Tail(queue) BY Zenon, <1>13 DEF TakeEdit, Taking
  <2>2. UNCHANGED <<stream, sync, cache>> BY SMT, <1>13 DEF TakeEdit, KeepTaking
  <2> QED BY <2>1, <2>2, Heads DEF Streams
<1>14. CASE TakeDeletion
  <2>1. queue # <<>> /\ queue' = Tail(queue) BY Zenon, <1>14 DEF TakeDeletion, Taking
  <2>2. UNCHANGED <<stream, sync, cache>> BY SMT, <1>14 DEF TakeDeletion, KeepTaking
  <2> QED BY <2>1, <2>2, Heads DEF Streams
<1>15. CASE TakeReaction
  <2>1. queue # <<>> /\ queue' = Tail(queue) BY Zenon, <1>15 DEF TakeReaction, Taking
  <2>2. UNCHANGED <<stream, sync, cache>> BY SMT, <1>15 DEF TakeReaction, KeepTaking
  <2> QED BY <2>1, <2>2, Heads DEF Streams
<1>16. CASE TakeResync
  <2>1. queue # <<>> /\ queue' = Tail(queue) BY Zenon, <1>16 DEF TakeResync, Taking
  <2>2. UNCHANGED <<stream, sync, cache>> BY SMT, <1>16 DEF TakeResync, KeepTaking
  <2> QED BY <2>1, <2>2, Heads DEF Streams
<1>17. CASE FetchMessages
  <2>1. UNCHANGED <<stream, queue, sync, cache>> BY SMT, <1>17 DEF FetchMessages, KeepSlack
  <2> QED BY <2>1 DEF Streams
<1>18. CASE Send
  <2>1. UNCHANGED <<stream, queue, sync, cache>> BY SMT, <1>18 DEF Send, KeepSlack
  <2> QED BY <2>1 DEF Streams
<1>19. CASE Save
  <2>1. UNCHANGED <<stream, queue, sync, cache>> BY SMT, <1>19 DEF Save, KeepSlack
  <2> QED BY <2>1 DEF Streams
<1>20. CASE MirrorWrite
  <2>1. UNCHANGED <<stream, queue, sync, cache>> BY SMT, <1>20 DEF MirrorWrite, KeepSlack
  <2> QED BY <2>1 DEF Streams
<1>21. ASSUME NEW t \in Times, MatrixMessage(t) PROVE Streams'
  <2>1. UNCHANGED <<queue, sync, cache>> BY SMT, <1>21 DEF MatrixMessage, KeepMatrix
  <2>2. Does(t) BY Zenon, <1>21 DEF MatrixMessage, Does
  <2>3. stream' \in Seq(Event) BY <2>2, DoesTypes
  <2> QED BY <2>3, <2>1 DEF Streams
<1>22. ASSUME NEW t \in Times, MatrixEdit(t) PROVE Streams'
  <2>1. UNCHANGED <<queue, sync, cache>> BY SMT, <1>22 DEF MatrixEdit, KeepMatrix
  <2>2. Does(t) BY Zenon, <1>22 DEF MatrixEdit, MatrixRemove, Does, Posted
  <2>3. stream' \in Seq(Event) BY <2>2, DoesTypes
  <2> QED BY <2>3, <2>1 DEF Streams
<1>23. ASSUME NEW t \in Times, MatrixRemove(t) PROVE Streams'
  <2>1. UNCHANGED <<queue, sync, cache>> BY SMT, <1>23 DEF MatrixRemove, KeepMatrix
  <2>2. Does(t) BY Zenon, <1>23 DEF MatrixEdit, MatrixRemove, Does, Posted
  <2>3. stream' \in Seq(Event) BY <2>2, DoesTypes
  <2> QED BY <2>3, <2>1 DEF Streams
<1>24. ASSUME NEW t \in Times, MatrixReaction(t) PROVE Streams'
  <2>1. UNCHANGED <<queue, sync, cache>> BY SMT, <1>24 DEF MatrixReaction, KeepMatrix
  <2>2. Does(t) BY Zenon, <1>24 DEF MatrixReaction, Does
  <2>3. stream' \in Seq(Event) BY <2>2, DoesTypes
  <2> QED BY <2>3, <2>1 DEF Streams
<1>25. ASSUME NEW t \in Times, MatrixReactionRemove(t) PROVE Streams'
  <2>1. UNCHANGED <<queue, sync, cache>> BY SMT, <1>25 DEF MatrixReactionRemove, KeepMatrix
  <2>2. Does(t) BY Zenon, <1>25 DEF MatrixReactionRemove, Does
  <2>3. stream' \in Seq(Event) BY <2>2, DoesTypes
  <2> QED BY <2>3, <2>1 DEF Streams
<1>26. ASSUME NEW t \in Times, MatrixReadReceipt(t) PROVE Streams'
  <2>1. UNCHANGED <<queue, sync, cache>> BY Zenon, <1>26 DEF MatrixReadReceipt, KeepMatrix
  <2>2. Marks(t) /\ t \in Stamps BY <1>26, TimesAreStamps DEF MatrixReadReceipt
  <2>3. stream' \in Seq(Event) BY <2>2, MarksTypes
  <2> QED BY <2>3, <2>1 DEF Streams
<1>27. ASSUME NEW t \in Times, MirrorRead(t) PROVE Streams'
  <2>1. UNCHANGED <<stream, queue, sync, cache>> BY SMT, <1>27 DEF MirrorRead, KeepSlack
  <2> QED BY <2>1 DEF Streams
<1>28. CASE UNCHANGED vars
  BY SMT, <1>28 DEF vars, bridge, Streams
<1>29. ASSUME NEW t \in Times, PostUnanswered(t) PROVE Streams'
  <2>1. UNCHANGED <<queue, sync, cache>> BY SMT, <1>29 DEF PostUnanswered
  <2>2. Does(t) BY Zenon, <1>29 DEF PostUnanswered, Does
  <2>3. stream' \in Seq(Event) BY <2>2, DoesTypes
  <2> QED BY <2>3, <2>1 DEF Streams
<1>30. ASSUME NEW t \in Times, EditUnanswered(t) PROVE Streams'
  <2>1. UNCHANGED <<queue, sync, cache>> BY SMT, <1>30 DEF EditUnanswered, KeepMatrix
  <2>2. Does(t) BY Zenon, <1>30 DEF EditUnanswered, Does, Posted
  <2>3. stream' \in Seq(Event) BY <2>2, DoesTypes
  <2> QED BY <2>3, <2>1 DEF Streams
<1>31. ASSUME NEW t \in Times, EditRefused(t) PROVE Streams'
  <2>1. UNCHANGED <<stream, queue, sync, cache>>
    BY SMT, <1>31 DEF EditRefused, KeepRefused, KeepMatrix, KeepSlack
  <2> QED BY <2>1 DEF Streams
<1>32. ASSUME NEW t \in Times, RemovalRefused(t) PROVE Streams'
  <2>1. UNCHANGED <<stream, queue, sync, cache>>
    BY SMT, <1>32 DEF RemovalRefused, KeepRefused, KeepMatrix, KeepSlack
  <2> QED BY <2>1 DEF Streams
<1>33. CASE SyncSkips
  <2>1. UNCHANGED <<stream, queue, cache>> /\ sync' = None BY SMT, <1>33 DEF SyncSkips
  <2> QED BY <2>1 DEF Streams
<1> QED
  BY Zenon, <1>1, <1>2, <1>3, <1>4, <1>5, <1>6, <1>7, <1>8, <1>9, <1>10, <1>11, <1>12, <1>13,
     <1>14, <1>15, <1>16, <1>17, <1>18, <1>19, <1>20, <1>21, <1>22, <1>23, <1>24, <1>25, <1>26,
     <1>27, <1>28, <1>29, <1>30, <1>31, <1>32, <1>33 DEF Next, Handle

(* The types of the flags.                                                  *)
LEMMA FlagsKept == ASSUME Flags, [Next]_vars PROVE Flags'
<1> USE DEF history
<1>1. CASE SlackUser
  <2>1. UNCHANGED <<up, online, misread>> BY SMT, <1>1 DEF SlackUser, InSlack
  <2>2. UNCHANGED regressed \/ \E t \in 0..now \ {mark} : regressed' = (regressed \/ t < mark)
    BY Zenon, <1>1 DEF SlackUser
  <2>3. regressed' \in BOOLEAN BY Zenon, <2>2 DEF Flags
  <2> QED BY Zenon, <2>1, <2>3 DEF Flags
<1>2. CASE Lose
  <2>1. online' = FALSE /\ UNCHANGED <<up, regressed, misread>> BY Zenon, <1>2 DEF Lose, history
  <2> QED BY Zenon, <2>1 DEF Flags
<1>3. CASE Online
  <2>1. online' = TRUE /\ UNCHANGED <<up, regressed, misread>> BY Zenon, <1>3 DEF Online, history
  <2> QED BY Zenon, <2>1 DEF Flags
<1>4. CASE Crash
  <2>1. up' = FALSE /\ online' = FALSE /\ UNCHANGED <<regressed, misread>>
    BY Zenon, <1>4 DEF Crash, history
  <2> QED BY Zenon, <2>1 DEF Flags
<1>5. CASE Start
  <2>1. up' = TRUE /\ UNCHANGED <<online, regressed, misread>> BY Zenon, <1>5 DEF Start, history
  <2> QED BY Zenon, <2>1 DEF Flags
<1>6. CASE CountsFail
  <2>1. UNCHANGED <<up, online, regressed, misread>>
    BY SMT, <1>6 DEF CountsFail, KeepSync, KeepSlack
  <2> QED BY <2>1 DEF Flags
<1>7. CASE FetchFails
  <2>1. UNCHANGED <<up, online, regressed, misread>> BY SMT, <1>7 DEF FetchFails, KeepSlack
  <2> QED BY <2>1 DEF Flags
<1>8. CASE Receive
  <2>1. UNCHANGED <<up, online, regressed, misread>> BY SMT, <1>8 DEF Receive, KeepSlack
  <2> QED BY <2>1 DEF Flags
<1>9. CASE Counts
  <2>1. UNCHANGED <<up, online, regressed, misread>> BY SMT, <1>9 DEF Counts, KeepSync, KeepSlack
  <2> QED BY <2>1 DEF Flags
<1>10. CASE Install
  <2>1. UNCHANGED <<up, online, regressed, misread>>
    BY SMT, <1>10 DEF Install, KeepSync, KeepSlack
  <2> QED BY <2>1 DEF Flags
<1>11. CASE QueueResync
  <2>1. UNCHANGED <<up, online, regressed, misread>>
    BY SMT, <1>11 DEF QueueResync, KeepSync, KeepSlack
  <2> QED BY <2>1 DEF Flags
<1>12. CASE TakeMessage
  <2>1. UNCHANGED <<up, online, regressed, misread>>
    BY SMT, <1>12 DEF TakeMessage, KeepTaking, KeepSlack
  <2> QED BY <2>1 DEF Flags
<1>13. CASE TakeEdit
  <2>1. UNCHANGED <<up, online, regressed, misread>>
    BY SMT, <1>13 DEF TakeEdit, KeepTaking, KeepSlack
  <2> QED BY <2>1 DEF Flags
<1>14. CASE TakeDeletion
  <2>1. UNCHANGED <<up, online, regressed, misread>>
    BY SMT, <1>14 DEF TakeDeletion, KeepTaking, KeepSlack
  <2> QED BY <2>1 DEF Flags
<1>15. CASE TakeReaction
  <2>1. UNCHANGED <<up, online, regressed, misread>>
    BY SMT, <1>15 DEF TakeReaction, KeepTaking, KeepSlack
  <2> QED BY <2>1 DEF Flags
<1>16. CASE TakeResync
  <2>1. UNCHANGED <<up, online, regressed, misread>>
    BY SMT, <1>16 DEF TakeResync, KeepTaking, KeepSlack
  <2> QED BY <2>1 DEF Flags
<1>17. CASE FetchMessages
  <2>1. UNCHANGED <<up, online, regressed>> BY SMT, <1>17 DEF FetchMessages
  <2>2. misread' \in BOOLEAN BY Zenon, <1>17 DEF FetchMessages
  <2> QED BY Zenon, <2>1, <2>2 DEF Flags
<1>18. CASE Send
  <2>1. UNCHANGED <<up, online, regressed, misread>> BY SMT, <1>18 DEF Send, KeepSlack
  <2> QED BY <2>1 DEF Flags
<1>19. CASE Save
  <2>1. UNCHANGED <<up, online, regressed, misread>> BY SMT, <1>19 DEF Save, KeepSlack
  <2> QED BY <2>1 DEF Flags
<1>20. CASE MirrorWrite
  <2>1. UNCHANGED <<up, online, regressed, misread>> BY SMT, <1>20 DEF MirrorWrite, KeepSlack
  <2> QED BY <2>1 DEF Flags
<1>21. ASSUME NEW t \in Times, MatrixMessage(t) PROVE Flags'
  <2>1. UNCHANGED <<up, online, regressed, misread>> BY SMT, <1>21 DEF MatrixMessage, KeepMatrix
  <2> QED BY SMT, <2>1 DEF Flags
<1>22. ASSUME NEW t \in Times, MatrixEdit(t) PROVE Flags'
  <2>1. UNCHANGED <<up, online, regressed, misread>> BY SMT, <1>22 DEF MatrixEdit, KeepMatrix
  <2> QED BY SMT, <2>1 DEF Flags
<1>23. ASSUME NEW t \in Times, MatrixRemove(t) PROVE Flags'
  <2>1. UNCHANGED <<up, online, regressed, misread>> BY SMT, <1>23 DEF MatrixRemove, KeepMatrix
  <2> QED BY SMT, <2>1 DEF Flags
<1>24. ASSUME NEW t \in Times, MatrixReaction(t) PROVE Flags'
  <2>1. UNCHANGED <<up, online, regressed, misread>> BY SMT, <1>24 DEF MatrixReaction, KeepMatrix
  <2> QED BY SMT, <2>1 DEF Flags
<1>25. ASSUME NEW t \in Times, MatrixReactionRemove(t) PROVE Flags'
  <2>1. UNCHANGED <<up, online, regressed, misread>>
    BY SMT, <1>25 DEF MatrixReactionRemove, KeepMatrix
  <2> QED BY SMT, <2>1 DEF Flags
<1>26. ASSUME NEW t \in Times, MatrixReadReceipt(t) PROVE Flags'
  <2>1. UNCHANGED <<up, online, misread>> BY Zenon, <1>26 DEF MatrixReadReceipt
  <2>2. regressed' \in BOOLEAN BY Zenon, <1>26 DEF MatrixReadReceipt
  <2> QED BY Zenon, <2>1, <2>2 DEF Flags
<1>27. ASSUME NEW t \in Times, MirrorRead(t) PROVE Flags'
  <2>1. UNCHANGED <<up, online, regressed, misread>> BY SMT, <1>27 DEF MirrorRead, KeepSlack
  <2> QED BY <2>1 DEF Flags
<1>28. CASE UNCHANGED vars
  BY SMT, <1>28 DEF vars, bridge, history, Flags
<1>29. ASSUME NEW t \in Times, PostUnanswered(t) PROVE Flags'
  <2>1. UNCHANGED <<up, online, regressed, misread>> BY SMT, <1>29 DEF PostUnanswered
  <2> QED BY SMT, <2>1 DEF Flags
<1>30. ASSUME NEW t \in Times, EditUnanswered(t) PROVE Flags'
  <2>1. UNCHANGED <<up, online, regressed, misread>> BY SMT, <1>30 DEF EditUnanswered, KeepMatrix
  <2> QED BY SMT, <2>1 DEF Flags
<1>31. ASSUME NEW t \in Times, EditRefused(t) PROVE Flags'
  <2>1. UNCHANGED <<up, online, regressed, misread>>
    BY SMT, <1>31 DEF EditRefused, KeepRefused, KeepMatrix, KeepSlack
  <2> QED BY SMT, <2>1 DEF Flags
<1>32. ASSUME NEW t \in Times, RemovalRefused(t) PROVE Flags'
  <2>1. UNCHANGED <<up, online, regressed, misread>>
    BY SMT, <1>32 DEF RemovalRefused, KeepRefused, KeepMatrix, KeepSlack
  <2> QED BY SMT, <2>1 DEF Flags
<1>33. CASE SyncSkips
  <2>1. UNCHANGED <<up, online, regressed, misread>> BY SMT, <1>33 DEF SyncSkips, KeepSlack
  <2> QED BY <2>1 DEF Flags
<1> QED
  BY Zenon, <1>1, <1>2, <1>3, <1>4, <1>5, <1>6, <1>7, <1>8, <1>9, <1>10, <1>11, <1>12, <1>13,
     <1>14, <1>15, <1>16, <1>17, <1>18, <1>19, <1>20, <1>21, <1>22, <1>23, <1>24, <1>25, <1>26,
     <1>27, <1>28, <1>29, <1>30, <1>31, <1>32, <1>33 DEF Next, Handle

(* The bound on what users do and on failures.                              *)
LEMMA SpentKept == ASSUME spent \in 0..MaxSpent, [Next]_vars PROVE (spent \in 0..MaxSpent)'
<1> USE DEF history
<1>1. CASE SlackUser
  BY SMT, <1>1, Bounds DEF SlackUser, Outside
<1>2. CASE Lose
  BY SMT, <1>2, Bounds DEF Lose, Outside
<1>3. CASE Online
  BY SMT, <1>3 DEF Online, KeepSlack
<1>4. CASE Crash
  BY SMT, <1>4, Bounds DEF Crash, Outside
<1>5. CASE Start
  BY SMT, <1>5 DEF Start, KeepSlack
<1>6. CASE CountsFail
  BY SMT, <1>6, Bounds DEF CountsFail, Outside
<1>7. CASE FetchFails
  BY SMT, <1>7, Bounds DEF FetchFails, Outside
<1>8. CASE Receive
  BY SMT, <1>8 DEF Receive, KeepSlack
<1>9. CASE Counts
  BY SMT, <1>9 DEF Counts, KeepSync, KeepSlack
<1>10. CASE Install
  BY SMT, <1>10 DEF Install, KeepSync, KeepSlack
<1>11. CASE QueueResync
  BY SMT, <1>11 DEF QueueResync, KeepSync, KeepSlack
<1>12. CASE TakeMessage
  BY SMT, <1>12 DEF TakeMessage, KeepTaking, KeepSlack
<1>13. CASE TakeEdit
  BY SMT, <1>13 DEF TakeEdit, KeepTaking, KeepSlack
<1>14. CASE TakeDeletion
  BY SMT, <1>14 DEF TakeDeletion, KeepTaking, KeepSlack
<1>15. CASE TakeReaction
  BY SMT, <1>15 DEF TakeReaction, KeepTaking, KeepSlack
<1>16. CASE TakeResync
  BY SMT, <1>16 DEF TakeResync, KeepTaking, KeepSlack
<1>17. CASE FetchMessages
  BY SMT, <1>17 DEF FetchMessages, KeepSlack
<1>18. CASE Send
  BY SMT, <1>18 DEF Send, KeepSlack
<1>19. CASE Save
  BY SMT, <1>19 DEF Save, KeepSlack
<1>20. CASE MirrorWrite
  BY SMT, <1>20 DEF MirrorWrite, KeepSlack
<1>21. ASSUME NEW t \in Times, MatrixMessage(t) PROVE (spent \in 0..MaxSpent)'
  BY SMT, <1>21, Bounds DEF MatrixMessage, Outside, Matrix
<1>22. ASSUME NEW t \in Times, MatrixEdit(t) PROVE (spent \in 0..MaxSpent)'
  BY SMT, <1>22, Bounds DEF MatrixEdit, Outside, Matrix
<1>23. ASSUME NEW t \in Times, MatrixRemove(t) PROVE (spent \in 0..MaxSpent)'
  BY SMT, <1>23, Bounds DEF MatrixRemove, Outside, Matrix
<1>24. ASSUME NEW t \in Times, MatrixReaction(t) PROVE (spent \in 0..MaxSpent)'
  BY SMT, <1>24, Bounds DEF MatrixReaction, Outside, Matrix
<1>25. ASSUME NEW t \in Times, MatrixReactionRemove(t) PROVE (spent \in 0..MaxSpent)'
  BY SMT, <1>25, Bounds DEF MatrixReactionRemove, Outside, Matrix
<1>26. ASSUME NEW t \in Times, MatrixReadReceipt(t) PROVE (spent \in 0..MaxSpent)'
  <2>1. Outside BY Zenon, <1>26 DEF MatrixReadReceipt
  <2> QED BY <2>1, Bounds DEF Outside
<1>27. ASSUME NEW t \in Times, MirrorRead(t) PROVE (spent \in 0..MaxSpent)'
  BY SMT, <1>27, Bounds DEF MirrorRead, Outside
<1>28. CASE UNCHANGED vars
  BY SMT, <1>28 DEF vars
<1>29. ASSUME NEW t \in Times, PostUnanswered(t) PROVE (spent \in 0..MaxSpent)'
  BY SMT, <1>29, Bounds DEF PostUnanswered, Outside, Matrix
<1>30. ASSUME NEW t \in Times, EditUnanswered(t) PROVE (spent \in 0..MaxSpent)'
  BY SMT, <1>30, Bounds DEF EditUnanswered, Outside, Matrix
<1>31. ASSUME NEW t \in Times, EditRefused(t) PROVE (spent \in 0..MaxSpent)'
  BY SMT, <1>31, Bounds DEF EditRefused, Outside, Matrix
<1>32. ASSUME NEW t \in Times, RemovalRefused(t) PROVE (spent \in 0..MaxSpent)'
  BY SMT, <1>32, Bounds DEF RemovalRefused, Outside, Matrix
<1>33. CASE SyncSkips
  BY SMT, <1>33, Bounds DEF SyncSkips, Outside
<1> QED
  BY Zenon, <1>1, <1>2, <1>3, <1>4, <1>5, <1>6, <1>7, <1>8, <1>9, <1>10, <1>11, <1>12, <1>13,
     <1>14, <1>15, <1>16, <1>17, <1>18, <1>19, <1>20, <1>21, <1>22, <1>23, <1>24, <1>25, <1>26,
     <1>27, <1>28, <1>29, <1>30, <1>31, <1>32, <1>33 DEF Next, Handle

(* The types of the sets.                                                   *)
LEMMA SetsKept == ASSUME Slacky, Streams, Sets, [Next]_vars PROVE Sets'
<1> USE DEF history
<1>1. CASE SlackUser
  <2>1. UNCHANGED <<reactions, pending, torn, excused>>
    BY SMT, <1>1 DEF SlackUser, InSlack, stored
  <2>2. missed' \in SUBSET Times BY Zenon, <1>1, UserDoes, DoesTypes, MarksTypes
  <2> QED BY <2>1, <2>2 DEF Sets
<1>2. CASE Lose
  <2>1. UNCHANGED <<reactions, pending, torn, missed, excused>>
    BY SMT, <1>2 DEF Lose, KeepSlack, stored
  <2> QED BY <2>1 DEF Sets
<1>3. CASE Online
  <2>1. UNCHANGED <<reactions, pending, torn, missed>> BY SMT, <1>3 DEF Online, stored
  <2>2. Unheard \subseteq Times BY Zenon, PageTimes DEF Unheard
  <2>3. excused' = excused \/ excused' = excused \cup Unheard BY Zenon, <1>3 DEF Online
  <2> QED BY <2>1, <2>2, <2>3 DEF Sets
<1>4. CASE Crash
  <2> DEFINE kept == IF /\ job # None /\ job.step = "save"
                        /\ job.kind \in {"message", "post", "page"}
                     THEN {t \in Times : job.shows[t] # None /\ rows[t] = None} ELSE {}
             lost == {e \in ToSet(stream) \cup ToSet(queue) :
                        e.type \notin {"message", "marked", "resync"}}
             names == {e.ts : e \in lost}
             shows == IF job = None THEN {} ELSE {t \in Times : job.shows[t] # None}
  <2>1. UNCHANGED <<reactions, excused>> /\ pending' = {} BY SMT, <1>4 DEF Crash, stored
  <2>2. kept \subseteq Times /\ shows \subseteq Times OBVIOUS
  <2>3. names \subseteq Times BY Waiting, EventFields
  <2>4. torn' = torn \cup pending \cup kept BY Zenon, <1>4 DEF Crash
  <2>5. missed' = missed \cup names \cup shows BY Zenon, <1>4 DEF Crash
  <2> HIDE DEF kept, shows, names
  <2> QED BY <2>1, <2>2, <2>3, <2>4, <2>5 DEF Sets
<1>5. CASE Start
  <2>1. UNCHANGED <<reactions, pending, torn, missed, excused>>
    BY SMT, <1>5 DEF Start, KeepSlack, stored
  <2> QED BY <2>1 DEF Sets
<1>6. CASE CountsFail
  <2>1. UNCHANGED <<reactions, pending, torn, missed, excused>>
    BY SMT, <1>6 DEF CountsFail, KeepSync, KeepSlack, stored
  <2> QED BY <2>1 DEF Sets
<1>7. CASE FetchFails
  <2>1. UNCHANGED <<reactions, pending, torn, missed>> /\ excused' = excused \cup Newer
    BY SMT, <1>7 DEF FetchFails, stored
  <2> QED BY <2>1, PageTimes DEF Sets
<1>8. CASE Receive
  <2>1. UNCHANGED <<reactions, pending, torn, missed, excused>>
    BY SMT, <1>8 DEF Receive, KeepSlack, stored
  <2> QED BY <2>1 DEF Sets
<1>9. CASE Counts
  <2>1. UNCHANGED <<reactions, pending, torn, missed, excused>>
    BY SMT, <1>9 DEF Counts, KeepSync, KeepSlack, stored
  <2> QED BY <2>1 DEF Sets
<1>10. CASE Install
  <2>1. UNCHANGED <<reactions, pending, torn, missed, excused>>
    BY SMT, <1>10 DEF Install, KeepSync, KeepSlack, stored
  <2> QED BY <2>1 DEF Sets
<1>11. CASE QueueResync
  <2>1. UNCHANGED <<reactions, pending, torn, missed, excused>>
    BY SMT, <1>11 DEF QueueResync, KeepSync, KeepSlack, stored
  <2> QED BY <2>1 DEF Sets
<1>12. CASE TakeMessage
  <2>1. UNCHANGED <<reactions, torn, missed, excused>> BY SMT, <1>12 DEF TakeMessage, history
  <2>2. pending' = pending \/ pending' = pending \ {Event1.ts} BY Zenon, <1>12 DEF TakeMessage
  <2> QED BY <2>1, <2>2 DEF Sets
<1>13. CASE TakeEdit
  <2>1. UNCHANGED <<reactions, pending, torn, missed, excused>>
    BY SMT, <1>13 DEF TakeEdit, KeepTaking, KeepSlack, stored
  <2> QED BY <2>1 DEF Sets
<1>14. CASE TakeDeletion
  <2>1. UNCHANGED <<pending, torn, missed, excused>> BY SMT, <1>14 DEF TakeDeletion, history
  <2>2. reactions' = reactions \ {Event1.ts} BY Zenon, <1>14 DEF TakeDeletion
  <2> QED BY <2>1, <2>2 DEF Sets
<1>15. CASE TakeReaction
  <2>1. UNCHANGED <<pending, torn, missed, excused>> BY SMT, <1>15 DEF TakeReaction, history
  <2>2. Taking({"reacted", "unreacted"}) BY Zenon, <1>15 DEF TakeReaction
  <2>3. Event1.ts \in Times BY <2>2, Taken
  <2>4. \/ reactions' = reactions \/ reactions' = reactions \cup {Event1.ts}
        \/ reactions' = reactions \ {Event1.ts}
    BY SMT, <1>15 DEF TakeReaction
  <2> QED BY <2>1, <2>3, <2>4 DEF Sets
<1>16. CASE TakeResync
  <2>1. UNCHANGED <<reactions, pending, torn, missed>> BY SMT, <1>16 DEF TakeResync, stored
  <2>2. excused' = excused \cup {t \in Posted \ Bridged : t < Latest(Bridged) \/ t > Event1.ts}
    BY Zenon, <1>16 DEF TakeResync
  <2> QED BY <2>1, <2>2, PageTimes DEF Sets
<1>17. CASE FetchMessages
  <2>1. UNCHANGED <<reactions, pending, missed>> BY SMT, <1>17 DEF FetchMessages, stored
  <2>2. excused' = excused \cup (Newer \ Page) /\ torn' = torn \cup (Page \cap pending)
    BY Zenon, <1>17 DEF FetchMessages
  <2> QED BY <2>1, <2>2, PageTimes DEF Sets
<1>18. CASE Send
  <2>1. UNCHANGED <<reactions, pending, torn, missed, excused>>
    BY SMT, <1>18 DEF Send, KeepSlack, stored
  <2> QED BY <2>1 DEF Sets
<1>19. CASE Save
  <2>1. UNCHANGED <<pending, torn, missed, excused>> BY SMT, <1>19 DEF Save, history
  <2>2. \/ reactions' = reactions
        \/ reactions' = reactions \cup {t \in reacted : job.shows[t] # None}
    BY Zenon, <1>19 DEF Save
  <2> QED BY <2>1, <2>2 DEF Sets, Slacky
<1>20. CASE MirrorWrite
  <2>1. UNCHANGED <<reactions, pending, torn, missed, excused>>
    BY SMT, <1>20 DEF MirrorWrite, KeepSlack, stored
  <2> QED BY <2>1 DEF Sets
<1>21. ASSUME NEW t \in Times, MatrixMessage(t) PROVE Sets'
  <2>1. Does(t) BY Zenon, <1>21 DEF MatrixMessage, Does
  <2>2. missed' \in SUBSET Times BY <2>1, DoesTypes
  <2>3. UNCHANGED <<reactions, torn, excused>> BY SMT, <1>21 DEF MatrixMessage, KeepMatrix, stored
  <2>4. pending' = pending \/ pending' = pending \cup {t}
    BY Zenon, <1>21 DEF MatrixMessage, AddPendingToSave
  <2> QED BY <2>2, <2>3, <2>4 DEF Sets
<1>22. ASSUME NEW t \in Times, MatrixEdit(t) PROVE Sets'
  <2>1. Does(t) BY Zenon, <1>22 DEF MatrixEdit, MatrixRemove, Does, Posted
  <2>2. missed' \in SUBSET Times BY <2>1, DoesTypes
  <2>3. UNCHANGED <<reactions, pending, torn, excused>>
    BY SMT, <1>22 DEF MatrixEdit, KeepMatrix, stored
  <2> QED BY <2>2, <2>3 DEF Sets
<1>23. ASSUME NEW t \in Times, MatrixRemove(t) PROVE Sets'
  <2>1. Does(t) BY Zenon, <1>23 DEF MatrixEdit, MatrixRemove, Does, Posted
  <2>2. missed' \in SUBSET Times BY <2>1, DoesTypes
  <2>3. UNCHANGED <<pending, torn, excused>> BY SMT, <1>23 DEF MatrixRemove, KeepMatrix, stored
  <2>4. reactions' = reactions \/ reactions' = reactions \ {t}
    BY Zenon, <1>23 DEF MatrixRemove, AddPendingToSave
  <2> QED BY <2>2, <2>3, <2>4 DEF Sets
<1>24. ASSUME NEW t \in Times, MatrixReaction(t) PROVE Sets'
  <2>1. Does(t) BY Zenon, <1>24 DEF MatrixReaction, Does
  <2>2. missed' \in SUBSET Times BY <2>1, DoesTypes
  <2>3. UNCHANGED <<pending, torn, excused>> BY SMT, <1>24 DEF MatrixReaction, KeepMatrix, stored
  <2>4. reactions' = reactions \/ reactions' = reactions \cup {t}
    BY SMT, <1>24 DEF MatrixReaction
  <2> QED BY <2>2, <2>3, <2>4 DEF Sets
<1>25. ASSUME NEW t \in Times, MatrixReactionRemove(t) PROVE Sets'
  <2>1. Does(t) BY Zenon, <1>25 DEF MatrixReactionRemove, Does
  <2>2. missed' \in SUBSET Times BY <2>1, DoesTypes
  <2>3. UNCHANGED <<pending, torn, excused>>
    BY SMT, <1>25 DEF MatrixReactionRemove, KeepMatrix, stored
  <2>4. reactions' = reactions \/ reactions' = reactions \ {t}
    BY SMT, <1>25 DEF MatrixReactionRemove, AddPendingToSave
  <2> QED BY <2>2, <2>3, <2>4 DEF Sets
<1>26. ASSUME NEW t \in Times, MatrixReadReceipt(t) PROVE Sets'
  <2>1. Marks(t) /\ t \in Stamps BY <1>26, TimesAreStamps DEF MatrixReadReceipt
  <2>2. missed' \in SUBSET Times BY <2>1, MarksTypes
  <2>3. UNCHANGED <<reactions, pending, torn, excused>>
    BY Zenon, <1>26 DEF MatrixReadReceipt, KeepMatrix, stored
  <2> QED BY <2>2, <2>3 DEF Sets
<1>27. ASSUME NEW t \in Times, MirrorRead(t) PROVE Sets'
  <2>1. UNCHANGED <<reactions, pending, torn, missed, excused>>
    BY SMT, <1>27 DEF MirrorRead, KeepSlack, stored
  <2> QED BY <2>1 DEF Sets
<1>28. CASE UNCHANGED vars
  BY SMT, <1>28 DEF vars, bridge, stored, Sets
<1>29. ASSUME NEW t \in Times, PostUnanswered(t) PROVE Sets'
  <2>1. Does(t) BY Zenon, <1>29 DEF PostUnanswered, Does
  <2>2. missed' \in SUBSET Times BY <2>1, DoesTypes
  <2>3. UNCHANGED <<reactions, pending, excused>> BY SMT, <1>29 DEF PostUnanswered
  <2>4. torn' = torn \cup {t} BY Zenon, <1>29 DEF PostUnanswered
  <2> QED BY <2>2, <2>3, <2>4 DEF Sets
<1>30. ASSUME NEW t \in Times, EditUnanswered(t) PROVE Sets'
  <2>1. Does(t) BY Zenon, <1>30 DEF EditUnanswered, Does, Posted
  <2>2. missed' \in SUBSET Times BY <2>1, DoesTypes
  <2>3. UNCHANGED <<reactions, pending, torn, excused>>
    BY SMT, <1>30 DEF EditUnanswered, KeepMatrix
  <2> QED BY <2>2, <2>3 DEF Sets
<1>31. ASSUME NEW t \in Times, EditRefused(t) PROVE Sets'
  <2>1. UNCHANGED <<reactions, pending, torn, missed, excused>>
    BY SMT, <1>31 DEF EditRefused, KeepRefused, KeepMatrix, KeepSlack
  <2> QED BY <2>1 DEF Sets
<1>32. ASSUME NEW t \in Times, RemovalRefused(t) PROVE Sets'
  <2>1. UNCHANGED <<reactions, pending, torn, excused>>
    BY SMT, <1>32 DEF RemovalRefused, KeepRefused, KeepMatrix, KeepSlack
  <2>2. missed' = missed \cup ({t} \cap Posted) BY Zenon, <1>32 DEF RemovalRefused
  <2> QED BY <2>1, <2>2 DEF Sets
<1>33. CASE SyncSkips
  <2>1. UNCHANGED <<reactions, pending, torn, missed>> BY SMT, <1>33 DEF SyncSkips, stored
  <2>2. Unheard \subseteq Times BY Zenon, PageTimes DEF Unheard
  <2>3. excused' = excused \cup Unheard BY Zenon, <1>33 DEF SyncSkips
  <2> QED BY <2>1, <2>2, <2>3 DEF Sets
<1> QED
  BY Zenon, <1>1, <1>2, <1>3, <1>4, <1>5, <1>6, <1>7, <1>8, <1>9, <1>10, <1>11, <1>12, <1>13,
     <1>14, <1>15, <1>16, <1>17, <1>18, <1>19, <1>20, <1>21, <1>22, <1>23, <1>24, <1>25, <1>26,
     <1>27, <1>28, <1>29, <1>30, <1>31, <1>32, <1>33 DEF Next, Handle

(* The types of rows and of their writers.                                  *)
LEMMA StoredKept == ASSUME Slacky, Streams, Sets, Stored, [Next]_vars PROVE Stored'
<1> USE DEF stored
<1>1. CASE SlackUser
  <2>1. UNCHANGED <<rows, shown, copies, job, mirror>> BY SMT, <1>1 DEF SlackUser, InSlack
  <2> QED BY <2>1 DEF Stored
<1>2. CASE Lose
  <2>1. UNCHANGED <<rows, shown, copies, job, mirror>> BY SMT, <1>2 DEF Lose, KeepSlack
  <2> QED BY <2>1 DEF Stored
<1>3. CASE Online
  <2>1. UNCHANGED <<rows, shown, copies, job, mirror>> BY SMT, <1>3 DEF Online, KeepSlack
  <2> QED BY <2>1 DEF Stored
<1>4. CASE Crash
  <2>1. UNCHANGED <<rows, shown, copies>> /\ job' = None /\ mirror' = None BY SMT, <1>4 DEF Crash
  <2> QED BY <2>1 DEF Stored
<1>5. CASE Start
  <2>1. UNCHANGED <<rows, shown, copies, job, mirror>> BY SMT, <1>5 DEF Start, KeepSlack
  <2> QED BY <2>1 DEF Stored
<1>6. CASE CountsFail
  <2>1. UNCHANGED <<rows, shown, copies, job, mirror>>
    BY SMT, <1>6 DEF CountsFail, KeepSync, KeepSlack
  <2> QED BY <2>1 DEF Stored
<1>7. CASE FetchFails
  <2>1. UNCHANGED <<rows, shown, copies, mirror>> /\ job' = None BY SMT, <1>7 DEF FetchFails
  <2> QED BY <2>1 DEF Stored
<1>8. CASE Receive
  <2>1. UNCHANGED <<rows, shown, copies, job, mirror>> BY SMT, <1>8 DEF Receive, KeepSlack
  <2> QED BY <2>1 DEF Stored
<1>9. CASE Counts
  <2>1. UNCHANGED <<rows, shown, copies, job, mirror>>
    BY SMT, <1>9 DEF Counts, KeepSync, KeepSlack
  <2> QED BY <2>1 DEF Stored
<1>10. CASE Install
  <2>1. UNCHANGED <<rows, shown, copies, job, mirror>>
    BY SMT, <1>10 DEF Install, KeepSync, KeepSlack
  <2> QED BY <2>1 DEF Stored
<1>11. CASE QueueResync
  <2>1. UNCHANGED <<rows, shown, copies, job, mirror>>
    BY SMT, <1>11 DEF QueueResync, KeepSync, KeepSlack
  <2> QED BY <2>1 DEF Stored
<1>12. CASE TakeMessage
  <2>1. UNCHANGED <<shown, copies, mirror>> BY SMT, <1>12 DEF TakeMessage, KeepTaking
  <2>2. Taking({"message"}) BY Zenon, <1>12 DEF TakeMessage
  <2>3. Event1.ts \in Times BY <2>2, Taken
  <2>4. rows' = rows \/ rows' = [rows EXCEPT ![Event1.ts] = NewRow]
    BY Zenon, <1>12 DEF TakeMessage
  <2>5. job' = job \/ job' = Task("message", "send", Only(Event1.ts, 0), NewRow)
    BY Zenon, <1>12 DEF TakeMessage
  <2>6. Task("message", "send", Only(Event1.ts, 0), NewRow) \in Job
    BY <2>3, TimesAreStamps, OnlyType, RowTypes, TaskType
  <2> QED BY <2>1, <2>4, <2>5, <2>6, RowTypes DEF Stored
<1>13. CASE TakeEdit
  <2> DEFINE t == Event1.ts
             new(caption) == Task("edit", "send", Only(t, Event1.edit),
                                  Edited(rows[t], Event1.edit, caption))
  <2>1. UNCHANGED <<rows, shown, copies, mirror>> BY SMT, <1>13 DEF TakeEdit, KeepTaking
  <2>2. Taking({"changed"}) BY Zenon, <1>13 DEF TakeEdit
  <2>3. Event1.type = "changed" BY <2>2, Taken
  <2>4. t \in Times /\ Event1.edit \in Stamps BY <2>2, <2>3, Taken, TimesAreStamps
  <2>5. job' = job \/ (rows[t] # None /\ \E caption \in BOOLEAN : job' = new(caption))
    BY Zenon, <1>13 DEF TakeEdit
  <2>6. ASSUME NEW caption \in BOOLEAN, rows[t] # None PROVE new(caption) \in Job
    <3>1. rows[t] \in Row BY <2>4, <2>6 DEF Stored
    <3>2. Edited(rows[t], Event1.edit, caption) \in Row
      BY <2>4, <3>1, RowTypes DEF Edited
    <3> QED BY <2>4, <3>2, OnlyType, TaskType
  <2> HIDE DEF new
  <2> QED BY <2>1, <2>5, <2>6 DEF Stored
<1>14. CASE TakeDeletion
  <2>1. UNCHANGED <<job, mirror>> BY SMT, <1>14 DEF TakeDeletion, KeepTaking
  <2>2. /\ rows' = [rows EXCEPT ![Event1.ts] = None]
        /\ shown' = [shown EXCEPT ![Event1.ts] = None]
        /\ copies' = [copies EXCEPT ![Event1.ts] = 0]
    BY Zenon, <1>14 DEF TakeDeletion
  <2> QED BY <2>1, <2>2 DEF Stored
<1>15. CASE TakeReaction
  <2>1. UNCHANGED <<rows, shown, copies, job, mirror>>
    BY SMT, <1>15 DEF TakeReaction, KeepTaking, KeepSlack
  <2> QED BY <2>1 DEF Stored
<1>16. CASE TakeResync
  <2>1. UNCHANGED <<rows, shown, copies, mirror>> BY SMT, <1>16 DEF TakeResync, KeepTaking
  <2>2. job' = None \/ job' = Task("fetch", "send", Nothing, NewRow)
    BY Zenon, <1>16 DEF TakeResync
  <2> QED BY <2>1, <2>2, NothingType, RowTypes, TaskType DEF Stored
<1>17. CASE FetchMessages
  <2> DEFINE shows == [t \in Times |-> IF t \in Page THEN posts[t] ELSE None]
  <2>1. UNCHANGED <<rows, shown, copies, mirror>> BY SMT, <1>17 DEF FetchMessages
  <2>2. job' = None \/ job' = Task("page", "send", shows, NewRow)
    BY Zenon, <1>17 DEF FetchMessages
  <2>3. shows \in [Times -> Stamps \cup {None}] BY DEF Slacky
  <2> HIDE DEF shows
  <2> QED BY <2>1, <2>2, <2>3, RowTypes, TaskType DEF Stored
<1>18. CASE Send
  <2>1. job \in Job BY Zenon, <1>18 DEF Send, Working, Stored
  <2>2. UNCHANGED <<rows, mirror>> BY SMT, <1>18 DEF Send
  <2>3. /\ job' = [job EXCEPT !.step = "save"]
        /\ shown' = [t \in Times |-> IF job.shows[t] # None THEN job.shows[t] ELSE shown[t]]
        /\ copies' = [t \in Times |-> IF job.kind # "edit" /\ job.shows[t] # None
                                      THEN copies[t] + 1 ELSE copies[t]]
    BY Zenon, <1>18 DEF Send
  <2>4. job' \in Job BY <2>1, <2>3 DEF Job
  <2>5. copies' \in [Times -> Nat] BY <2>3 DEF Stored
  <2>6. shown' \in [Times -> Stamps \cup {Unsent, None}] BY <2>1, <2>3, JobFields DEF Stored
  <2> QED BY <2>2, <2>4, <2>5, <2>6 DEF Stored
<1>19. CASE Save
  <2>1. job \in Job BY Zenon, <1>19 DEF Save, Working, Stored
  <2>2. UNCHANGED <<shown, copies, mirror>> /\ job' = None BY SMT, <1>19 DEF Save
  <2>3. rows' = [t \in Times |-> IF job.shows[t] # None THEN job.row ELSE rows[t]]
    BY Zenon, <1>19 DEF Save
  <2> QED BY <2>1, <2>2, <2>3, JobFields DEF Stored
<1>20. CASE MirrorWrite
  <2>1. mirror \in Mirrored BY Zenon, <1>20 DEF MirrorWrite, Stored
  <2>2. UNCHANGED <<shown, copies>> /\ mirror' = None BY SMT, <1>20 DEF MirrorWrite
  <2>3. rows' = [rows EXCEPT ![mirror.ts] = IF @ = None THEN None ELSE mirror.row]
    BY Zenon, <1>20 DEF MirrorWrite
  <2>4. rows' \in [Times -> Row \cup {None}] BY <2>1, <2>3 DEF Stored, Mirrored
  <2>5. \/ job' = None
        \/ job # None /\ job' = [job EXCEPT !.stale = @ \/ job.shows[mirror.ts] # None]
    BY Zenon, <1>20 DEF MirrorWrite
  <2>6. job' \in Job \cup {None}
    <3>1. CASE job # None /\ job' = [job EXCEPT !.stale = @ \/ job.shows[mirror.ts] # None]
      <4>1. job \in Job BY <3>1 DEF Stored
      <4>2. (job.stale \/ job.shows[mirror.ts] # None) \in BOOLEAN OBVIOUS
      <4> QED BY <3>1, <4>1, <4>2 DEF Job
    <3> QED BY <2>5, <3>1
  <2> QED BY <2>2, <2>4, <2>6 DEF Stored
<1>21. ASSUME NEW t \in Times, MatrixMessage(t) PROVE Stored'
  <2>1. UNCHANGED <<rows, mirror>> BY SMT, <1>21 DEF MatrixMessage, KeepMatrix
  <2>2. shown' = [shown EXCEPT ![t] = 0] /\ copies' = [copies EXCEPT ![t] = 1]
    BY Zenon, <1>21 DEF MatrixMessage
  <2>3. job' = job \/ job' = Task("post", "save", Only(t, 0), NewRow)
    BY Zenon, <1>21 DEF MatrixMessage
  <2>4. Task("post", "save", Only(t, 0), NewRow) \in Job
    BY TimesAreStamps, OnlyType, RowTypes, TaskType
  <2> QED BY <2>1, <2>2, <2>3, <2>4, TimesAreStamps DEF Stored
<1>22. ASSUME NEW t \in Times, MatrixEdit(t) PROVE Stored'
  <2> DEFINE new(answer) == Task("update", "save", Only(t, now'),
                                 [rows[t] EXCEPT !.edit = answer])
  <2>1. UNCHANGED <<rows, copies, mirror>> BY SMT, <1>22 DEF MatrixEdit, KeepMatrix
  <2>2. Edits(t) /\ shown' = [shown EXCEPT ![t] = now'] /\ rows[t] # None
    BY Zenon, <1>22 DEF MatrixEdit
  <2>3. now' \in Times BY <2>2, Bounds DEF Edits, Slacky, Stamps, Times
  <2>4. \E answer \in {t, now'} : job' = new(answer) BY Zenon, <1>22 DEF MatrixEdit
  <2>5. ASSUME NEW answer \in {t, now'} PROVE new(answer) \in Job
    <3>1. rows[t] \in Row BY <2>2 DEF Stored
    <3>2. [rows[t] EXCEPT !.edit = answer] \in Row BY <2>3, <3>1, RowTypes, TimesAreStamps
    <3> QED BY <2>3, <3>2, OnlyType, TaskType, TimesAreStamps
  <2> HIDE DEF new
  <2> QED BY <2>1, <2>2, <2>3, <2>4, <2>5, TimesAreStamps DEF Stored
<1>23. ASSUME NEW t \in Times, MatrixRemove(t) PROVE Stored'
  <2>1. UNCHANGED <<job, mirror>> BY SMT, <1>23 DEF MatrixRemove, KeepMatrix
  <2>2. /\ shown' = [shown EXCEPT ![t] = None] /\ copies' = [copies EXCEPT ![t] = 0]
        /\ rows' = rows \/ rows' = [rows EXCEPT ![t] = None]
    BY Zenon, <1>23 DEF MatrixRemove
  <2> QED BY <2>1, <2>2 DEF Stored
<1>24. ASSUME NEW t \in Times, MatrixReaction(t) PROVE Stored'
  <2>1. UNCHANGED <<rows, shown, copies, job, mirror>>
    BY SMT, <1>24 DEF MatrixReaction, KeepMatrix
  <2> QED BY <2>1 DEF Stored
<1>25. ASSUME NEW t \in Times, MatrixReactionRemove(t) PROVE Stored'
  <2>1. UNCHANGED <<rows, shown, copies, job, mirror>>
    BY SMT, <1>25 DEF MatrixReactionRemove, KeepMatrix
  <2> QED BY <2>1 DEF Stored
<1>26. ASSUME NEW t \in Times, MatrixReadReceipt(t) PROVE Stored'
  <2>1. UNCHANGED <<rows, shown, copies, job, mirror>> BY Zenon, <1>26 DEF MatrixReadReceipt
  <2> QED BY <2>1 DEF Stored
<1>27. ASSUME NEW t \in Times, MirrorRead(t) PROVE Stored'
  <2>1. UNCHANGED <<rows, shown, copies, job>> BY SMT, <1>27 DEF MirrorRead
  <2>2. rows[t] # None /\ mirror' = [ts |-> t, row |-> [rows[t] EXCEPT !.mirrored = TRUE]]
    BY Zenon, <1>27 DEF MirrorRead
  <2>3. rows[t] \in Row BY <2>2 DEF Stored
  <2>4. mirror' \in Mirrored BY <2>2, <2>3 DEF Mirrored, Row
  <2> QED BY <2>1, <2>4 DEF Stored
<1>28. CASE UNCHANGED vars
  BY SMT, <1>28 DEF vars, bridge, Stored
<1>29. ASSUME NEW t \in Times, PostUnanswered(t) PROVE Stored'
  <2>1. UNCHANGED <<rows, job, mirror>> BY SMT, <1>29 DEF PostUnanswered
  <2>2. shown' = [shown EXCEPT ![t] = 0] /\ copies' = [copies EXCEPT ![t] = 1]
    BY Zenon, <1>29 DEF PostUnanswered
  <2> QED BY <2>1, <2>2, TimesAreStamps DEF Stored
<1>30. ASSUME NEW t \in Times, EditUnanswered(t) PROVE Stored'
  <2>1. UNCHANGED <<rows, copies, job, mirror>> BY SMT, <1>30 DEF EditUnanswered, KeepMatrix
  <2>2. Edits(t) /\ shown' = [shown EXCEPT ![t] = now'] BY Zenon, <1>30 DEF EditUnanswered
  <2>3. now' \in Times BY <2>2, Bounds DEF Edits, Slacky, Stamps, Times
  <2> QED BY <2>1, <2>2, <2>3, TimesAreStamps DEF Stored
<1>31. ASSUME NEW t \in Times, EditRefused(t) PROVE Stored'
  <2>1. UNCHANGED <<rows, copies, job, mirror>>
    BY SMT, <1>31 DEF EditRefused, KeepRefused, KeepMatrix, KeepSlack
  <2>2. shown' = [shown EXCEPT ![t] = Unsent] BY Zenon, <1>31 DEF EditRefused
  <2> QED BY <2>1, <2>2 DEF Stored
<1>32. ASSUME NEW t \in Times, RemovalRefused(t) PROVE Stored'
  <2>1. UNCHANGED <<rows, job, mirror>>
    BY SMT, <1>32 DEF RemovalRefused, KeepRefused, KeepMatrix, KeepSlack
  <2>2. shown' = [shown EXCEPT ![t] = None] /\ copies' = [copies EXCEPT ![t] = 0]
    BY Zenon, <1>32 DEF RemovalRefused
  <2> QED BY <2>1, <2>2 DEF Stored
<1>33. CASE SyncSkips
  <2>1. UNCHANGED <<rows, shown, copies, job, mirror>> BY SMT, <1>33 DEF SyncSkips
  <2> QED BY <2>1 DEF Stored
<1> QED
  BY Zenon, <1>1, <1>2, <1>3, <1>4, <1>5, <1>6, <1>7, <1>8, <1>9, <1>10, <1>11, <1>12, <1>13,
     <1>14, <1>15, <1>16, <1>17, <1>18, <1>19, <1>20, <1>21, <1>22, <1>23, <1>24, <1>25, <1>26,
     <1>27, <1>28, <1>29, <1>30, <1>31, <1>32, <1>33 DEF Next, Handle

-----------------------------------------------------------------------------
(* A message is sent once, and rows keep what they have. *)

(* The message is in the room, and the job is about to save its row.        *)
Unsaved(t) ==
  /\ job # None /\ job.kind \in {"message", "post", "page"} /\ job.step = "save"
  /\ job.shows[t] # None

(* The bridge knows the message, or is about to: nothing sends it again.    *)
Accounted(t) == rows[t] # None \/ t \in pending \/ Unsaved(t)

(* A message is sent at most once, and one that is not accounted for was    *)
(* not sent.                                                                *)
Once ==
  \A t \in Times \ torn : copies[t] <= 1 /\ (~Accounted(t) => copies[t] = 0)

(* What is about to be sent has no row, and a pending upload only if a page *)
(* was fetched before its event.                                            *)
News ==
  job # None /\ job.kind \in {"message", "page"} /\ job.step = "send" =>
    \A t \in Times : job.shows[t] # None => rows[t] = None /\ (t \in pending => t \in torn)

(* What a job saves is new, or as good as the row: nothing of the mirror is *)
(* lost, and an edit is not taken back, unless the mirror wrote meanwhile.  *)
JobReads ==
  job # None =>
    /\ job.kind \in {"message", "post", "page", "fetch"} => job.row = NewRow
    /\ job.kind \in {"edit", "update"} /\ ~job.stale /\ job.row # NewRow =>
         \A t \in Times :
           job.shows[t] # None /\ rows[t] # None =>
             /\ rows[t].mirrored => job.row.mirrored
             /\ job.kind = "edit" => rows[t].edit <= job.row.edit

(* The mirror writes a row with its fields.                                 *)
MirrorReads == mirror # None => mirror.row.mirrored

(* The four together are inductive.                                         *)
Sent == Once /\ News /\ JobReads /\ MirrorReads

(* A task of one message shows no other.                                    *)
LEMMA OnlyOne ==
  ASSUME NEW t \in Times, NEW e, NEW o \in Times, Only(t, e)[o] # None
  PROVE  o = t
BY DEF Only, Nothing

(* What leaves rows and jobs alone keeps all that.                          *)
LEMMA SentUnchanged ==
  ASSUME Sent, UNCHANGED <<rows, pending, job, copies, torn, mirror>> PROVE Sent'
BY SMT DEF Sent, Once, Accounted, Unsaved, News, JobReads, MirrorReads

(* So does the end of a job, when nothing that was sent is forgotten.       *)
LEMMA IdleSent ==
  ASSUME Sent, job' = None, mirror' = mirror \/ mirror' = None, torn \subseteq torn',
         UNCHANGED copies,
         \A t \in Times \ torn' : Accounted(t) => Accounted(t)'
  PROVE  Sent'
BY SMT DEF Sent, Once, News, JobReads, MirrorReads

(* Every step keeps that messages are sent once.                            *)
LEMMA SentKept == ASSUME Slacky, Streams, Sets, Stored, Sent, [Next]_vars PROVE Sent'
<1> USE DEF stored, history
<1>1. CASE SlackUser
  <2>1. UNCHANGED <<rows, pending, job, copies, torn, mirror>> BY SMT, <1>1 DEF SlackUser, InSlack
  <2> QED BY <2>1, SentUnchanged
<1>2. CASE Lose
  <2>1. UNCHANGED <<rows, pending, job, copies, torn, mirror>>
    BY SMT, <1>2 DEF Lose, KeepSlack, stored
  <2> QED BY <2>1, SentUnchanged
<1>3. CASE Online
  <2>1. UNCHANGED <<rows, pending, job, copies, torn, mirror>>
    BY SMT, <1>3 DEF Online, KeepSlack, stored
  <2> QED BY <2>1, SentUnchanged
<1>4. CASE Crash
  <2>1. job' = None /\ mirror' = None /\ UNCHANGED <<rows, copies>> BY SMT, <1>4 DEF Crash
  <2>2. \A t \in Times : t \in pending \/ (Unsaved(t) /\ rows[t] = None) => t \in torn'
    <3> TAKE t \in Times
    <3>1. CASE t \in pending BY Zenon, <1>4, <3>1 DEF Crash
    <3>2. CASE Unsaved(t) /\ rows[t] = None
      <4>1. /\ job # None /\ job.step = "save" /\ job.kind \in {"message", "post", "page"}
            /\ job.shows[t] # None
        BY <3>2 DEF Unsaved
      <4>2. torn' = torn \cup pending
               \cup IF job # None /\ job.step = "save" /\ job.kind \in {"message", "post", "page"}
                    THEN {u \in Times : job.shows[u] # None /\ rows[u] = None} ELSE {}
        BY Zenon, <1>4 DEF Crash
      <4> QED BY <3>2, <4>1, <4>2
    <3> QED BY <3>1, <3>2
  <2>3. torn \subseteq torn' BY Zenon, <1>4 DEF Crash
  <2>4. \A t \in Times \ torn' : Accounted(t) => rows'[t] # None BY <2>1, <2>2 DEF Accounted
  <2>5. \A t \in Times \ torn' : Accounted(t) => Accounted(t)' BY <2>4 DEF Accounted
  <2> QED BY <2>1, <2>3, <2>5, IdleSent
<1>5. CASE Start
  <2>1. UNCHANGED <<rows, pending, job, copies, torn, mirror>>
    BY SMT, <1>5 DEF Start, KeepSlack, stored
  <2> QED BY <2>1, SentUnchanged
<1>6. CASE CountsFail
  <2>1. UNCHANGED <<rows, pending, job, copies, torn, mirror>>
    BY SMT, <1>6 DEF CountsFail, KeepSync, KeepSlack, stored
  <2> QED BY <2>1, SentUnchanged
<1>7. CASE FetchFails
  <2>1. job' = None /\ UNCHANGED <<rows, copies, pending, torn, mirror>>
    BY SMT, <1>7 DEF FetchFails
  <2>2. \A t \in Times : Accounted(t) => Accounted(t)'
    BY SMT, <1>7, <2>1 DEF FetchFails, Working, Accounted, Unsaved
  <2> QED BY <2>1, <2>2, IdleSent
<1>8. CASE Receive
  <2>1. UNCHANGED <<rows, pending, job, copies, torn, mirror>>
    BY SMT, <1>8 DEF Receive, KeepSlack, stored
  <2> QED BY <2>1, SentUnchanged
<1>9. CASE Counts
  <2>1. UNCHANGED <<rows, pending, job, copies, torn, mirror>>
    BY SMT, <1>9 DEF Counts, KeepSync, KeepSlack, stored
  <2> QED BY <2>1, SentUnchanged
<1>10. CASE Install
  <2>1. UNCHANGED <<rows, pending, job, copies, torn, mirror>>
    BY SMT, <1>10 DEF Install, KeepSync, KeepSlack, stored
  <2> QED BY <2>1, SentUnchanged
<1>11. CASE QueueResync
  <2>1. UNCHANGED <<rows, pending, job, copies, torn, mirror>>
    BY SMT, <1>11 DEF QueueResync, KeepSync, KeepSlack, stored
  <2> QED BY <2>1, SentUnchanged
<1>12. CASE TakeMessage
  <2> DEFINE u == Event1.ts
  <2>1. UNCHANGED <<copies, torn, mirror>> /\ job = None
    BY SMT, <1>12 DEF TakeMessage, KeepTaking, Taking
  <2>2. Taking({"message"}) BY Zenon, <1>12 DEF TakeMessage
  <2>3. u \in Times BY <2>2, Taken
  <2>4. CASE UNCHANGED <<job, pending, rows>> BY <2>1, <2>4, SentUnchanged
  <2>5. CASE rows' = [rows EXCEPT ![u] = NewRow] /\ pending' = pending \ {u} /\ UNCHANGED job
    <3>1. NewRow # None BY RowTypes, NoneIsNothing
    <3>2. rows'[u] # None /\ \A t \in Times : rows[t] # None => rows'[t] # None
      BY <2>3, <2>5, <3>1 DEF Stored
    <3>3. \A t \in Times : Accounted(t) => rows'[t] # None \/ t \in pending'
      BY <2>1, <2>5, <3>2 DEF Accounted, Unsaved
    <3>4. \A t \in Times : Accounted(t) => Accounted(t)' BY <3>3 DEF Accounted
    <3> QED BY <2>1, <2>5, <3>4, IdleSent
  <2>6. CASE /\ rows[u] = None /\ u \notin pending
             /\ job' = Task("message", "send", Only(u, 0), NewRow) /\ UNCHANGED <<pending, rows>>
    <3>1. job' \in Job BY <2>3, <2>6, TimesAreStamps, OnlyType, RowTypes, TaskType
    <3>2. /\ job'.kind = "message" /\ job'.step = "send" /\ job'.shows = Only(u, 0)
          /\ job'.row = NewRow
      BY <2>6 DEF Task
    <3>3. \A t \in Times : job'.shows[t] # None => t = u BY <2>3, <3>2, OnlyOne
    <3> QED
      BY <2>1, <2>6, <3>1, <3>2, <3>3
        DEF Sent, Once, Accounted, Unsaved, News, JobReads, MirrorReads
  <2> QED BY Zenon, <1>12, <2>4, <2>5, <2>6 DEF TakeMessage, Awaited
<1>13. CASE TakeEdit
  <2> DEFINE u == Event1.ts
  <2>1. UNCHANGED <<copies, torn, mirror, rows, pending>> /\ job = None
    BY SMT, <1>13 DEF TakeEdit, KeepTaking, Taking, stored
  <2>2. Taking({"changed"}) BY Zenon, <1>13 DEF TakeEdit
  <2>3. Event1.type = "changed" BY <2>2, Taken
  <2>4. u \in Times /\ Event1.edit \in Stamps BY <2>2, <2>3, Taken, TimesAreStamps
  <2>5. CASE UNCHANGED job BY <2>1, <2>5, SentUnchanged
  <2>6. ASSUME NEW caption \in BOOLEAN, rows[u] # None, ~BridgedBefore(rows[u], Event1.edit),
               job' = Task("edit", "send", Only(u, Event1.edit),
                           Edited(rows[u], Event1.edit, caption))
        PROVE  Sent'
    <3>1. rows[u] \in Row BY <2>4, <2>6 DEF Stored
    <3>2. rows[u].edit < Event1.edit
      <4>1. rows[u].edit \in Nat /\ Event1.edit \in Nat BY <2>4, <3>1, TimesAreStamps DEF Row
      <4>2. ~(rows[u].edit >= Event1.edit) BY <2>6 DEF BridgedBefore
      <4> QED BY <4>1, <4>2
    <3>3. /\ job'.kind = "edit" /\ job'.step = "send" /\ job'.shows = Only(u, Event1.edit)
          /\ job'.row = Edited(rows[u], Event1.edit, caption)
      BY <2>6 DEF Task
    <3>4. \A t \in Times : job'.shows[t] # None => t = u BY <2>4, <3>3, OnlyOne
    <3>5. job'.row # NewRow => job'.row.mirrored = rows[u].mirrored /\ job'.row.edit = Event1.edit
      BY <3>1, <3>3 DEF Edited, Row
    <3>6. JobReads'
      <4>1. ASSUME NEW t \in Times, job'.row # NewRow, job'.shows[t] # None
            PROVE  (rows[t].mirrored => job'.row.mirrored) /\ rows[t].edit <= job'.row.edit
        <5>1. t = u BY <3>4, <4>1
        <5>2. rows[u].edit \in Nat /\ Event1.edit \in Nat
          BY <2>4, <3>1, TimesAreStamps DEF Row, Stamps
        <5> QED BY <3>2, <3>5, <4>1, <5>1, <5>2
      <4> QED BY <2>1, <3>3, <4>1 DEF JobReads
    <3>7. \A t \in Times : Accounted(t) <=> Accounted(t)' BY <2>1, <3>3 DEF Accounted, Unsaved
    <3> QED BY <2>1, <3>3, <3>6, <3>7 DEF Sent, Once, News, MirrorReads
  <2> QED BY Zenon, <1>13, <2>5, <2>6 DEF TakeEdit
<1>14. CASE TakeDeletion
  <2> DEFINE u == Event1.ts
  <2>1. UNCHANGED <<job, torn, mirror, pending>> /\ job = None
    BY SMT, <1>14 DEF TakeDeletion, KeepTaking, Taking, history
  <2>2. rows' = [rows EXCEPT ![u] = None] /\ copies' = [copies EXCEPT ![u] = 0]
    BY Zenon, <1>14 DEF TakeDeletion
  <2>3. /\ \A t \in Times : t # u => rows'[t] = rows[t] /\ copies'[t] = copies[t]
        /\ u \in Times => copies'[u] = 0
    BY <2>2 DEF Stored
  <2> QED BY <2>1, <2>3 DEF Sent, Once, Accounted, Unsaved, News, JobReads, MirrorReads
<1>15. CASE TakeReaction
  <2>1. UNCHANGED <<rows, pending, job, copies, torn, mirror>>
    BY SMT, <1>15 DEF TakeReaction, KeepTaking, KeepSlack, stored
  <2> QED BY <2>1, SentUnchanged
<1>16. CASE TakeResync
  <2>1. UNCHANGED <<rows, pending, copies, torn, mirror>> /\ job = None
    BY SMT, <1>16 DEF TakeResync, KeepTaking, Taking, stored
  <2>2. job' = None \/ job' = Task("fetch", "send", Nothing, NewRow)
    BY Zenon, <1>16 DEF TakeResync
  <2>3. job' # None => job'.kind = "fetch" /\ job'.row = NewRow BY <2>2 DEF Task
  <2> QED BY <2>1, <2>3 DEF Sent, Once, Accounted, Unsaved, News, JobReads, MirrorReads
<1>17. CASE FetchMessages
  <2> DEFINE shows == [t \in Times |-> IF t \in Page THEN posts[t] ELSE None]
  <2>1. UNCHANGED <<rows, copies, mirror, pending>> /\ job # None /\ job.kind = "fetch"
    BY SMT, <1>17 DEF FetchMessages, Working
  <2>2. torn' = torn \cup (Page \cap pending) BY Zenon, <1>17 DEF FetchMessages
  <2>3. \A t \in Times \ torn' : Accounted(t) => rows'[t] # None \/ t \in pending'
    BY <2>1 DEF Accounted, Unsaved
  <2>4. Once' BY <2>1, <2>2, <2>3 DEF Sent, Once, Accounted
  <2>5. CASE job' = None BY <2>1, <2>4, <2>5 DEF Sent, News, JobReads, MirrorReads
  <2>6. CASE job' = Task("page", "send", shows, NewRow)
    <3> HIDE DEF shows
    <3>1. job'.kind = "page" /\ job'.step = "send" /\ job'.shows = shows /\ job'.row = NewRow
      BY <2>6 DEF Task
    <3>2. \A t \in Times : shows[t] # None => t \in Page BY DEF shows
    <3>3. \A t \in Page : t \in Times /\ rows[t] = None
      <4>1. Latest(Bridged) \in Stamps /\ \A s \in Bridged : s <= Latest(Bridged)
        BY PageTimes, LatestIsMax
      <4>2. \A t \in Page : t \in Times /\ t > Latest(Bridged) BY PageTimes DEF Newer, Posted
      <4>3. ASSUME NEW t \in Page, t \in Bridged PROVE FALSE
        <5>1. t <= Latest(Bridged) /\ t > Latest(Bridged) BY <4>1, <4>2, <4>3
        <5>2. t \in Nat /\ Latest(Bridged) \in Nat BY <4>1, <4>2 DEF Times, Stamps
        <5> QED BY <5>1, <5>2
      <4> QED BY <4>2, <4>3 DEF Bridged
    <3>4. News' BY <2>1, <2>2, <3>1, <3>2, <3>3 DEF News
    <3>5. JobReads' BY <3>1 DEF JobReads
    <3> QED BY <2>1, <2>4, <3>4, <3>5 DEF Sent, MirrorReads
  <2> QED BY Zenon, <1>17, <2>5, <2>6 DEF FetchMessages
<1>18. CASE Send
  <2>1. UNCHANGED <<rows, mirror, pending, torn>> /\ job # None /\ job.step = "send"
        /\ job.kind \in {"message", "edit", "page"}
    BY SMT, <1>18 DEF Send, Working, history
  <2>2. /\ job' = [job EXCEPT !.step = "save"]
        /\ copies' = [t \in Times |-> IF job.kind # "edit" /\ job.shows[t] # None
                                      THEN copies[t] + 1 ELSE copies[t]]
    BY Zenon, <1>18 DEF Send
  <2>3. job \in Job BY <2>1 DEF Stored
  <2>4. /\ job' # None /\ job'.step = "save" /\ job'.kind = job.kind /\ job'.shows = job.shows
        /\ job'.row = job.row /\ job'.stale = job.stale
    BY <2>2, <2>3, NoneIsNothing DEF Job
  <2>5. \A t \in Times : ~Unsaved(t) BY <2>1 DEF Unsaved
  <2>6. ASSUME NEW t \in Times \ torn'
        PROVE  copies'[t] <= 1 /\ (~Accounted(t)' => copies'[t] = 0)
    <3>1. CASE job.kind # "edit" /\ job.shows[t] # None
      <4>1. rows[t] = None /\ t \notin pending BY <2>1, <2>6, <3>1 DEF Sent, News
      <4>2. copies[t] = 0 BY <2>1, <2>5, <2>6, <4>1 DEF Sent, Once, Accounted
      <4>3. Unsaved(t)' BY <2>1, <2>4, <3>1 DEF Unsaved
      <4>4. copies'[t] = 1 BY <2>2, <2>6, <3>1, <4>2
      <4> QED BY <4>3, <4>4 DEF Accounted
    <3>2. CASE ~(job.kind # "edit" /\ job.shows[t] # None)
      <4>1. copies'[t] = copies[t] BY <2>2, <2>6, <3>2
      <4>2. Accounted(t) => Accounted(t)' BY <2>1, <2>5 DEF Accounted
      <4> QED BY <2>1, <2>6, <4>1, <4>2 DEF Sent, Once
    <3> QED BY <3>1, <3>2
  <2>7. Once' BY <2>6 DEF Once
  <2>8. News' /\ JobReads' BY <2>1, <2>4 DEF Sent, News, JobReads
  <2> QED BY <2>1, <2>7, <2>8 DEF Sent, MirrorReads
<1>19. CASE Save
  <2>1. UNCHANGED <<copies, mirror, pending, torn>> /\ job' = None /\ job # None
    BY SMT, <1>19 DEF Save, Working, history
  <2>2. rows' = [t \in Times |-> IF job.shows[t] # None THEN job.row ELSE rows[t]]
    BY Zenon, <1>19 DEF Save
  <2>3. job.row # None BY <2>1, JobFields, NoneIsNothing DEF Stored
  <2>4. \A t \in Times : (rows[t] # None \/ job.shows[t] # None) => rows'[t] # None BY <2>2, <2>3
  <2>5. \A t \in Times : Accounted(t) => Accounted(t)' BY <2>1, <2>4 DEF Accounted, Unsaved
  <2> QED BY <2>1, <2>5, IdleSent
<1>20. CASE MirrorWrite
  <2>1. UNCHANGED <<copies, pending, torn>> /\ mirror' = None /\ mirror # None
    BY SMT, <1>20 DEF MirrorWrite, history
  <2>2. mirror \in Mirrored /\ mirror.row # None /\ mirror.ts \in Times
    BY <2>1, NoneIsNothing DEF Stored, Mirrored
  <2>3. rows' = [rows EXCEPT ![mirror.ts] = IF @ = None THEN None ELSE mirror.row]
    BY Zenon, <1>20 DEF MirrorWrite
  <2>4. \A t \in Times : /\ rows[t] = None <=> rows'[t] = None
                         /\ t # mirror.ts => rows'[t] = rows[t]
    BY <2>2, <2>3 DEF Stored
  <2>5. CASE job' = None /\ job = None
    BY <2>1, <2>4, <2>5 DEF Sent, Once, Accounted, Unsaved, News, JobReads, MirrorReads
  <2>6. CASE job # None /\ job' = [job EXCEPT !.stale = @ \/ job.shows[mirror.ts] # None]
    <3>1. job \in Job BY <2>6 DEF Stored
    <3>2. /\ job' # None /\ job'.step = job.step /\ job'.kind = job.kind /\ job'.shows = job.shows
          /\ job'.row = job.row
      BY <2>6, <3>1, NoneIsNothing DEF Job
    <3>3. ~job'.stale => ~job.stale /\ job.shows[mirror.ts] = None BY <2>6, <3>1 DEF Job
    <3>4. \A t \in Times : Accounted(t) <=> Accounted(t)'
      BY <2>1, <2>4, <2>6, <3>2 DEF Accounted, Unsaved
    <3>5. Once' BY <2>1, <3>4 DEF Sent, Once
    <3>6. News' BY <2>1, <2>4, <2>6, <3>2 DEF Sent, News
    <3>7. JobReads' BY <2>2, <2>4, <2>6, <3>2, <3>3 DEF Sent, JobReads
    <3> QED BY <2>1, <3>5, <3>6, <3>7 DEF Sent, MirrorReads
  <2> QED BY Zenon, <1>20, <2>5, <2>6 DEF MirrorWrite
<1>21. ASSUME NEW t \in Times, MatrixMessage(t) PROVE Sent'
  <2>1. UNCHANGED <<rows, mirror, torn>> /\ job = None
    BY SMT, <1>21 DEF MatrixMessage, KeepMatrix, Matrix
  <2>2. copies' = [copies EXCEPT ![t] = 1] BY Zenon, <1>21 DEF MatrixMessage
  <2>3. /\ copies'[t] = 1 /\ \A o \in Times : o # t => copies'[o] = copies[o]
    BY <2>2 DEF Stored
  <2>4. CASE job' = Task("post", "save", Only(t, 0), NewRow) /\ UNCHANGED pending
    <3>1. job' \in Job BY <2>4, TimesAreStamps, OnlyType, RowTypes, TaskType
    <3>2. /\ job' # None /\ job'.kind = "post" /\ job'.step = "save" /\ job'.shows = Only(t, 0)
          /\ job'.row = NewRow
      BY <2>4, <3>1, NoneIsNothing DEF Task
    <3>3. Only(t, 0)[t] # None BY NoneIsNothing DEF Only, Nothing
    <3>4. Unsaved(t)' BY <3>2, <3>3 DEF Unsaved
    <3>5. \A o \in Times : Accounted(o) => Accounted(o)' BY <2>1, <2>4 DEF Accounted, Unsaved
    <3>6. Once' BY <2>1, <2>3, <3>4, <3>5 DEF Sent, Once, Accounted
    <3> QED BY <2>1, <3>2, <3>6 DEF Sent, News, JobReads, MirrorReads
  <2>5. CASE pending' = pending \cup {t} /\ UNCHANGED job
    <3>1. \A o \in Times : Accounted(o) => Accounted(o)' BY <2>1, <2>5 DEF Accounted, Unsaved
    <3>2. Accounted(t)' BY <2>5 DEF Accounted
    <3>3. Once' BY <2>1, <2>3, <3>1, <3>2 DEF Sent, Once
    <3> QED BY <2>1, <2>5, <3>3 DEF Sent, News, JobReads, MirrorReads
  <2> QED BY Zenon, <1>21, <2>4, <2>5 DEF MatrixMessage, AddPendingToSave
<1>22. ASSUME NEW t \in Times, MatrixEdit(t) PROVE Sent'
  <2>1. UNCHANGED <<rows, copies, mirror, torn, pending>> /\ job = None /\ rows[t] # None
    BY SMT, <1>22 DEF MatrixEdit, KeepMatrix, Matrix
  <2>2. PICK answer \in {t, now'} :
          job' = Task("update", "save", Only(t, now'), [rows[t] EXCEPT !.edit = answer])
    BY Zenon, <1>22 DEF MatrixEdit
  <2>3. /\ job'.kind = "update" /\ job'.step = "save" /\ job'.shows = Only(t, now')
        /\ job'.row = [rows[t] EXCEPT !.edit = answer]
    BY <2>2 DEF Task
  <2>4. \A o \in Times : job'.shows[o] # None => o = t BY <2>3, OnlyOne
  <2>5. rows[t] \in Row BY <2>1 DEF Stored
  <2>6. job'.row.mirrored = rows[t].mirrored BY <2>3, <2>5 DEF Row
  <2>7. \A o \in Times : Accounted(o) <=> Accounted(o)' BY <2>1, <2>3 DEF Accounted, Unsaved
  <2>8. Once' BY <2>1, <2>7 DEF Sent, Once
  <2>9. JobReads' BY <2>1, <2>3, <2>4, <2>6 DEF JobReads
  <2> QED BY <2>1, <2>3, <2>8, <2>9 DEF Sent, News, MirrorReads
<1>23. ASSUME NEW t \in Times, MatrixRemove(t) PROVE Sent'
  <2>1. UNCHANGED <<job, mirror, torn, pending>> /\ job = None
    BY SMT, <1>23 DEF MatrixRemove, KeepMatrix, Matrix
  <2>2. /\ copies' = [copies EXCEPT ![t] = 0]
        /\ rows' = rows \/ rows' = [rows EXCEPT ![t] = None]
    BY Zenon, <1>23 DEF MatrixRemove
  <2>3. /\ copies'[t] = 0
        /\ \A o \in Times : o # t => rows'[o] = rows[o] /\ copies'[o] = copies[o]
    BY <2>2 DEF Stored
  <2> QED BY <2>1, <2>3 DEF Sent, Once, Accounted, Unsaved, News, JobReads, MirrorReads
<1>24. ASSUME NEW t \in Times, MatrixReaction(t) PROVE Sent'
  <2>1. UNCHANGED <<rows, pending, job, copies, torn, mirror>>
    BY SMT, <1>24 DEF MatrixReaction, KeepMatrix
  <2> QED BY <2>1, SentUnchanged
<1>25. ASSUME NEW t \in Times, MatrixReactionRemove(t) PROVE Sent'
  <2>1. UNCHANGED <<rows, pending, job, copies, torn, mirror>>
    BY SMT, <1>25 DEF MatrixReactionRemove, KeepMatrix
  <2> QED BY <2>1, SentUnchanged
<1>26. ASSUME NEW t \in Times, MatrixReadReceipt(t) PROVE Sent'
  <2>1. UNCHANGED <<rows, pending, job, copies, torn, mirror>>
    BY Zenon, <1>26 DEF MatrixReadReceipt
  <2> QED BY <2>1, SentUnchanged
<1>27. ASSUME NEW t \in Times, MirrorRead(t) PROVE Sent'
  <2>1. UNCHANGED <<rows, pending, job, copies, torn>> BY SMT, <1>27 DEF MirrorRead, history
  <2>2. rows[t] # None /\ mirror' = [ts |-> t, row |-> [rows[t] EXCEPT !.mirrored = TRUE]]
    BY Zenon, <1>27 DEF MirrorRead
  <2>3. mirror'.row.mirrored BY <2>2 DEF Stored, Row
  <2> QED BY <2>1, <2>3 DEF Sent, Once, Accounted, Unsaved, News, JobReads, MirrorReads
<1>28. CASE UNCHANGED vars
  BY SMT, <1>28, SentUnchanged DEF vars, bridge, stored
<1>29. ASSUME NEW t \in Times, PostUnanswered(t) PROVE Sent'
  <2>1. UNCHANGED <<rows, pending, job, mirror>> /\ job = None
    BY SMT, <1>29 DEF PostUnanswered, Matrix
  <2>2. copies' = [copies EXCEPT ![t] = 1] /\ torn' = torn \cup {t}
    BY Zenon, <1>29 DEF PostUnanswered
  <2>3. \A o \in Times \ torn' : o \notin torn /\ copies'[o] = copies[o] BY <2>2 DEF Stored
  <2>4. \A o \in Times : Accounted(o) <=> Accounted(o)' BY <2>1 DEF Accounted, Unsaved
  <2>5. Once' BY <2>3, <2>4 DEF Sent, Once
  <2> QED BY <2>1, <2>5 DEF Sent, News, JobReads, MirrorReads
<1>30. ASSUME NEW t \in Times, EditUnanswered(t) PROVE Sent'
  <2>1. UNCHANGED <<rows, pending, job, copies, torn, mirror>>
    BY SMT, <1>30 DEF EditUnanswered, KeepMatrix
  <2> QED BY <2>1, SentUnchanged
<1>31. ASSUME NEW t \in Times, EditRefused(t) PROVE Sent'
  <2>1. UNCHANGED <<rows, pending, job, copies, torn, mirror>>
    BY SMT, <1>31 DEF EditRefused, KeepRefused, KeepMatrix, KeepSlack
  <2> QED BY <2>1, SentUnchanged
<1>32. ASSUME NEW t \in Times, RemovalRefused(t) PROVE Sent'
  <2>1. UNCHANGED <<rows, pending, job, torn, mirror>>
    BY SMT, <1>32 DEF RemovalRefused, KeepRefused, KeepMatrix, KeepSlack
  <2>2. copies' = [copies EXCEPT ![t] = 0] BY Zenon, <1>32 DEF RemovalRefused
  <2>3. copies'[t] = 0 /\ \A o \in Times : o # t => copies'[o] = copies[o] BY <2>2 DEF Stored
  <2> QED BY <2>1, <2>3 DEF Sent, Once, Accounted, Unsaved, News, JobReads, MirrorReads
<1>33. CASE SyncSkips
  <2>1. UNCHANGED <<rows, pending, job, copies, torn, mirror>> BY SMT, <1>33 DEF SyncSkips, stored
  <2> QED BY <2>1, SentUnchanged
<1> QED
  BY Zenon, <1>1, <1>2, <1>3, <1>4, <1>5, <1>6, <1>7, <1>8, <1>9, <1>10, <1>11, <1>12, <1>13,
     <1>14, <1>15, <1>16, <1>17, <1>18, <1>19, <1>20, <1>21, <1>22, <1>23, <1>24, <1>25, <1>26,
     <1>27, <1>28, <1>29, <1>30, <1>31, <1>32, <1>33 DEF Next, Handle

-----------------------------------------------------------------------------
(* What one step does to a row. *)

(* The step of RowsKeepFacts, for one message.                              *)
Facts(t) ==
  rows[t] # None /\ rows'[t] # None =>
    /\ rows[t].mirrored /\ ~rows'[t].mirrored => job # None /\ (job.stale \/ job.row = NewRow)
    /\ rows'[t].edit < rows[t].edit =>
         \/ job # None /\ (job.stale \/ job.row = NewRow \/ job.kind = "update")
         \/ mirror # None /\ mirror.row.edit # rows[t].edit

(* A row that stays, comes or goes loses nothing.                           *)
LEMMA FactsIdle ==
  ASSUME Stored, NEW t \in Times, rows'[t] = rows[t] \/ rows[t] = None \/ rows'[t] = None
  PROVE  Facts(t)
<1>1. rows[t] # None => rows[t].edit \in Nat BY TimesAreStamps DEF Stored, Row
<1> QED BY <1>1 DEF Facts

(* Rows are written by Save, of what JobReads says, and by the mirror; new  *)
(* rows and deletions do not count.                                         *)
LEMMA FactsStep == ASSUME Stored, Sent, [Next]_vars PROVE \A o \in Times : Facts(o)
<1> USE DEF stored
<1>1. CASE SlackUser
  <2>1. UNCHANGED rows BY SMT, <1>1 DEF SlackUser, InSlack, stored
  <2> QED BY <2>1, FactsIdle
<1>2. CASE Lose
  <2>1. UNCHANGED rows BY SMT, <1>2 DEF Lose, KeepSlack
  <2> QED BY <2>1, FactsIdle
<1>3. CASE Online
  <2>1. UNCHANGED rows BY SMT, <1>3 DEF Online, KeepSlack
  <2> QED BY <2>1, FactsIdle
<1>4. CASE Crash
  <2>1. UNCHANGED rows BY SMT, <1>4 DEF Crash, KeepSlack
  <2> QED BY <2>1, FactsIdle
<1>5. CASE Start
  <2>1. UNCHANGED rows BY SMT, <1>5 DEF Start, KeepSlack
  <2> QED BY <2>1, FactsIdle
<1>6. CASE CountsFail
  <2>1. UNCHANGED rows BY SMT, <1>6 DEF CountsFail, KeepSync, KeepSlack
  <2> QED BY <2>1, FactsIdle
<1>7. CASE FetchFails
  <2>1. UNCHANGED rows BY SMT, <1>7 DEF FetchFails, KeepSlack
  <2> QED BY <2>1, FactsIdle
<1>8. CASE Receive
  <2>1. UNCHANGED rows BY SMT, <1>8 DEF Receive, KeepSlack
  <2> QED BY <2>1, FactsIdle
<1>9. CASE Counts
  <2>1. UNCHANGED rows BY SMT, <1>9 DEF Counts, KeepSync, KeepSlack
  <2> QED BY <2>1, FactsIdle
<1>10. CASE Install
  <2>1. UNCHANGED rows BY SMT, <1>10 DEF Install, KeepSync, KeepSlack
  <2> QED BY <2>1, FactsIdle
<1>11. CASE QueueResync
  <2>1. UNCHANGED rows BY SMT, <1>11 DEF QueueResync, KeepSync, KeepSlack
  <2> QED BY <2>1, FactsIdle
<1>12. CASE TakeMessage
  <2>1. rows' = rows \/ (rows[Event1.ts] = None /\ rows' = [rows EXCEPT ![Event1.ts] = NewRow])
    BY Zenon, <1>12 DEF TakeMessage
  <2>2. \A o \in Times : rows'[o] = rows[o] \/ rows[o] = None BY <2>1 DEF Stored
  <2> QED BY <2>2, FactsIdle
<1>13. CASE TakeEdit
  <2>1. UNCHANGED rows BY SMT, <1>13 DEF TakeEdit, KeepTaking, KeepSlack
  <2> QED BY <2>1, FactsIdle
<1>14. CASE TakeDeletion
  <2>1. rows' = [rows EXCEPT ![Event1.ts] = None] BY Zenon, <1>14 DEF TakeDeletion
  <2>2. \A o \in Times : rows'[o] = rows[o] \/ rows'[o] = None BY <2>1 DEF Stored
  <2> QED BY <2>2, FactsIdle
<1>15. CASE TakeReaction
  <2>1. UNCHANGED rows BY SMT, <1>15 DEF TakeReaction, KeepTaking, KeepSlack
  <2> QED BY <2>1, FactsIdle
<1>16. CASE TakeResync
  <2>1. UNCHANGED rows BY SMT, <1>16 DEF TakeResync, KeepTaking, KeepSlack
  <2> QED BY <2>1, FactsIdle
<1>17. CASE FetchMessages
  <2>1. UNCHANGED rows BY SMT, <1>17 DEF FetchMessages, KeepSlack
  <2> QED BY <2>1, FactsIdle
<1>18. CASE Send
  <2>1. UNCHANGED rows BY SMT, <1>18 DEF Send, KeepSlack
  <2> QED BY <2>1, FactsIdle
<1>19. CASE Save
  <2>1. job # None /\ job.kind \in {"message", "edit", "page", "post", "update"}
    BY Zenon, <1>19 DEF Save, Working
  <2>2. rows' = [o \in Times |-> IF job.shows[o] # None THEN job.row ELSE rows[o]]
    BY Zenon, <1>19 DEF Save
  <2> TAKE o \in Times
  <2>3. CASE job.shows[o] = None BY <2>2, <2>3, FactsIdle
  <2>4. CASE job.shows[o] # None /\ rows[o] # None
    <3>1. rows'[o] = job.row BY <2>2, <2>4
    <3>2. CASE job.stale \/ job.row = NewRow BY <2>1, <3>2 DEF Facts
    <3>3. CASE ~job.stale /\ job.row # NewRow
      <4>1. job.kind \in {"edit", "update"} BY <2>1, <3>3 DEF Sent, JobReads
      <4>2. /\ rows[o].mirrored => job.row.mirrored
            /\ job.kind = "edit" => rows[o].edit <= job.row.edit
        BY <2>1, <2>4, <3>3, <4>1 DEF Sent, JobReads
      <4>3. job.row.edit \in Nat /\ rows[o].edit \in Nat
        <5>1. job.row \in Row /\ rows[o] \in Row BY <2>1, <2>4, JobFields DEF Stored
        <5> QED BY <5>1, TimesAreStamps DEF Row
      <4> QED BY <2>1, <3>1, <4>1, <4>2, <4>3 DEF Facts
    <3> QED BY <3>2, <3>3
  <2>5. CASE rows[o] = None BY <2>5, FactsIdle
  <2> QED BY <2>3, <2>4, <2>5
<1>20. CASE MirrorWrite
  <2>1. mirror # None BY Zenon, <1>20 DEF MirrorWrite
  <2>2. mirror \in Mirrored /\ mirror.row.mirrored BY <2>1 DEF Stored, Sent, MirrorReads
  <2>3. rows' = [rows EXCEPT ![mirror.ts] = IF @ = None THEN None ELSE mirror.row]
    BY Zenon, <1>20 DEF MirrorWrite
  <2> TAKE o \in Times
  <2>4. CASE o # mirror.ts
    <3>1. rows'[o] = rows[o] BY <2>3, <2>4 DEF Stored
    <3> QED BY <3>1, FactsIdle
  <2>5. CASE o = mirror.ts /\ rows[o] # None
    <3>1. rows'[o] = mirror.row BY <2>3, <2>5 DEF Stored
    <3>2. rows[o].edit \in Nat BY <2>5, TimesAreStamps DEF Stored, Row
    <3> QED BY <2>1, <2>2, <3>1, <3>2 DEF Facts
  <2>6. CASE rows[o] = None BY <2>6, FactsIdle
  <2> QED BY <2>4, <2>5, <2>6
<1>21. ASSUME NEW t \in Times, MatrixMessage(t) PROVE \A o \in Times : Facts(o)
  <2>1. UNCHANGED rows BY SMT, <1>21 DEF MatrixMessage, KeepMatrix
  <2> QED BY <2>1, FactsIdle
<1>22. ASSUME NEW t \in Times, MatrixEdit(t) PROVE \A o \in Times : Facts(o)
  <2>1. UNCHANGED rows BY SMT, <1>22 DEF MatrixEdit, KeepMatrix
  <2> QED BY <2>1, FactsIdle
<1>23. ASSUME NEW t \in Times, MatrixRemove(t) PROVE \A o \in Times : Facts(o)
  <2>1. rows' = rows \/ rows' = [rows EXCEPT ![t] = None] BY Zenon, <1>23 DEF MatrixRemove
  <2>2. \A o \in Times : rows'[o] = rows[o] \/ rows'[o] = None BY <2>1 DEF Stored
  <2> QED BY <2>2, FactsIdle
<1>24. ASSUME NEW t \in Times, MatrixReaction(t) PROVE \A o \in Times : Facts(o)
  <2>1. UNCHANGED rows BY SMT, <1>24 DEF MatrixReaction, KeepMatrix
  <2> QED BY <2>1, FactsIdle
<1>25. ASSUME NEW t \in Times, MatrixReactionRemove(t) PROVE \A o \in Times : Facts(o)
  <2>1. UNCHANGED rows BY SMT, <1>25 DEF MatrixReactionRemove, KeepMatrix
  <2> QED BY <2>1, FactsIdle
<1>26. ASSUME NEW t \in Times, MatrixReadReceipt(t) PROVE \A o \in Times : Facts(o)
  <2>1. UNCHANGED rows BY Zenon, <1>26 DEF MatrixReadReceipt
  <2> QED BY <2>1, FactsIdle
<1>27. ASSUME NEW t \in Times, MirrorRead(t) PROVE \A o \in Times : Facts(o)
  <2>1. UNCHANGED rows BY SMT, <1>27 DEF MirrorRead, KeepSlack
  <2> QED BY <2>1, FactsIdle
<1>28. CASE UNCHANGED vars
  <2>1. UNCHANGED rows BY SMT, <1>28 DEF vars, stored
  <2> QED BY <2>1, FactsIdle
<1>29. ASSUME NEW t \in Times, PostUnanswered(t) PROVE \A o \in Times : Facts(o)
  <2>1. UNCHANGED rows BY SMT, <1>29 DEF PostUnanswered
  <2> QED BY <2>1, FactsIdle
<1>30. ASSUME NEW t \in Times, EditUnanswered(t) PROVE \A o \in Times : Facts(o)
  <2>1. UNCHANGED rows BY SMT, <1>30 DEF EditUnanswered, KeepMatrix
  <2> QED BY <2>1, FactsIdle
<1>31. ASSUME NEW t \in Times, EditRefused(t) PROVE \A o \in Times : Facts(o)
  <2>1. UNCHANGED rows BY SMT, <1>31 DEF EditRefused, KeepRefused, KeepMatrix, KeepSlack
  <2> QED BY <2>1, FactsIdle
<1>32. ASSUME NEW t \in Times, RemovalRefused(t) PROVE \A o \in Times : Facts(o)
  <2>1. UNCHANGED rows BY SMT, <1>32 DEF RemovalRefused, KeepRefused, KeepMatrix, KeepSlack
  <2> QED BY <2>1, FactsIdle
<1>33. CASE SyncSkips
  <2>1. UNCHANGED rows BY SMT, <1>33 DEF SyncSkips
  <2> QED BY <2>1, FactsIdle
<1> QED
  BY Zenon, <1>1, <1>2, <1>3, <1>4, <1>5, <1>6, <1>7, <1>8, <1>9, <1>10, <1>11, <1>12, <1>13,
     <1>14, <1>15, <1>16, <1>17, <1>18, <1>19, <1>20, <1>21, <1>22, <1>23, <1>24, <1>25, <1>26,
     <1>27, <1>28, <1>29, <1>30, <1>31, <1>32, <1>33 DEF Next, Handle

-----------------------------------------------------------------------------
(* All of it. *)

(* The inductive invariant.                                                 *)
Kept == Typed /\ Sent

(* It holds at the start.                                                   *)
LEMMA KeptInit == ASSUME Init PROVE Kept
<1>1. /\ now = 0 /\ posts = Nothing /\ reacted = {} /\ mark = 0 /\ stream = <<>> /\ queue = <<>>
      /\ sync = None /\ cache = 0 /\ job = None /\ pending = {} /\ mirror = None
      /\ rows = Nothing /\ reactions = {} /\ shown = Nothing /\ copies = [t \in Times |-> 0]
      /\ spent = 0 /\ torn = {} /\ missed = {} /\ excused = {}
  BY Zenon DEF Init
<1>2. Flags BY Zenon DEF Init, Flags
<1>3. Slacky /\ Sets /\ Streams BY <1>1, TimesAreStamps, NothingType DEF Slacky, Sets, Streams
<1>4. Stored BY <1>1, NothingType DEF Stored, Nothing
<1>5. spent \in 0..MaxSpent BY <1>1, Bounds
<1>6. Sent BY <1>1 DEF Sent, Once, Accounted, Unsaved, News, JobReads, MirrorReads
<1> QED BY Zenon, <1>2, <1>3, <1>4, <1>5, <1>6 DEF Kept, Typed

(* Every step keeps it.                                                     *)
LEMMA KeptNext == ASSUME Kept, [Next]_vars PROVE Kept'
<1>1. Slacky' /\ Streams' /\ Sets' BY Zenon, SlackyKept, StreamsKept, SetsKept DEF Kept, Typed
<1>2. Stored' BY Zenon, StoredKept DEF Kept, Typed
<1>3. Flags' /\ (spent \in 0..MaxSpent)' BY Zenon, FlagsKept, SpentKept DEF Kept, Typed
<1>4. Sent' BY Zenon, SentKept DEF Kept, Typed
<1> QED BY Zenon, <1>1, <1>2, <1>3, <1>4 DEF Kept, Typed

(* So it always holds.                                                      *)
LEMMA KeptAlways == Spec => []Kept
BY KeptInit, KeptNext, PTL DEF Spec

(* The groups are the type invariant.                                       *)
LEMMA KeptTypes == ASSUME Kept PROVE Types
<1> USE DEF Kept, Typed
<1>1. {reacted, reactions, pending, torn, missed, excused} \subseteq SUBSET Times
  BY Zenon DEF Slacky, Sets
<1>2. {up, online, regressed, misread} \subseteq BOOLEAN BY Zenon DEF Flags
<1> QED BY Zenon, <1>1, <1>2 DEF Types, Slacky, Streams, Stored

(* What is sent once is in the room at most once.                           *)
LEMMA KeptOnce == ASSUME Kept PROVE AtMostOnce
<1> SUFFICES ASSUME NEW t \in Times, copies[t] > 1, t \notin torn PROVE FALSE BY DEF AtMostOnce
<1>1. copies[t] \in Nat /\ copies[t] <= 1 BY DEF Kept, Typed, Stored, Sent, Once
<1> QED BY <1>1

(* The types, and a message of Slack is in the room at most once, whether   *)
(* it came live, by backfill or from Matrix, unless a crash came between    *)
(* sending it and saving it, a page met a pending upload or Slack's answer  *)
(* to the post was lost (handleslack.go, backfill.go, handlematrix.go).     *)
THEOREM Invariance == Spec => []Inv
<1>1. Kept => Inv BY Zenon, KeptTypes, KeptOnce DEF Inv
<1> QED BY <1>1, KeptAlways, PTL

(* No write of a row takes back the mirror's fields or the time of the last *)
(* edit, but by a job or a mirror that had read the row before, for a       *)
(* merged caption, or by Slack's answer to an edit from Matrix              *)
(* (ConvertEdit, HandleMatrixEdit, persistReactionMirrorMetadata).          *)
THEOREM FactsAreKept == Spec => RowsKeepFacts
<1>1. ASSUME Kept, [Next]_vars
      PROVE  [\A t \in Times :
                rows[t] # None /\ rows'[t] # None =>
                  /\ rows[t].mirrored /\ ~rows'[t].mirrored =>
                       job # None /\ (job.stale \/ job.row = NewRow)
                  /\ rows'[t].edit < rows[t].edit =>
                       \/ job # None /\ (job.stale \/ job.row = NewRow \/ job.kind = "update")
                       \/ mirror # None /\ mirror.row.edit # rows[t].edit]_vars
  BY Zenon, <1>1, FactsStep DEF Kept, Typed, Facts
<1> QED BY <1>1, KeptAlways, PTL DEF Spec, RowsKeepFacts

-----------------------------------------------------------------------------
(* Events under way, and their order. *)

(* What Slack told and the portal did not handle yet.                       *)
Events == ToSet(queue) \cup ToSet(stream)

(* One before another in a sequence, and on the way to the portal.          *)
Prec(s, e, f) == \E i, j \in DOMAIN s : i < j /\ s[i] = e /\ s[j] = f
Precedes(e, f) ==
  \/ Prec(queue, e, f) \/ Prec(stream, e, f)
  \/ e \in ToSet(queue) /\ f \in ToSet(stream)

(* In a sequence, or on the way, none of f comes after the last e.          *)
Latter(s, e, f) == \E i \in DOMAIN s : s[i] = e /\ \A j \in DOMAIN s : j > i => s[j] # f
Final(e, f) == Latter(stream, e, f) \/ (Latter(queue, e, f) /\ f \notin ToSet(stream))

(* What Append leaves where.                                                 *)
LEMMA AppendAt ==
  ASSUME NEW s \in Seq(Event), NEW x \in Event
  PROVE  /\ DOMAIN s = 1..Len(s) /\ Len(s) \in Nat
         /\ DOMAIN Append(s, x) = 1..(Len(s) + 1)
         /\ \A i \in 1..Len(s) : Append(s, x)[i] = s[i]
         /\ Append(s, x)[Len(s) + 1] = x
OBVIOUS

(* What Tail leaves where.                                                  *)
LEMMA TailAt ==
  ASSUME NEW s \in Seq(Event), s # <<>>
  PROVE  /\ DOMAIN s = 1..Len(s) /\ Len(s) \in Nat \ {0}
         /\ DOMAIN Tail(s) = 1..(Len(s) - 1)
         /\ \A i \in 1..(Len(s) - 1) : Tail(s)[i] = s[i + 1]
         /\ Head(s) = s[1]
OBVIOUS

(* The elements of a sequence that got longer...                            *)
LEMMA AppendSet ==
  ASSUME NEW s \in Seq(Event), NEW x \in Event
  PROVE  ToSet(Append(s, x)) = ToSet(s) \cup {x}
BY AppendAt DEF ToSet

(* ... and of what is left of it.                                           *)
LEMMA TailSet ==
  ASSUME NEW s \in Seq(Event), s # <<>>
  PROVE  ToSet(s) = {Head(s)} \cup ToSet(Tail(s))
<1>1. \A i \in 1..Len(s) : i = 1 \/ (i - 1 \in 1..(Len(s) - 1) /\ s[i] = Tail(s)[i - 1])
  BY TailAt
<1>2. 1 \in 1..Len(s) /\ \A i \in 1..(Len(s) - 1) : i + 1 \in 1..Len(s)
  BY TailAt
<1>3. ASSUME NEW i \in 1..Len(s) PROVE s[i] \in {Head(s)} \cup ToSet(Tail(s))
  BY <1>1, TailAt DEF ToSet
<1>4. {Head(s)} \cup ToSet(Tail(s)) \subseteq ToSet(s)
  BY <1>2, TailAt DEF ToSet
<1> QED
  BY <1>3, <1>4, TailAt DEF ToSet

(* What is appended comes after all that was there.                         *)
LEMMA AppendPrec ==
  ASSUME NEW s \in Seq(Event), NEW x \in Event, NEW e, NEW f, Prec(Append(s, x), e, f)
  PROVE  Prec(s, e, f) \/ (f = x /\ e \in ToSet(s))
<1>1. PICK i \in 1..(Len(s) + 1), j \in 1..(Len(s) + 1) :
        i < j /\ Append(s, x)[i] = e /\ Append(s, x)[j] = f
  BY AppendAt DEF Prec
<1>2. i \in 1..Len(s) /\ s[i] = e
  BY <1>1, AppendAt
<1>3. CASE j = Len(s) + 1
  BY <1>1, <1>2, <1>3, AppendAt DEF ToSet
<1>4. CASE j # Len(s) + 1
  <2>1. j \in 1..Len(s) /\ s[j] = f
    BY <1>1, <1>4, AppendAt
  <2> QED
    BY <1>1, <1>2, <2>1, AppendAt DEF Prec
<1> QED
  BY <1>3, <1>4

(* The head came before all that is left.                                   *)
LEMMA TailPrec ==
  ASSUME NEW s \in Seq(Event), s # <<>>, NEW e, NEW f
  PROVE  /\ Prec(Tail(s), e, f) => Prec(s, e, f)
         /\ f \in ToSet(Tail(s)) => Prec(s, Head(s), f)
<1>1. ASSUME Prec(Tail(s), e, f) PROVE Prec(s, e, f)
  <2>1. PICK i \in 1..(Len(s) - 1), j \in 1..(Len(s) - 1) :
          i < j /\ Tail(s)[i] = e /\ Tail(s)[j] = f
    BY <1>1, TailAt DEF Prec
  <2>2. i + 1 \in 1..Len(s) /\ j + 1 \in 1..Len(s) /\ i + 1 < j + 1
    BY <2>1, TailAt
  <2>3. s[i + 1] = e /\ s[j + 1] = f
    BY <2>1, TailAt
  <2> QED
    BY <2>2, <2>3, TailAt DEF Prec
<1>2. ASSUME f \in ToSet(Tail(s)) PROVE Prec(s, Head(s), f)
  <2>1. PICK j \in 1..(Len(s) - 1) : Tail(s)[j] = f
    BY <1>2, TailAt DEF ToSet
  <2>2. 1 \in 1..Len(s) /\ j + 1 \in 1..Len(s) /\ 1 < j + 1 /\ s[j + 1] = f
    BY <2>1, TailAt
  <2> QED
    BY <2>2, TailAt DEF Prec
<1> QED
  BY <1>1, <1>2

(* What is appended is the last of its kind.                                *)
LEMMA AppendLatter ==
  ASSUME NEW s \in Seq(Event), NEW x \in Event, NEW e, NEW f, e # f
  PROVE  /\ Latter(Append(s, e), e, f) \/ e \notin Event
         /\ Latter(s, e, f) /\ x # f => Latter(Append(s, x), e, f)
<1>1. ASSUME e \in Event PROVE Latter(Append(s, e), e, f)
  <2>1. Len(s) + 1 \in DOMAIN Append(s, e) /\ Append(s, e)[Len(s) + 1] = e
    BY <1>1, AppendAt
  <2>2. \A j \in DOMAIN Append(s, e) : ~(j > Len(s) + 1)
    BY <1>1, AppendAt
  <2> QED
    BY <2>1, <2>2 DEF Latter
<1>2. ASSUME Latter(s, e, f), x # f PROVE Latter(Append(s, x), e, f)
  <2>1. PICK i \in 1..Len(s) : s[i] = e /\ \A j \in 1..Len(s) : j > i => s[j] # f
    BY <1>2, AppendAt DEF Latter
  <2>2. i \in DOMAIN Append(s, x) /\ Append(s, x)[i] = e
    BY <2>1, AppendAt
  <2>3. ASSUME NEW j \in DOMAIN Append(s, x), j > i PROVE Append(s, x)[j] # f
    BY <1>2, <2>1, <2>3, AppendAt
  <2> QED
    BY <2>2, <2>3 DEF Latter
<1> QED
  BY <1>1, <1>2

(* The last of its kind is left, or was the head.                           *)
LEMMA TailLatter ==
  ASSUME NEW s \in Seq(Event), s # <<>>, NEW e, NEW f, Latter(s, e, f)
  PROVE  \/ Latter(Tail(s), e, f)
         \/ Head(s) = e /\ f \notin ToSet(Tail(s)) /\ e \notin ToSet(Tail(s))
<1>1. PICK i \in 1..Len(s) : s[i] = e /\ \A j \in 1..Len(s) : j > i => s[j] # f
  BY TailAt DEF Latter
<1>2. CASE i # 1
  <2>1. i - 1 \in DOMAIN Tail(s) /\ Tail(s)[i - 1] = e
    BY <1>1, <1>2, TailAt
  <2>2. ASSUME NEW j \in DOMAIN Tail(s), j > i - 1 PROVE Tail(s)[j] # f
    <3>1. j + 1 \in 1..Len(s) /\ j + 1 > i /\ Tail(s)[j] = s[j + 1]
      BY <2>2, TailAt
    <3> QED
      BY <1>1, <3>1
  <2> QED
    BY <2>1, <2>2 DEF Latter
<1>3. CASE i = 1
  <2>1. ASSUME NEW j \in DOMAIN Tail(s) PROVE Tail(s)[j] # f
    <3>1. j + 1 \in 1..Len(s) /\ j + 1 > i /\ Tail(s)[j] = s[j + 1]
      BY <1>3, TailAt
    <3> QED
      BY <1>1, <3>1
  <2>2. Head(s) = e /\ f \notin ToSet(Tail(s))
    BY <1>1, <1>3, <2>1, TailAt DEF ToSet
  <2>3. ASSUME e \in ToSet(Tail(s)) PROVE Latter(Tail(s), e, f)
    <3>1. PICK k \in DOMAIN Tail(s) : Tail(s)[k] = e
      BY <2>3 DEF ToSet
    <3> QED
      BY <2>1, <3>1 DEF Latter
  <2> QED
    BY <2>2, <2>3
<1> QED
  BY <1>2, <1>3

(* An empty sequence has no element.                                        *)
LEMMA EmptySet == ToSet(<<>>) = {}
BY DEF ToSet
-----------------------------------------------------------------------------
(* How the events that are under way change. *)

(* Events are events.                                                       *)
LEMMA EventsType == ASSUME Streams PROVE Events \subseteq Event
BY TailAt, AppendAt DEF Streams, Events, ToSet

(* What it means for the events under way that Slack tells of x.            *)
Spread(x) ==
  /\ Events \subseteq Events' /\ Events' \subseteq Events \cup {x}
  /\ online => x \in Events'
  /\ ~online => Events' = Events
  /\ missed \subseteq missed'
  /\ online \/ x.type \in {"message", "marked"} \/ x.ts \in missed'
  /\ \A e, f \in Event : Precedes(e, f)' => Precedes(e, f) \/ (f = x /\ e \in Events)
  /\ \A e, f \in Event : e # f =>
       /\ x = e /\ online => Final(e, f)'
       /\ Final(e, f) /\ x # f => Final(e, f)'
  /\ \A e \in ToSet(stream)' : e \in ToSet(stream) \/ e = x

(* Slack tells of something.                                                *)
LEMMA TellFlow ==
  ASSUME Streams, Sets, NEW x \in Event, x.type # "resync", Tell(x), UNCHANGED queue
  PROVE  Spread(x)
<1>1. stream \in Seq(Event) /\ queue \in Seq(Event)
  BY DEF Streams
<1>2. CASE online
  <2>1. stream' = Append(stream, x) /\ missed' = missed
    BY <1>2 DEF Tell
  <2>2. ToSet(stream)' = ToSet(stream) \cup {x}
    BY <1>1, <2>1, AppendSet
  <2>3. ASSUME NEW e \in Event, NEW f \in Event, Precedes(e, f)'
        PROVE  Precedes(e, f) \/ (f = x /\ e \in Events)
    <3>1. CASE Prec(queue', e, f)
      BY <3>1 DEF Precedes
    <3>2. CASE Prec(stream', e, f)
      <4>1. Prec(Append(stream, x), e, f)
        BY <2>1, <3>2
      <4>2. Prec(stream, e, f) \/ (f = x /\ e \in ToSet(stream))
        BY <1>1, <4>1, AppendPrec
      <4> QED
        BY <4>2 DEF Precedes, Events
    <3>3. CASE e \in ToSet(queue)' /\ f \in ToSet(stream)'
      BY <2>2, <3>3 DEF Precedes, Events
    <3> QED
      BY <2>3, <3>1, <3>2, <3>3 DEF Precedes
  <2>4. ASSUME NEW e \in Event, NEW f \in Event, e # f
        PROVE  /\ x = e => Final(e, f)'
               /\ Final(e, f) /\ x # f => Final(e, f)'
    <3>1. ASSUME x = e PROVE Final(e, f)'
      <4>1. Latter(Append(stream, e), e, f)
        BY <1>1, <2>4, AppendLatter
      <4> QED
        BY <2>1, <3>1, <4>1 DEF Final
    <3>2. ASSUME Final(e, f), x # f PROVE Final(e, f)'
      <4>1. CASE Latter(stream, e, f)
        <5>1. Latter(Append(stream, x), e, f)
          BY <1>1, <2>4, <3>2, <4>1, AppendLatter
        <5> QED
          BY <2>1, <5>1 DEF Final
      <4>2. CASE Latter(queue, e, f) /\ f \notin ToSet(stream)
        BY <2>2, <3>2, <4>2 DEF Final
      <4> QED
        BY <3>2, <4>1, <4>2 DEF Final
    <3> QED
      BY <3>1, <3>2
  <2> QED
    BY <1>2, <2>1, <2>2, <2>3, <2>4 DEF Events, Spread
<1>3. CASE ~online
  <2>1. stream' = stream /\ missed \subseteq missed'
        /\ (x.type \in {"message", "marked"} \/ x.ts \in missed')
    BY <1>3 DEF Tell
  <2> QED
    BY <1>3, <2>1 DEF Events, Precedes, Final, Spread
<1> QED
  BY <1>2, <1>3 DEF Spread

(* The portal takes an event.                                               *)
LEMMA TakenFlow ==
  ASSUME Streams, queue # <<>>, queue' = Tail(queue), UNCHANGED stream
  PROVE  /\ Events = {Head(queue)} \cup Events' /\ Head(queue) \in Event
         /\ \A e, f \in Event : Precedes(e, f)' => Precedes(e, f)
         /\ \A f \in Events' : Precedes(Head(queue), f)
         /\ \A e, f \in Event : e # f /\ Final(e, f) =>
              \/ Final(e, f)'
              \/ Head(queue) = e /\ e \notin Events' /\ f \notin Events'
<1>1. stream \in Seq(Event) /\ queue \in Seq(Event)
  BY DEF Streams
<1>2. ToSet(queue) = {Head(queue)} \cup ToSet(queue)'
  BY <1>1, TailSet
<1>3. ASSUME NEW e \in Event, NEW f \in Event, Precedes(e, f)' PROVE Precedes(e, f)
  <2>1. Prec(queue', e, f) => Prec(queue, e, f)
    BY <1>1, TailPrec
  <2> QED
    BY <1>2, <1>3, <2>1 DEF Precedes
<1>4. ASSUME NEW f \in Events' PROVE Precedes(Head(queue), f)
  <2>1. f \in ToSet(queue') => Prec(queue, Head(queue), f)
    BY <1>1, TailPrec
  <2> QED
    BY <1>2, <1>4, <2>1 DEF Precedes, Events
<1>5. ASSUME NEW e \in Event, NEW f \in Event, e # f, Final(e, f)
      PROVE  \/ Final(e, f)'
             \/ Head(queue) = e /\ e \notin Events' /\ f \notin Events'
  <2>1. CASE Latter(stream, e, f)
    BY <2>1 DEF Final
  <2>2. CASE Latter(queue, e, f) /\ f \notin ToSet(stream)
    <3>1. CASE Latter(queue', e, f)
      BY <2>2, <3>1 DEF Final
    <3>2. CASE Head(queue) = e /\ f \notin ToSet(queue') /\ e \notin ToSet(queue')
      <4>1. CASE e \in ToSet(stream)
        <5>1. Latter(stream, e, f)
          BY <2>2, <4>1 DEF Latter, ToSet
        <5> QED
          BY <5>1 DEF Final
      <4>2. CASE e \notin ToSet(stream)
        BY <2>2, <3>2, <4>2 DEF Events
      <4> QED
        BY <4>1, <4>2
    <3> QED
      BY <1>1, <2>2, <3>1, <3>2, TailLatter
  <2> QED
    BY <1>5, <2>1, <2>2 DEF Final
<1>6. Head(queue) \in Event
  BY <1>1
<1> QED
  BY <1>2, <1>3, <1>4, <1>5, <1>6 DEF Events

(* An event goes from the stream to the queue; a mark is dropped.           *)
LEMMA ReceivedFlow ==
  ASSUME Streams, stream # <<>>, stream' = Tail(stream),
         \/ Head(stream).type = "marked" /\ queue' = queue
         \/ Head(stream).type # "marked" /\ queue' = Append(queue, Head(stream))
  PROVE  /\ Events' \subseteq Events
         /\ \A e \in Events : e.type # "marked" => e \in Events'
         /\ \A e, f \in Event : Precedes(e, f)' => Precedes(e, f)
         /\ \A e, f \in Event : e # f /\ e.type # "marked" /\ Final(e, f) => Final(e, f)'
<1> DEFINE x == Head(stream)
<1>1. stream \in Seq(Event) /\ queue \in Seq(Event) /\ x \in Event
  BY DEF Streams
<1>2. ToSet(stream) = {x} \cup ToSet(stream)'
  BY <1>1, TailSet
<1>3. ToSet(queue)' = ToSet(queue) \/ (x.type # "marked" /\ ToSet(queue)' = ToSet(queue) \cup {x})
  BY <1>1, AppendSet
<1>4. x.type # "marked" => x \in ToSet(queue)'
  BY <1>1, AppendSet
<1>5. ToSet(queue) \subseteq ToSet(queue)'
  BY <1>3
<1>6. ASSUME NEW e \in Event, NEW f \in Event, Precedes(e, f)' PROVE Precedes(e, f)
  <2>1. CASE Prec(queue', e, f)
    <3>1. CASE queue' = queue
      BY <2>1, <3>1 DEF Precedes
    <3>2. CASE queue' = Append(queue, x)
      <4>1. Prec(queue, e, f) \/ (f = x /\ e \in ToSet(queue))
        BY <1>1, <2>1, <3>2, AppendPrec
      <4> QED
        BY <1>2, <4>1 DEF Precedes
    <3> QED
      BY <3>1, <3>2
  <2>2. CASE Prec(stream', e, f)
    <3>1. Prec(stream, e, f)
      BY <1>1, <2>2, TailPrec
    <3> QED
      BY <3>1 DEF Precedes
  <2>3. CASE e \in ToSet(queue)' /\ f \in ToSet(stream)'
    <3>1. CASE e \in ToSet(queue)
      BY <1>2, <2>3, <3>1 DEF Precedes
    <3>2. CASE e = x
      <4>1. Prec(stream, e, f)
        BY <1>1, <2>3, <3>2, TailPrec
      <4> QED
        BY <4>1 DEF Precedes
    <3> QED
      BY <1>3, <2>3, <3>1, <3>2
  <2> QED
    BY <1>6, <2>1, <2>2, <2>3 DEF Precedes
<1>7. ASSUME NEW e \in Event, NEW f \in Event, e # f, e.type # "marked", Final(e, f)
      PROVE  Final(e, f)'
  <2>1. CASE Latter(stream, e, f)
    <3>1. CASE Latter(stream', e, f)
      BY <3>1 DEF Final
    <3>2. CASE x = e /\ f \notin ToSet(stream') /\ e \notin ToSet(stream')
      <4>1. queue' = Append(queue, e)
        BY <1>7, <3>2
      <4>2. Latter(queue', e, f)
        BY <1>1, <1>7, <4>1, AppendLatter
      <4> QED
        BY <3>2, <4>2 DEF Final
    <3> QED
      BY <1>1, <2>1, <3>1, <3>2, TailLatter
  <2>2. CASE Latter(queue, e, f) /\ f \notin ToSet(stream)
    <3>1. x # f /\ f \notin ToSet(stream')
      BY <1>2, <2>2
    <3>2. Latter(queue', e, f)
      BY <1>1, <1>7, <2>2, <3>1, AppendLatter
    <3> QED
      BY <3>1, <3>2 DEF Final
  <2> QED
    BY <1>7, <2>1, <2>2 DEF Final
<1> QED
  BY <1>2, <1>3, <1>4, <1>5, <1>6, <1>7 DEF Events

(* The sync queues its resync.                                              *)
LEMMA ResyncFlow ==
  ASSUME Streams, NEW x \in Event, queue' = Append(queue, x), UNCHANGED stream
  PROVE  /\ Events' = Events \cup {x}
         /\ \A e, f \in Event : Precedes(e, f)' => Precedes(e, f) \/ e = x \/ f = x
         /\ \A e, f \in Event : e # f /\ x # f /\ Final(e, f) => Final(e, f)'
<1>1. stream \in Seq(Event) /\ queue \in Seq(Event)
  BY DEF Streams
<1>2. ToSet(queue)' = ToSet(queue) \cup {x}
  BY <1>1, AppendSet
<1>3. ASSUME NEW e \in Event, NEW f \in Event, Precedes(e, f)', e # x, f # x
      PROVE  Precedes(e, f)
  <2>1. Prec(queue', e, f) => Prec(queue, e, f)
    BY <1>1, <1>3, AppendPrec
  <2> QED
    BY <1>2, <1>3, <2>1 DEF Precedes
<1>4. ASSUME NEW e \in Event, NEW f \in Event, e # f, x # f, Final(e, f) PROVE Final(e, f)'
  <2>1. Latter(queue, e, f) => Latter(queue', e, f)
    BY <1>1, <1>4, AppendLatter
  <2> QED
    BY <1>4, <2>1 DEF Final
<1> QED
  BY <1>2, <1>3, <1>4 DEF Events

-----------------------------------------------------------------------------
(* The events, tasks and messages that the invariants speak of. *)

(* What Slack tells of a message.                                           *)
Posting(t) == Ev("message", t, 0)
Deletion(t) == Ev("deleted", t, 0)
Change(t, e) == Ev("changed", t, e)

(* About a message, and not only named by a time.                           *)
About(e) == e.type \notin {"marked", "resync"}

(* The job is to show the message.                                          *)
Shows(t) == job # None /\ job.shows[t] # None

(* The job is a task of this kind.                                          *)
Tasked(kind, step, shows, row) ==
  job # None /\ job.kind = kind /\ job.step = step /\ job.shows = shows /\ job.row = row

(* What users do, in Slack or through the bridge, to a message or the mark. *)
Acts(t) ==
  \/ Posts(t)
  \/ t \in Posted /\ (Edits(t) \/ Deletes(t))
  \/ t \in Posted \ reacted /\ Reacts(t)
  \/ t \in reacted /\ Unreacts(t)

(* The steps of users, in Slack or in Matrix.                               *)
ByUsers ==
  \/ SlackUser
  \/ \E t \in Times :
       \/ MatrixMessage(t) \/ MatrixEdit(t) \/ MatrixRemove(t) \/ MatrixReaction(t)
       \/ MatrixReactionRemove(t) \/ MatrixReadReceipt(t)
       \/ PostUnanswered(t) \/ EditUnanswered(t)

(* What users do in Matrix and Slack does not take.                         *)
Refused == \E t \in Times : EditRefused(t) \/ RemovalRefused(t)

(* The steps of the connection, the sync and the mirror's reading, which    *)
(* change no row and no job.                                                *)
Around ==
  \/ Lose \/ Online \/ Start \/ CountsFail \/ Receive \/ Counts \/ Install \/ QueueResync
  \/ SyncSkips \/ UNCHANGED vars

(* The steps of the portal's job and of the mirror.                         *)
Works ==
  \/ FetchFails \/ FetchMessages \/ Send \/ Save \/ MirrorWrite
  \/ \E t \in Times : MirrorRead(t)

(* The steps in which the portal takes an event of its queue.               *)
Takes == TakeMessage \/ TakeEdit \/ TakeDeletion \/ TakeReaction \/ TakeResync

(* There are no other steps.                                                *)
LEMMA StepKinds == [Next]_vars => ByUsers \/ Refused \/ Around \/ Works \/ Takes \/ Crash
BY DEF Next, Handle, ByUsers, Refused, Around, Works, Takes

(* Each event is the one of its name.                                       *)
LEMMA EventNames ==
  ASSUME NEW e \in Event
  PROVE  /\ e.type = "message" => e = Posting(e.ts)
         /\ e.type = "deleted" => e = Deletion(e.ts)
         /\ e.type = "reacted" => e = Ev("reacted", e.ts, 0)
         /\ e.type = "unreacted" => e = Ev("unreacted", e.ts, 0)
         /\ e.type = "changed" => e = Change(e.ts, e.edit)
         /\ About(e) => e.ts \in Times
BY DEF Event, Ev, Posting, Deletion, Change, About

(* The names of events are events of the message.                           *)
LEMMA EventParts ==
  ASSUME NEW t \in Times
  PROVE  /\ \A e \in {Posting(t), Deletion(t), Ev("reacted", t, 0), Ev("unreacted", t, 0)} :
              e \in Event /\ e.ts = t /\ About(e)
         /\ Posting(t).type = "message" /\ Deletion(t).type = "deleted"
         /\ Ev("reacted", t, 0).type = "reacted" /\ Ev("unreacted", t, 0).type = "unreacted"
         /\ \A n \in Times : /\ Change(t, n) \in Event /\ Change(t, n).type = "changed"
                              /\ Change(t, n).ts = t /\ Change(t, n).edit = n
                              /\ About(Change(t, n))
BY DEF Event, Ev, Posting, Deletion, Change, About

(* A job with the fields of a task.                                         *)
LEMMA TaskIsTasked ==
  ASSUME NEW kind \in {"message", "edit", "post", "update", "fetch", "page"},
         NEW step \in {"send", "save"}, NEW shows \in [Times -> Stamps \cup {None}], NEW r \in Row,
         job' = Task(kind, step, shows, r)
  PROVE  Tasked(kind, step, shows, r)'
<1>1. job' \in Job
  BY TaskType
<1>2. job' # None
  BY <1>1, NoneIsNothing
<1>3. /\ Task(kind, step, shows, r).kind = kind /\ Task(kind, step, shows, r).step = step
      /\ Task(kind, step, shows, r).shows = shows /\ Task(kind, step, shows, r).row = r
  BY DEF Task
<1> QED
  BY <1>2, <1>3 DEF Tasked

(* A task for one message shows no other.                                   *)
LEMMA OnlyAt ==
  ASSUME NEW t \in Times, NEW e
  PROVE  Only(t, e)[t] = e /\ \A o \in Times : o # t => Only(t, e)[o] = None
BY DEF Only, Nothing

-----------------------------------------------------------------------------
(* What each step does. *)

(* Users leave the bridge's own state to it.                                *)
LEMMA UsersKeep ==
  ASSUME Kept, ByUsers
  PROVE  UNCHANGED <<up, online, queue, sync, cache, mirror, excused, misread>>
<1>1. CASE SlackUser
  BY SMT, <1>1 DEF SlackUser, InSlack
<1>2. ASSUME NEW t \in Times,
             \/ MatrixMessage(t) \/ MatrixEdit(t) \/ MatrixRemove(t) \/ MatrixReaction(t)
             \/ MatrixReactionRemove(t) \/ EditUnanswered(t)
      PROVE  UNCHANGED <<up, online, queue, sync, cache, mirror, excused, misread>>
  <2>1. KeepMatrix
    BY Zenon, <1>2 DEF MatrixMessage, MatrixEdit, MatrixRemove, MatrixReaction,
                       MatrixReactionRemove, EditUnanswered
  <2> QED
    BY <2>1 DEF KeepMatrix
<1>3. ASSUME NEW t \in Times, MatrixReadReceipt(t) \/ PostUnanswered(t)
      PROVE  UNCHANGED <<up, online, queue, sync, cache, mirror, excused, misread>>
  BY Zenon, <1>3 DEF MatrixReadReceipt, PostUnanswered
<1> QED
  BY Zenon, <1>1, <1>2, <1>3 DEF ByUsers

(* What Slack does not take changes only what the room shows.               *)
LEMMA RefusedKeeps ==
  ASSUME Kept, Refused
  PROVE  /\ UNCHANGED <<now, posts, reacted, mark, up, online, stream, queue, sync, cache, job,
                        pending, mirror, rows, reactions, excused, regressed, misread>>
         /\ missed \subseteq missed'
         /\ \E t \in Times :
              /\ job = None /\ rows[t] # None
              /\ \A o \in Times \ {t} : shown'[o] = shown[o]
              /\ shown'[t] = Unsent \/ (posts[t] # None => t \in missed')
<1>1. PICK t \in Times : EditRefused(t) \/ RemovalRefused(t)
  BY DEF Refused
<1>2. KeepRefused
  BY Zenon, <1>1 DEF EditRefused, RemovalRefused
<1>3. UNCHANGED <<now, posts, reacted, mark, up, online, stream, queue, sync, cache, job,
                  pending, mirror, rows, reactions, excused, regressed, misread>>
  BY SMT, <1>2 DEF KeepRefused, KeepMatrix, KeepSlack, slack
<1>4. CASE EditRefused(t)
  <2>1. /\ job = None /\ rows[t] # None
        /\ shown' = [shown EXCEPT ![t] = Unsent] /\ UNCHANGED missed
    BY SMT, <1>4 DEF EditRefused, Matrix
  <2> QED
    BY <1>3, <2>1 DEF Kept, Typed, Stored
<1>5. CASE RemovalRefused(t)
  <2>1. /\ job = None /\ rows[t] # None
        /\ shown' = [shown EXCEPT ![t] = None] /\ missed' = missed \cup ({t} \cap Posted)
    BY SMT, <1>5 DEF RemovalRefused, Matrix
  <2> QED
    BY <1>3, <2>1 DEF Kept, Typed, Stored, Posted
<1> QED
  BY <1>1, <1>4, <1>5

(* The connection and the sync change no message, row or job.               *)
LEMMA AroundKeeps ==
  ASSUME Around
  PROVE  UNCHANGED <<now, posts, reacted, mark, rows, reactions, shown, job, pending, mirror,
                     missed, regressed, misread>>
<1> USE DEF slack, stored, history, bridge, KeepSlack
<1>1. CASE Lose \/ Online \/ Start
  BY SMT, <1>1 DEF Lose, Online, Start
<1>2. CASE Receive
  BY SMT, <1>2 DEF Receive
<1>3. CASE CountsFail \/ Counts \/ Install \/ QueueResync \/ SyncSkips
  BY SMT, <1>3 DEF CountsFail, Counts, Install, QueueResync, SyncSkips, KeepSync
<1>4. CASE UNCHANGED vars
  BY SMT, <1>4 DEF vars
<1> QED
  BY <1>1, <1>2, <1>3, <1>4 DEF Around

(* The job and the mirror change nothing in Slack or on the way.            *)
LEMMA WorkKeeps ==
  ASSUME Works
  PROVE  UNCHANGED <<now, posts, reacted, mark, up, online, stream, queue, sync, cache, missed,
                     regressed, pending>>
<1> USE DEF slack, stored, history, bridge, KeepSlack
<1>1. CASE FetchFails \/ FetchMessages
  BY SMT, <1>1 DEF FetchFails, FetchMessages
<1>2. CASE Send \/ Save \/ MirrorWrite
  BY SMT, <1>2 DEF Send, Save, MirrorWrite
<1>3. ASSUME NEW t \in Times, MirrorRead(t)
      PROVE  UNCHANGED <<now, posts, reacted, mark, up, online, stream, queue, sync, cache, missed,
                         regressed, pending>>
  BY SMT, <1>3 DEF MirrorRead
<1> QED
  BY Zenon, <1>1, <1>2, <1>3 DEF Works

(* Taking an event changes nothing in Slack or in the mirror.               *)
LEMMA TakesKeep ==
  ASSUME Kept, Takes
  PROVE  /\ UNCHANGED <<now, posts, reacted, mark, up, online, stream, sync, cache, missed,
                        regressed, misread, mirror>>
         /\ up /\ job = None /\ queue # <<>> /\ queue' = Tail(queue) /\ Head(queue) \in Event
<1>1. UNCHANGED <<now, posts, reacted, mark, up, online, stream, sync, cache, missed,
                  regressed, misread, mirror>>
  <2> USE DEF slack, history, KeepSlack, KeepTaking
  <2>1. CASE TakeMessage \/ TakeEdit \/ TakeDeletion \/ TakeReaction
    BY SMT, <2>1 DEF TakeMessage, TakeEdit, TakeDeletion, TakeReaction
  <2>2. CASE TakeResync
    BY SMT, <2>2 DEF TakeResync
  <2> QED
    BY <2>1, <2>2 DEF Takes
<1>2. queue' = Tail(queue) /\ \E types : Taking(types)
  BY Zenon DEF Takes, TakeMessage, TakeEdit, TakeDeletion, TakeReaction, TakeResync
<1>3. up /\ job = None /\ queue # <<>>
  BY Zenon, <1>2 DEF Taking
<1> QED
  BY <1>1, <1>2, <1>3, Heads DEF Kept, Typed

(* A crash forgets what is under way.                                       *)
LEMMA CrashDoes ==
  ASSUME Kept, Crash
  PROVE  /\ UNCHANGED <<now, posts, reacted, mark, rows, reactions, shown, excused, regressed,
                        misread>>
         /\ ~up' /\ ~online' /\ Events' = {} /\ ToSet(stream)' = {} /\ queue' = <<>>
         /\ sync' = None /\ cache' = 0 /\ job' = None /\ pending' = {} /\ mirror' = None
         /\ missed \subseteq missed'
         /\ \A e \in Events : e.type \notin {"message", "marked", "resync"} => e.ts \in missed'
         /\ \A t \in Times : Shows(t) => t \in missed'
<1>1. UNCHANGED <<now, posts, reacted, mark, rows, reactions, shown, excused, regressed, misread>>
  BY SMT DEF Crash, KeepSlack, slack, stored
<1>2. /\ up' = FALSE /\ online' = FALSE /\ stream' = <<>> /\ queue' = <<>>
      /\ sync' = None /\ cache' = 0 /\ job' = None /\ pending' = {} /\ mirror' = None
  BY Zenon DEF Crash
<1>3. missed' = missed \cup {e.ts : e \in {e \in ToSet(stream) \cup ToSet(queue) :
                                            e.type \notin {"message", "marked", "resync"}}}
               \cup IF job = None THEN {} ELSE {t \in Times : job.shows[t] # None}
  BY Zenon DEF Crash
<1>4. missed \subseteq missed' /\ \A t \in Times : Shows(t) => t \in missed'
  BY <1>3 DEF Shows
<1>5. ASSUME NEW e \in Events, e.type \notin {"message", "marked", "resync"} PROVE e.ts \in missed'
  BY <1>3, <1>5 DEF Events
<1>6. Events' = {} /\ ToSet(stream)' = {}
  BY <1>2, EmptySet DEF Events
<1> QED
  BY <1>1, <1>2, <1>4, <1>5, <1>6

(* The portal and what is around it lose no event of a message, and do not  *)
(* change their order.                                                      *)
LEMMA CalmFlow ==
  ASSUME Kept, Around \/ Works
  PROVE  /\ \A e \in Event : About(e) => (e \in Events' <=> e \in Events)
         /\ \A e, f \in Event : About(e) /\ About(f) /\ Precedes(e, f)' => Precedes(e, f)
         /\ \A e, f \in Event : e # f /\ About(e) /\ About(f) /\ Final(e, f) => Final(e, f)'
         /\ \A e \in Events' :
              e \in Events \/ (e.type = "resync" /\ sync # None /\ e.ts = sync.latest)
<1> USE DEF Kept, Typed
<1>1. ASSUME UNCHANGED <<stream, queue>>
      PROVE  /\ Events' = Events
             /\ \A e, f \in Event : /\ Precedes(e, f)' = Precedes(e, f)
                                    /\ Final(e, f)' = Final(e, f)
  BY <1>1 DEF Events, Precedes, Final
<1>2. CASE Works
  <2>1. UNCHANGED <<stream, queue>>
    BY <1>2, WorkKeeps
  <2> QED
    BY <1>1, <2>1
<1>3. CASE Receive
  <2>1. /\ stream # <<>> /\ stream' = Tail(stream)
        /\ \/ Head(stream).type = "marked" /\ queue' = queue
           \/ Head(stream).type # "marked" /\ queue' = Append(queue, Head(stream))
    BY SMT, <1>3 DEF Receive
  <2> QED
    BY <2>1, ReceivedFlow, EventsType DEF About
<1>4. CASE QueueResync
  <2>1. /\ sync # None /\ queue' = Append(queue, Ev("resync", sync.latest, 0))
        /\ UNCHANGED stream
    BY SMT, <1>4 DEF QueueResync, Syncing, KeepSync
  <2>2. sync.latest \in Stamps
    BY <2>1 DEF Streams, Sync
  <2>3. /\ Ev("resync", sync.latest, 0) \in Event
        /\ ~About(Ev("resync", sync.latest, 0))
        /\ Ev("resync", sync.latest, 0).type = "resync"
        /\ Ev("resync", sync.latest, 0).ts = sync.latest
    BY <2>2, MarkType DEF Ev, About
  <2> HIDE DEF Kept, Typed
  <2> DEFINE x == Ev("resync", sync.latest, 0)
  <2>4. /\ Events' = Events \cup {x}
        /\ \A e, f \in Event : Precedes(e, f)' => Precedes(e, f) \/ e = x \/ f = x
        /\ \A e, f \in Event : e # f /\ x # f /\ Final(e, f) => Final(e, f)'
    <3>1. x \in Event /\ queue' = Append(queue, x) /\ UNCHANGED stream /\ Streams
      BY <2>1, <2>3 DEF Kept, Typed
    <3> HIDE DEF x
    <3> QED
      BY <3>1, ResyncFlow
  <2>5. x \in Event /\ ~About(x) /\ x.type = "resync" /\ x.ts = sync.latest
    BY <2>3
  <2> HIDE DEF x
  <2> QED
    BY <2>1, <2>4, <2>5
<1>5. CASE \/ Lose \/ Online \/ Start \/ CountsFail \/ Counts \/ Install \/ SyncSkips
           \/ UNCHANGED vars
  <2>1. UNCHANGED <<stream, queue>>
    <3>1. CASE Lose \/ Online \/ Start
      BY SMT, <3>1 DEF Lose, Online, Start
    <3>2. CASE CountsFail \/ Counts \/ Install \/ SyncSkips
      BY SMT, <3>2 DEF CountsFail, Counts, Install, SyncSkips, KeepSync
    <3>3. CASE UNCHANGED vars
      BY SMT, <3>3 DEF vars, bridge
    <3> QED
      BY <1>5, <3>1, <3>2, <3>3
  <2> QED
    BY <1>1, <2>1
<1> QED
  BY <1>2, <1>3, <1>4, <1>5 DEF Around

(* A message is known, was awaited, or becomes a job.                       *)
LEMMA TakeMessageDoes ==
  ASSUME Kept, TakeMessage
  PROVE  \E t \in Times :
           /\ Head(queue) = Posting(t) /\ UNCHANGED <<reactions, shown, excused>>
           /\ \/ rows[t] # None /\ UNCHANGED <<job, pending, rows>>
              \/ /\ rows[t] = None /\ t \in pending /\ UNCHANGED job
                 /\ rows' = [rows EXCEPT ![t] = NewRow] /\ pending' = pending \ {t}
              \/ /\ rows[t] = None /\ t \notin pending /\ UNCHANGED <<pending, rows>>
                 /\ Tasked("message", "send", Only(t, 0), NewRow)'
<1>1. Event1 \in Event /\ Event1.ts \in Times /\ Event1.type \in {"message"}
  <2>1. Taking({"message"})
    BY Zenon DEF TakeMessage
  <2> QED
    BY <2>1, Taken DEF Kept, Typed
<1>2. PICK t \in Times : t = Event1.ts
  BY <1>1
<1>3. Head(queue) = Posting(t) /\ UNCHANGED <<reactions, shown, excused>>
  <2>1. Head(queue) = Posting(t)
    BY <1>1, <1>2, EventNames DEF Event1
  <2>2. UNCHANGED <<reactions, shown, excused>>
    BY SMT DEF TakeMessage, history
  <2> QED
    BY <2>1, <2>2
<1>4. \/ rows[t] # None /\ UNCHANGED <<job, pending, rows>>
      \/ /\ rows[t] = None /\ t \in pending /\ UNCHANGED job
         /\ rows' = [rows EXCEPT ![t] = NewRow] /\ pending' = pending \ {t}
      \/ /\ rows[t] = None /\ t \notin pending /\ UNCHANGED <<pending, rows>>
         /\ job' = Task("message", "send", Only(t, 0), NewRow)
  BY Zenon, <1>2 DEF TakeMessage, Awaited
<1>5. ASSUME job' = Task("message", "send", Only(t, 0), NewRow)
      PROVE  Tasked("message", "send", Only(t, 0), NewRow)'
  BY <1>5, OnlyType, RowTypes, TimesAreStamps, TaskIsTasked
<1> QED
  BY <1>3, <1>4, <1>5

(* An edit is of no row or not newer, or becomes a job.                     *)
LEMMA TakeEditDoes ==
  ASSUME Kept, TakeEdit
  PROVE  \E t \in Times, n \in Times :
           /\ Head(queue) = Change(t, n)
           /\ UNCHANGED <<pending, rows, reactions, shown, excused>>
           /\ \/ UNCHANGED job /\ (rows[t] = None \/ rows[t].edit >= n)
              \/ /\ rows[t] # None /\ ~(rows[t].edit >= n)
                 /\ \E row \in Row : row.edit \in {0, n} /\ Tasked("edit", "send", Only(t, n), row)'
<1>1. /\ Event1 \in Event /\ Event1.ts \in Times /\ Event1.type \in {"changed"}
      /\ (Event1.type = "changed" => Event1.edit \in Times)
  <2>1. Taking({"changed"})
    BY Zenon DEF TakeEdit
  <2> QED
    BY <2>1, Taken DEF Kept, Typed
<1>2. PICK t \in Times, n \in Times : t = Event1.ts /\ n = Event1.edit
  BY <1>1
<1>3. Head(queue) = Change(t, n) /\ UNCHANGED <<pending, rows, reactions, shown, excused>>
  <2>1. Head(queue) = Change(t, n)
    BY <1>1, <1>2, EventNames DEF Event1
  <2>2. UNCHANGED <<pending, rows, reactions, shown, excused>>
    BY SMT DEF TakeEdit, history, stored
  <2> QED
    BY <2>1, <2>2
<1>4. \/ UNCHANGED job /\ (rows[t] = None \/ BridgedBefore(rows[t], n))
      \/ /\ ~(rows[t] = None \/ BridgedBefore(rows[t], n))
         /\ \E caption \in BOOLEAN :
              job' = Task("edit", "send", Only(t, n), Edited(rows[t], n, caption))
  BY Zenon, <1>2 DEF TakeEdit
<1>5. ASSUME NEW caption \in BOOLEAN, rows[t] # None,
             job' = Task("edit", "send", Only(t, n), Edited(rows[t], n, caption))
      PROVE  \E row \in Row : row.edit \in {0, n} /\ Tasked("edit", "send", Only(t, n), row)'
  <2>1. rows[t] \in Row
    BY <1>5 DEF Kept, Typed, Stored
  <2>2. PICK row \in Row : row = Edited(rows[t], n, caption) /\ row.edit \in {0, n}
    <3>1. CASE caption
      BY <3>1, RowTypes DEF Edited, NewRow
    <3>2. CASE ~caption
      <4>1. Edited(rows[t], n, caption) = [rows[t] EXCEPT !.edit = n]
        BY <3>2 DEF Edited
      <4>2. Edited(rows[t], n, caption) \in Row
        BY <2>1, <4>1, RowTypes, TimesAreStamps
      <4>3. Edited(rows[t], n, caption).edit = n
        BY <2>1, <4>1 DEF Row
      <4> QED
        BY <4>2, <4>3
    <3> QED
      BY <3>1, <3>2
  <2>3. Tasked("edit", "send", Only(t, n), row)'
    <3>1. Only(t, n) \in [Times -> Stamps \cup {None}]
      BY OnlyType, TimesAreStamps
    <3>2. job' = Task("edit", "send", Only(t, n), row)
      BY <1>5, <2>2
    <3> QED
      BY <3>1, <3>2, TaskIsTasked
  <2> QED
    BY <2>2, <2>3
<1> QED
  BY <1>3, <1>4, <1>5 DEF BridgedBefore

(* A deletion takes row, reaction and Matrix events away.                   *)
LEMMA TakeDeletionDoes ==
  ASSUME Kept, TakeDeletion
  PROVE  \E t \in Times :
           /\ Head(queue) = Deletion(t) /\ UNCHANGED <<job, pending, excused>>
           /\ rows' = [rows EXCEPT ![t] = None] /\ shown' = [shown EXCEPT ![t] = None]
           /\ reactions' = reactions \ {t}
<1>1. Event1 \in Event /\ Event1.ts \in Times /\ Event1.type \in {"deleted"}
  <2>1. Taking({"deleted"})
    BY Zenon DEF TakeDeletion
  <2> QED
    BY <2>1, Taken DEF Kept, Typed
<1>2. PICK t \in Times : t = Event1.ts
  BY <1>1
<1>3. Head(queue) = Deletion(t)
  BY <1>1, <1>2, EventNames DEF Event1
<1>4. UNCHANGED <<job, pending, excused>>
  BY SMT DEF TakeDeletion, history
<1>5. /\ rows' = [rows EXCEPT ![t] = None] /\ shown' = [shown EXCEPT ![t] = None]
      /\ reactions' = reactions \ {t}
  BY Zenon, <1>2 DEF TakeDeletion
<1> QED
  BY <1>3, <1>4, <1>5

(* A reaction of a message with a row is saved or removed.                  *)
LEMMA TakeReactionDoes ==
  ASSUME Kept, TakeReaction
  PROVE  \E t \in Times :
           /\ UNCHANGED <<job, pending, rows, shown, excused>>
           /\ rows[t] = None => UNCHANGED reactions
           /\ \/ /\ Head(queue) = Ev("reacted", t, 0)
                 /\ rows[t] # None => reactions' = reactions \cup {t}
              \/ /\ Head(queue) = Ev("unreacted", t, 0)
                 /\ rows[t] # None => reactions' = reactions \ {t}
<1>1. Event1 \in Event /\ Event1.ts \in Times /\ Event1.type \in {"reacted", "unreacted"}
  <2>1. Taking({"reacted", "unreacted"})
    BY Zenon DEF TakeReaction
  <2> QED
    BY <2>1, Taken DEF Kept, Typed
<1>2. PICK t \in Times : t = Event1.ts
  BY <1>1
<1>3. Head(queue) = Ev(Event1.type, t, 0)
  BY <1>1, <1>2, EventNames DEF Event1
<1>4. UNCHANGED <<job, pending, rows, shown, excused>>
  BY SMT DEF TakeReaction, history
<1>5. reactions' = IF rows[t] = None THEN reactions
                   ELSE IF Event1.type = "reacted" THEN reactions \cup {t}
                   ELSE reactions \ {t}
  BY Zenon, <1>2 DEF TakeReaction
<1>6. /\ rows[t] = None => UNCHANGED reactions
      /\ rows[t] # None /\ Event1.type = "reacted" => reactions' = reactions \cup {t}
      /\ rows[t] # None /\ Event1.type # "reacted" => reactions' = reactions \ {t}
  BY <1>5
<1> QED
  BY <1>1, <1>3, <1>4, <1>6

(* A resync becomes a fetch if the counts are ahead of the rows.            *)
LEMMA TakeResyncDoes ==
  ASSUME Kept, TakeResync
  PROVE  \E n \in Stamps :
           /\ Head(queue).type = "resync" /\ Head(queue).ts = n
           /\ UNCHANGED <<pending, rows, reactions, shown>>
           /\ \/ Latest(Bridged) < n /\ Tasked("fetch", "send", Nothing, NewRow)'
              \/ ~(Latest(Bridged) < n) /\ job' = None
           /\ excused' = excused \cup {t \in Posted \ Bridged : t < Latest(Bridged) \/ t > n}
<1>1. Event1 \in Event /\ Event1.type = "resync"
  <2>1. Taking({"resync"})
    BY Zenon DEF TakeResync
  <2>2. queue # <<>> /\ Event1.type \in {"resync"}
    BY Zenon, <2>1 DEF Taking, Event1
  <2> QED
    BY <2>2, Heads DEF Kept, Typed, Event1
<1>2. PICK n \in Stamps : n = Event1.ts
  BY <1>1, EventFields
<1>3. Head(queue).type = "resync" /\ Head(queue).ts = n
  BY <1>1, <1>2 DEF Event1
<1>4. UNCHANGED <<pending, rows, reactions, shown>>
  BY SMT DEF TakeResync, stored
<1>5. /\ job' = IF CheckNeedsBackfill(n) THEN Task("fetch", "send", Nothing, NewRow) ELSE None
      /\ excused' = excused \cup {t \in Posted \ Bridged : t < Latest(Bridged) \/ t > n}
  BY Zenon, <1>2 DEF TakeResync
<1>6. CheckNeedsBackfill(n) => Tasked("fetch", "send", Nothing, NewRow)'
  <2>1. Nothing \in [Times -> Stamps \cup {None}] /\ NewRow \in Row
    BY NothingType, RowTypes
  <2> QED
    BY <1>5, <2>1, TaskIsTasked
<1>7. \/ Latest(Bridged) < n /\ Tasked("fetch", "send", Nothing, NewRow)'
      \/ ~(Latest(Bridged) < n) /\ job' = None
  BY <1>5, <1>6 DEF CheckNeedsBackfill
<1> QED
  BY <1>3, <1>4, <1>5, <1>7

-----------------------------------------------------------------------------
(* A fetch ends with a page, or with nothing.                               *)
LEMMA FetchMessagesDoes ==
  ASSUME Kept, FetchMessages
  PROVE  /\ job # None /\ job.kind = "fetch" /\ UNCHANGED <<rows, reactions, shown, mirror>>
         /\ excused' = excused \cup (Newer \ Page)
         /\ \/ Page = {} /\ job' = None
            \/ \E shows \in [Times -> Stamps \cup {None}] :
                 /\ \A t \in Times : shows[t] = IF t \in Page THEN posts[t] ELSE None
                 /\ Tasked("page", "send", shows, NewRow)'
<1>1. /\ job # None /\ job.kind = "fetch" /\ UNCHANGED <<rows, reactions, shown, mirror>>
  <2>1. Working({"fetch"}, "send")
    BY Zenon DEF FetchMessages
  <2>2. UNCHANGED <<rows, reactions, shown, mirror>>
    BY SMT DEF FetchMessages, stored
  <2> QED
    BY <2>1, <2>2 DEF Working
<1>2. PICK shows \in [Times -> Stamps \cup {None}] :
        shows = [t \in Times |-> IF t \in Page THEN posts[t] ELSE None]
  BY DEF Kept, Typed, Slacky
<1>3. /\ job' = IF Page = {} THEN None ELSE Task("page", "send", shows, NewRow)
      /\ excused' = excused \cup (Newer \ Page)
  BY Zenon, <1>2 DEF FetchMessages
<1>4. Page # {} => Tasked("page", "send", shows, NewRow)'
  <2>1. NewRow \in Row
    BY RowTypes
  <2> QED
    BY <1>3, <2>1, TaskIsTasked
<1> QED
  BY <1>1, <1>2, <1>3, <1>4

(* A fetch that fails is given up.                                          *)
LEMMA FetchFailsDoes ==
  ASSUME Kept, FetchFails
  PROVE  /\ job # None /\ job.kind = "fetch" /\ job' = None
         /\ UNCHANGED <<rows, reactions, shown, mirror, misread>>
         /\ excused' = excused \cup Newer
<1>1. Working({"fetch"}, "send") /\ job' = None /\ excused' = excused \cup Newer
  BY Zenon DEF FetchFails
<1>2. UNCHANGED <<rows, reactions, shown, mirror, misread>>
  BY SMT DEF FetchFails, stored
<1> QED
  BY <1>1, <1>2 DEF Working

(* What the job shows is in Matrix, its rows are still to be saved.         *)
LEMMA SendDoes ==
  ASSUME Kept, Send
  PROVE  /\ UNCHANGED <<rows, reactions, mirror, excused, misread>>
         /\ job # None /\ job.kind \in {"message", "edit", "page"} /\ job.step = "send"
         /\ job' # None /\ job'.step = "save" /\ job'.kind = job.kind /\ job'.shows = job.shows
         /\ job'.row = job.row
         /\ \A t \in Times : shown'[t] = IF job.shows[t] # None THEN job.shows[t] ELSE shown[t]
<1>1. UNCHANGED <<rows, reactions, mirror, excused, misread>>
  BY SMT DEF Send, history
<1>2. /\ Working({"message", "edit", "page"}, "send") /\ job' = [job EXCEPT !.step = "save"]
      /\ shown' = [t \in Times |-> IF job.shows[t] # None THEN job.shows[t] ELSE shown[t]]
  BY Zenon DEF Send
<1>3. job # None /\ job \in Job /\ job.kind \in {"message", "edit", "page"} /\ job.step = "send"
  BY <1>2 DEF Working, Kept, Typed, Stored
<1>4. /\ job' # None /\ job'.step = "save" /\ job'.kind = job.kind /\ job'.shows = job.shows
      /\ job'.row = job.row
  BY <1>2, <1>3, NoneIsNothing DEF Job
<1> QED
  BY <1>1, <1>2, <1>3, <1>4

(* The rows are saved, and a page brings its reactions.                     *)
LEMMA SaveDoes ==
  ASSUME Kept, Save
  PROVE  /\ UNCHANGED <<shown, mirror, excused, misread>>
         /\ job # None /\ job.step = "save" /\ job' = None /\ job.row \in Row
         /\ job.kind \in {"message", "edit", "page", "post", "update"}
         /\ \A t \in Times : rows'[t] = IF job.shows[t] # None THEN job.row ELSE rows[t]
         /\ reactions' = IF job.kind = "page"
                         THEN reactions \cup {t \in reacted : job.shows[t] # None} ELSE reactions
<1>1. UNCHANGED <<shown, mirror, excused, misread>>
  BY SMT DEF Save, history
<1>2. /\ Working({"message", "edit", "page", "post", "update"}, "save") /\ job' = None
      /\ rows' = [t \in Times |-> IF job.shows[t] # None THEN job.row ELSE rows[t]]
      /\ reactions' = IF job.kind = "page"
                      THEN reactions \cup {t \in reacted : job.shows[t] # None} ELSE reactions
  BY Zenon DEF Save
<1>3. /\ job # None /\ job.step = "save" /\ job.row \in Row
      /\ job.kind \in {"message", "edit", "page", "post", "update"}
  BY <1>2, JobFields DEF Working, Kept, Typed, Stored
<1> QED
  BY <1>1, <1>2, <1>3

(* The mirror writes all of the row it read, if there is one still.         *)
LEMMA MirrorWriteDoes ==
  ASSUME Kept, MirrorWrite
  PROVE  /\ UNCHANGED <<reactions, shown, excused, misread>>
         /\ mirror # None /\ mirror.ts \in Times /\ mirror.row \in Row /\ mirror' = None
         /\ \A t \in Times : rows'[t] = IF t = mirror.ts /\ rows[t] # None THEN mirror.row
                                        ELSE rows[t]
         /\ job = None => job' = None
         /\ job # None => /\ job' # None /\ job'.step = job.step /\ job'.kind = job.kind
                          /\ job'.shows = job.shows /\ job'.row = job.row
<1>1. UNCHANGED <<reactions, shown, excused, misread>>
  BY SMT DEF MirrorWrite, history
<1>2. /\ mirror # None /\ mirror' = None
      /\ rows' = [rows EXCEPT ![mirror.ts] = IF @ = None THEN None ELSE mirror.row]
      /\ job' = IF job = None THEN None
                ELSE [job EXCEPT !.stale = @ \/ job.shows[mirror.ts] # None]
  BY Zenon DEF MirrorWrite
<1>3. mirror.ts \in Times /\ mirror.row \in Row
  BY <1>2, NoneIsNothing DEF Kept, Typed, Stored, Mirrored
<1>4. \A t \in Times : rows'[t] = IF t = mirror.ts /\ rows[t] # None THEN mirror.row ELSE rows[t]
  BY <1>2, <1>3 DEF Kept, Typed, Stored
<1>5. ASSUME job # None
      PROVE  /\ job' # None /\ job'.step = job.step /\ job'.kind = job.kind
             /\ job'.shows = job.shows /\ job'.row = job.row
  <2>1. job \in Job
    BY <1>5 DEF Kept, Typed, Stored
  <2> QED
    BY <1>2, <1>5, <2>1, NoneIsNothing DEF Job
<1> QED
  BY <1>1, <1>2, <1>3, <1>4, <1>5

(* The mirror reads a row.                                                  *)
LEMMA MirrorReadDoes ==
  ASSUME Kept, NEW t \in Times, MirrorRead(t)
  PROVE  /\ UNCHANGED <<rows, reactions, shown, job, excused, misread>>
         /\ mirror = None /\ rows[t] # None /\ mirror' # None /\ mirror'.ts = t
         /\ mirror'.row.edit = rows[t].edit
<1>1. UNCHANGED <<rows, reactions, shown, job, excused, misread>>
  BY SMT DEF MirrorRead, stored, history
<1>2. /\ mirror = None /\ rows[t] # None
      /\ mirror' = [ts |-> t, row |-> [rows[t] EXCEPT !.mirrored = TRUE]]
  BY Zenon DEF MirrorRead
<1>3. rows[t] \in Row
  BY <1>2 DEF Kept, Typed, Stored
<1>4. mirror' \in Mirrored
  BY <1>2, <1>3 DEF Mirrored, Row
<1>5. mirror' # None
  BY <1>4, NoneIsNothing
<1>6. mirror'.row.edit = rows[t].edit
  BY <1>2, <1>3 DEF Row
<1> QED
  BY <1>1, <1>2, <1>5, <1>6

-----------------------------------------------------------------------------
(* What users do, from Slack or from Matrix. *)

(* A message is posted; from Matrix it is shown already, and its row is     *)
(* saved next, or it is an upload whose event is awaited, or its answer was *)
(* lost.                                                                    *)
UserPosts(t) ==
  /\ Posts(t) /\ UNCHANGED <<rows, reactions, regressed>>
  /\ \/ UNCHANGED <<job, pending, shown>>
     \/ /\ job = None /\ shown' = [shown EXCEPT ![t] = 0]
        /\ \/ Tasked("post", "save", Only(t, 0), NewRow)' /\ UNCHANGED pending
           \/ pending' = pending \cup {t} /\ UNCHANGED job
           \/ UNCHANGED <<job, pending>>

(* A message is edited; from Matrix, its row is saved next, unless the      *)
(* answer was lost.                                                         *)
UserEdits(t, n) ==
  /\ t \in Posted /\ Edits(t) /\ n = now + 1
  /\ UNCHANGED <<pending, rows, reactions, regressed>>
  /\ \/ UNCHANGED <<job, shown>>
     \/ /\ job = None /\ rows[t] # None /\ shown' = [shown EXCEPT ![t] = n]
        /\ \/ \E row \in Row : row.edit \in {t, n} /\ Tasked("update", "save", Only(t, n), row)'
           \/ UNCHANGED job

(* A message is deleted, from Matrix with its row or without.               *)
UserDeletes(t) ==
  /\ t \in Posted /\ Deletes(t) /\ UNCHANGED <<job, pending, regressed>>
  /\ \/ UNCHANGED <<rows, reactions, shown>>
     \/ /\ job = None /\ rows[t] # None /\ shown' = [shown EXCEPT ![t] = None]
        /\ \/ rows' = [rows EXCEPT ![t] = None] /\ reactions' = reactions \ {t}
           \/ UNCHANGED <<rows, reactions>>

(* A reaction is added, from Matrix to a message with a row.                *)
UserReacts(t) ==
  /\ t \in Posted \ reacted /\ Reacts(t) /\ UNCHANGED <<job, pending, rows, shown, regressed>>
  /\ reactions' = reactions \/ (rows[t] # None /\ reactions' = reactions \cup {t})

(* A reaction is removed, from Matrix with its row or without.              *)
UserUnreacts(t) ==
  /\ t \in reacted /\ Unreacts(t) /\ UNCHANGED <<job, pending, rows, shown, regressed>>
  /\ reactions' \in {reactions \ {t}, reactions}

(* The read mark is set.                                                    *)
UserMarks(t) ==
  /\ Marks(t) /\ regressed' = (regressed \/ t < mark)
  /\ UNCHANGED <<job, pending, rows, reactions, shown>>
  /\ t \in 0..now \/ t \in Bridged

(* These are all the steps of the users.                                    *)
LEMMA UsersDo ==
  ASSUME Kept, ByUsers
  PROVE  \/ \E t \in Times :
              \/ UserPosts(t) \/ UserDeletes(t) \/ UserReacts(t) \/ UserUnreacts(t)
              \/ \E n \in Times : UserEdits(t, n)
         \/ \E t \in Stamps : UserMarks(t)
<1>1. ASSUME NEW t \in Times, Edits(t) PROVE now + 1 \in Times /\ now' = now + 1
  BY <1>1, Bounds DEF Edits, Kept, Typed, Slacky, Stamps, Times
<1>2. CASE SlackUser
  <2>1. UNCHANGED <<job, pending, rows, reactions, shown>>
    BY SMT, <1>2 DEF SlackUser, InSlack, stored
  <2>2. CASE \E t \in 0..now \ {mark} : Marks(t) /\ regressed' = (regressed \/ t < mark)
    <3>1. PICK t \in 0..now \ {mark} : Marks(t) /\ regressed' = (regressed \/ t < mark)
      BY <2>2
    <3>2. t \in Stamps
      BY Bounds DEF Kept, Typed, Slacky, Stamps
    <3> QED
      BY Zenon, <2>1, <3>1, <3>2 DEF UserMarks
  <2>3. CASE UNCHANGED regressed /\ \E t \in Times : Acts(t)
    <3>1. PICK t \in Times : Acts(t)
      BY <2>3
    <3>2. CASE Posts(t)
      BY <2>1, <2>3, <3>2 DEF UserPosts
    <3>3. CASE t \in Posted /\ Edits(t)
      <4>1. PICK n \in Times : n = now + 1
        BY <1>1, <3>3
      <4>2. UserEdits(t, n)
        BY <2>1, <2>3, <3>3, <4>1 DEF UserEdits
      <4> QED
        BY <4>2
    <3>4. CASE t \in Posted /\ Deletes(t)
      BY <2>1, <2>3, <3>4 DEF UserDeletes
    <3>5. CASE t \in Posted \ reacted /\ Reacts(t)
      BY <2>1, <2>3, <3>5 DEF UserReacts
    <3>6. CASE t \in reacted /\ Unreacts(t)
      BY <2>1, <2>3, <3>6 DEF UserUnreacts
    <3> QED
      BY Zenon, <3>1, <3>2, <3>3, <3>4, <3>5, <3>6 DEF Acts
  <2> QED
    BY Zenon, <1>2, <2>2, <2>3 DEF SlackUser, Acts
<1>3. ASSUME NEW t \in Times, MatrixMessage(t) PROVE UserPosts(t)
  <2>1. /\ job = None /\ Posts(t) /\ shown' = [shown EXCEPT ![t] = 0]
        /\ \/ job' = Task("post", "save", Only(t, 0), NewRow) /\ UNCHANGED pending
           \/ AddPendingToSave(t) /\ UNCHANGED job
    BY Zenon, <1>3 DEF MatrixMessage, Matrix
  <2>2. UNCHANGED <<rows, reactions, regressed>>
    BY SMT, <1>3 DEF MatrixMessage, KeepMatrix
  <2>3. ASSUME job' = Task("post", "save", Only(t, 0), NewRow)
        PROVE  Tasked("post", "save", Only(t, 0), NewRow)'
    BY <2>3, OnlyType, RowTypes, TimesAreStamps, TaskIsTasked
  <2> QED
    BY Zenon, <2>1, <2>2, <2>3 DEF UserPosts, AddPendingToSave
<1>4. ASSUME NEW t \in Times, MatrixEdit(t) PROVE \E n \in Times : UserEdits(t, n)
  <2>1. /\ job = None /\ rows[t] # None /\ posts[t] # None /\ Edits(t)
        /\ shown' = [shown EXCEPT ![t] = now']
        /\ \E answer \in {t, now'} :
             job' = Task("update", "save", Only(t, now'), [rows[t] EXCEPT !.edit = answer])
    BY Zenon, <1>4 DEF MatrixEdit, Matrix
  <2>2. UNCHANGED <<pending, rows, reactions, regressed>>
    BY SMT, <1>4 DEF MatrixEdit, KeepMatrix
  <2>3. PICK n \in Times : n = now + 1 /\ n = now'
    BY <1>1, <2>1
  <2>4. PICK answer \in {t, n} :
          job' = Task("update", "save", Only(t, n), [rows[t] EXCEPT !.edit = answer])
    BY Zenon, <2>1, <2>3
  <2>5. rows[t] \in Row
    BY <2>1 DEF Kept, Typed, Stored
  <2>6. PICK row \in Row : row = [rows[t] EXCEPT !.edit = answer]
    BY <2>5, RowTypes, TimesAreStamps
  <2>7. row.edit = answer
    BY <2>5, <2>6 DEF Row
  <2>8. /\ Only(t, n) \in [Times -> Stamps \cup {None}]
        /\ job' = Task("update", "save", Only(t, n), row)
    BY <2>4, <2>6, OnlyType, TimesAreStamps
  <2>9. Tasked("update", "save", Only(t, n), row)'
    BY <2>8, TaskIsTasked
  <2>10. UserEdits(t, n)
    BY <2>1, <2>2, <2>3, <2>7, <2>9 DEF UserEdits, Posted
  <2> QED
    BY <2>10
<1>5. ASSUME NEW t \in Times, MatrixRemove(t) PROVE UserDeletes(t)
  <2>1. /\ job = None /\ rows[t] # None /\ posts[t] # None /\ Deletes(t)
        /\ shown' = [shown EXCEPT ![t] = None]
        /\ \/ rows' = [rows EXCEPT ![t] = None] /\ reactions' = reactions \ {t}
           \/ UNCHANGED <<rows, reactions>>
    BY Zenon, <1>5 DEF MatrixRemove, Matrix
  <2>2. UNCHANGED <<job, pending, regressed>>
    BY SMT, <1>5 DEF MatrixRemove, KeepMatrix
  <2> QED
    BY Zenon, <2>1, <2>2 DEF UserDeletes, Posted
<1>6. ASSUME NEW t \in Times, MatrixReaction(t) PROVE UserReacts(t)
  <2>1. /\ rows[t] # None /\ posts[t] # None /\ t \notin reacted /\ Reacts(t)
        /\ reactions' \in {reactions \cup {t}, reactions}
    BY <1>6 DEF MatrixReaction
  <2>2. UNCHANGED <<job, pending, rows, shown, regressed>>
    BY SMT, <1>6 DEF MatrixReaction, KeepMatrix
  <2> QED
    BY <2>1, <2>2 DEF UserReacts, Posted
<1>7. ASSUME NEW t \in Times, MatrixReactionRemove(t) PROVE UserUnreacts(t)
  <2>1. t \in reacted /\ Unreacts(t) /\ reactions' \in {reactions \ {t}, reactions}
    BY <1>7 DEF MatrixReactionRemove
  <2>2. UNCHANGED <<job, pending, rows, shown, regressed>>
    BY SMT, <1>7 DEF MatrixReactionRemove, KeepMatrix
  <2> QED
    BY Zenon, <2>1, <2>2 DEF UserUnreacts
<1>8. ASSUME NEW t \in Times, MatrixReadReceipt(t) PROVE t \in Stamps /\ UserMarks(t)
  <2>1. /\ t = Latest({b \in Bridged : b <= t}) /\ Marks(t) /\ regressed' = (regressed \/ t < mark)
    BY Zenon, <1>8 DEF MatrixReadReceipt
  <2>2. UNCHANGED <<job, pending, rows, reactions, shown>>
    <3>1. UNCHANGED <<job, pending, stored>>
      BY Zenon, <1>8 DEF MatrixReadReceipt
    <3> QED
      BY <3>1 DEF stored
  <2>3. t \in Bridged
    <3> DEFINE S == {b \in Bridged : b <= t}
    <3>1. S \in SUBSET Times
      BY PageTimes
    <3>2. S # {}
      BY <2>1, Bounds DEF Latest, Times
    <3>3. Max(S) \in S /\ Latest(S) = Max(S)
      BY <3>1, <3>2, MaxExists DEF Latest
    <3> QED
      BY <2>1, <3>3
  <2> QED
    BY Zenon, <2>1, <2>2, <2>3, TimesAreStamps DEF UserMarks
<1>9. ASSUME NEW t \in Times, MatrixReadReceipt(t) PROVE \E s \in Stamps : UserMarks(s)
  BY <1>8, <1>9
<1>10. ASSUME NEW t \in Times, PostUnanswered(t) PROVE UserPosts(t)
  <2>1. job = None /\ Posts(t) /\ shown' = [shown EXCEPT ![t] = 0]
    BY Zenon, <1>10 DEF PostUnanswered, Matrix
  <2>2. UNCHANGED <<job, pending, rows, reactions, regressed>>
    BY SMT, <1>10 DEF PostUnanswered
  <2> QED
    BY Zenon, <2>1, <2>2 DEF UserPosts
<1>11. ASSUME NEW t \in Times, EditUnanswered(t) PROVE \E n \in Times : UserEdits(t, n)
  <2>1. /\ job = None /\ rows[t] # None /\ posts[t] # None /\ Edits(t)
        /\ shown' = [shown EXCEPT ![t] = now']
    BY Zenon, <1>11 DEF EditUnanswered, Matrix
  <2>2. UNCHANGED <<job, pending, rows, reactions, regressed>>
    BY SMT, <1>11 DEF EditUnanswered, KeepMatrix
  <2>3. PICK n \in Times : n = now + 1 /\ n = now'
    BY <1>1, <2>1
  <2>4. UserEdits(t, n)
    BY <2>1, <2>2, <2>3 DEF UserEdits, Posted
  <2> QED
    BY <2>4
<1> QED
  BY Zenon, <1>2, <1>3, <1>4, <1>5, <1>6, <1>7, <1>9, <1>10, <1>11 DEF ByUsers

(* What Slack tells of a message that is posted.                            *)
LEMMA PostSpreads ==
  ASSUME Kept, ByUsers, NEW t \in Times, UserPosts(t)
  PROVE  /\ Spread(Posting(t)) /\ t = now + 1 /\ now' = t
         /\ posts' = [posts EXCEPT ![t] = 0] /\ UNCHANGED <<reacted, mark>>
<1>1. /\ Tell(Posting(t)) /\ t = now + 1 /\ now' = t
      /\ posts' = [posts EXCEPT ![t] = 0] /\ UNCHANGED <<reacted, mark>>
  BY Zenon DEF UserPosts, Posts, Posting
<1>2. UNCHANGED queue
  BY UsersKeep
<1>3. Posting(t) \in Event /\ Posting(t).type # "resync"
  BY EventParts
<1> QED
  BY <1>1, <1>2, <1>3, TellFlow DEF Kept, Typed

(* What it tells of an edit.                                                *)
LEMMA EditSpreads ==
  ASSUME Kept, ByUsers, NEW t \in Times, NEW n \in Times, UserEdits(t, n)
  PROVE  /\ Spread(Change(t, n)) /\ n = now + 1 /\ now' = n /\ posts[t] # None
         /\ posts' = [posts EXCEPT ![t] = n] /\ UNCHANGED <<reacted, mark>>
<1>1. /\ t \in Posted /\ Tell(Ev("changed", t, now')) /\ n = now + 1 /\ now' = now + 1
      /\ posts' = [posts EXCEPT ![t] = now'] /\ UNCHANGED <<reacted, mark>>
  BY Zenon DEF UserEdits, Edits
<1>2. Tell(Change(t, n)) /\ now' = n /\ posts' = [posts EXCEPT ![t] = n]
  BY <1>1 DEF Change
<1>3. UNCHANGED queue
  BY UsersKeep
<1>4. Change(t, n) \in Event /\ Change(t, n).type # "resync"
  BY EventParts
<1>5. Spread(Change(t, n))
  BY <1>2, <1>3, <1>4, TellFlow DEF Kept, Typed
<1> QED
  BY <1>1, <1>2, <1>5 DEF Posted

(* What it tells of a deletion.                                             *)
LEMMA DeleteSpreads ==
  ASSUME Kept, ByUsers, NEW t \in Times, UserDeletes(t)
  PROVE  /\ Spread(Deletion(t)) /\ posts[t] # None /\ UNCHANGED <<now, mark>>
         /\ posts' = [posts EXCEPT ![t] = None] /\ reacted' = reacted \ {t}
<1>1. /\ t \in Posted /\ Tell(Deletion(t)) /\ UNCHANGED <<now, mark>>
      /\ posts' = [posts EXCEPT ![t] = None] /\ reacted' = reacted \ {t}
  BY Zenon DEF UserDeletes, Deletes, Deletion
<1>2. UNCHANGED queue
  BY UsersKeep
<1>3. Deletion(t) \in Event /\ Deletion(t).type # "resync"
  BY EventParts
<1> QED
  BY <1>1, <1>2, <1>3, TellFlow DEF Kept, Typed, Posted

(* What it tells of a reaction.                                             *)
LEMMA ReactSpreads ==
  ASSUME Kept, ByUsers, NEW t \in Times, UserReacts(t)
  PROVE  /\ Spread(Ev("reacted", t, 0)) /\ posts[t] # None /\ t \notin reacted
         /\ reacted' = reacted \cup {t} /\ UNCHANGED <<now, posts, mark>>
<1>1. /\ t \in Posted /\ t \notin reacted /\ Tell(Ev("reacted", t, 0))
      /\ reacted' = reacted \cup {t} /\ UNCHANGED <<now, posts, mark>>
  BY Zenon DEF UserReacts, Reacts
<1>2. UNCHANGED queue
  BY UsersKeep
<1>3. Ev("reacted", t, 0) \in Event /\ Ev("reacted", t, 0).type # "resync"
  BY EventParts
<1> QED
  BY <1>1, <1>2, <1>3, TellFlow DEF Kept, Typed, Posted

(* What it tells of a reaction that is removed.                             *)
LEMMA UnreactSpreads ==
  ASSUME Kept, ByUsers, NEW t \in Times, UserUnreacts(t)
  PROVE  /\ Spread(Ev("unreacted", t, 0)) /\ t \in reacted
         /\ reacted' = reacted \ {t} /\ UNCHANGED <<now, posts, mark>>
<1>1. /\ t \in reacted /\ Tell(Ev("unreacted", t, 0))
      /\ reacted' = reacted \ {t} /\ UNCHANGED <<now, posts, mark>>
  BY Zenon DEF UserUnreacts, Unreacts
<1>2. UNCHANGED queue
  BY UsersKeep
<1>3. Ev("unreacted", t, 0) \in Event /\ Ev("unreacted", t, 0).type # "resync"
  BY EventParts
<1> QED
  BY <1>1, <1>2, <1>3, TellFlow DEF Kept, Typed

(* What it tells of the read mark.                                          *)
LEMMA MarkSpreads ==
  ASSUME Kept, ByUsers, NEW t \in Stamps, UserMarks(t)
  PROVE  /\ Spread(Ev("marked", t, 0)) /\ Ev("marked", t, 0) \in Event
         /\ Ev("marked", t, 0).ts = t /\ Ev("marked", t, 0).type = "marked"
         /\ mark' = t /\ UNCHANGED <<now, posts, reacted>>
<1>1. Tell(Ev("marked", t, 0)) /\ mark' = t /\ UNCHANGED <<now, posts, reacted>>
  BY Zenon DEF UserMarks, Marks
<1>2. UNCHANGED queue
  BY UsersKeep
<1>3. /\ Ev("marked", t, 0) \in Event /\ Ev("marked", t, 0).ts = t
      /\ Ev("marked", t, 0).type = "marked"
  BY MarkType DEF Ev
<1>4. Spread(Ev("marked", t, 0))
  BY <1>1, <1>2, <1>3, TellFlow DEF Kept, Typed
<1> QED
  BY <1>1, <1>3, <1>4

-----------------------------------------------------------------------------
(* A page is marked as read only if the user had read it. *)

(* Unless marks were taken back, the bridge knows of none that is ahead.    *)
ReadTrue ==
  /\ ~regressed =>
       /\ cache <= mark /\ (sync # None => sync.read <= mark)
       /\ \A e \in ToSet(stream) : e.type = "marked" => e.ts <= mark
  /\ ~misread

(* The stamps that are compared are numbers.                                *)
LEMMA ReadTypes ==
  ASSUME Kept
  PROVE  /\ cache \in Nat /\ mark \in Nat /\ (sync # None => sync \in Sync /\ sync.read \in Nat)
         /\ ToSet(stream) \subseteq Event /\ \A e \in ToSet(stream) : e.ts \in Nat
         /\ regressed \in BOOLEAN /\ misread \in BOOLEAN
<1> USE DEF Kept, Typed
<1>1. cache \in Nat /\ mark \in Nat /\ (sync # None => sync \in Sync /\ sync.read \in Nat)
  BY TimesAreStamps DEF Slacky, Streams, Sync
<1>2. ToSet(stream) \subseteq Event /\ \A e \in ToSet(stream) : e.ts \in Nat
  <2>1. ToSet(stream) \subseteq Event
    BY Waiting
  <2> QED
    BY <2>1, EventFields, TimesAreStamps
<1> QED
  BY Zenon, <1>1, <1>2 DEF Flags

(* Users only set the mark forward, unless they are known not to.           *)
LEMMA ReadTrueUsers == ASSUME Kept, ReadTrue, ByUsers PROVE ReadTrue'
<1>1. UNCHANGED <<sync, cache, misread>>
  BY UsersKeep
<1>2. ASSUME NEW x, Spread(x), x.type # "marked", UNCHANGED <<mark, regressed>> PROVE ReadTrue'
  BY <1>1, <1>2 DEF ReadTrue, Spread
<1>3. ASSUME NEW t \in Stamps, UserMarks(t) PROVE ReadTrue'
  <2>1. /\ Spread(Ev("marked", t, 0)) /\ Ev("marked", t, 0).ts = t /\ mark' = t
        /\ (~regressed' => ~regressed /\ ~(t < mark))
    BY Zenon, <1>3, MarkSpreads DEF UserMarks
  <2>2. ASSUME ~regressed' PROVE ~regressed /\ mark <= t
    BY <2>1, <2>2, ReadTypes, TimesAreStamps
  <2>3. ASSUME ~regressed', NEW e \in ToSet(stream)', e.type = "marked" PROVE e.ts <= t
    BY <2>1, <2>2, <2>3, ReadTypes, TimesAreStamps DEF ReadTrue, Spread
  <2> QED
    BY <1>1, <2>1, <2>2, <2>3, ReadTypes, TimesAreStamps DEF ReadTrue
<1>4. ASSUME NEW t \in Times, UserPosts(t) PROVE ReadTrue'
  BY <1>2, <1>4, PostSpreads, EventParts DEF UserPosts
<1>5. ASSUME NEW t \in Times, NEW n \in Times, UserEdits(t, n) PROVE ReadTrue'
  BY <1>2, <1>5, EditSpreads, EventParts DEF UserEdits
<1>6. ASSUME NEW t \in Times, UserDeletes(t) PROVE ReadTrue'
  BY <1>2, <1>6, DeleteSpreads, EventParts DEF UserDeletes
<1>7. ASSUME NEW t \in Times, UserReacts(t) PROVE ReadTrue'
  BY <1>2, <1>7, ReactSpreads, EventParts DEF UserReacts
<1>8. ASSUME NEW t \in Times, UserUnreacts(t) PROVE ReadTrue'
  BY <1>2, <1>8, UnreactSpreads, EventParts DEF UserUnreacts
<1> QED
  BY Zenon, <1>3, <1>4, <1>5, <1>6, <1>7, <1>8, UsersDo

(* The cache gets what was a mark before.                                   *)
LEMMA ReadTrueAround == ASSUME Kept, ReadTrue, Around PROVE ReadTrue'
<1> USE ReadTypes
<1>1. UNCHANGED <<mark, regressed, misread>>
  BY AroundKeeps
<1>2. ASSUME UNCHANGED <<stream, sync, cache>> PROVE ReadTrue'
  BY <1>1, <1>2 DEF ReadTrue
<1>3. CASE Lose \/ Online
  BY SMT, <1>2, <1>3 DEF Lose, Online
<1>4. CASE Start
  <2>1. UNCHANGED <<stream, cache>> /\ sync' = [step |-> "counts", latest |-> 0, read |-> 0]
    BY SMT, <1>4 DEF Start
  <2> QED
    BY <1>1, <2>1 DEF ReadTrue
<1>5. CASE CountsFail
  <2>1. /\ UNCHANGED <<stream, cache>> /\ sync # None /\ sync' = [sync EXCEPT !.step = "queue"]
    BY SMT, <1>5 DEF CountsFail, KeepSync, Syncing
  <2>2. sync'.read = sync.read
    BY <2>1 DEF Sync
  <2> QED
    BY <1>1, <2>1, <2>2 DEF ReadTrue
<1>6. CASE Counts
  <2>1. /\ UNCHANGED <<stream, cache>>
        /\ sync' = [step |-> "install", latest |-> Latest(Posted), read |-> mark]
    BY SMT, <1>6 DEF Counts, KeepSync
  <2> QED
    BY <1>1, <2>1 DEF ReadTrue
<1>7. CASE Install
  <2>1. /\ UNCHANGED stream /\ cache' = sync.read /\ sync # None
        /\ sync' = [sync EXCEPT !.step = "queue"]
    BY SMT, <1>7 DEF Install, KeepSync, Syncing
  <2>2. sync'.read = sync.read
    BY <2>1 DEF Sync
  <2> QED
    BY <1>1, <2>1, <2>2 DEF ReadTrue
<1>8. CASE QueueResync
  <2>1. UNCHANGED <<stream, cache>> /\ sync' = None
    BY SMT, <1>8 DEF QueueResync, KeepSync
  <2> QED
    BY <1>1, <2>1 DEF ReadTrue
<1>9. CASE Receive
  <2>1. /\ UNCHANGED sync /\ stream # <<>> /\ stream' = Tail(stream)
        /\ cache' = cache \/ (Head(stream).type = "marked" /\ cache' = Head(stream).ts)
    BY SMT, <1>9 DEF Receive
  <2>2. ToSet(stream) = {Head(stream)} \cup ToSet(stream)'
    BY <2>1, TailSet DEF Kept, Typed, Streams
  <2>3. ~regressed => cache' <= mark
    BY <2>1, <2>2 DEF ReadTrue
  <2> QED
    BY <1>1, <2>1, <2>2, <2>3 DEF ReadTrue
<1>10. CASE UNCHANGED vars
  BY <1>2, <1>10 DEF vars, bridge
<1>11. CASE SyncSkips
  <2>1. UNCHANGED <<stream, cache>> /\ sync' = None
    BY SMT, <1>11 DEF SyncSkips
  <2> QED
    BY <1>1, <2>1 DEF ReadTrue
<1> QED
  BY Zenon, <1>3, <1>4, <1>5, <1>6, <1>7, <1>8, <1>9, <1>10, <1>11 DEF Around

(* ReadTrue is inductive: a page is compared with the cache.                *)
LEMMA ReadTrueKept == ASSUME Kept, ReadTrue, [Next]_vars PROVE ReadTrue'
<1>1. ASSUME UNCHANGED <<stream, sync, cache, mark, regressed, misread>> PROVE ReadTrue'
  BY <1>1 DEF ReadTrue
<1>2. CASE Takes
  BY <1>1, <1>2, TakesKeep
<1>3. CASE Crash
  BY <1>3, CrashDoes, ReadTypes DEF ReadTrue
<1>4. CASE FetchMessages
  <2>1. UNCHANGED <<stream, sync, cache, mark, regressed>>
    BY Zenon, <1>4, WorkKeeps DEF Works
  <2>2. misread' = (misread \/ (MarkRead(Page) /\ mark < Max(Page) /\ ~regressed))
    BY Zenon, <1>4 DEF FetchMessages
  <2>3. ASSUME MarkRead(Page) PROVE Max(Page) \in Nat /\ Max(Page) <= cache
    <3>1. Page # {} /\ Page \in SUBSET Times /\ cache >= Max(Page)
      BY <2>3, PageTimes DEF MarkRead
    <3>2. Max(Page) \in Times
      BY <3>1, MaxExists
    <3> QED
      BY <3>1, <3>2, ReadTypes, TimesAreStamps
  <2>4. ~misread'
    <3>1. ASSUME MarkRead(Page), ~regressed PROVE ~(mark < Max(Page))
      BY <2>3, <3>1, ReadTypes DEF ReadTrue
    <3> QED
      BY Zenon, <2>2, <3>1 DEF ReadTrue
  <2> QED
    BY <2>1, <2>4 DEF ReadTrue
<1>5. CASE Works /\ UNCHANGED misread
  BY <1>1, <1>5, WorkKeeps
<1>6. ASSUME Works, ~FetchMessages PROVE UNCHANGED misread
  <2>1. CASE FetchFails
    BY <2>1, FetchFailsDoes
  <2>2. CASE Send
    BY <2>2, SendDoes
  <2>3. CASE Save
    BY <2>3, SaveDoes
  <2>4. CASE MirrorWrite
    BY <2>4, MirrorWriteDoes
  <2>5. ASSUME NEW t \in Times, MirrorRead(t) PROVE UNCHANGED misread
    BY <2>5, MirrorReadDoes
  <2> QED
    BY Zenon, <1>6, <2>1, <2>2, <2>3, <2>4, <2>5 DEF Works
<1>7. CASE Refused
  BY <1>1, <1>7, RefusedKeeps
<1> QED
  BY Zenon, <1>2, <1>3, <1>4, <1>5, <1>6, <1>7, StepKinds, ReadTrueUsers, ReadTrueAround

(* The bridge marks a backfilled page as read only if the user had read all *)
(* of it in Slack, or had taken marks back (FetchMessages, lastReadCache).  *)
THEOREM ReadsAreTrue == Spec => []MarkReadIsTrue
<1>1. ASSUME Init PROVE Kept /\ ReadTrue
  <2>1. cache = 0 /\ mark = 0 /\ sync = None /\ stream = <<>> /\ misread = FALSE
    BY Zenon, <1>1 DEF Init
  <2> QED
    BY <1>1, <2>1, KeptInit, EmptySet DEF ReadTrue
<1>2. ASSUME Kept, ReadTrue, [Next]_vars PROVE Kept' /\ ReadTrue'
  BY <1>2, KeptNext, ReadTrueKept
<1>3. ReadTrue => MarkReadIsTrue
  BY DEF ReadTrue, MarkReadIsTrue
<1> QED
  BY <1>1, <1>2, <1>3, PTL DEF Spec

-----------------------------------------------------------------------------
(* Nothing is known of what is still to be sent. *)

(* What the events, the counts and the mirror speak of was sent before.     *)
Earlier ==
  /\ \A e \in Events : e.ts <= now
  /\ sync # None => sync.latest <= now
  /\ mirror # None => mirror.ts <= now

(* No message, row, job or event is of a time that has not come.            *)
Past ==
  /\ \A t \in Times :
       t > now => posts[t] = None /\ rows[t] = None /\ ~Shows(t) /\ t \notin pending
  /\ Earlier

(* What is told to be deleted is, and reactions are on what is there.       *)
Gone ==
  /\ \A t \in Times : Deletion(t) \in Events => posts[t] = None
  /\ reacted \subseteq Posted

(* Stamps are numbers.                                                      *)
LEMMA StampTypes ==
  ASSUME Kept
  PROVE  /\ now \in Nat /\ \A t \in Times : t \in Nat
         /\ Events \subseteq Event /\ \A e \in Events : e.ts \in Nat
         /\ (sync # None => sync \in Sync /\ sync.latest \in Nat)
         /\ posts \in [Times -> Stamps \cup {None}] /\ rows \in [Times -> Row \cup {None}]
         /\ reacted \in SUBSET Times /\ (mirror # None => mirror.ts \in Nat)
<1> USE DEF Kept, Typed
<1>1. Events \subseteq Event
  BY EventsType
<1>2. \A e \in Events : e.ts \in Nat
  BY <1>1, EventFields, TimesAreStamps
<1>3. /\ now \in Nat /\ (sync # None => sync \in Sync /\ sync.latest \in Nat)
      /\ (mirror # None => mirror.ts \in Nat)
  BY TimesAreStamps DEF Slacky, Streams, Sync, Stored, Mirrored
<1> QED
  BY <1>1, <1>2, <1>3, TimesAreStamps DEF Slacky, Stored

(* The last of the messages that are there was sent before now.             *)
LEMMA LatestIsPast == ASSUME Kept, Past PROVE Latest(Posted) <= now /\ Latest(Bridged) <= now
<1>1. ASSUME NEW S \in SUBSET Times, \A t \in S : ~(t > now) PROVE Latest(S) <= now
  <2>1. CASE S = {}
    BY <2>1, StampTypes DEF Latest
  <2>2. CASE S # {}
    <3>1. Max(S) \in S /\ Latest(S) = Max(S)
      BY <2>2, MaxExists DEF Latest
    <3> QED
      BY <1>1, <3>1, StampTypes
  <2> QED
    BY <2>1, <2>2
<1>2. \A t \in Posted \cup Bridged : ~(t > now)
  BY DEF Posted, Bridged, Past
<1> QED
  BY <1>1, <1>2, PageTimes

(* Users post, edit and tell of what is now.                                *)
LEMMA PastUsers == ASSUME Kept, Past, Gone, ByUsers PROVE Past'
<1> USE StampTypes
<1>1. UNCHANGED <<sync, mirror>>
  BY UsersKeep
<1>2. ASSUME NEW x \in Event, Spread(x), x.ts <= now', now <= now', now' \in Nat
      PROVE  Earlier'
  BY <1>1, <1>2 DEF Past, Earlier, Spread
<1>3. ASSUME NEW t \in Times, UserPosts(t) PROVE Past'
  <2>1. /\ Spread(Posting(t)) /\ t = now + 1 /\ now' = t
        /\ posts' = [posts EXCEPT ![t] = 0]
    BY <1>3, PostSpreads
  <2>2. Earlier'
    BY <1>2, <2>1, EventParts
  <2>3. ASSUME NEW o \in Times, o > now'
        PROVE  /\ posts'[o] = None /\ rows'[o] = None /\ ~Shows(o)' /\ o \notin pending'
    <3>1. o > now /\ o # t
      BY <2>1, <2>3
    <3>2. posts'[o] = None /\ rows'[o] = None /\ o \notin pending'
      BY <1>3, <2>1, <3>1 DEF Past, Earlier, UserPosts
    <3>3. CASE UNCHANGED job
      BY <3>1, <3>2, <3>3 DEF Past, Earlier, Shows
    <3>4. CASE Tasked("post", "save", Only(t, 0), NewRow)'
      BY <3>1, <3>2, <3>4, OnlyAt DEF Tasked, Shows
    <3> QED
      BY Zenon, <1>3, <3>2, <3>3, <3>4 DEF UserPosts
  <2> QED
    BY <2>2, <2>3 DEF Past, Earlier
<1>4. ASSUME NEW t \in Times, NEW n \in Times, UserEdits(t, n) PROVE Past'
  <2>1. /\ Spread(Change(t, n)) /\ n = now + 1 /\ now' = n /\ posts[t] # None
        /\ posts' = [posts EXCEPT ![t] = n]
    BY <1>4, EditSpreads
  <2>2. ~(t > now)
    BY <2>1 DEF Past, Earlier
  <2>3. Earlier'
    BY <1>2, <2>1, <2>2, EventParts
  <2>4. ASSUME NEW o \in Times, o > now'
        PROVE  /\ posts'[o] = None /\ rows'[o] = None /\ ~Shows(o)' /\ o \notin pending'
    <3>1. o > now /\ o # t
      BY <2>1, <2>2, <2>4
    <3>2. posts'[o] = None /\ rows'[o] = None /\ o \notin pending'
      BY <1>4, <2>1, <3>1 DEF Past, Earlier, UserEdits
    <3>3. CASE UNCHANGED job
      BY <3>1, <3>2, <3>3 DEF Past, Earlier, Shows
    <3>4. ASSUME NEW row, Tasked("update", "save", Only(t, n), row)' PROVE ~Shows(o)'
      BY <3>1, <3>4, OnlyAt DEF Tasked, Shows
    <3> QED
      BY Zenon, <1>4, <3>2, <3>3, <3>4 DEF UserEdits
  <2> QED
    BY <2>3, <2>4 DEF Past, Earlier
<1>5. ASSUME NEW t \in Times, UserDeletes(t) PROVE Past'
  <2>1. Spread(Deletion(t)) /\ posts[t] # None /\ now' = now /\ posts' = [posts EXCEPT ![t] = None]
    BY <1>5, DeleteSpreads
  <2>2. ~(t > now)
    BY <2>1 DEF Past, Earlier
  <2>3. Earlier'
    BY <1>2, <2>1, <2>2, EventParts
  <2> QED
    BY <1>5, <2>1, <2>3 DEF UserDeletes, Past, Earlier, Shows
<1>6. ASSUME NEW t \in Times, posts[t] # None, NEW x \in Event, x.ts = t, Spread(x),
             UNCHANGED <<now, posts, rows, job, pending>>
      PROVE  Past'
  <2>1. ~(t > now)
    BY <1>6 DEF Past, Earlier
  <2>2. Earlier'
    BY <1>2, <1>6, <2>1
  <2> QED
    BY <1>6, <2>2 DEF Past, Earlier, Shows
<1>7. ASSUME NEW t \in Times, UserReacts(t) PROVE Past'
  BY <1>6, <1>7, ReactSpreads, EventParts DEF UserReacts
<1>8. ASSUME NEW t \in Times, UserUnreacts(t) PROVE Past'
  <2>1. posts[t] # None
    BY <1>8, UnreactSpreads DEF Gone, Posted
  <2> QED
    BY <1>6, <1>8, <2>1, UnreactSpreads, EventParts DEF UserUnreacts
<1>9. ASSUME NEW t \in Stamps, UserMarks(t) PROVE Past'
  <2>1. /\ Spread(Ev("marked", t, 0)) /\ Ev("marked", t, 0) \in Event
        /\ Ev("marked", t, 0).ts = t /\ UNCHANGED <<now, posts>>
    BY <1>9, MarkSpreads
  <2>2. t <= now
    BY <1>9 DEF UserMarks, Past, Earlier, Bridged
  <2>3. Earlier'
    BY <1>2, <2>1, <2>2
  <2> QED
    BY <1>9, <2>1, <2>3 DEF UserMarks, Past, Earlier, Shows
<1> QED
  BY Zenon, <1>3, <1>4, <1>5, <1>7, <1>8, <1>9, UsersDo

(* The counts are of what was sent.                                         *)
LEMMA PastAround == ASSUME Kept, Past, Around PROVE Past'
<1> USE StampTypes
<1>1. UNCHANGED <<now, posts, rows, job, pending, mirror>>
  BY AroundKeeps
<1>3. \A e \in Events' : e.ts <= now
  <2>1. \A e \in Events' : e \in Events \/ (sync # None /\ e.ts = sync.latest)
    BY CalmFlow
  <2> QED
    BY <2>1 DEF Past, Earlier
<1>4. sync' # None => sync'.latest <= now
  <2>1. ASSUME UNCHANGED sync PROVE sync' # None => sync'.latest <= now
    BY <2>1 DEF Past, Earlier
  <2>2. CASE Lose \/ Online \/ Receive
    BY SMT, <2>1, <2>2 DEF Lose, Online, Receive
  <2>3. CASE Start
    <3>1. sync' = [step |-> "counts", latest |-> 0, read |-> 0]
      BY Zenon, <2>3 DEF Start
    <3> QED
      BY <3>1
  <2>4. ASSUME sync # None, sync' = [sync EXCEPT !.step = "queue"]
        PROVE  sync' # None => sync'.latest <= now
    BY <2>4 DEF Past, Earlier, Sync
  <2>5. CASE CountsFail \/ Install
    BY <2>4, <2>5 DEF CountsFail, Install, Syncing
  <2>6. CASE Counts
    <3>1. sync' = [step |-> "install", latest |-> Latest(Posted), read |-> mark]
      BY Zenon, <2>6 DEF Counts
    <3> QED
      BY <3>1, LatestIsPast
  <2>7. CASE QueueResync \/ SyncSkips
    BY Zenon, <2>7 DEF QueueResync, SyncSkips
  <2>8. CASE UNCHANGED vars
    BY <2>1, <2>8 DEF vars, bridge
  <2> QED
    BY Zenon, <2>2, <2>3, <2>5, <2>6, <2>7, <2>8 DEF Around
<1> QED
  BY <1>1, <1>3, <1>4 DEF Past, Earlier, Shows

(* The portal takes what was told of before.                                *)
LEMMA PastTakes == ASSUME Kept, Past, Takes PROVE Past'
<1> USE StampTypes
<1>1. /\ UNCHANGED <<now, posts, stream, sync, mirror>> /\ queue # <<>> /\ queue' = Tail(queue)
      /\ Head(queue) \in Event /\ job = None
  BY TakesKeep
<1>2. Events = {Head(queue)} \cup Events'
  BY <1>1, TakenFlow DEF Kept, Typed
<1>3. Earlier'
  BY <1>1, <1>2 DEF Past, Earlier
<1>4. ASSUME NEW t \in Times, t <= now, pending' \subseteq pending,
             \A o \in Times \ {t} : /\ rows[o] = None => rows'[o] = None
                                    /\ ~Shows(o)'
      PROVE  Past'
  BY <1>1, <1>3, <1>4 DEF Past, Earlier
<1>5. ASSUME pending' \subseteq pending,
             \A o \in Times : (rows[o] = None => rows'[o] = None) /\ ~Shows(o)'
      PROVE  Past'
  BY <1>1, <1>3, <1>5 DEF Past, Earlier
<1>6. \A t \in Times : Head(queue).ts = t => t <= now
  BY <1>2 DEF Past, Earlier
<1>7. CASE TakeMessage
  <2>1. PICK t \in Times :
           /\ Head(queue) = Posting(t)
           /\ \/ UNCHANGED <<job, pending, rows>>
              \/ /\ UNCHANGED job
                 /\ rows' = [rows EXCEPT ![t] = NewRow] /\ pending' = pending \ {t}
              \/ /\ UNCHANGED <<pending, rows>>
                 /\ Tasked("message", "send", Only(t, 0), NewRow)'
    BY <1>7, TakeMessageDoes
  <2>2. t <= now
    BY <1>6, <2>1, EventParts
  <2>3. CASE UNCHANGED <<job, pending, rows>>
    BY <1>1, <1>5, <2>3 DEF Shows
  <2>4. CASE /\ UNCHANGED job
             /\ rows' = [rows EXCEPT ![t] = NewRow] /\ pending' = pending \ {t}
    BY <1>1, <1>4, <2>2, <2>4 DEF Shows
  <2>5. CASE UNCHANGED <<pending, rows>> /\ Tasked("message", "send", Only(t, 0), NewRow)'
    BY <1>4, <2>2, <2>5, OnlyAt DEF Shows, Tasked
  <2> QED
    BY Zenon, <2>1, <2>3, <2>4, <2>5
<1>8. CASE TakeEdit
  <2>1. PICK t \in Times, n \in Times :
           /\ Head(queue) = Change(t, n) /\ UNCHANGED <<pending, rows>>
           /\ UNCHANGED job \/ \E row \in Row : Tasked("edit", "send", Only(t, n), row)'
    BY <1>8, TakeEditDoes
  <2>2. t <= now
    BY <1>6, <2>1, EventParts
  <2>3. CASE UNCHANGED job
    BY <1>1, <1>5, <2>1, <2>3 DEF Shows
  <2>4. ASSUME NEW row \in Row, Tasked("edit", "send", Only(t, n), row)' PROVE Past'
    BY <1>4, <2>1, <2>2, <2>4, OnlyAt DEF Shows, Tasked
  <2> QED
    BY Zenon, <2>1, <2>3, <2>4
<1>9. CASE TakeDeletion
  <2>1. PICK t \in Times : UNCHANGED <<job, pending>> /\ rows' = [rows EXCEPT ![t] = None]
    BY <1>9, TakeDeletionDoes
  <2> QED
    BY <1>1, <1>5, <2>1 DEF Shows
<1>10. CASE TakeReaction
  <2>1. UNCHANGED <<job, pending, rows>>
    BY <1>10, TakeReactionDoes
  <2> QED
    BY <1>1, <1>5, <2>1 DEF Shows
<1>11. CASE TakeResync
  <2>1. UNCHANGED <<pending, rows>> /\ (job' = None \/ Tasked("fetch", "send", Nothing, NewRow)')
    BY <1>11, TakeResyncDoes
  <2>2. \A t \in Times : ~Shows(t)'
    BY <2>1 DEF Tasked, Shows, Nothing
  <2> QED
    BY <1>5, <2>1, <2>2
<1> QED
  BY Zenon, <1>7, <1>8, <1>9, <1>10, <1>11 DEF Takes

(* A page has what is there.                                                *)
LEMMA PastWork == ASSUME Kept, Past, Works PROVE Past'
<1> USE StampTypes
<1>1. UNCHANGED <<now, posts, stream, queue, sync, pending>>
  BY WorkKeeps
<1>2. UNCHANGED Events
  BY <1>1 DEF Events
<1>3. ASSUME \A t \in Times : /\ rows[t] = None /\ ~Shows(t) => rows'[t] = None
                              /\ Shows(t)' => Shows(t) \/ posts[t] # None,
             UNCHANGED mirror \/ mirror' = None \/ \E t \in Times : mirror'.ts = t /\ rows[t] # None
      PROVE  Past'
  BY <1>1, <1>2, <1>3 DEF Past, Earlier
<1>4. CASE FetchFails
  BY <1>3, <1>4, FetchFailsDoes DEF Shows
<1>5. CASE FetchMessages
  <2>1. /\ UNCHANGED <<rows, mirror>>
        /\ \/ job' = None
           \/ \E shows \in [Times -> Stamps \cup {None}] :
                 /\ \A t \in Times : shows[t] = IF t \in Page THEN posts[t] ELSE None
                 /\ Tasked("page", "send", shows, NewRow)'
    BY <1>5, FetchMessagesDoes
  <2>2. CASE job' = None
    BY <1>3, <2>1, <2>2 DEF Shows
  <2>3. ASSUME NEW shows \in [Times -> Stamps \cup {None}],
               \A t \in Times : shows[t] = IF t \in Page THEN posts[t] ELSE None,
               Tasked("page", "send", shows, NewRow)'
        PROVE  Past'
    BY <1>3, <2>1, <2>3 DEF Shows, Tasked
  <2> QED
    BY <2>1, <2>2, <2>3
<1>6. CASE Send
  BY <1>3, <1>6, SendDoes DEF Shows
<1>7. CASE Save
  BY <1>3, <1>7, SaveDoes DEF Shows
<1>8. CASE MirrorWrite
  BY <1>3, <1>8, MirrorWriteDoes DEF Shows
<1>9. ASSUME NEW t \in Times, MirrorRead(t) PROVE Past'
  BY <1>3, <1>9, MirrorReadDoes DEF Shows
<1> QED
  BY Zenon, <1>4, <1>5, <1>6, <1>7, <1>8, <1>9 DEF Works

(* Past holds after each step.                                              *)
LEMMA PastKept == ASSUME Kept, Past, Gone, [Next]_vars PROVE Past'
<1>1. CASE Crash
  BY <1>1, CrashDoes DEF Past, Earlier, Shows
<1>2. CASE Refused
  BY <1>2, RefusedKeeps DEF Past, Earlier, Shows, Events
<1> QED
  BY Zenon, <1>1, <1>2, StepKinds, PastUsers, PastAround, PastTakes, PastWork

(* Gone holds after each step: a message is not posted again.               *)
LEMMA GoneKept == ASSUME Kept, Past, Gone, [Next]_vars PROVE Gone'
<1> USE StampTypes
<1>1. ASSUME NEW t \in Times PROVE Deletion(t) \in Event /\ About(Deletion(t)) /\ Deletion(t).ts = t
  BY EventParts
<1>2. CASE Around \/ Works
  <2>1. UNCHANGED <<posts, reacted>>
    BY <1>2, AroundKeeps, WorkKeeps
  <2>2. \A t \in Times : Deletion(t) \in Events' => Deletion(t) \in Events
    BY <1>1, <1>2, CalmFlow
  <2> QED
    BY <2>1, <2>2 DEF Gone, Posted
<1>3. CASE Takes
  <2>1. /\ UNCHANGED <<posts, reacted, stream>> /\ queue # <<>> /\ queue' = Tail(queue)
    BY <1>3, TakesKeep
  <2>2. Events' \subseteq Events
    BY <2>1, TakenFlow DEF Kept, Typed
  <2> QED
    BY <2>1, <2>2 DEF Gone, Posted
<1>4. CASE Crash
  BY <1>4, CrashDoes DEF Gone, Posted
<1>5. ASSUME NEW x, Spread(x), \A t \in Times : x = Deletion(t) => posts'[t] = None,
             \A t \in Times : posts[t] = None /\ Deletion(t) \in Events => posts'[t] = None
      PROVE  \A t \in Times : Deletion(t) \in Events' => posts'[t] = None
  BY <1>5 DEF Gone, Spread
<1>6. CASE ByUsers
  <2>1. ASSUME NEW t \in Times, UserPosts(t) PROVE Gone'
    <3>1. /\ Spread(Posting(t)) /\ t = now + 1 /\ now' = t
          /\ posts' = [posts EXCEPT ![t] = 0] /\ UNCHANGED reacted
      BY <1>6, <2>1, PostSpreads
    <3>2. Deletion(t) \notin Events
      BY <1>1, <3>1 DEF Past, Earlier
    <3>3. \A o \in Times : Posting(t) # Deletion(o)
      BY EventParts
    <3>4. 0 # None
      BY NoneIsNothing
    <3>5. \A o \in Times : posts[o] = None /\ Deletion(o) \in Events => posts'[o] = None
      BY <3>1, <3>2
    <3> QED
      BY <1>5, <3>1, <3>3, <3>4, <3>5 DEF Gone, Posted
  <2>2. ASSUME NEW t \in Times, NEW n \in Times, UserEdits(t, n) PROVE Gone'
    <3>1. /\ Spread(Change(t, n)) /\ posts[t] # None /\ posts' = [posts EXCEPT ![t] = n]
          /\ UNCHANGED reacted
      BY <1>6, <2>2, EditSpreads
    <3>2. \A o \in Times : Change(t, n) # Deletion(o)
      BY EventParts
    <3>3. n # None
      BY NoneIsNothing
    <3> QED
      BY <1>5, <3>1, <3>2, <3>3 DEF Gone, Posted
  <2>3. ASSUME NEW t \in Times, UserDeletes(t) PROVE Gone'
    <3>1. /\ Spread(Deletion(t)) /\ posts' = [posts EXCEPT ![t] = None]
          /\ reacted' = reacted \ {t}
      BY <1>6, <2>3, DeleteSpreads
    <3>2. \A o \in Times : Deletion(t) = Deletion(o) => o = t
      BY <1>1
    <3> QED
      BY <1>5, <3>1, <3>2 DEF Gone, Posted
  <2>4. ASSUME NEW t \in Times, UserReacts(t) PROVE Gone'
    <3>1. /\ Spread(Ev("reacted", t, 0)) /\ posts[t] # None
          /\ reacted' = reacted \cup {t} /\ UNCHANGED posts
      BY <1>6, <2>4, ReactSpreads
    <3>2. \A o \in Times : Ev("reacted", t, 0) # Deletion(o)
      BY EventParts
    <3> QED
      BY <1>5, <3>1, <3>2 DEF Gone, Posted
  <2>5. ASSUME NEW t \in Times, UserUnreacts(t) PROVE Gone'
    <3>1. /\ Spread(Ev("unreacted", t, 0)) /\ reacted' = reacted \ {t} /\ UNCHANGED posts
      BY <1>6, <2>5, UnreactSpreads
    <3>2. \A o \in Times : Ev("unreacted", t, 0) # Deletion(o)
      BY EventParts
    <3> QED
      BY <1>5, <3>1, <3>2 DEF Gone, Posted
  <2>6. ASSUME NEW t \in Stamps, UserMarks(t) PROVE Gone'
    <3>1. /\ Spread(Ev("marked", t, 0)) /\ Ev("marked", t, 0).type = "marked"
          /\ UNCHANGED <<posts, reacted>>
      BY <1>6, <2>6, MarkSpreads
    <3>2. \A o \in Times : Ev("marked", t, 0) # Deletion(o)
      BY <3>1, EventParts
    <3> QED
      BY <1>5, <3>1, <3>2 DEF Gone, Posted
  <2> QED
    BY Zenon, <1>6, <2>1, <2>2, <2>3, <2>4, <2>5, <2>6, UsersDo
<1>7. CASE Refused
  BY <1>7, RefusedKeeps DEF Gone, Events, Posted
<1> QED
  BY Zenon, <1>2, <1>3, <1>4, <1>6, <1>7, StepKinds

-----------------------------------------------------------------------------
(* A message that is there is bridged, on its way, or excused. *)

(* A message comes with its event, a job, a sync or a fetch; or it was sent *)
(* while the connection was lost, and the loss is still to be noticed.      *)
Expected(t) ==
  \/ ~up \/ ToBeSynced \/ Shows(t) \/ Posting(t) \in Events
  \/ ~online /\ \A e \in Events : e.ts # t

(* All that is not bridged comes, unless it is excused.                     *)
Coming == \A t \in Posted \ (Bridged \cup excused \cup pending) : Expected(t)

(* A fetch is to find all that is missing.                                  *)
Fetching ==
  job # None /\ job.kind = "fetch" =>
    \A t \in Posted \ (Bridged \cup excused) : t > Latest(Bridged)

(* A resync waits when its event does.                                      *)
LEMMA ResyncWaits ==
  ASSUME NEW s \in Seq(Event)
  PROVE  (\E i \in DOMAIN s : s[i].type = "resync") <=> (\E e \in ToSet(s) : e.type = "resync")
BY TailAt DEF ToSet

(* What was expected is, when the events of messages and the portal's job   *)
(* are still there.                                                         *)
LEMMA StillExpected ==
  ASSUME Kept, Kept', NEW t \in Times, Expected(t), up' => up,
         ToBeSynced => ToBeSynced', Shows(t) => Shows(t)',
         Posting(t) \in Events => Posting(t) \in Events',
         ~online => ~online' /\ \A e \in Events' : e \in Events \/ e.ts # t
  PROVE  Expected(t)'
BY DEF Expected

(* A message that is posted comes with its event, or after a loss.          *)
LEMMA ComingUsers == ASSUME Kept, Past, Gone, Coming, ByUsers PROVE Coming'
<1> USE StampTypes
<1>1. UNCHANGED <<up, online, queue, sync, excused>>
  BY UsersKeep
<1>2. ASSUME NEW t \in Times, NEW x, Spread(x), Expected(t),
             UNCHANGED job \/ (job = None /\ job' # None)
      PROVE  Expected(t)'
  <2>1. ToBeSynced => ToBeSynced'
    BY <1>1, <1>2 DEF ToBeSynced
  <2>2. Shows(t) => Shows(t)'
    BY <1>2 DEF Shows
  <2> QED
    BY <1>1, <1>2, <2>1, <2>2 DEF Expected, Spread
<1>3. ASSUME NEW t \in Times, UserPosts(t) PROVE Coming'
  <2>1. /\ Spread(Posting(t)) /\ t = now + 1 /\ now' = t
        /\ posts' = [posts EXCEPT ![t] = 0]
    BY <1>3, PostSpreads
  <2>2. UNCHANGED job \/ (job = None /\ job' # None)
    BY <1>3 DEF UserPosts, Tasked
  <2>3. UNCHANGED rows /\ pending \subseteq pending'
    BY <1>3 DEF UserPosts
  <2>4. ASSUME NEW o \in Posted' \ (Bridged' \cup excused' \cup pending'), o # t
        PROVE  Expected(o)'
    <3>1. o \in Posted \ (Bridged \cup excused \cup pending)
      BY <1>1, <2>1, <2>3, <2>4 DEF Posted, Bridged
    <3>2. o \in Times /\ Expected(o)
      BY <3>1 DEF Coming, Posted
    <3> QED
      BY <1>2, <2>1, <2>2, <3>2
  <2>5. Expected(t)'
    <3>1. \A e \in Events : e.ts # t
      BY <2>1 DEF Past, Earlier
    <3>2. CASE online
      BY <2>1, <3>2 DEF Expected, Spread
    <3>3. CASE ~online
      BY <1>1, <2>1, <3>1, <3>3 DEF Expected, Spread
    <3> QED
      BY <3>2, <3>3
  <2> QED
    BY <2>4, <2>5 DEF Coming
<1>4. ASSUME NEW t \in Times, NEW x, Spread(x), UNCHANGED job \/ (job = None /\ job' # None),
             UNCHANGED pending,
             \A o \in Times : posts'[o] # None => posts[o] # None /\ rows'[o] = rows[o]
      PROVE  Coming'
  <2>1. ASSUME NEW o \in Posted' \ (Bridged' \cup excused' \cup pending')
        PROVE  Expected(o)'
    <3>1. o \in Posted \ (Bridged \cup excused \cup pending)
      BY <1>1, <1>4, <2>1 DEF Posted, Bridged
    <3>2. o \in Times /\ Expected(o)
      BY <3>1 DEF Coming, Posted
    <3> QED
      BY <1>2, <1>4, <3>2
  <2> QED
    BY <2>1 DEF Coming
<1>5. ASSUME NEW t \in Times, NEW n \in Times, UserEdits(t, n) PROVE Coming'
  <2>1. /\ Spread(Change(t, n)) /\ posts[t] # None /\ posts' = [posts EXCEPT ![t] = n]
    BY <1>5, EditSpreads
  <2>2. UNCHANGED job \/ (job = None /\ job' # None)
    BY <1>5 DEF UserEdits, Tasked
  <2>3. UNCHANGED <<pending, rows>>
    BY <1>5 DEF UserEdits
  <2> QED
    BY <1>4, <2>1, <2>2, <2>3
<1>6. ASSUME NEW t \in Times, UserDeletes(t) PROVE Coming'
  <2>1. Spread(Deletion(t)) /\ posts' = [posts EXCEPT ![t] = None]
    BY <1>6, DeleteSpreads
  <2>2. UNCHANGED <<job, pending>> /\ (UNCHANGED rows \/ rows' = [rows EXCEPT ![t] = None])
    BY <1>6 DEF UserDeletes
  <2> QED
    BY <1>4, <2>1, <2>2
<1>7. ASSUME NEW t \in Times, UserReacts(t) PROVE Coming'
  BY <1>4, <1>7, ReactSpreads DEF UserReacts
<1>8. ASSUME NEW t \in Times, UserUnreacts(t) PROVE Coming'
  BY <1>4, <1>8, UnreactSpreads DEF UserUnreacts
<1>9. ASSUME NEW t \in Stamps, UserMarks(t) PROVE Coming'
  <2>1. Spread(Ev("marked", t, 0)) /\ UNCHANGED <<posts, rows, job, pending>>
    BY <1>9, MarkSpreads DEF UserMarks
  <2>2. 1 \in Times
    BY Bounds DEF Times
  <2> QED
    BY <1>4, <2>1, <2>2
<1> QED
  BY Zenon, <1>3, <1>5, <1>6, <1>7, <1>8, <1>9, UsersDo

(* The connection comes back with excuses, the sync with its resync.        *)
LEMMA ComingAround == ASSUME Kept, Kept', Past, Coming, Around PROVE Coming'
<1> USE StampTypes
<1>1. UNCHANGED <<posts, rows, job, pending>>
  BY AroundKeeps
<1>2. \A t \in Times : (Posting(t) \in Events' <=> Posting(t) \in Events)
  BY CalmFlow, EventParts
<1>3. excused \subseteq excused'
  BY SMT DEF Around, Lose, Online, Start, CountsFail, Receive, Counts, Install, QueueResync,
             SyncSkips, KeepSync, history, vars
<1>4. CASE /\ up' => up
           /\ ToBeSynced => ToBeSynced'
           /\ ~online => ~online'
           /\ ToBeSynced' \/ Events' \subseteq Events
  <2>1. ASSUME NEW t \in Posted' \ (Bridged' \cup excused' \cup pending')
        PROVE  Expected(t)'
    <3>1. t \in Times /\ Expected(t)
      BY <1>1, <1>3, <2>1 DEF Coming, Posted, Bridged
    <3> QED
      BY <1>1, <1>2, <1>4, <3>1 DEF Expected, Shows
  <2> QED
    BY <2>1 DEF Coming
<1>5. ASSUME ToBeSynced' PROVE Coming'
  BY <1>5 DEF Coming, Expected
<1>6. ASSUME UNCHANGED up, up, excused' = excused \cup Unheard,
             ~ToBeSynced \/ sync' = None
      PROVE  Coming'
  <2>1. ASSUME NEW t \in Posted' \ (Bridged' \cup excused' \cup pending')
        PROVE  Expected(t)'
    <3>1. /\ t \in Posted \ Bridged /\ t \in Times /\ t \notin Unheard
      BY <1>1, <1>6, <2>1 DEF Posted, Bridged
    <3>2. CASE Shows(t)
      BY <1>1, <3>2 DEF Expected, Shows
    <3>3. CASE Posting(t) \in Events
      BY <1>2, <3>1, <3>3 DEF Expected
    <3>4. CASE ~Shows(t) /\ Posting(t) \notin Events
      <4>1. t \notin Announced
        <5>1. ASSUME NEW e \in ToSet(stream) \cup ToSet(queue), e.type = "message", e.ts = t
              PROVE  FALSE
          <6>1. e \in Events
            BY <5>1 DEF Events
          <6>2. e = Posting(t)
            BY <5>1, <6>1, EventNames
          <6> QED
            BY <3>4, <6>1, <6>2
        <5> QED
          BY <5>1 DEF Announced
      <4>2. t \notin IF job = None THEN {} ELSE {o \in Times : job.shows[o] # None}
        BY <3>4 DEF Shows
      <4> QED
        BY <3>1, <4>1, <4>2 DEF Unheard
    <3> QED
      BY <3>2, <3>3, <3>4
  <2> QED
    BY <2>1 DEF Coming
<1>7. CASE Lose \/ UNCHANGED vars
  <2>1. UNCHANGED <<queue, stream, sync>> /\ (up' => up) /\ (~online => ~online')
    BY SMT, <1>7 DEF Lose, vars, bridge
  <2>2. (ToBeSynced => ToBeSynced') /\ UNCHANGED Events
    BY <1>1, <2>1 DEF ToBeSynced, Events
  <2> QED
    BY <1>4, <2>1, <2>2
<1>8. CASE Online
  <2>1. /\ UNCHANGED <<queue, stream, sync, up>> /\ up
        /\ excused' = IF ToBeSynced THEN excused ELSE excused \cup Unheard
    BY SMT, <1>8 DEF Online
  <2>2. (ToBeSynced => ToBeSynced') /\ UNCHANGED Events
    BY <1>1, <2>1 DEF ToBeSynced, Events
  <2>3. CASE ToBeSynced
    BY <1>5, <2>2, <2>3
  <2>4. CASE ~ToBeSynced
    BY <1>6, <2>1, <2>4
  <2> QED
    BY <2>3, <2>4
<1>9. CASE Start
  <2>1. sync' # None
    <3>1. sync' = [step |-> "counts", latest |-> 0, read |-> 0]
      BY Zenon, <1>9 DEF Start
    <3>2. sync' \in Sync
      BY <3>1, TimesAreStamps DEF Sync
    <3> QED
      BY <3>2, NoneIsNothing
  <2> QED
    BY <1>5, <2>1 DEF ToBeSynced
<1>10. CASE CountsFail \/ Counts \/ Install
  <2>1. sync # None /\ sync \in Sync /\ Latest(Posted) \in Stamps /\ mark \in Stamps
    <3>1. sync # None
      BY <1>10 DEF CountsFail, Counts, Install, Syncing
    <3> QED
      BY <3>1, PageTimes, LatestIsMax DEF Kept, Typed, Slacky
  <2>2. \/ sync' = [sync EXCEPT !.step = "queue"]
        \/ sync' = [step |-> "install", latest |-> Latest(Posted), read |-> mark]
    BY Zenon, <1>10 DEF CountsFail, Counts, Install
  <2>3. sync' \in Sync
    BY <2>1, <2>2 DEF Sync
  <2> QED
    BY <1>5, <2>3, NoneIsNothing DEF ToBeSynced
<1>11. CASE QueueResync
  <2>1. queue' = Append(queue, Ev("resync", sync.latest, 0)) /\ sync # None
    BY Zenon, <1>11 DEF QueueResync, Syncing
  <2>2. sync.latest \in Stamps
    BY <2>1 DEF Sync
  <2>3. PICK x \in Event : x = Ev("resync", sync.latest, 0) /\ x.type = "resync"
    BY <2>2, MarkType DEF Ev
  <2>4. x \in ToSet(queue')
    BY <2>1, <2>3, AppendSet DEF Kept, Typed, Streams
  <2>5. queue' \in Seq(Event)
    BY DEF Kept, Typed, Streams
  <2> QED
    BY <1>5, <2>3, <2>4, <2>5, ResyncWaits DEF ToBeSynced
<1>12. CASE Receive
  <2>1. /\ UNCHANGED <<up, online, sync>> /\ stream # <<>> /\ stream' = Tail(stream)
        /\ \/ Head(stream).type = "marked" /\ queue' = queue
           \/ Head(stream).type # "marked" /\ queue' = Append(queue, Head(stream))
    BY SMT, <1>12 DEF Receive
  <2>2. Events' \subseteq Events
    BY <2>1, ReceivedFlow DEF Kept, Typed
  <2>3. ToSet(queue) \subseteq ToSet(queue')
    <3>1. queue \in Seq(Event) /\ Head(stream) \in Event
      BY <2>1, Heads DEF Kept, Typed, Streams
    <3> QED
      BY <2>1, <3>1, AppendSet
  <2>4. ToBeSynced => ToBeSynced'
    <3>1. queue \in Seq(Event) /\ queue' \in Seq(Event)
      BY DEF Kept, Typed, Streams
    <3>2. (\E i \in DOMAIN queue : queue[i].type = "resync") =>
            (\E i \in DOMAIN queue' : queue'[i].type = "resync")
      BY <2>3, <3>1, ResyncWaits
    <3> QED
      BY <1>1, <2>1, <3>2 DEF ToBeSynced
  <2> QED
    BY <1>4, <2>1, <2>2, <2>4
<1>13. CASE SyncSkips
  <2>1. UNCHANGED up /\ up /\ excused' = excused \cup Unheard /\ sync' = None
    BY SMT, <1>13 DEF SyncSkips, Syncing
  <2> QED
    BY <1>6, <2>1
<1> QED
  BY Zenon, <1>7, <1>8, <1>9, <1>10, <1>11, <1>12, <1>13 DEF Around

(* The portal makes a job, a fetch or a row of what it takes.               *)
LEMMA ComingTakes == ASSUME Kept, Kept', Gone, Coming, Takes PROVE Coming'
<1> USE StampTypes
<1>1. /\ UNCHANGED <<posts, up, online, stream, sync>> /\ queue # <<>> /\ queue' = Tail(queue)
      /\ job = None /\ Head(queue) \in Event
  BY TakesKeep
<1>2. Events = {Head(queue)} \cup Events'
  BY <1>1, TakenFlow DEF Kept, Typed
<1>3. excused \subseteq excused'
  BY TakeMessageDoes, TakeEditDoes, TakeDeletionDoes, TakeReactionDoes, TakeResyncDoes DEF Takes
<1>4. ASSUME Head(queue).type # "resync" PROVE ToBeSynced => ToBeSynced'
  <2>1. queue \in Seq(Event) /\ queue' \in Seq(Event)
    BY DEF Kept, Typed, Streams
  <2>2. ToSet(queue) = {Head(queue)} \cup ToSet(queue')
    BY <1>1, <2>1, TailSet
  <2>3. (\E i \in DOMAIN queue : queue[i].type = "resync") =>
          (\E i \in DOMAIN queue' : queue'[i].type = "resync")
    BY <1>4, <2>1, <2>2, ResyncWaits
  <2> QED
    BY <1>1, <2>3 DEF ToBeSynced
<1>5. ASSUME Head(queue).type # "resync", UNCHANGED pending,
             \A t \in Times : /\ posts[t] # None /\ rows'[t] = None => rows[t] = None
                              /\ rows'[t] = None /\ Head(queue) = Posting(t) => Shows(t)'
      PROVE  Coming'
  <2>1. ASSUME NEW t \in Posted' \ (Bridged' \cup excused' \cup pending')
        PROVE  Expected(t)'
    <3>1. t \in Times /\ rows'[t] = None /\ Expected(t)
      BY <1>1, <1>3, <1>5, <2>1 DEF Coming, Posted, Bridged
    <3> QED
      BY <1>1, <1>2, <1>4, <1>5, <3>1 DEF Expected, Shows
  <2> QED
    BY <2>1 DEF Coming
<1>6. CASE TakeMessage
  <2>1. PICK t \in Times :
           /\ Head(queue) = Posting(t)
           /\ \/ rows[t] # None /\ UNCHANGED <<job, pending, rows>>
              \/ /\ rows' = [rows EXCEPT ![t] = NewRow] /\ pending' = pending \ {t}
              \/ /\ rows[t] = None /\ UNCHANGED <<pending, rows>>
                 /\ Tasked("message", "send", Only(t, 0), NewRow)'
    BY <1>6, TakeMessageDoes
  <2>2. Head(queue).type # "resync" /\ \A o \in Times : Head(queue) = Posting(o) => o = t
    BY <2>1, EventParts
  <2>3. CASE rows[t] # None /\ UNCHANGED <<job, pending, rows>>
    BY <1>5, <2>2, <2>3
  <2>4. CASE rows' = [rows EXCEPT ![t] = NewRow] /\ pending' = pending \ {t}
    <3>1. ASSUME NEW o \in Posted' \ (Bridged' \cup excused' \cup pending')
          PROVE  Expected(o)'
      <4>1. NewRow # None
        BY RowTypes, NoneIsNothing
      <4>2. o \in Times /\ Expected(o) /\ o # t
        BY <1>1, <1>3, <2>4, <3>1, <4>1 DEF Coming, Posted, Bridged
      <4>3. Head(queue) # Posting(o)
        BY <2>2, <4>2
      <4> QED
        BY <1>1, <1>2, <1>4, <2>2, <4>2, <4>3 DEF Expected, Shows
    <3> QED
      BY <3>1 DEF Coming
  <2>5. CASE UNCHANGED <<pending, rows>> /\ Tasked("message", "send", Only(t, 0), NewRow)'
    <3>1. Shows(t)'
      BY <2>5, OnlyAt, NoneIsNothing DEF Tasked, Shows
    <3> QED
      BY <1>5, <2>2, <2>5, <3>1
  <2> QED
    BY Zenon, <2>1, <2>3, <2>4, <2>5
<1>7. CASE TakeEdit
  <2>1. /\ UNCHANGED <<pending, rows>>
        /\ \E t \in Times, n \in Times : Head(queue) = Change(t, n)
    BY <1>7, TakeEditDoes
  <2>2. Head(queue).type = "changed"
    BY <2>1, EventParts
  <2> QED
    BY <1>5, <2>1, <2>2, EventParts
<1>8. CASE TakeDeletion
  <2>1. PICK t \in Times : /\ Head(queue) = Deletion(t) /\ UNCHANGED <<job, pending>>
                           /\ rows' = [rows EXCEPT ![t] = None]
    BY <1>8, TakeDeletionDoes
  <2>2. posts[t] = None
    BY <1>2, <2>1 DEF Gone
  <2>3. Head(queue).type = "deleted"
    BY <2>1, EventParts
  <2> QED
    BY <1>5, <2>1, <2>2, <2>3, EventParts
<1>9. CASE TakeReaction
  <2>1. /\ UNCHANGED <<pending, rows>>
        /\ \E t \in Times : Head(queue) \in {Ev("reacted", t, 0), Ev("unreacted", t, 0)}
    BY <1>9, TakeReactionDoes
  <2>2. Head(queue).type \in {"reacted", "unreacted"}
    BY <2>1, EventParts
  <2> QED
    BY <1>5, <2>1, <2>2, EventParts
<1>10. CASE TakeResync
  <2>1. PICK n \in Stamps :
           /\ UNCHANGED <<pending, rows>>
           /\ Latest(Bridged) < n => Tasked("fetch", "send", Nothing, NewRow)'
           /\ excused' = excused \cup {t \in Posted \ Bridged : t < Latest(Bridged) \/ t > n}
    BY <1>10, TakeResyncDoes
  <2>2. Latest(Bridged) \in Nat
    BY PageTimes, LatestIsMax, TimesAreStamps
  <2>3. n \in Nat
    BY TimesAreStamps
  <2>4. ASSUME NEW t \in Posted' \ (Bridged' \cup excused' \cup pending')
        PROVE  Expected(t)'
    <3>1. /\ t \in Posted \ (Bridged \cup excused) /\ t \in Nat
          /\ ~(t < Latest(Bridged)) /\ ~(t > n)
      BY <1>1, <2>1, <2>4 DEF Posted, Bridged
    <3>2. t # Latest(Bridged)
      <4>1. Latest(Bridged) \in Bridged \cup {0}
        BY PageTimes, MaxExists DEF Latest
      <4> QED
        BY <3>1, <4>1, PageTimes, Bounds DEF Times
    <3>3. Latest(Bridged) < n
      BY <2>2, <2>3, <3>1, <3>2
    <3> QED
      BY <2>1, <3>3 DEF Tasked, Expected, ToBeSynced
  <2> QED
    BY <2>4 DEF Coming
<1> QED
  BY Zenon, <1>6, <1>7, <1>8, <1>9, <1>10 DEF Takes

(* Jobs end in rows, fetches in pages or excuses.                           *)
LEMMA ComingWork == ASSUME Kept, Coming, Fetching, Works PROVE Coming'
<1> USE StampTypes
<1>1. UNCHANGED <<posts, up, online, stream, queue, sync, pending>>
  BY WorkKeeps
<1>2. UNCHANGED Events
  BY <1>1 DEF Events
<1>3. ASSUME \A t \in Posted' \ (Bridged' \cup excused' \cup pending') :
               t \in Posted \ (Bridged \cup excused \cup pending),
             job # None /\ job.kind = "fetch" => job' # None /\ job'.kind = "fetch",
             \A t \in Times : Shows(t) => Shows(t)' \/ rows'[t] # None
      PROVE  Coming'
  <2>1. ASSUME NEW t \in Posted' \ (Bridged' \cup excused' \cup pending')
        PROVE  Expected(t)'
    <3>1. t \in Times /\ rows'[t] = None /\ Expected(t)
      BY <1>3, <2>1 DEF Coming, Posted, Bridged
    <3> QED
      BY <1>1, <1>2, <1>3, <3>1 DEF Expected, ToBeSynced
  <2> QED
    BY <2>1 DEF Coming
<1>4. CASE FetchFails
  <2>1. /\ job # None /\ job.kind = "fetch" /\ UNCHANGED rows /\ excused' = excused \cup Newer
    BY <1>4, FetchFailsDoes
  <2>2. Posted \ (Bridged \cup excused) \subseteq Newer
    BY <2>1 DEF Fetching, Newer
  <2> QED
    BY <1>1, <2>1, <2>2 DEF Coming, Posted, Bridged
<1>5. CASE FetchMessages
  <2>1. /\ job # None /\ job.kind = "fetch" /\ UNCHANGED rows
        /\ excused' = excused \cup (Newer \ Page)
        /\ \/ Page = {}
           \/ \E shows \in [Times -> Stamps \cup {None}] :
                 /\ \A t \in Times : shows[t] = IF t \in Page THEN posts[t] ELSE None
                 /\ Tasked("page", "send", shows, NewRow)'
    BY <1>5, FetchMessagesDoes
  <2>2. Posted \ (Bridged \cup excused) \subseteq Newer
    BY <2>1 DEF Fetching, Newer
  <2>3. Posted' \ (Bridged' \cup excused') \subseteq Page
    BY <1>1, <2>1, <2>2 DEF Posted, Bridged
  <2>4. ASSUME NEW t \in Posted' \ (Bridged' \cup excused' \cup pending')
        PROVE  Expected(t)'
    <3>1. t \in Times /\ t \in Page /\ posts[t] # None
      BY <1>1, <2>3, <2>4 DEF Posted
    <3>2. Shows(t)'
      BY <2>1, <3>1 DEF Tasked, Shows
    <3> QED
      BY <3>2 DEF Expected
  <2> QED
    BY <2>4 DEF Coming
<1>6. CASE Send
  <2>1. /\ UNCHANGED <<rows, excused>> /\ job # None /\ job.kind \in {"message", "edit", "page"}
        /\ job' # None /\ job'.shows = job.shows
    BY <1>6, SendDoes
  <2> QED
    BY <1>1, <1>3, <2>1 DEF Shows, Posted, Bridged
<1>7. CASE Save
  <2>1. /\ UNCHANGED excused /\ job # None /\ job.row \in Row
        /\ job.kind \in {"message", "edit", "page", "post", "update"}
        /\ \A t \in Times : rows'[t] = IF job.shows[t] # None THEN job.row ELSE rows[t]
    BY <1>7, SaveDoes
  <2> QED
    BY <1>1, <1>3, <2>1, NoneIsNothing DEF Shows, Posted, Bridged
<1>8. CASE MirrorWrite
  <2>1. /\ UNCHANGED excused /\ mirror # None /\ mirror.row \in Row
        /\ \A t \in Times : rows'[t] = IF t = mirror.ts /\ rows[t] # None THEN mirror.row
                                        ELSE rows[t]
        /\ job # None => /\ job' # None /\ job'.kind = job.kind /\ job'.shows = job.shows
    BY <1>8, MirrorWriteDoes
  <2> QED
    BY <1>1, <1>3, <2>1, NoneIsNothing DEF Shows, Posted, Bridged
<1>9. ASSUME NEW t \in Times, MirrorRead(t) PROVE Coming'
  <2>1. UNCHANGED <<rows, job, excused>>
    BY <1>9, MirrorReadDoes
  <2> QED
    BY <1>1, <1>3, <2>1 DEF Shows, Posted, Bridged
<1> QED
  BY Zenon, <1>4, <1>5, <1>6, <1>7, <1>8, <1>9 DEF Works

(* Coming holds after each step.                                            *)
LEMMA ComingKept == ASSUME Kept, Past, Gone, Coming, Fetching, [Next]_vars PROVE Coming'
<1>1. Kept'
  BY KeptNext
<1>2. CASE Crash
  BY <1>2, CrashDoes DEF Coming, Expected
<1>3. CASE Refused
  BY <1>3, RefusedKeeps DEF Coming, Expected, ToBeSynced, Shows, Events, Posted, Bridged
<1> QED
  BY Zenon, <1>1, <1>2, <1>3, StepKinds, ComingUsers, ComingAround, ComingTakes, ComingWork

(* A fetch starts with excuses, and no row is saved before it ends.         *)
LEMMA FetchingKept == ASSUME Kept, Past, Fetching, [Next]_vars PROVE Fetching'
<1> USE StampTypes
<1>1. ASSUME job' # None /\ job'.kind = "fetch" => job # None /\ job.kind = "fetch",
             UNCHANGED Bridged, excused \subseteq excused', Posted' \subseteq Posted
      PROVE  Fetching'
  BY <1>1 DEF Fetching
<1>2. CASE ByUsers
  <2>1. UNCHANGED excused
    BY <1>2, UsersKeep
  <2>2. ASSUME NEW t \in Times, UserPosts(t) PROVE Fetching'
    <3>1. t = now + 1 /\ posts' = [posts EXCEPT ![t] = 0] /\ UNCHANGED rows
      BY <1>2, <2>2, PostSpreads DEF UserPosts
    <3>2. t > Latest(Bridged)
      <4>1. Latest(Bridged) \in Nat
        BY PageTimes, LatestIsMax, TimesAreStamps
      <4>2. Latest(Bridged) <= now
        BY LatestIsPast
      <4> HIDE DEF Latest, Bridged
      <4> QED
        BY <3>1, <4>1, <4>2
    <3>3. UNCHANGED Bridged /\ Posted' \subseteq Posted \cup {t}
      BY <3>1 DEF Bridged, Posted
    <3>4. job' # None /\ job'.kind = "fetch" => job # None /\ job.kind = "fetch"
      BY <2>2 DEF UserPosts, Tasked
    <3> QED
      BY <2>1, <3>2, <3>3, <3>4 DEF Fetching
  <2>3. ASSUME NEW t \in Times, NEW n \in Times, UserEdits(t, n) PROVE Fetching'
    <3>1. /\ posts[t] # None /\ posts' = [posts EXCEPT ![t] = n] /\ UNCHANGED rows
      BY <1>2, <2>3, EditSpreads DEF UserEdits
    <3>2. UNCHANGED Bridged /\ Posted' \subseteq Posted
      BY <3>1 DEF Bridged, Posted
    <3>3. job' # None /\ job'.kind = "fetch" => job # None /\ job.kind = "fetch"
      BY <2>3 DEF UserEdits, Tasked
    <3> QED
      BY <1>1, <2>1, <3>2, <3>3
  <2>4. ASSUME NEW t \in Times, UserDeletes(t) PROVE Fetching'
    <3>1. posts' = [posts EXCEPT ![t] = None]
      BY <1>2, <2>4, DeleteSpreads
    <3>2. Posted' \subseteq Posted
      BY <3>1 DEF Posted
    <3>3. CASE UNCHANGED rows
      BY <1>1, <2>1, <2>4, <3>2, <3>3 DEF UserDeletes, Bridged
    <3>4. CASE job' = None
      BY <3>4 DEF Fetching
    <3> QED
      BY <2>4, <3>3, <3>4 DEF UserDeletes
  <2>5. ASSUME NEW t \in Times, UserReacts(t) PROVE Fetching'
    BY <1>1, <1>2, <2>1, <2>5, ReactSpreads DEF UserReacts, Posted, Bridged
  <2>6. ASSUME NEW t \in Times, UserUnreacts(t) PROVE Fetching'
    BY <1>1, <1>2, <2>1, <2>6, UnreactSpreads DEF UserUnreacts, Posted, Bridged
  <2>7. ASSUME NEW t \in Stamps, UserMarks(t) PROVE Fetching'
    BY <1>1, <1>2, <2>1, <2>7, MarkSpreads DEF UserMarks, Posted, Bridged
  <2> QED
    BY Zenon, <1>2, <2>2, <2>3, <2>4, <2>5, <2>6, <2>7, UsersDo
<1>3. CASE Around
  <2>1. UNCHANGED <<posts, rows, job>>
    BY <1>3, AroundKeeps
  <2>2. excused \subseteq excused'
    BY SMT, <1>3 DEF Around, Lose, Online, Start, CountsFail, Receive, Counts, Install,
                     QueueResync, SyncSkips, KeepSync, history, vars
  <2> QED
    BY <1>1, <2>1, <2>2 DEF Posted, Bridged
<1>4. CASE Takes
  <2>1. UNCHANGED posts /\ job = None
    BY <1>4, TakesKeep
  <2>2. ASSUME job' # None, job'.kind = "fetch" PROVE TakeResync
    <3>1. CASE TakeMessage
      BY <2>1, <2>2, <3>1, TakeMessageDoes DEF Tasked
    <3>2. CASE TakeEdit
      BY <2>1, <2>2, <3>2, TakeEditDoes DEF Tasked
    <3>3. CASE TakeDeletion
      BY <2>1, <2>2, <3>3, TakeDeletionDoes
    <3>4. CASE TakeReaction
      BY <2>1, <2>2, <3>4, TakeReactionDoes
    <3> QED
      BY Zenon, <1>4, <3>1, <3>2, <3>3, <3>4 DEF Takes
  <2>3. CASE TakeResync
    <3>1. PICK n \in Stamps :
           /\ UNCHANGED rows
           /\ excused' = excused \cup {t \in Posted \ Bridged : t < Latest(Bridged) \/ t > n}
      BY <2>3, TakeResyncDoes
    <3>2. Latest(Bridged) \in Nat /\ Latest(Bridged) \in Bridged \cup {0}
      BY PageTimes, LatestIsMax, TimesAreStamps, MaxExists DEF Latest
    <3>3. ASSUME NEW t \in Posted \ (Bridged \cup excused') PROVE t > Latest(Bridged)
      <4>1. t \in Times /\ t # 0 /\ t \in Nat /\ ~(t < Latest(Bridged)) /\ t # Latest(Bridged)
        BY <3>1, <3>2, <3>3, PageTimes, Bounds DEF Times
      <4> QED
        BY <3>2, <4>1
    <3>4. UNCHANGED <<Posted, Bridged>>
      BY <2>1, <3>1 DEF Posted, Bridged
    <3> QED
      BY <3>3, <3>4 DEF Fetching
  <2> QED
    BY <2>2, <2>3 DEF Fetching
<1>5. CASE Crash
  BY <1>5, CrashDoes DEF Fetching
<1>6. CASE Works
  <2>1. UNCHANGED posts
    BY <1>6, WorkKeeps
  <2>2. CASE FetchFails
    BY <2>2, FetchFailsDoes DEF Fetching
  <2>3. CASE FetchMessages
    BY <2>3, FetchMessagesDoes DEF Fetching, Tasked
  <2>4. CASE Send
    BY <2>4, SendDoes DEF Fetching
  <2>5. CASE Save
    BY <2>5, SaveDoes DEF Fetching
  <2>6. CASE MirrorWrite
    <3>1. UNCHANGED excused /\ (job' # None => job # None /\ job'.kind = job.kind)
      BY <2>6, MirrorWriteDoes
    <3>2. UNCHANGED Bridged
      BY <2>6, MirrorWriteDoes, NoneIsNothing DEF Bridged
    <3> QED
      BY <1>1, <2>1, <3>1, <3>2 DEF Posted
  <2>7. ASSUME NEW t \in Times, MirrorRead(t) PROVE Fetching'
    BY <1>1, <2>1, <2>7, MirrorReadDoes DEF Posted, Bridged
  <2> QED
    BY Zenon, <1>6, <2>2, <2>3, <2>4, <2>5, <2>6, <2>7 DEF Works
<1>7. CASE Refused
  BY <1>7, RefusedKeeps DEF Fetching, Posted, Bridged
<1> QED
  BY Zenon, <1>2, <1>3, <1>4, <1>5, <1>6, <1>7, StepKinds

(* The four together are inductive.                                         *)
OnTheWay == Past /\ Gone /\ Coming /\ Fetching

(* They hold at the start...                                                *)
LEMMA OnTheWayInit == ASSUME Init PROVE OnTheWay
<1>1. /\ now = 0 /\ posts = Nothing /\ reacted = {} /\ up = TRUE /\ stream = <<>> /\ queue = <<>>
      /\ sync = None /\ job = None /\ pending = {} /\ rows = Nothing /\ mirror = None
  BY Zenon DEF Init
<1>2. Events = {} /\ Posted = {}
  BY <1>1, EmptySet DEF Events, Posted, Nothing
<1> QED
  BY <1>1, <1>2 DEF OnTheWay, Past, Earlier, Gone, Coming, Fetching, Nothing, Shows

(* ... and after each step.                                                 *)
LEMMA OnTheWayNext == ASSUME Kept, OnTheWay, [Next]_vars PROVE OnTheWay'
BY Zenon, PastKept, GoneKept, ComingKept, FetchingKept DEF OnTheWay

(* When everything was handled, each message that is there in Slack is      *)
(* bridged or an upload whose event is awaited, unless the bridge could not *)
(* know of it, did not get it, or the sync passed the channel over (Take-   *)
(* Resync, FetchMessages, Online, SyncChannels).                            *)
THEOREM NothingIsMissing == Spec => []NoGap
<1>1. ASSUME OnTheWay PROVE NoGap
  <2>1. AtRest => Events = {}
    BY EmptySet DEF AtRest, Events
  <2>2. AtRest => ~ToBeSynced
    BY DEF AtRest, ToBeSynced
  <2>3. ASSUME AtRest, NEW t \in Posted \ Bridged, t \notin excused \cup pending PROVE FALSE
    <3>1. Expected(t)
      BY <1>1, <2>3 DEF OnTheWay, Coming
    <3> QED
      BY <2>1, <2>2, <2>3, <3>1 DEF Expected, AtRest, Shows
  <2> QED
    BY <2>3 DEF NoGap
<1>2. Init => Kept /\ OnTheWay
  BY KeptInit, OnTheWayInit
<1>3. Kept /\ OnTheWay /\ [Next]_vars => Kept' /\ OnTheWay'
  BY KeptNext, OnTheWayNext
<1> QED
  BY <1>1, <1>2, <1>3, PTL DEF Spec

-----------------------------------------------------------------------------
(* Edits, deletions and reactions: what is known of each message. *)

(* The mirror has read the row of the message.                              *)
Mirroring(t) == mirror # None /\ mirror.ts = t

(* No row, event or job has a later edit than Slack.  A row with Slack's    *)
(* last edit is one of a message that shows it, unless a change was lost,   *)
(* or an edit that Slack did not take; a job whose row gets it shows it,    *)
(* and the mirror has not read it of a row that has it no more.             *)
RowAt(t) ==
  posts[t] # None =>
    /\ posts[t] <= now
    /\ \A n \in Times : Change(t, n) \in Events => n <= posts[t]
    /\ rows[t] # None => rows[t].edit <= posts[t]
    /\ Mirroring(t) => /\ mirror.row.edit <= posts[t]
                       /\ mirror.row.edit = posts[t] => rows[t] # None /\ rows[t].edit = posts[t]
    /\ Shows(t) => /\ job.row.edit <= posts[t] /\ job.shows[t] <= posts[t]
                   /\ job.row.edit = posts[t] => job.shows[t] = posts[t]
                   /\ job.step = "save" => shown[t] = job.shows[t]
                   /\ rows[t] # None => rows[t].edit < posts[t]
                   /\ Mirroring(t) => mirror.row.edit < posts[t]
    /\ ~Shows(t) => /\ t \notin missed /\ rows[t] # None /\ rows[t].edit = posts[t] =>
                         shown[t] \in {posts[t], Unsent}
                    /\ rows[t] = None /\ t \in pending => shown[t] = 0

(* A message without a row has no reaction, a fetch shows nothing, and what *)
(* is new to the bridge has no row.                                         *)
NewAt(t) ==
  /\ rows[t] = None => t \notin reactions
  /\ Shows(t) => /\ job.kind # "fetch"
                 /\ job.kind \in {"message", "post", "page"} => rows[t] = None

(* The bridge has the message, or is about to.                              *)
Known(t) == rows[t] # None \/ Shows(t) \/ Posting(t) \in Events

(* Unless a change was lost, what is deleted is known to be, or not known.  *)
DeletedAt(t) ==
  t \notin missed /\ posts[t] = None /\ Known(t) => Deletion(t) \in Events

(* An edit of the message is under way.                                     *)
Changing(t) == \E n \in Times : Change(t, n) \in Events

(* What Matrix shows, or will when the job is done and the message came.    *)
Target(t) == IF Shows(t) THEN job.shows[t] ELSE IF rows[t] = None THEN 0 ELSE shown[t]

(* Unless a change was lost, the last edit is told, or is what is shown, or *)
(* Slack did not take what is.                                              *)
EditedAt(t) ==
  t \notin missed /\ posts[t] # None =>
    /\ Changing(t) => posts[t] \in Times /\ Change(t, posts[t]) \in Events
    /\ ~Changing(t) /\ Known(t) => Target(t) \in {posts[t], Unsent}

(* The event that tells of the reaction as it is, and its opposite.         *)
Right(t) == Ev(IF t \in reacted THEN "reacted" ELSE "unreacted", t, 0)
Wrong(t) == Ev(IF t \in reacted THEN "unreacted" ELSE "reacted", t, 0)
Reacting(t) == Right(t) \in Events \/ Wrong(t) \in Events

(* Unless a change was lost, the last event of a reaction tells it as it    *)
(* is; if there is none, the reaction is as in Slack, or a page brings it.  *)
ReactedAt(t) ==
  t \notin missed /\ posts[t] # None =>
    /\ Reacting(t) => Final(Right(t), Wrong(t))
    /\ ~Reacting(t) /\ Known(t) =>
         (t \in reactions <=> t \in reacted) \/ (Shows(t) /\ job.kind = "page")

(* Events of a message come in the order of what they tell.                 *)
InOrder(e, f) ==
  Precedes(e, f) /\ e.ts = f.ts /\ About(e) /\ About(f) =>
    /\ f.type # "message" /\ e.type # "deleted"
    /\ e.type = "changed" /\ f.type = "changed" => e.edit < f.edit

(* That is so of all events.                                                *)
Order == \A e, f \in Event : InOrder(e, f)

(* All of it, of a message.                                                 *)
FollowedAt(t) == RowAt(t) /\ NewAt(t) /\ DeletedAt(t) /\ EditedAt(t) /\ ReactedAt(t)

-----------------------------------------------------------------------------
(* What leaves a message alone keeps what is known of it. *)

(* The events of the message and the types are the same.                    *)
Calm(t, types) ==
  /\ \A e \in Event : e.ts = t /\ e.type \in types => (e \in Events' <=> e \in Events)
  /\ \A e, f \in Event :
       /\ e # f /\ e.ts = t /\ f.ts = t /\ {e.type, f.type} \subseteq types /\ Final(e, f)
       => Final(e, f)'

(* What is not told of the message is not news of it.                       *)
LEMMA SpreadCalm ==
  ASSUME NEW x \in Event, Spread(x), NEW t, NEW types, x.ts # t \/ x.type \notin types
  PROVE  Calm(t, types)
BY DEF Calm, Spread

(* Nor is what the portal takes of another.                                 *)
LEMMA TakenCalm ==
  ASSUME Kept, Takes, NEW t, NEW types,
         Head(queue).ts # t \/ Head(queue).type \notin types
  PROVE  Calm(t, types)
<1>1. /\ UNCHANGED stream /\ queue # <<>> /\ queue' = Tail(queue)
  BY TakesKeep
<1>2. /\ Events = {Head(queue)} \cup Events'
      /\ \A e, f \in Event : e # f /\ Final(e, f) =>
              \/ Final(e, f)'
              \/ Head(queue) = e /\ e \notin Events' /\ f \notin Events'
  BY <1>1, TakenFlow DEF Kept, Typed
<1> QED
  BY <1>2 DEF Calm

(* The portal's work and what is around it are not news of any message.     *)
LEMMA AroundCalm ==
  ASSUME Kept, Around \/ Works, NEW t, NEW types, types \cap {"marked", "resync"} = {}
  PROVE  Calm(t, types)
<1>1. \A e \in Event : e.type \in types => About(e)
  BY DEF About
<1> QED
  BY <1>1, CalmFlow DEF Calm

(* The job goes on with the message, or goes on without it.                 *)
SameJob(t) ==
  /\ Shows(t)' <=> Shows(t)
  /\ Shows(t) => /\ job'.kind = job.kind /\ job'.row = job.row
                 /\ job'.shows[t] = job.shows[t] /\ job'.step = job.step

(* Nothing changes of the message.                                          *)
Still(t) ==
  /\ rows'[t] = rows[t] /\ shown'[t] = shown[t] /\ posts'[t] = posts[t]
  /\ (t \in reactions' <=> t \in reactions) /\ (t \in reacted' <=> t \in reacted)
  /\ (t \in pending' => t \in pending) /\ SameJob(t)
  /\ now <= now' /\ missed \subseteq missed'

(* The rows and the job.                                                    *)
LEMMA RowStill ==
  ASSUME Kept, Kept', NEW t \in Times, RowAt(t),
         rows'[t] = rows[t], shown'[t] = shown[t], posts'[t] = posts[t],
         t \in pending' => t \in pending, SameJob(t), now <= now', missed \subseteq missed',
         Mirroring(t)' => UNCHANGED mirror,
         \A n \in Times : Change(t, n) \in Events' => Change(t, n) \in Events
  PROVE  RowAt(t)'
<1>1. posts[t] # None => posts[t] \in Nat
  BY StampTypes, TimesAreStamps
<1>2. now \in Nat /\ now' \in Nat
  BY TimesAreStamps DEF Kept, Typed, Slacky
<1>3. Mirroring(t)' => Mirroring(t) /\ mirror'.row = mirror.row
  BY DEF Mirroring
<1>4. ASSUME posts[t] # None, posts[t] <= now PROVE posts[t] <= now'
  BY <1>1, <1>2, <1>4
<1> QED
  BY <1>3, <1>4 DEF RowAt, SameJob

(* What is new.                                                             *)
LEMMA NewStill ==
  ASSUME NEW t \in Times, NewAt(t), rows'[t] = rows[t], t \in reactions' => t \in reactions,
         SameJob(t)
  PROVE  NewAt(t)'
BY DEF NewAt, SameJob

(* What was deleted.                                                        *)
LEMMA DeletedStill ==
  ASSUME NEW t \in Times, DeletedAt(t), Calm(t, {"deleted"}), missed \subseteq missed',
         posts'[t] = None => posts[t] = None, Known(t)' => Known(t)
  PROVE  DeletedAt(t)'
<1>1. Deletion(t) \in Events' <=> Deletion(t) \in Events
  BY EventParts DEF Calm
<1> QED
  BY <1>1 DEF DeletedAt

(* What was edited.                                                         *)
LEMMA EditedStill ==
  ASSUME NEW t \in Times, EditedAt(t), Calm(t, {"changed"}), missed \subseteq missed',
         posts'[t] = posts[t], Known(t)' => Known(t),
         posts[t] # None /\ Known(t)' => Target(t)' = Target(t)
  PROVE  EditedAt(t)'
<1>1. \A n \in Times : Change(t, n) \in Events' <=> Change(t, n) \in Events
  BY EventParts DEF Calm
<1> QED
  BY <1>1 DEF EditedAt, Changing

(* The events of the reaction, too.                                         *)
LEMMA ReactingStill ==
  ASSUME NEW t \in Times, Calm(t, {"reacted", "unreacted"}), t \in reacted' <=> t \in reacted
  PROVE  /\ Reacting(t)' <=> Reacting(t)
         /\ Final(Right(t), Wrong(t)) => Final(Right(t), Wrong(t))'
<1>1. /\ Right(t)' = Right(t) /\ Wrong(t)' = Wrong(t)
      /\ {Right(t), Wrong(t)} \subseteq Event /\ Right(t) # Wrong(t)
      /\ Right(t).ts = t /\ Wrong(t).ts = t
      /\ {Right(t).type, Wrong(t).type} \subseteq {"reacted", "unreacted"}
  BY EventParts DEF Right, Wrong
<1>2. Reacting(t)' <=> Reacting(t)
  BY <1>1 DEF Calm, Reacting
<1>3. Final(Right(t), Wrong(t)) => Final(Right(t), Wrong(t))'
  BY <1>1 DEF Calm
<1> QED
  BY <1>2, <1>3

(* The reaction.                                                            *)
LEMMA ReactedStill ==
  ASSUME NEW t \in Times, ReactedAt(t), Calm(t, {"reacted", "unreacted"}), missed \subseteq missed',
         posts'[t] # None => posts[t] # None, Known(t)' => Known(t),
         t \in reactions' <=> t \in reactions, t \in reacted' <=> t \in reacted,
         Shows(t) /\ job.kind = "page" => Shows(t)' /\ job'.kind = "page"
  PROVE  ReactedAt(t)'
BY ReactingStill DEF ReactedAt

(* All of it.                                                               *)
LEMMA FollowedStill ==
  ASSUME Kept, Kept', NEW t \in Times, FollowedAt(t), Still(t),
         Mirroring(t)' => UNCHANGED mirror,
         Calm(t, {"message", "deleted", "changed", "reacted", "unreacted"})
  PROVE  FollowedAt(t)'
<1>1. Calm(t, {"deleted"}) /\ Calm(t, {"changed"}) /\ Calm(t, {"reacted", "unreacted"})
  BY DEF Calm
<1>2. Known(t)' => Known(t)
  <2>1. Posting(t) \in Events' <=> Posting(t) \in Events
    BY EventParts DEF Calm
  <2> QED
    BY <2>1 DEF Known, Still, SameJob
<1>3. \A n \in Times : Change(t, n) \in Events' => Change(t, n) \in Events
  BY EventParts DEF Calm
<1>4. Target(t)' = Target(t)
  BY DEF Target, Still, SameJob
<1>5. RowAt(t)'
  BY <1>3, RowStill DEF FollowedAt, Still
<1>6. NewAt(t)'
  BY NewStill DEF FollowedAt, Still
<1>7. DeletedAt(t)'
  BY <1>1, <1>2, DeletedStill DEF FollowedAt, Still
<1>8. EditedAt(t)'
  BY <1>1, <1>2, <1>4, EditedStill DEF FollowedAt, Still
<1>9. ReactedAt(t)'
  BY <1>1, <1>2, ReactedStill DEF FollowedAt, Still, SameJob
<1> QED
  BY <1>5, <1>6, <1>7, <1>8, <1>9 DEF FollowedAt

-----------------------------------------------------------------------------
(* Events stay in order. *)

(* What Slack tells comes after all that is under way.                      *)
LEMMA OrderTold ==
  ASSUME Order, NEW x \in Event, Spread(x),
         \A e \in Events : e.ts = x.ts /\ About(e) /\ About(x) =>
           /\ x.type # "message" /\ e.type # "deleted"
           /\ e.type = "changed" /\ x.type = "changed" => e.edit < x.edit
  PROVE  Order'
<1>1. ASSUME NEW e \in Event, NEW f \in Event PROVE InOrder(e, f)'
  <2>1. Precedes(e, f)' => Precedes(e, f) \/ (f = x /\ e \in Events)
    BY DEF Spread
  <2> QED
    BY <2>1 DEF Order, InOrder
<1> QED
  BY <1>1 DEF Order

(* Slack tells last of what comes last, and nothing overtakes.              *)
LEMMA OrderKept ==
  ASSUME Kept, Past, Gone, \A t \in Times : RowAt(t), Order, [Next]_vars
  PROVE  Order'
<1> USE StampTypes
<1>1. ASSUME \A e, f \in Event : About(e) /\ About(f) /\ Precedes(e, f)' => Precedes(e, f)
      PROVE  Order'
  BY <1>1 DEF Order, InOrder
<1>2. CASE Around \/ Works
  BY <1>1, <1>2, CalmFlow
<1>3. CASE Takes
  BY <1>1, <1>3, TakesKeep, TakenFlow DEF Kept, Typed
<1>4. CASE Crash
  <2>1. Events' = {}
    BY <1>4, CrashDoes
  <2>2. \A e, f \in Event : ~Precedes(e, f)'
    BY <2>1 DEF Precedes, Prec, Events, ToSet
  <2> QED
    BY <1>1, <2>2
<1>5. ASSUME NEW t \in Times, posts[t] # None, NEW e \in Events, e.ts = t PROVE e.type # "deleted"
  BY <1>5, EventNames DEF Gone
<1>6. CASE ByUsers
  <2>1. ASSUME NEW t \in Times, UserPosts(t) PROVE Order'
    <3>1. Spread(Posting(t)) /\ t = now + 1
      BY <1>6, <2>1, PostSpreads
    <3>2. \A e \in Events : e.ts # t
      BY <3>1 DEF Past, Earlier
    <3>3. Posting(t) \in Event /\ Posting(t).ts = t
      BY EventParts
    <3> QED
      BY <3>1, <3>2, <3>3, OrderTold
  <2>2. ASSUME NEW t \in Times, NEW n \in Times, UserEdits(t, n) PROVE Order'
    <3>1. Spread(Change(t, n)) /\ n = now + 1 /\ posts[t] # None
      BY <1>6, <2>2, EditSpreads
    <3>2. /\ Change(t, n) \in Event /\ Change(t, n).type = "changed"
          /\ Change(t, n).ts = t /\ Change(t, n).edit = n
      BY EventParts
    <3>3. ASSUME NEW e \in Events, e.ts = t, e.type = "changed" PROVE e.edit < n
      <4>1. e.edit \in Times /\ e = Change(t, e.edit)
        BY <3>3, EventFields, EventNames
      <4>2. posts[t] \in Nat /\ e.edit <= posts[t] /\ posts[t] <= now
        BY ZenonT(60), <3>1, <3>3, <4>1, TimesAreStamps DEF RowAt
      <4>3. e.edit \in Nat /\ now \in Nat
        BY <4>1, TimesAreStamps
      <4> QED
        BY <3>1, <4>2, <4>3
    <3> QED
      BY <1>5, <3>1, <3>2, <3>3, OrderTold
  <2>3. ASSUME NEW t \in Times, NEW x \in Event, Spread(x), posts[t] # None, x.ts = t,
               x.type \in {"deleted", "reacted", "unreacted"}
        PROVE  Order'
    BY <1>5, <2>3, OrderTold
  <2>4. ASSUME NEW t \in Times, UserDeletes(t) PROVE Order'
    <3>1. Spread(Deletion(t)) /\ posts[t] # None
      BY <1>6, <2>4, DeleteSpreads
    <3> QED
      BY <2>3, <3>1, EventParts
  <2>5. ASSUME NEW t \in Times, UserReacts(t) PROVE Order'
    <3>1. Spread(Ev("reacted", t, 0)) /\ posts[t] # None
      BY <1>6, <2>5, ReactSpreads
    <3> QED
      BY <2>3, <3>1, EventParts
  <2>6. ASSUME NEW t \in Times, UserUnreacts(t) PROVE Order'
    <3>1. Spread(Ev("unreacted", t, 0)) /\ posts[t] # None
      BY <1>6, <2>6, UnreactSpreads DEF Gone, Posted
    <3> QED
      BY <2>3, <3>1, EventParts
  <2>7. ASSUME NEW t \in Stamps, UserMarks(t) PROVE Order'
    <3>1. /\ Spread(Ev("marked", t, 0)) /\ Ev("marked", t, 0) \in Event
          /\ Ev("marked", t, 0).type = "marked"
      BY <1>6, <2>7, MarkSpreads
    <3>2. ~About(Ev("marked", t, 0))
      BY <3>1 DEF About
    <3> QED
      BY <3>1, <3>2, OrderTold
  <2> QED
    BY Zenon, <1>6, <2>1, <2>2, <2>4, <2>5, <2>6, <2>7, UsersDo
<1>7. CASE Refused
  BY <1>1, <1>7, RefusedKeeps DEF Precedes
<1> QED
  BY Zenon, <1>2, <1>3, <1>4, <1>6, <1>7, StepKinds

-----------------------------------------------------------------------------
(* What users do is followed. *)

(* All of it, of every message.                                             *)
Followed == Order /\ \A t \in Times : FollowedAt(t)

(* What is told of a message is no news of the others.                      *)
LEMMA OthersStill ==
  ASSUME Kept, Kept', Followed, ByUsers, NEW x \in Event, Spread(x), NEW o \in Times,
         x.ts # o \/ x.type = "marked", Still(o)
  PROVE  FollowedAt(o)'
<1>1. UNCHANGED mirror
  BY UsersKeep
<1>2. Calm(o, {"message", "deleted", "changed", "reacted", "unreacted"})
  BY SpreadCalm
<1> QED
  BY <1>1, <1>2, FollowedStill DEF Followed

(* So it is enough to look at the message.                                  *)
LEMMA OneFollowed ==
  ASSUME Kept, Kept', Followed, ByUsers, NEW x \in Event, Spread(x), NEW t \in Times, x.ts = t,
         FollowedAt(t)', \A o \in Times \ {t} : Still(o)
  PROVE  \A o \in Times : FollowedAt(o)'
BY OthersStill

(* A job shows one message.                                                 *)
LEMMA OneShown ==
  ASSUME NEW t \in Times, NEW kind, NEW step, NEW e, NEW row, e # None,
         Tasked(kind, step, Only(t, e), row)'
  PROVE  /\ Shows(t)' /\ job'.shows[t] = e /\ job'.kind = kind /\ job'.step = step /\ job'.row = row
         /\ \A o \in Times \ {t} : ~Shows(o)'
BY OnlyAt DEF Tasked, Shows

(* A job that is not there shows nothing.                                   *)
LEMMA NoneShown == ASSUME job = None PROVE \A t \in Times : ~Shows(t)
BY DEF Shows

(* A job that stays shows the same.                                         *)
LEMMA SameJobs == ASSUME UNCHANGED job PROVE \A t \in Times : SameJob(t)
BY DEF SameJob, Shows

(* A message that is posted is new in all respects.                         *)
LEMMA PostFollowed ==
  ASSUME Kept, Kept', Past, Gone, Followed, ByUsers, NEW t \in Times, UserPosts(t)
  PROVE  \A o \in Times : FollowedAt(o)'
<1> USE StampTypes
<1>1. /\ Spread(Posting(t)) /\ t = now + 1 /\ now' = t
      /\ posts' = [posts EXCEPT ![t] = 0] /\ UNCHANGED <<reacted, mark>>
      /\ UNCHANGED <<rows, reactions>>
  BY PostSpreads DEF UserPosts
<1>2. Posting(t) \in Event /\ Posting(t).ts = t /\ Posting(t).type = "message"
  BY EventParts
<1>3. /\ rows[t] = None /\ ~Shows(t) /\ t \notin pending /\ posts[t] = None
      /\ (\A e \in Events : e.ts # t) /\ ~Mirroring(t) /\ t \notin reacted /\ t \notin reactions
  <2>1. t > now
    BY <1>1
  <2>2. rows[t] = None /\ ~Shows(t) /\ t \notin pending /\ posts[t] = None
    BY <2>1 DEF Past
  <2>3. (\A e \in Events : e.ts # t) /\ ~Mirroring(t)
    BY <1>1 DEF Past, Earlier, Mirroring
  <2>4. t \notin reacted /\ t \notin reactions
    BY <2>2 DEF Gone, Posted, Followed, FollowedAt, NewAt
  <2> QED
    BY <2>2, <2>3, <2>4
<1>4. \/ UNCHANGED <<job, pending, shown>>
      \/ /\ job = None /\ shown' = [shown EXCEPT ![t] = 0]
         /\ Tasked("post", "save", Only(t, 0), NewRow)' /\ UNCHANGED pending
      \/ /\ job = None /\ shown' = [shown EXCEPT ![t] = 0]
         /\ pending' \in {pending \cup {t}, pending} /\ UNCHANGED job
  BY DEF UserPosts
<1>5. 0 # None /\ posts'[t] = 0 /\ NewRow.edit = 0
  BY <1>1, NoneIsNothing DEF NewRow
<1>6. /\ Shows(t)' => /\ job'.kind = "post" /\ job'.row = NewRow /\ job'.shows[t] = 0
                      /\ shown'[t] = 0
      /\ ~Shows(t)' /\ t \in pending' => shown'[t] = 0
  <2>1. shown \in [Times -> Stamps \cup {Unsent, None}]
    BY DEF Kept, Typed, Stored
  <2>2. CASE UNCHANGED <<job, pending, shown>>
    BY <1>3, <2>2 DEF Shows
  <2>3. CASE Tasked("post", "save", Only(t, 0), NewRow)' /\ shown' = [shown EXCEPT ![t] = 0]
             /\ UNCHANGED pending
    BY <1>5, <2>1, <2>3, OneShown
  <2>4. CASE job = None /\ UNCHANGED job /\ shown' = [shown EXCEPT ![t] = 0]
    BY <2>1, <2>4 DEF Shows
  <2> QED
    BY <1>4, <2>2, <2>3, <2>4
<1>7. \A e \in Event : e.ts = t /\ e.type # "message" => e \notin Events'
  BY <1>1, <1>2, <1>3 DEF Spread
<1>8. RowAt(t)'
  <2>1. \A n \in Times : Change(t, n) \notin Events'
    BY <1>7, EventParts
  <2>2. ~Mirroring(t)'
    BY <1>3, UsersKeep DEF Mirroring
  <2>3. rows'[t] = None /\ 0 <= now'
    BY <1>1, <1>3
  <2> QED
    BY <1>5, <1>6, <2>1, <2>2, <2>3 DEF RowAt
<1>9. NewAt(t)' /\ DeletedAt(t)'
  BY <1>1, <1>3, <1>5, <1>6 DEF NewAt, DeletedAt
<1>10. EditedAt(t)'
  <2>1. ~Changing(t)'
    BY <1>7, EventParts DEF Changing
  <2>2. Target(t)' = 0
    BY <1>1, <1>3, <1>6 DEF Target
  <2> QED
    BY <1>5, <2>1, <2>2 DEF EditedAt
<1>11. ReactedAt(t)'
  <2>1. t \notin reacted' /\ t \notin reactions'
    BY <1>1, <1>3
  <2>2. ~Reacting(t)'
    BY <1>7, <2>1, EventParts DEF Reacting, Right, Wrong
  <2> QED
    BY <2>1, <2>2 DEF ReactedAt
<1>12. ASSUME NEW o \in Times \ {t} PROVE Still(o)
  <2>1. SameJob(o)
    <3>1. CASE UNCHANGED job
      BY <3>1, SameJobs
    <3>2. CASE job = None /\ Tasked("post", "save", Only(t, 0), NewRow)'
      <4>1. ~Shows(o)' /\ ~Shows(o)
        BY <1>5, <3>2, OneShown, NoneShown
      <4> QED
        BY <4>1 DEF SameJob
    <3> QED
      BY <1>4, <3>1, <3>2
  <2>2. rows'[o] = rows[o] /\ posts'[o] = posts[o] /\ shown'[o] = shown[o]
        /\ (o \in pending' => o \in pending)
    BY <1>1, <1>4, <1>12 DEF Kept, Typed, Stored
  <2>3. now <= now' /\ missed \subseteq missed'
    BY <1>1 DEF Spread
  <2> QED
    BY <1>1, <2>1, <2>2, <2>3 DEF Still
<1>13. FollowedAt(t)'
  BY <1>8, <1>9, <1>10, <1>11 DEF FollowedAt
<1> QED
  BY <1>1, <1>2, <1>12, <1>13, OneFollowed

(* An edit is the last, and Slack tells of it.                              *)
LEMMA EditFollowed ==
  ASSUME Kept, Kept', Past, Gone, Followed, ByUsers, NEW t \in Times, NEW n \in Times,
         UserEdits(t, n)
  PROVE  \A o \in Times : FollowedAt(o)'
<1> USE StampTypes
<1>1. /\ Spread(Change(t, n)) /\ n = now + 1 /\ now' = n /\ posts[t] # None
      /\ posts' = [posts EXCEPT ![t] = n] /\ UNCHANGED <<reacted, mark>>
      /\ UNCHANGED <<pending, rows, reactions>>
  BY EditSpreads DEF UserEdits
<1>2. Change(t, n) \in Event /\ Change(t, n).ts = t /\ Change(t, n).type = "changed"
  BY EventParts
<1>3. \/ UNCHANGED <<job, shown>>
      \/ /\ job = None /\ rows[t] # None /\ shown' = [shown EXCEPT ![t] = n]
         /\ \/ \E row \in Row : row.edit \in {t, n} /\ Tasked("update", "save", Only(t, n), row)'
            \/ UNCHANGED job
  BY DEF UserEdits
<1>4. n # None /\ posts'[t] = n /\ UNCHANGED mirror
  BY <1>1, NoneIsNothing, UsersKeep
<1>5. posts[t] \in Nat /\ posts[t] < n /\ t < n /\ RowAt(t) /\ NewAt(t)
  <2>1. posts[t] \in Nat
    BY <1>1, TimesAreStamps
  <2>2. RowAt(t) /\ NewAt(t)
    BY DEF Followed, FollowedAt
  <2>3. ~(t > now)
    BY <1>1 DEF Past
  <2> QED
    BY <1>1, <2>1, <2>2, <2>3 DEF RowAt
<1>6. Shows(t)' => /\ job'.row.edit <= n /\ job'.shows[t] <= n
                   /\ job'.row.edit = n => job'.shows[t] = n
                   /\ job'.step = "save" => shown'[t] = job'.shows[t]
                   /\ \/ Shows(t) /\ job'.kind = job.kind
                      \/ job'.kind = "update"
  <2>1. CASE UNCHANGED <<job, shown>>
    <3>1. ASSUME Shows(t)
          PROVE  job.row.edit \in Nat /\ job.shows[t] \in Nat
      <4>1. job # None /\ job \in Job
        BY <3>1 DEF Shows, Kept, Typed, Stored
      <4>2. job.row \in Row /\ job.shows \in [Times -> Stamps \cup {None}]
        BY <4>1, JobFields
      <4> QED
        BY <3>1, <4>2, TimesAreStamps DEF Row, Shows
    <3> QED
      BY <1>1, <1>5, <2>1, <3>1 DEF RowAt, Shows
  <2>2. ASSUME NEW row \in Row, row.edit \in {t, n}, Tasked("update", "save", Only(t, n), row)',
               shown' = [shown EXCEPT ![t] = n]
        PROVE  /\ Shows(t)' /\ job'.row.edit <= n /\ job'.shows[t] = n
               /\ shown'[t] = n /\ job'.kind = "update"
    <3>1. shown \in [Times -> Stamps \cup {Unsent, None}]
      BY DEF Kept, Typed, Stored
    <3>2. Shows(t)' /\ job'.shows[t] = n /\ job'.kind = "update" /\ job'.row = row
      BY <1>4, <2>2, OneShown
    <3> QED
      BY <1>5, <2>2, <3>1, <3>2
  <2>3. n <= n
    BY <1>1
  <2>4. job = None /\ UNCHANGED job => ~Shows(t)'
    BY DEF Shows
  <2> QED
    BY <1>3, <2>1, <2>2, <2>3, <2>4
<1>7. RowAt(t)'
  <2>1. \A m \in Times : Change(t, m) \in Events' => m <= n
    <3>1. ASSUME NEW m \in Times, Change(t, m) \in Events' PROVE m <= n
      <4>1. Change(t, m) \in Events \/ Change(t, m) = Change(t, n)
        BY <1>1, <3>1 DEF Spread
      <4>2. m \in Nat /\ (Change(t, m) = Change(t, n) => m = n)
        BY EventParts
      <4> QED
        BY <1>1, <1>5, <4>1, <4>2 DEF RowAt
    <3> QED
      BY <3>1
  <2>2. rows'[t] # None => rows'[t].edit < n
    <3>1. rows[t] # None => rows[t].edit \in Nat
      BY TimesAreStamps DEF Row
    <3> QED
      BY <1>1, <1>5, <3>1 DEF RowAt
  <2>3. Mirroring(t)' => mirror'.row.edit < n
    <3>1. Mirroring(t) => mirror.row.edit \in Nat
      BY TimesAreStamps DEF Mirroring, Kept, Typed, Stored, Mirrored, Row
    <3> QED
      BY <1>1, <1>4, <1>5, <3>1 DEF RowAt, Mirroring
  <2>4. rows'[t] = None => ~(t \in pending') \/ shown'[t] = 0 \/ Shows(t)'
    <3>1. CASE UNCHANGED <<job, shown>>
      BY <1>1, <1>5, <3>1 DEF RowAt, Shows
    <3>2. CASE rows[t] # None
      BY <1>1, <3>2
    <3> QED
      BY <1>3, <3>1, <3>2
  <2>5. /\ rows'[t] # None => rows'[t].edit \in Nat
        /\ Mirroring(t)' => mirror'.row.edit \in Nat
    BY TimesAreStamps DEF Mirroring, Kept, Typed, Stored, Mirrored, Row
  <2>6. /\ rows'[t] # None => rows'[t].edit <= n /\ rows'[t].edit # n
        /\ Mirroring(t)' => mirror'.row.edit <= n /\ mirror'.row.edit # n
        /\ n <= now'
    BY <1>1, <2>2, <2>3, <2>5
  <2> QED
    BY <1>4, <1>6, <2>1, <2>2, <2>3, <2>4, <2>6 DEF RowAt
<1>8. NewAt(t)'
  BY <1>1, <1>5, <1>6 DEF NewAt
<1>9. DeletedAt(t)'
  BY <1>4 DEF DeletedAt
<1>10. EditedAt(t)'
  <2>1. Change(t, n) \in Events' \/ t \in missed'
    BY <1>1, <1>2 DEF Spread
  <2> QED
    BY <1>4, <2>1 DEF EditedAt, Changing
<1>11. ReactedAt(t)'
  <2>1. Calm(t, {"reacted", "unreacted"})
    BY <1>1, <1>2, SpreadCalm
  <2>2. Known(t)' => Known(t)
    <3>1. Posting(t) \in Events' => Posting(t) \in Events
      BY <1>1, <1>2, EventParts DEF Spread
    <3> QED
      BY <1>1, <1>3, <3>1 DEF Known, Shows
  <2>3. Shows(t) /\ job.kind = "page" => Shows(t)' /\ job'.kind = "page"
    BY <1>3 DEF Shows
  <2>4. ReactedAt(t) /\ missed \subseteq missed'
    BY <1>1 DEF Followed, FollowedAt, Spread
  <2> QED
    BY <1>1, <2>1, <2>2, <2>3, <2>4, ReactedStill
<1>12. ASSUME NEW o \in Times \ {t} PROVE Still(o)
  <2>1. SameJob(o)
    <3>1. CASE UNCHANGED job
      BY <3>1, SameJobs
    <3>2. ASSUME job = None, NEW row, Tasked("update", "save", Only(t, n), row)' PROVE SameJob(o)
      <4>1. ~Shows(o)' /\ ~Shows(o)
        BY <1>4, <3>2, OneShown, NoneShown
      <4> QED
        BY <4>1 DEF SameJob
    <3> QED
      BY <1>3, <3>1, <3>2
  <2>2. rows'[o] = rows[o] /\ posts'[o] = posts[o] /\ shown'[o] = shown[o]
    BY <1>1, <1>3, <1>12 DEF Kept, Typed, Stored
  <2>3. now <= now' /\ missed \subseteq missed'
    BY <1>1 DEF Spread
  <2> QED
    BY <1>1, <2>1, <2>2, <2>3 DEF Still
<1>13. FollowedAt(t)'
  BY <1>7, <1>8, <1>9, <1>10, <1>11 DEF FollowedAt
<1> QED
  BY <1>1, <1>2, <1>12, <1>13, OneFollowed

(* A deletion is told of.                                                   *)
LEMMA DeleteFollowed ==
  ASSUME Kept, Kept', Past, Gone, Followed, ByUsers, NEW t \in Times, UserDeletes(t)
  PROVE  \A o \in Times : FollowedAt(o)'
<1> USE StampTypes
<1>1. /\ Spread(Deletion(t)) /\ posts[t] # None /\ UNCHANGED <<now, mark>>
      /\ posts' = [posts EXCEPT ![t] = None] /\ reacted' = reacted \ {t}
      /\ UNCHANGED <<job, pending>>
  BY DeleteSpreads DEF UserDeletes
<1>2. Deletion(t) \in Event /\ Deletion(t).ts = t /\ Deletion(t).type = "deleted"
  BY EventParts
<1>3. \/ UNCHANGED <<rows, reactions, shown>>
      \/ /\ shown' = [shown EXCEPT ![t] = None]
         /\ \/ rows' = [rows EXCEPT ![t] = None] /\ reactions' = reactions \ {t}
            \/ UNCHANGED <<rows, reactions>>
  BY DEF UserDeletes
<1>4. posts'[t] = None
  BY <1>1
<1>5. NewAt(t)'
  <2>1. NewAt(t)
    BY DEF Followed, FollowedAt
  <2> QED
    BY <1>1, <1>3, <2>1 DEF NewAt, Shows
<1>6. DeletedAt(t)'
  BY <1>1, <1>2 DEF Spread, DeletedAt
<1>7. RowAt(t)' /\ EditedAt(t)' /\ ReactedAt(t)'
  BY <1>4 DEF RowAt, EditedAt, ReactedAt
<1>8. ASSUME NEW o \in Times \ {t} PROVE Still(o)
  <2>1. SameJob(o)
    BY <1>1, SameJobs
  <2>2. rows'[o] = rows[o] /\ posts'[o] = posts[o] /\ shown'[o] = shown[o]
        /\ (o \in reactions' <=> o \in reactions)
    BY <1>1, <1>3, <1>8 DEF Kept, Typed, Stored
  <2>3. now <= now' /\ missed \subseteq missed'
    BY <1>1 DEF Spread
  <2> QED
    BY <1>1, <2>1, <2>2, <2>3 DEF Still
<1>9. FollowedAt(t)'
  BY <1>5, <1>6, <1>7 DEF FollowedAt
<1> QED
  BY <1>1, <1>2, <1>8, <1>9, OneFollowed

(* The reaction and its opposite.                                           *)
LEMMA ReactFollowed ==
  ASSUME Kept, Kept', Past, Gone, Followed, ByUsers, NEW t \in Times,
         NEW x \in Event, Spread(x), x.ts = t,
         UNCHANGED <<now, posts, job, pending, rows, shown>>,
         \/ x = Ev("reacted", t, 0) /\ reacted' = reacted \cup {t}
         \/ x = Ev("unreacted", t, 0) /\ reacted' = reacted \ {t},
         \/ reactions' \in {reactions \ {t}, reactions}
         \/ rows[t] # None /\ reactions' = reactions \cup {t}
  PROVE  \A o \in Times : FollowedAt(o)'
<1> USE StampTypes
<1>1. x.type \in {"reacted", "unreacted"}
  BY EventParts
<1>2. FollowedAt(t) /\ missed \subseteq missed' /\ now <= now' /\ UNCHANGED mirror
  BY UsersKeep DEF Followed, Spread
<1>3. \A n \in Times : Change(t, n) \in Events' => Change(t, n) \in Events
  BY <1>1, EventParts DEF Spread
<1>4. RowAt(t)'
  BY <1>2, <1>3, SameJobs, RowStill DEF FollowedAt
<1>5. NewAt(t)'
  BY <1>2 DEF FollowedAt, NewAt, Shows
<1>6. Known(t)' => Known(t)
  <2>1. Posting(t) \in Events' => Posting(t) \in Events
    BY <1>1, EventParts DEF Spread
  <2> QED
    BY <2>1 DEF Known, Shows
<1>7. DeletedAt(t)'
  <2>1. Calm(t, {"deleted"})
    BY <1>1, SpreadCalm
  <2> QED
    BY <1>2, <1>6, <2>1, DeletedStill DEF FollowedAt
<1>8. EditedAt(t)'
  <2>1. Calm(t, {"changed"})
    BY <1>1, SpreadCalm
  <2>2. Target(t)' = Target(t)
    BY DEF Target, Shows
  <2> QED
    BY <1>2, <1>6, <2>1, <2>2, EditedStill DEF FollowedAt
<1>9. ReactedAt(t)'
  <2>1. CASE t \in missed'
    BY <2>1 DEF ReactedAt
  <2>2. CASE t \notin missed'
    <3>1. online
      BY <1>1, <2>2 DEF Spread
    <3>2. x = Right(t)' /\ Wrong(t)' \in Event /\ x # Wrong(t)'
      BY EventParts DEF Right, Wrong
    <3>3. \A f \in Event : x # f => Final(x, f)'
      BY <3>1 DEF Spread
    <3>4. Final(Right(t), Wrong(t))'
      BY <3>2, <3>3
    <3>5. Reacting(t)'
      BY <3>1, <3>2 DEF Spread, Reacting
    <3> QED
      BY <3>4, <3>5 DEF ReactedAt
  <2> QED
    BY <2>1, <2>2
<1>10. ASSUME NEW o \in Times \ {t} PROVE Still(o)
  BY <1>2, SameJobs DEF Still
<1>11. FollowedAt(t)'
  BY <1>4, <1>5, <1>7, <1>8, <1>9 DEF FollowedAt
<1> QED
  BY <1>10, <1>11, OneFollowed

(* All that users do is followed.                                           *)
LEMMA FollowedUsers ==
  ASSUME Kept, Kept', Past, Gone, Followed, ByUsers PROVE \A o \in Times : FollowedAt(o)'
<1>1. ASSUME NEW t \in Times, UserReacts(t) PROVE \A o \in Times : FollowedAt(o)'
  <2>1. /\ Spread(Ev("reacted", t, 0)) /\ reacted' = reacted \cup {t} /\ UNCHANGED <<now, posts>>
    BY <1>1, ReactSpreads
  <2>2. PICK x \in Event : x = Ev("reacted", t, 0) /\ x.ts = t
    BY EventParts
  <2>3. /\ UNCHANGED <<job, pending, rows, shown>>
        /\ reactions' = reactions \/ (rows[t] # None /\ reactions' = reactions \cup {t})
    BY <1>1 DEF UserReacts
  <2>4. Spread(x)
    BY <2>1, <2>2
  <2> QED
    BY <2>1, <2>2, <2>3, <2>4, ReactFollowed
<1>2. ASSUME NEW t \in Times, UserUnreacts(t) PROVE \A o \in Times : FollowedAt(o)'
  <2>1. /\ Spread(Ev("unreacted", t, 0)) /\ reacted' = reacted \ {t} /\ UNCHANGED <<now, posts>>
    BY <1>2, UnreactSpreads
  <2>2. PICK x \in Event : x = Ev("unreacted", t, 0) /\ x.ts = t
    BY EventParts
  <2>3. UNCHANGED <<job, pending, rows, shown>> /\ reactions' \in {reactions \ {t}, reactions}
    BY <1>2 DEF UserUnreacts
  <2>4. Spread(x)
    BY <2>1, <2>2
  <2> QED
    BY <2>1, <2>2, <2>3, <2>4, ReactFollowed
<1>3. ASSUME NEW t \in Stamps, UserMarks(t) PROVE \A o \in Times : FollowedAt(o)'
  <2>1. /\ Spread(Ev("marked", t, 0)) /\ Ev("marked", t, 0) \in Event
        /\ Ev("marked", t, 0).type = "marked" /\ UNCHANGED <<now, posts, reacted>>
    BY <1>3, MarkSpreads
  <2>2. UNCHANGED <<job, pending, rows, reactions, shown>>
    BY <1>3 DEF UserMarks
  <2>3. missed \subseteq missed'
    BY <2>1 DEF Spread
  <2>4. \A o \in Times : Still(o)
    BY <2>1, <2>2, <2>3, SameJobs, StampTypes DEF Still
  <2> QED
    BY <2>1, <2>4, OthersStill
<1> QED
  BY Zenon, <1>1, <1>2, <1>3, PostFollowed, EditFollowed, DeleteFollowed, UsersDo

-----------------------------------------------------------------------------
(* What the portal does is followed. *)

(* What is around the portal changes none of it.                            *)
LEMMA FollowedAround ==
  ASSUME Kept, Kept', Followed, Around PROVE \A o \in Times : FollowedAt(o)'
<1> USE StampTypes
<1>1. /\ UNCHANGED <<now, posts, reacted, rows, reactions, shown, job, pending, mirror, missed>>
      /\ now <= now'
  BY AroundKeeps
<1>2. ASSUME NEW o \in Times PROVE Still(o)
  BY <1>1, SameJobs DEF Still
<1>3. ASSUME NEW o \in Times
      PROVE  Calm(o, {"message", "deleted", "changed", "reacted", "unreacted"})
  BY AroundCalm
<1> QED
  BY <1>1, <1>2, <1>3, FollowedStill DEF Followed

(* A crash forgets what is under way, and changes are lost.                 *)
LEMMA FollowedCrash ==
  ASSUME Kept, Kept', Followed, Crash, NEW t \in Times PROVE FollowedAt(t)'
<1> USE StampTypes
<1>1. /\ UNCHANGED <<now, posts, reacted, rows, reactions, shown>>
      /\ Events' = {} /\ job' = None /\ pending' = {} /\ mirror' = None /\ missed \subseteq missed'
  BY CrashDoes
<1>2. ~Shows(t)' /\ ~Mirroring(t)' /\ t \notin pending'
  BY <1>1, NoneShown DEF Shows, Mirroring
<1>3. RowAt(t) /\ NewAt(t) /\ DeletedAt(t) /\ EditedAt(t) /\ ReactedAt(t)
  BY DEF Followed, FollowedAt
<1>4. ASSUME posts[t] # None, rows[t] # None
      PROVE  posts[t] \in Nat /\ rows[t].edit \in Nat
  BY <1>4, TimesAreStamps DEF Row
<1>5. RowAt(t)'
  <2>1. ASSUME t \notin missed', posts[t] # None, rows[t] # None, rows[t].edit = posts[t]
        PROVE  shown[t] \in {posts[t], Unsent}
    <3>1. t \notin missed
      BY <1>1, <2>1
    <3> QED
      BY <1>3, <1>4, <2>1, <3>1 DEF RowAt
  <2> QED
    BY <1>1, <1>2, <1>3, <2>1 DEF RowAt
<1>6. NewAt(t)'
  BY <1>1, <1>2, <1>3 DEF NewAt
<1>7. ASSUME t \notin missed'
      PROVE  /\ t \notin missed /\ ~Shows(t)
             /\ Known(t)' => Known(t)
             /\ \A e \in Events : e.ts = t => e.type \in {"message", "marked", "resync"}
  <2>1. \A e \in Events : e.type \notin {"message", "marked", "resync"} => e.ts \in missed'
    BY CrashDoes
  <2>2. ~Shows(t)
    BY <1>7, CrashDoes
  <2> QED
    BY <1>1, <1>2, <1>7, <2>1, <2>2 DEF Known
<1>8. DeletedAt(t)'
  <2>1. t \notin missed' => Deletion(t) \notin Events
    BY <1>7, EventParts
  <2> QED
    BY <1>1, <1>3, <1>7, <2>1 DEF DeletedAt
<1>9. EditedAt(t)'
  <2>1. t \notin missed' => ~Changing(t)
    BY <1>7, EventParts DEF Changing
  <2>2. ~Changing(t)'
    BY <1>1 DEF Changing
  <2>3. t \notin missed' => Target(t)' = Target(t)
    BY <1>1, <1>2, <1>7 DEF Target
  <2> QED
    BY <1>1, <1>3, <1>7, <2>1, <2>2, <2>3 DEF EditedAt
<1>10. ReactedAt(t)'
  <2>1. t \notin missed' => ~Reacting(t)
    BY <1>7, EventParts DEF Reacting, Right, Wrong
  <2>2. ~Reacting(t)'
    BY <1>1 DEF Reacting
  <2> QED
    BY <1>1, <1>3, <1>7, <2>1, <2>2 DEF ReactedAt
<1> QED
  BY <1>5, <1>6, <1>8, <1>9, <1>10 DEF FollowedAt

(* What Slack does not take is shown as an edit of its own, or is missed.   *)
LEMMA FollowedRefused ==
  ASSUME Kept, Kept', Followed, Refused PROVE \A o \in Times : FollowedAt(o)'
<1> USE StampTypes
<1>1. /\ UNCHANGED <<now, posts, reacted, stream, queue, job, pending, mirror, rows, reactions>>
      /\ missed \subseteq missed'
  BY RefusedKeeps
<1>2. PICK t \in Times : /\ job = None /\ rows[t] # None
                         /\ \A o \in Times \ {t} : shown'[o] = shown[o]
                         /\ shown'[t] = Unsent \/ (posts[t] # None => t \in missed')
  BY RefusedKeeps
<1>3. UNCHANGED Events /\ \A e, f \in Event : Final(e, f)' = Final(e, f)
  BY <1>1 DEF Events, Final
<1>4. ASSUME NEW o \in Times, NEW types PROVE Calm(o, types)
  BY <1>3 DEF Calm
<1>5. ASSUME NEW o \in Times \ {t} PROVE FollowedAt(o)'
  <2>1. now <= now'
    BY <1>1
  <2>2. Still(o)
    BY <1>1, <1>2, <1>5, <2>1, SameJobs DEF Still
  <2> QED
    BY <1>1, <1>4, <2>2, FollowedStill DEF Followed
<1>6. FollowedAt(t)'
  <2>1. RowAt(t) /\ NewAt(t) /\ DeletedAt(t) /\ EditedAt(t) /\ ReactedAt(t)
    BY DEF Followed, FollowedAt
  <2>2. ~Shows(t) /\ ~Shows(t)' /\ (Known(t)' <=> Known(t)) /\ Known(t)
    BY <1>1, <1>2, <1>3 DEF Known, Shows
  <2>3. RowAt(t)'
    BY <1>1, <1>2, <1>3, <2>1, <2>2 DEF RowAt, Mirroring
  <2>4. NewAt(t)' /\ DeletedAt(t)'
    BY <1>1, <1>3, <2>1, <2>2 DEF NewAt, DeletedAt
  <2>5. EditedAt(t)'
    BY <1>1, <1>2, <1>3, <2>1, <2>2 DEF EditedAt, Changing, Target
  <2>6. ReactedAt(t)'
    BY <1>1, <1>4, <2>1, <2>2, ReactedStill
  <2> QED
    BY <2>3, <2>4, <2>5, <2>6 DEF FollowedAt
<1> QED
  BY <1>5, <1>6

(* What the portal takes is no news of the other messages.                  *)
LEMMA OthersTaken ==
  ASSUME Kept, Kept', Followed, Takes, NEW o \in Times, Still(o),
         Head(queue).ts # o \/ Head(queue).type = "resync"
  PROVE  FollowedAt(o)'
<1>1. UNCHANGED mirror
  BY TakesKeep
<1>2. Calm(o, {"message", "deleted", "changed", "reacted", "unreacted"})
  BY TakenCalm
<1> QED
  BY <1>1, <1>2, FollowedStill DEF Followed

(* A message: known already, an upload that was awaited, or a job.          *)
LEMMA MessageFollowed ==
  ASSUME Kept, Kept', Followed, TakeMessage PROVE \A o \in Times : FollowedAt(o)'
<1> USE StampTypes
<1>1. PICK t \in Times :
           /\ Head(queue) = Posting(t) /\ UNCHANGED <<reactions, shown, excused>>
           /\ \/ rows[t] # None /\ UNCHANGED <<job, pending, rows>>
              \/ /\ rows[t] = None /\ t \in pending /\ UNCHANGED job
                 /\ rows' = [rows EXCEPT ![t] = NewRow] /\ pending' = pending \ {t}
              \/ /\ rows[t] = None /\ t \notin pending /\ UNCHANGED <<pending, rows>>
                 /\ Tasked("message", "send", Only(t, 0), NewRow)'
  BY TakeMessageDoes
<1>2. Takes
  BY DEF Takes
<1>3. /\ UNCHANGED <<now, posts, reacted, missed, mirror, stream>>
      /\ job = None /\ queue # <<>> /\ queue' = Tail(queue)
  BY <1>2, TakesKeep
<1>4. Head(queue).ts = t /\ Head(queue).type = "message"
  BY <1>1, EventParts
<1>5. RowAt(t) /\ NewAt(t) /\ DeletedAt(t) /\ EditedAt(t) /\ ReactedAt(t)
  BY DEF Followed, FollowedAt
<1>6. ~Shows(t) /\ 0 # None /\ NewRow.edit = 0
  BY <1>3, NoneShown, NoneIsNothing DEF NewRow
<1>7. /\ Calm(t, {"deleted"}) /\ Calm(t, {"changed"}) /\ Calm(t, {"reacted", "unreacted"})
      /\ Posting(t) \in Events /\ Events' \subseteq Events
  <2>1. Events = {Head(queue)} \cup Events'
    BY <1>3, TakenFlow DEF Kept, Typed
  <2> QED
    BY <1>1, <1>2, <1>4, <2>1, TakenCalm
<1>8. Known(t)
  BY <1>7 DEF Known
<1>9. Shows(t)' => /\ rows[t] = None /\ t \notin pending /\ UNCHANGED <<pending, rows>>
                   /\ job'.kind = "message" /\ job'.step = "send" /\ job'.row = NewRow
                   /\ job'.shows[t] = 0
  <2>1. UNCHANGED job => ~Shows(t)'
    BY <1>6 DEF Shows
  <2>2. Tasked("message", "send", Only(t, 0), NewRow)'
        => /\ job'.kind = "message" /\ job'.step = "send" /\ job'.row = NewRow
           /\ job'.shows[t] = 0
    BY <1>6, OneShown
  <2> QED
    BY <1>1, <2>1, <2>2
<1>10. rows[t] = None /\ ~Shows(t)' => /\ rows'[t] = NewRow /\ t \in pending /\ t \notin pending'
  <2>1. Tasked("message", "send", Only(t, 0), NewRow)' => Shows(t)'
    BY <1>6, OneShown
  <2> QED
    BY <1>1, <2>1
<1>11. rows[t] # None => rows' = rows /\ UNCHANGED pending
  BY <1>1
<1>12. posts[t] # None => Target(t)' = Target(t)
  <2>1. CASE rows[t] # None
    BY <1>1, <1>6, <1>9, <1>11, <2>1 DEF Target
  <2>2. CASE rows[t] = None /\ Shows(t)'
    BY <1>6, <1>9, <2>2 DEF Target
  <2>3. CASE rows[t] = None /\ ~Shows(t)'
    <3>1. rows'[t] # None
      BY <1>10, <2>3, RowTypes, NoneIsNothing
    <3>2. posts[t] # None => shown[t] = 0
      BY <1>5, <1>6, <1>10, <2>3 DEF RowAt
    <3> QED
      BY <1>1, <1>6, <2>3, <3>1, <3>2 DEF Target
  <2> QED
    BY <2>1, <2>2, <2>3
<1>13. rows'[t] = rows[t] \/ (rows[t] = None /\ rows'[t] = NewRow /\ rows'[t] # None)
  BY <1>1, RowTypes, NoneIsNothing
<1>14. RowAt(t)'
  <2>1. SUFFICES ASSUME posts[t] # None PROVE RowAt(t)'
    BY <1>3 DEF RowAt
  <2>2. posts[t] \in Nat /\ 0 <= posts[t]
    <3>1. posts[t] \in Nat
      BY <2>1, TimesAreStamps
    <3> QED
      BY <3>1
  <2>3. Mirroring(t)' <=> Mirroring(t)
    BY <1>3 DEF Mirroring
  <2>4. Mirroring(t) => mirror.row.edit \in Nat
    BY TimesAreStamps DEF Mirroring, Kept, Typed, Stored, Mirrored, Row
  <2>5. \A n \in Times : Change(t, n) \in Events' => n <= posts[t]
    BY <1>5, <1>7, <2>1 DEF RowAt
  <2>6. Mirroring(t) => /\ mirror.row.edit <= posts[t]
                        /\ mirror.row.edit = posts[t] =>
                             rows'[t] # None /\ rows'[t].edit = posts[t]
                        /\ rows[t] = None => mirror.row.edit < posts[t]
    BY <1>5, <1>13, <2>1, <2>2, <2>4 DEF RowAt
  <2>7. rows'[t] # None => rows'[t].edit <= posts[t]
    BY <1>5, <1>6, <1>13, <2>1, <2>2 DEF RowAt
  <2>8. ~Shows(t)' /\ t \notin missed /\ rows'[t] # None /\ rows'[t].edit = posts[t] =>
          shown'[t] \in {posts[t], Unsent}
    <3>1. CASE rows[t] # None
      BY <1>1, <1>5, <1>6, <1>11, <2>1, <3>1 DEF RowAt
    <3>2. CASE rows[t] = None /\ ~Shows(t)'
      BY <1>1, <1>5, <1>6, <1>10, <2>1, <3>2 DEF RowAt
    <3> QED
      BY <3>1, <3>2
  <2>9. ~Shows(t)' /\ t \in pending' => rows'[t] # None
    <3>1. CASE rows[t] = None
      BY <1>10, <3>1
    <3>2. CASE rows[t] # None
      BY <1>13, <3>2
    <3> QED
      BY <3>1, <3>2
  <2>10. Shows(t)' => /\ job'.row.edit <= posts[t] /\ job'.shows[t] <= posts[t]
                      /\ job'.row.edit = posts[t] => job'.shows[t] = posts[t]
                      /\ job'.step # "save" /\ rows'[t] = None
    BY <1>6, <1>9, <2>2
  <2> QED
    BY <1>3, <1>5, <1>9, <2>1, <2>3, <2>5, <2>6, <2>7, <2>8, <2>9, <2>10 DEF RowAt
<1>15. NewAt(t)'
  BY <1>1, <1>5, <1>9, <1>13 DEF NewAt
<1>16. DeletedAt(t)' /\ EditedAt(t)' /\ ReactedAt(t)'
  BY <1>1, <1>3, <1>5, <1>6, <1>7, <1>8, <1>12, DeletedStill, EditedStill, ReactedStill
<1>17. FollowedAt(t)'
  BY <1>14, <1>15, <1>16 DEF FollowedAt
<1>18. ASSUME NEW o \in Times \ {t} PROVE FollowedAt(o)'
  <2>1. ~Shows(o) /\ ~Shows(o)'
    <3>1. UNCHANGED job \/ Tasked("message", "send", Only(t, 0), NewRow)'
      BY <1>1
    <3> QED
      BY <1>3, <1>6, <3>1, NoneShown, OneShown DEF Shows
  <2>2. rows'[o] = rows[o] /\ (o \in pending' => o \in pending)
    BY <1>1, <1>18 DEF Kept, Typed, Stored
  <2>3. Still(o)
    BY <1>1, <1>3, <2>1, <2>2 DEF Still, SameJob
  <2> QED
    BY <1>2, <1>4, <2>3, OthersTaken
<1> QED
  BY <1>17, <1>18

(* An edit: of a message without a row, an edit that was seen, or a job.    *)
LEMMA TakenEditFollowed ==
  ASSUME Kept, Kept', Followed, TakeEdit PROVE \A o \in Times : FollowedAt(o)'
<1> USE StampTypes
<1>1. PICK t \in Times, n \in Times :
           /\ Head(queue) = Change(t, n)
           /\ UNCHANGED <<pending, rows, reactions, shown, excused>>
           /\ \/ UNCHANGED job /\ (rows[t] = None \/ rows[t].edit >= n)
              \/ /\ rows[t] # None /\ ~(rows[t].edit >= n)
                 /\ \E row \in Row : row.edit \in {0, n} /\ Tasked("edit", "send", Only(t, n), row)'
  BY TakeEditDoes
<1>2. Takes
  BY DEF Takes
<1>3. /\ UNCHANGED <<now, posts, reacted, missed, mirror, stream>> /\ now <= now'
      /\ job = None /\ queue # <<>> /\ queue' = Tail(queue)
  BY <1>2, TakesKeep
<1>4. Head(queue).ts = t /\ Head(queue).type = "changed" /\ Head(queue).edit = n
  BY <1>1, EventParts
<1>5. RowAt(t) /\ NewAt(t) /\ DeletedAt(t) /\ EditedAt(t) /\ ReactedAt(t)
  BY DEF Followed, FollowedAt
<1>6. ~Shows(t) /\ n # None /\ n \in Nat /\ n # 0 /\ n >= 0
  BY <1>3, NoneShown, NoneIsNothing DEF Times
<1>7. Events = {Head(queue)} \cup Events' /\ \A f \in Events' : Precedes(Head(queue), f)
  BY <1>3, TakenFlow DEF Kept, Typed
<1>8. Calm(t, {"deleted"}) /\ Calm(t, {"reacted", "unreacted"})
  BY <1>2, <1>4, TakenCalm
<1>9. Shows(t)' => /\ rows[t] # None /\ ~(rows[t].edit >= n)
                   /\ job'.kind = "edit" /\ job'.step = "send" /\ job'.shows[t] = n
                   /\ job'.row \in Row /\ job'.row.edit \in {0, n}
  <2>1. CASE UNCHANGED job
    BY <1>6, <2>1 DEF Shows
  <2>2. ASSUME NEW row \in Row, row.edit \in {0, n}, Tasked("edit", "send", Only(t, n), row)'
        PROVE  /\ job'.kind = "edit" /\ job'.step = "send" /\ job'.shows[t] = n
               /\ job'.row \in Row /\ job'.row.edit \in {0, n}
    <3>1. job'.kind = "edit" /\ job'.step = "send" /\ job'.shows[t] = n /\ job'.row = row
      BY <1>6, <2>2, OneShown
    <3> QED
      BY <2>2, <3>1
  <2> QED
    BY <1>1, <2>1, <2>2
<1>10. rows[t] = None \/ Shows(t)' \/ rows[t].edit >= n
  <2>1. ASSUME NEW row \in Row, Tasked("edit", "send", Only(t, n), row)' PROVE Shows(t)'
    BY <1>6, <2>1, OneShown
  <2> QED
    BY <1>1, <2>1
<1>11. Known(t)' => Known(t)
  BY <1>1, <1>7, <1>9 DEF Known
<1>12. ASSUME posts[t] # None
       PROVE  /\ posts[t] \in Nat /\ n <= posts[t]
              /\ rows[t] # None => rows[t].edit \in Nat /\ rows[t].edit <= posts[t]
              /\ Mirroring(t) => mirror.row.edit \in Nat
  <2>1. posts[t] \in Nat
    BY <1>12, TimesAreStamps
  <2>2. n <= posts[t]
    BY <1>1, <1>5, <1>7, <1>12 DEF RowAt
  <2>3. rows[t] # None => rows[t].edit \in Nat /\ rows[t].edit <= posts[t]
    BY <1>5, <1>12, TimesAreStamps DEF RowAt, Row
  <2>4. Mirroring(t) => mirror.row.edit \in Nat
    BY TimesAreStamps DEF Mirroring, Kept, Typed, Stored, Mirrored, Row
  <2> QED
    BY <2>1, <2>2, <2>3, <2>4
<1>13. RowAt(t)'
  <2>1. SUFFICES ASSUME posts[t] # None PROVE RowAt(t)'
    BY <1>3 DEF RowAt
  <2>2. Mirroring(t)' <=> Mirroring(t)
    BY <1>3 DEF Mirroring
  <2>3. \A m \in Times : Change(t, m) \in Events' => m <= posts[t]
    BY <1>5, <1>7, <2>1 DEF RowAt
  <2>4. Shows(t)' => /\ job'.row.edit <= posts[t] /\ job'.shows[t] <= posts[t]
                     /\ job'.row.edit = posts[t] => job'.shows[t] = posts[t]
                     /\ job'.step # "save" /\ rows[t].edit < posts[t]
    BY <1>6, <1>9, <1>12, <2>1
  <2>5. Shows(t)' /\ Mirroring(t) => mirror.row.edit < posts[t]
    BY <1>5, <1>9, <1>12, <2>1 DEF RowAt
  <2> QED
    BY <1>1, <1>3, <1>5, <1>6, <1>9, <2>1, <2>2, <2>3, <2>4, <2>5 DEF RowAt
<1>14. NewAt(t)'
  BY <1>1, <1>5, <1>9 DEF NewAt
<1>15. DeletedAt(t)' /\ ReactedAt(t)'
  BY <1>1, <1>3, <1>5, <1>6, <1>8, <1>11, DeletedStill, ReactedStill
<1>16. EditedAt(t)'
  <2>1. SUFFICES ASSUME t \notin missed, posts[t] # None PROVE EditedAt(t)'
    BY <1>3 DEF EditedAt
  <2>2. posts[t] \in Times /\ Change(t, posts[t]) \in Events
    BY <1>1, <1>5, <1>7, <2>1 DEF EditedAt, Changing
  <2>3. ASSUME NEW f \in Events', f.ts = t PROVE InOrder(Change(t, n), f)
    BY <1>7, <2>3, EventParts DEF Followed, Order
  <2>4. ASSUME n = posts[t], NEW m \in Times, Change(t, m) \in Events' PROVE FALSE
    <3>1. /\ Change(t, m).ts = t /\ Change(t, m).type = "changed" /\ Change(t, m).edit = m
          /\ About(Change(t, m)) /\ About(Change(t, n))
          /\ Change(t, n).ts = t /\ Change(t, n).type = "changed" /\ Change(t, n).edit = n
      BY EventParts
    <3>2. n < m
      BY <1>1, <1>7, <2>3, <2>4, <3>1 DEF InOrder
    <3>3. m <= posts[t]
      BY <1>5, <1>7, <2>1, <2>4 DEF RowAt
    <3> QED
      BY <2>4, <3>2, <3>3
  <2>5. n # posts[t] => Change(t, posts[t]) \in Events'
    BY <1>1, <1>4, <1>7, <2>2, EventParts
  <2>6. Changing(t)' => Change(t, posts[t]) \in Events'
    BY <2>4, <2>5 DEF Changing
  <2>7. ASSUME ~Changing(t)', Known(t)' PROVE Target(t)' \in {posts[t], Unsent}
    <3>1. n = posts[t]
      BY <2>2, <2>5, <2>7 DEF Changing
    <3>2. Posting(t) \notin Events'
      BY <1>1, <1>7, <2>3, EventParts DEF InOrder
    <3>3. CASE Shows(t)'
      BY <1>9, <3>1, <3>3 DEF Target
    <3>4. CASE ~Shows(t)'
      <4>1. rows[t] # None
        BY <1>1, <2>7, <3>2, <3>4 DEF Known
      <4>2. rows[t].edit = posts[t]
        BY <1>10, <1>12, <2>1, <3>1, <3>4, <4>1
      <4>3. shown[t] \in {posts[t], Unsent}
        BY <1>5, <1>6, <2>1, <4>1, <4>2 DEF RowAt
      <4> QED
        BY <1>1, <3>4, <4>1, <4>3 DEF Target
    <3> QED
      BY <3>3, <3>4
  <2> QED
    BY <1>3, <2>2, <2>6, <2>7 DEF EditedAt
<1>17. FollowedAt(t)'
  BY <1>13, <1>14, <1>15, <1>16 DEF FollowedAt
<1>18. ASSUME NEW o \in Times \ {t} PROVE FollowedAt(o)'
  <2>1. ~Shows(o) /\ ~Shows(o)'
    <3>1. UNCHANGED job => ~Shows(o)'
      BY <1>3, NoneShown DEF Shows
    <3>2. ASSUME NEW row \in Row, Tasked("edit", "send", Only(t, n), row)' PROVE ~Shows(o)'
      BY <1>6, <3>2, OneShown
    <3> QED
      BY <1>1, <1>3, <3>1, <3>2, NoneShown
  <2>2. Still(o)
    BY <1>1, <1>3, <2>1 DEF Still, SameJob
  <2> QED
    BY <1>2, <1>4, <2>2, OthersTaken
<1> QED
  BY <1>17, <1>18

(* A deletion: row, reaction and Matrix events go.                          *)
LEMMA TakenDeletionFollowed ==
  ASSUME Kept, Kept', Gone, Followed, TakeDeletion PROVE \A o \in Times : FollowedAt(o)'
<1> USE StampTypes
<1>1. PICK t \in Times :
           /\ Head(queue) = Deletion(t) /\ UNCHANGED <<job, pending, excused>>
           /\ rows' = [rows EXCEPT ![t] = None] /\ shown' = [shown EXCEPT ![t] = None]
           /\ reactions' = reactions \ {t}
  BY TakeDeletionDoes
<1>2. Takes
  BY DEF Takes
<1>3. /\ UNCHANGED <<now, posts, reacted, missed, mirror, stream>> /\ now <= now'
      /\ job = None /\ queue # <<>> /\ queue' = Tail(queue)
  BY <1>2, TakesKeep
<1>4. Head(queue).ts = t /\ Head(queue).type = "deleted" /\ About(Head(queue))
  BY <1>1, EventParts
<1>5. Events = {Head(queue)} \cup Events' /\ \A f \in Events' : Precedes(Head(queue), f)
  BY <1>3, TakenFlow DEF Kept, Typed
<1>6. posts[t] = None /\ rows'[t] = None /\ ~Shows(t)'
  <2>1. posts[t] = None
    BY <1>1, <1>5 DEF Gone
  <2>2. ~Shows(t)'
    BY <1>1, <1>3 DEF Shows
  <2> QED
    BY <1>1, <2>1, <2>2
<1>7. RowAt(t)' /\ EditedAt(t)' /\ ReactedAt(t)'
  BY <1>3, <1>6 DEF RowAt, EditedAt, ReactedAt
<1>8. NewAt(t)'
  BY <1>1, <1>6 DEF NewAt
<1>9. DeletedAt(t)'
  <2>1. ASSUME NEW f \in Events', f.ts = t PROVE ~About(f)
    BY <1>4, <1>5, <2>1 DEF Followed, Order, InOrder
  <2>2. Posting(t) \notin Events'
    BY <2>1, EventParts
  <2> QED
    BY <1>6, <2>2 DEF DeletedAt, Known
<1>10. FollowedAt(t)'
  BY <1>7, <1>8, <1>9 DEF FollowedAt
<1>11. ASSUME NEW o \in Times \ {t} PROVE FollowedAt(o)'
  <2>1. /\ rows'[o] = rows[o] /\ shown'[o] = shown[o]
        /\ (o \in reactions' <=> o \in reactions)
    BY <1>1, <1>11 DEF Kept, Typed, Stored
  <2>2. Still(o)
    BY <1>1, <1>3, <2>1, SameJobs DEF Still
  <2> QED
    BY <1>2, <1>4, <2>2, OthersTaken
<1> QED
  BY <1>10, <1>11

(* A reaction, or one that was removed, of a message with a row.            *)
LEMMA TakenReactionFollowed ==
  ASSUME Kept, Kept', Followed, TakeReaction PROVE \A o \in Times : FollowedAt(o)'
<1> USE StampTypes
<1>1. PICK t \in Times :
           /\ UNCHANGED <<job, pending, rows, shown, excused>>
           /\ rows[t] = None => UNCHANGED reactions
           /\ \/ /\ Head(queue) = Ev("reacted", t, 0)
                 /\ rows[t] # None => reactions' = reactions \cup {t}
              \/ /\ Head(queue) = Ev("unreacted", t, 0)
                 /\ rows[t] # None => reactions' = reactions \ {t}
  BY TakeReactionDoes
<1>2. Takes
  BY DEF Takes
<1>3. /\ UNCHANGED <<now, posts, reacted, missed, mirror, stream>> /\ now <= now'
      /\ job = None /\ queue # <<>> /\ queue' = Tail(queue)
  BY <1>2, TakesKeep
<1>4. /\ Head(queue).ts = t /\ Head(queue).type \in {"reacted", "unreacted"}
      /\ About(Head(queue)) /\ Head(queue) \in {Right(t), Wrong(t)}
  BY <1>1, EventParts DEF Right, Wrong
<1>5. /\ Events = {Head(queue)} \cup Events' /\ \A f \in Events' : Precedes(Head(queue), f)
      /\ \A e, f \in Event : e # f /\ Final(e, f) =>
           \/ Final(e, f)'
           \/ Head(queue) = e /\ e \notin Events' /\ f \notin Events'
  BY <1>3, TakenFlow DEF Kept, Typed
<1>6. RowAt(t) /\ NewAt(t) /\ DeletedAt(t) /\ EditedAt(t) /\ ReactedAt(t)
  BY DEF Followed, FollowedAt
<1>7. Calm(t, {"deleted"}) /\ Calm(t, {"changed"})
  BY <1>2, <1>4, TakenCalm
<1>8. Known(t)' => Known(t)
  BY <1>1, <1>5 DEF Known, Shows
<1>9. RowAt(t)'
  BY <1>1, <1>3, <1>5, <1>6, SameJobs, RowStill
<1>10. NewAt(t)'
  BY <1>1, <1>6 DEF NewAt, Shows
<1>11. DeletedAt(t)' /\ EditedAt(t)'
  <2>1. Target(t)' = Target(t)
    BY <1>1 DEF Target, Shows
  <2> QED
    BY <1>3, <1>6, <1>7, <1>8, <2>1, DeletedStill, EditedStill
<1>12. ReactedAt(t)'
  <2>1. SUFFICES ASSUME t \notin missed, posts[t] # None PROVE ReactedAt(t)'
    BY <1>3 DEF ReactedAt
  <2>2. /\ Right(t)' = Right(t) /\ Wrong(t)' = Wrong(t) /\ Right(t) # Wrong(t)
        /\ Right(t) \in Event /\ Wrong(t) \in Event
    BY <1>3, EventParts DEF Right, Wrong
  <2>3. Final(Right(t), Wrong(t))
    BY <1>4, <1>5, <1>6, <2>1 DEF ReactedAt, Reacting
  <2>4. CASE Final(Right(t), Wrong(t))'
    <3>1. Reacting(t)'
      BY <2>2, <2>4 DEF Reacting, Final, Latter, Events, ToSet
    <3> QED
      BY <2>2, <2>4, <3>1 DEF ReactedAt
  <2>5. CASE Head(queue) = Right(t) /\ Right(t) \notin Events' /\ Wrong(t) \notin Events'
    <3>1. ~Reacting(t)'
      BY <2>2, <2>5 DEF Reacting
    <3>2. Posting(t) \notin Events'
      <4>1. ASSUME NEW f \in Events', f.ts = t, About(f) PROVE f.type # "message"
        BY <1>4, <1>5, <4>1 DEF Followed, Order, InOrder
      <4> QED
        BY <4>1, EventParts
    <3>3. ~Shows(t)'
      BY <1>1, <1>3 DEF Shows
    <3>4. rows[t] # None => (t \in reactions' <=> t \in reacted)
      BY <1>1, <2>5, EventParts DEF Right
    <3> QED
      BY <1>1, <1>3, <3>1, <3>2, <3>3, <3>4 DEF ReactedAt, Known
  <2> QED
    BY <1>5, <2>2, <2>3, <2>4, <2>5
<1>13. FollowedAt(t)'
  BY <1>9, <1>10, <1>11, <1>12 DEF FollowedAt
<1>14. ASSUME NEW o \in Times \ {t} PROVE FollowedAt(o)'
  <2>1. o \in reactions' <=> o \in reactions
    BY <1>1, <1>14
  <2>2. Still(o)
    BY <1>1, <1>3, <2>1, SameJobs DEF Still
  <2> QED
    BY <1>2, <1>4, <2>2, OthersTaken
<1> QED
  BY <1>13, <1>14

(* A resync changes no message.                                             *)
LEMMA TakenResyncFollowed ==
  ASSUME Kept, Kept', Followed, TakeResync PROVE \A o \in Times : FollowedAt(o)'
<1> USE StampTypes
<1>1. PICK n \in Stamps :
           /\ Head(queue).type = "resync" /\ Head(queue).ts = n
           /\ UNCHANGED <<pending, rows, reactions, shown>>
           /\ \/ Latest(Bridged) < n /\ Tasked("fetch", "send", Nothing, NewRow)'
              \/ ~(Latest(Bridged) < n) /\ job' = None
           /\ excused' = excused \cup {t \in Posted \ Bridged : t < Latest(Bridged) \/ t > n}
  BY TakeResyncDoes
<1>2. Takes
  BY DEF Takes
<1>3. /\ UNCHANGED <<now, posts, reacted, missed, mirror>> /\ now <= now' /\ job = None
  BY <1>2, TakesKeep
<1>4. ASSUME NEW o \in Times PROVE ~Shows(o) /\ ~Shows(o)'
  BY <1>1, <1>3 DEF Shows, Tasked, Nothing
<1>5. ASSUME NEW o \in Times PROVE Still(o)
  BY <1>1, <1>3, <1>4 DEF Still, SameJob
<1> QED
  BY <1>1, <1>2, <1>5, OthersTaken

-----------------------------------------------------------------------------
(* The portal's job and the mirror's rows are followed. *)

(* Of a message that nothing was done with.                                 *)
LEMMA WorkStill ==
  ASSUME Kept, Kept', Followed, Works, NEW t \in Times, Mirroring(t)' => UNCHANGED mirror,
         rows'[t] = rows[t], shown'[t] = shown[t], t \in reactions' <=> t \in reactions, SameJob(t)
  PROVE  FollowedAt(t)'
<1> USE StampTypes
<1>1. UNCHANGED <<now, posts, reacted, missed, pending>> /\ now <= now'
  BY WorkKeeps
<1>2. Still(t)
  BY <1>1 DEF Still
<1>3. Calm(t, {"message", "deleted", "changed", "reacted", "unreacted"})
  BY AroundCalm
<1> QED
  BY <1>2, <1>3, FollowedStill DEF Followed

(* Events and Slack are as they were.                                       *)
LEMMA WorkCalm ==
  ASSUME Kept, Works, NEW t \in Times
  PROVE  /\ UNCHANGED <<now, posts, reacted, missed, pending>>
         /\ Calm(t, {"deleted"}) /\ Calm(t, {"changed"}) /\ Calm(t, {"reacted", "unreacted"})
         /\ Posting(t) \in Events' <=> Posting(t) \in Events
         /\ \A n \in Times : Change(t, n) \in Events' <=> Change(t, n) \in Events
<1>1. /\ Calm(t, {"deleted"}) /\ Calm(t, {"changed"}) /\ Calm(t, {"reacted", "unreacted"})
      /\ UNCHANGED <<now, posts, reacted, missed, pending>>
  BY AroundCalm, WorkKeeps
<1>2. \A e \in Event : About(e) => (e \in Events' <=> e \in Events)
  BY CalmFlow
<1> QED
  BY <1>1, <1>2, EventParts

(* The edits that are compared are numbers.                                 *)
LEMMA EditTypes ==
  ASSUME Kept, NEW t \in Times
  PROVE  /\ posts[t] # None => posts[t] \in Nat
         /\ rows[t] # None => rows[t].edit \in Nat
         /\ Mirroring(t) => mirror.row.edit \in Nat
         /\ Shows(t) => job.row.edit \in Nat /\ job.row \in Row /\ job.shows[t] \in Nat
<1>1. Shows(t) => job.row \in Row /\ job.shows \in [Times -> Stamps \cup {None}]
  BY JobFields DEF Shows, Kept, Typed, Stored
<1>2. Shows(t) => job.row.edit \in Nat /\ job.row \in Row /\ job.shows[t] \in Nat
  BY <1>1, TimesAreStamps DEF Shows, Row
<1>3. Mirroring(t) => mirror.row.edit \in Nat
  BY TimesAreStamps DEF Mirroring, Kept, Typed, Stored, Mirrored, Row
<1>4. rows[t] # None => rows[t].edit \in Nat
  BY StampTypes, TimesAreStamps DEF Row
<1>5. posts[t] # None => posts[t] \in Nat
  BY StampTypes, TimesAreStamps
<1> QED
  BY <1>2, <1>3, <1>4, <1>5

(* Nor does a fetch that fails.                                             *)
LEMMA FetchFailsFollowed ==
  ASSUME Kept, Kept', Followed, FetchFails PROVE \A o \in Times : FollowedAt(o)'
<1>1. /\ job # None /\ job.kind = "fetch" /\ job' = None
      /\ UNCHANGED <<rows, reactions, shown, mirror, misread>>
  BY FetchFailsDoes
<1>2. Works
  BY DEF Works
<1>3. ASSUME NEW o \in Times PROVE SameJob(o)
  BY <1>1, NoneShown DEF SameJob, Shows, Followed, FollowedAt, NewAt
<1> QED
  BY <1>1, <1>2, <1>3, WorkStill

(* The messages of a page have no row, and are shown as they are in Slack.  *)
LEMMA FetchFollowed ==
  ASSUME Kept, Kept', Followed, FetchMessages PROVE \A o \in Times : FollowedAt(o)'
<1> USE StampTypes
<1>1. /\ job # None /\ job.kind = "fetch" /\ UNCHANGED <<rows, reactions, shown, mirror>>
      /\ excused' = excused \cup (Newer \ Page)
      /\ \/ Page = {} /\ job' = None
         \/ \E shows \in [Times -> Stamps \cup {None}] :
              /\ \A t \in Times : shows[t] = IF t \in Page THEN posts[t] ELSE None
              /\ Tasked("page", "send", shows, NewRow)'
  BY FetchMessagesDoes
<1>2. Works
  BY DEF Works
<1>3. ASSUME NEW t \in Times PROVE ~Shows(t)
  BY <1>1 DEF Followed, FollowedAt, NewAt
<1>4. ASSUME NEW t \in Page PROVE t \in Times /\ posts[t] # None /\ rows[t] = None
  <2>1. t \in Times /\ posts[t] # None /\ t > Latest(Bridged)
    BY DEF Page, Newer, Posted
  <2>2. Bridged \subseteq Times
    BY DEF Bridged
  <2>3. rows[t] = None
    <3>1. SUFFICES ASSUME t \in Bridged PROVE FALSE
      BY <2>1 DEF Bridged
    <3>2. Latest(Bridged) \in Stamps /\ t <= Latest(Bridged)
      BY <2>2, <3>1, LatestIsMax
    <3>3. t \in Nat /\ Latest(Bridged) \in Nat
      BY <2>1, <3>2, TimesAreStamps
    <3> QED
      BY <2>1, <3>2, <3>3
  <2> QED
    BY <2>1, <2>3
<1>5. ASSUME NEW t \in Times, t \notin Page PROVE FollowedAt(t)'
  <2>1. ~Shows(t)'
    BY <1>1, <1>5 DEF Shows, Tasked
  <2> QED
    BY <1>1, <1>2, <1>3, <2>1, WorkStill DEF SameJob
<1>6. ASSUME NEW t \in Times, t \in Page PROVE FollowedAt(t)'
  <2>1. posts[t] # None /\ rows[t] = None /\ ~Shows(t) /\ posts[t] \in Nat
        /\ NewRow.edit = 0 /\ 0 <= posts[t] /\ posts[t] <= posts[t]
    BY <1>3, <1>4, <1>6, EditTypes DEF NewRow
  <2>2. /\ Shows(t)' /\ job'.kind = "page" /\ job'.step = "send" /\ job'.row = NewRow
        /\ job'.shows[t] = posts[t]
    BY <1>1, <1>6, <2>1 DEF Shows, Tasked
  <2>3. RowAt(t) /\ NewAt(t) /\ EditedAt(t) /\ ReactedAt(t)
    BY DEF Followed, FollowedAt
  <2>4. /\ UNCHANGED <<now, posts, reacted, missed, pending>>
        /\ Calm(t, {"reacted", "unreacted"})
        /\ \A n \in Times : Change(t, n) \in Events' <=> Change(t, n) \in Events
    BY <1>2, WorkCalm
  <2>5. RowAt(t)'
    <3>1. Mirroring(t)' => /\ Mirroring(t) /\ mirror'.row = mirror.row
                           /\ mirror.row.edit \in Nat
      BY <1>1, EditTypes DEF Mirroring
    <3>2. Mirroring(t)' => mirror'.row.edit <= posts[t] /\ mirror'.row.edit # posts[t]
      BY <2>1, <2>3, <3>1 DEF RowAt
    <3>3. Mirroring(t)' => mirror'.row.edit < posts[t]
      BY <2>1, <3>1, <3>2
    <3> QED
      BY <1>1, <2>1, <2>2, <2>3, <2>4, <3>2, <3>3 DEF RowAt
  <2>6. NewAt(t)' /\ DeletedAt(t)'
    BY <1>1, <2>1, <2>2, <2>3, <2>4 DEF NewAt, DeletedAt
  <2>7. EditedAt(t)'
    BY <2>2, <2>3, <2>4 DEF EditedAt, Changing, Target
  <2>8. ReactedAt(t)'
    BY <2>2, <2>3, <2>4, ReactingStill DEF ReactedAt
  <2> QED
    BY <2>5, <2>6, <2>7, <2>8 DEF FollowedAt
<1> QED
  BY <1>5, <1>6

(* What is sent is shown.                                                   *)
LEMMA SendFollowed ==
  ASSUME Kept, Kept', Followed, Send PROVE \A o \in Times : FollowedAt(o)'
<1> USE StampTypes
<1>1. /\ UNCHANGED <<rows, reactions, mirror, excused, misread>>
      /\ job # None /\ job.kind \in {"message", "edit", "page"} /\ job.step = "send"
      /\ job' # None /\ job'.step = "save" /\ job'.kind = job.kind /\ job'.shows = job.shows
      /\ job'.row = job.row
      /\ \A t \in Times : shown'[t] = IF job.shows[t] # None THEN job.shows[t] ELSE shown[t]
  BY SendDoes
<1>2. Works
  BY DEF Works
<1>3. ASSUME NEW t \in Times, ~Shows(t) PROVE FollowedAt(t)'
  <2>1. ~Shows(t)' /\ shown'[t] = shown[t]
    BY <1>1, <1>3 DEF Shows
  <2> QED
    BY <1>1, <1>2, <1>3, <2>1, WorkStill DEF SameJob
<1>4. ASSUME NEW t \in Times, Shows(t) PROVE FollowedAt(t)'
  <2>1. RowAt(t) /\ NewAt(t) /\ DeletedAt(t) /\ EditedAt(t) /\ ReactedAt(t)
    BY DEF Followed, FollowedAt
  <2>2. /\ UNCHANGED <<now, posts, reacted, missed, pending>>
        /\ Calm(t, {"deleted"}) /\ Calm(t, {"changed"}) /\ Calm(t, {"reacted", "unreacted"})
        /\ Posting(t) \in Events' <=> Posting(t) \in Events
        /\ \A n \in Times : Change(t, n) \in Events' <=> Change(t, n) \in Events
    BY <1>2, WorkCalm
  <2>3. Shows(t)' /\ shown'[t] = job.shows[t] /\ job'.shows[t] = job.shows[t]
    BY <1>1, <1>4 DEF Shows
  <2>4. Known(t)' <=> Known(t)
    BY <1>1, <1>4, <2>3 DEF Known
  <2>5. RowAt(t)'
    BY <1>1, <1>4, <2>1, <2>2, <2>3 DEF RowAt, Mirroring
  <2>6. NewAt(t)'
    BY <1>1, <1>4, <2>1 DEF NewAt
  <2>7. DeletedAt(t)' /\ ReactedAt(t)'
    BY <1>1, <2>1, <2>2, <2>3, <2>4, DeletedStill, ReactedStill
  <2>8. EditedAt(t)'
    <3>1. Target(t)' = Target(t)
      BY <1>4, <2>3 DEF Target
    <3> QED
      BY <2>1, <2>2, <2>4, <3>1, EditedStill
  <2> QED
    BY <2>5, <2>6, <2>7, <2>8 DEF FollowedAt
<1> QED
  BY <1>3, <1>4

(* What is saved is what is shown.                                          *)
LEMMA SaveFollowed ==
  ASSUME Kept, Kept', Followed, Save PROVE \A o \in Times : FollowedAt(o)'
<1> USE StampTypes
<1>1. /\ UNCHANGED <<shown, mirror, excused, misread>>
      /\ job # None /\ job.step = "save" /\ job' = None /\ job.row \in Row
      /\ job.kind \in {"message", "edit", "page", "post", "update"}
      /\ \A t \in Times : rows'[t] = IF job.shows[t] # None THEN job.row ELSE rows[t]
      /\ reactions' = IF job.kind = "page"
                      THEN reactions \cup {t \in reacted : job.shows[t] # None} ELSE reactions
  BY SaveDoes
<1>2. Works
  BY DEF Works
<1>3. ASSUME NEW t \in Times PROVE ~Shows(t)'
  BY <1>1 DEF Shows
<1>4. ASSUME NEW t \in Times, ~Shows(t) PROVE FollowedAt(t)'
  <2>1. rows'[t] = rows[t] /\ (t \in reactions' <=> t \in reactions)
    BY <1>1, <1>4 DEF Shows
  <2> QED
    BY <1>1, <1>2, <1>3, <1>4, <2>1, WorkStill DEF SameJob
<1>5. ASSUME NEW t \in Times, Shows(t) PROVE FollowedAt(t)'
  <2>1. RowAt(t) /\ NewAt(t) /\ DeletedAt(t) /\ EditedAt(t) /\ ReactedAt(t)
    BY DEF Followed, FollowedAt
  <2>2. /\ UNCHANGED <<now, posts, reacted, missed, pending>>
        /\ Calm(t, {"deleted"}) /\ Calm(t, {"changed"}) /\ Calm(t, {"reacted", "unreacted"})
        /\ Posting(t) \in Events' <=> Posting(t) \in Events
        /\ \A n \in Times : Change(t, n) \in Events' <=> Change(t, n) \in Events
    BY <1>2, WorkCalm
  <2>3. rows'[t] = job.row /\ rows'[t] # None /\ ~Shows(t)' /\ Known(t)
    BY <1>1, <1>3, <1>5, NoneIsNothing DEF Shows, Known
  <2>4. posts[t] # None => shown'[t] = job.shows[t]
    BY <1>1, <1>5, <2>1 DEF RowAt
  <2>5. RowAt(t)'
    <3>1. SUFFICES ASSUME posts[t] # None PROVE RowAt(t)'
      BY <2>2 DEF RowAt
    <3>2. /\ rows'[t].edit <= posts[t]
          /\ rows'[t].edit = posts[t] => shown'[t] = posts[t]
      BY <1>5, <2>1, <2>3, <2>4, <3>1 DEF RowAt
    <3>3. Mirroring(t)' => /\ Mirroring(t) /\ mirror'.row = mirror.row
                           /\ mirror.row.edit \in Nat /\ posts[t] \in Nat
      BY <1>1, <3>1, EditTypes DEF Mirroring
    <3>4. Mirroring(t)' => mirror'.row.edit <= posts[t] /\ mirror'.row.edit < posts[t]
      BY <1>5, <2>1, <3>1, <3>3 DEF RowAt
    <3>5. Mirroring(t)' => mirror'.row.edit # posts[t]
      BY <3>3, <3>4
    <3> QED
      BY <2>1, <2>2, <2>3, <3>1, <3>2, <3>4, <3>5 DEF RowAt
  <2>6. NewAt(t)'
    BY <2>3 DEF NewAt
  <2>7. DeletedAt(t)'
    BY <2>1, <2>2, <2>3, DeletedStill
  <2>8. EditedAt(t)'
    <3>1. posts[t] # None => Target(t)' = Target(t)
      BY <1>5, <2>3, <2>4 DEF Target
    <3> QED
      BY <2>1, <2>2, <2>3, <3>1, EditedStill
  <2>9. ReactedAt(t)'
    <3>1. CASE job.kind # "page"
      BY <1>1, <2>1, <2>2, <2>3, <3>1, ReactedStill
    <3>2. CASE job.kind = "page"
      <4>1. t \notin reactions
        BY <1>5, <2>1, <3>2 DEF NewAt
      <4>2. t \in reactions' <=> t \in reacted'
        BY <1>1, <1>5, <2>2, <3>2, <4>1 DEF Shows
      <4> QED
        BY <2>1, <2>2, <4>2, ReactingStill DEF ReactedAt
    <3> QED
      BY <3>1, <3>2
  <2> QED
    BY <2>5, <2>6, <2>7, <2>8, <2>9 DEF FollowedAt
<1> QED
  BY <1>4, <1>5

(* The mirror writes what it read: with the last edit only if the row that  *)
(* is there has it.                                                         *)
LEMMA WriteFollowed ==
  ASSUME Kept, Kept', Followed, MirrorWrite PROVE \A o \in Times : FollowedAt(o)'
<1> USE StampTypes
<1>1. /\ UNCHANGED <<reactions, shown, excused, misread>>
      /\ mirror # None /\ mirror.ts \in Times /\ mirror.row \in Row /\ mirror' = None
      /\ \A t \in Times : rows'[t] = IF t = mirror.ts /\ rows[t] # None THEN mirror.row
                                     ELSE rows[t]
      /\ job = None => job' = None
      /\ job # None => /\ job' # None /\ job'.step = job.step /\ job'.kind = job.kind
                       /\ job'.shows = job.shows /\ job'.row = job.row
  BY MirrorWriteDoes
<1>2. Works
  BY DEF Works
<1>3. ASSUME NEW t \in Times PROVE SameJob(t) /\ ~Mirroring(t)'
  BY <1>1 DEF SameJob, Shows, Mirroring
<1>4. ASSUME NEW t \in Times, rows'[t] = rows[t] PROVE FollowedAt(t)'
  BY <1>1, <1>2, <1>3, <1>4, WorkStill
<1>5. ASSUME NEW t \in Times, t = mirror.ts, rows[t] # None PROVE FollowedAt(t)'
  <2>1. RowAt(t) /\ NewAt(t) /\ DeletedAt(t) /\ EditedAt(t) /\ ReactedAt(t)
    BY DEF Followed, FollowedAt
  <2>2. /\ UNCHANGED <<now, posts, reacted, missed, pending>>
        /\ Calm(t, {"deleted"}) /\ Calm(t, {"changed"}) /\ Calm(t, {"reacted", "unreacted"})
        /\ Posting(t) \in Events' <=> Posting(t) \in Events
        /\ \A n \in Times : Change(t, n) \in Events' <=> Change(t, n) \in Events
    BY <1>2, WorkCalm
  <2>3. rows'[t] = mirror.row /\ rows'[t] # None /\ Mirroring(t) /\ ~Mirroring(t)' /\ SameJob(t)
    BY <1>1, <1>3, <1>5, NoneIsNothing DEF Mirroring
  <2>4. RowAt(t)'
    <3>1. SUFFICES ASSUME posts[t] # None PROVE RowAt(t)'
      BY <2>2 DEF RowAt
    <3>2. /\ rows'[t].edit <= posts[t]
          /\ Shows(t) => rows'[t].edit < posts[t]
          /\ ~Shows(t) /\ t \notin missed /\ rows'[t].edit = posts[t] =>
               shown[t] \in {posts[t], Unsent}
      BY <1>5, <2>1, <2>3, <3>1 DEF RowAt
    <3> QED
      BY <1>1, <2>1, <2>2, <2>3, <3>1, <3>2 DEF RowAt, SameJob
  <2>5. NewAt(t)'
    BY <1>5, <2>1, <2>3 DEF NewAt, SameJob
  <2>6. DeletedAt(t)' /\ ReactedAt(t)'
    BY <1>1, <1>5, <2>1, <2>2, <2>3, DeletedStill, ReactedStill DEF SameJob, Known
  <2>7. EditedAt(t)'
    <3>1. Target(t)' = Target(t) /\ Known(t)
      BY <1>1, <1>5, <2>3 DEF Target, SameJob, Known
    <3> QED
      BY <2>1, <2>2, <3>1, EditedStill
  <2> QED
    BY <2>4, <2>5, <2>6, <2>7 DEF FollowedAt
<1> QED
  BY <1>1, <1>4, <1>5

(* The mirror reads the row that is there.                                  *)
LEMMA ReadFollowed ==
  ASSUME Kept, Kept', Followed, NEW t \in Times, MirrorRead(t)
  PROVE  \A o \in Times : FollowedAt(o)'
<1> USE StampTypes
<1>1. /\ UNCHANGED <<rows, reactions, shown, job, excused, misread>>
      /\ mirror = None /\ rows[t] # None /\ mirror' # None /\ mirror'.ts = t
      /\ mirror'.row.edit = rows[t].edit
  BY MirrorReadDoes
<1>2. Works
  BY DEF Works
<1>3. \A o \in Times : SameJob(o)
  BY <1>1, SameJobs
<1>4. ASSUME NEW o \in Times \ {t} PROVE FollowedAt(o)'
  <2>1. ~Mirroring(o)'
    BY <1>1, <1>4 DEF Mirroring
  <2> QED
    BY <1>1, <1>2, <1>3, <2>1, WorkStill
<1>5. FollowedAt(t)'
  <2>1. RowAt(t) /\ NewAt(t) /\ DeletedAt(t) /\ EditedAt(t) /\ ReactedAt(t)
    BY DEF Followed, FollowedAt
  <2>2. /\ UNCHANGED <<now, posts, reacted, missed, pending>>
        /\ Calm(t, {"deleted"}) /\ Calm(t, {"changed"}) /\ Calm(t, {"reacted", "unreacted"})
        /\ Posting(t) \in Events' <=> Posting(t) \in Events
        /\ \A n \in Times : Change(t, n) \in Events' <=> Change(t, n) \in Events
    BY <1>2, WorkCalm
  <2>3. Known(t)' <=> Known(t)
    BY <1>1, <2>2 DEF Known, Shows
  <2>4. RowAt(t)'
    BY <1>1, <2>1, <2>2 DEF RowAt, Mirroring, Shows
  <2>5. NewAt(t)'
    BY <1>1, <2>1 DEF NewAt, Shows
  <2>6. DeletedAt(t)' /\ ReactedAt(t)'
    BY <1>1, <2>1, <2>2, <2>3, DeletedStill, ReactedStill DEF Shows
  <2>7. EditedAt(t)'
    <3>1. Target(t)' = Target(t)
      BY <1>1 DEF Target, Shows
    <3> QED
      BY <2>1, <2>2, <2>3, <3>1, EditedStill
  <2> QED
    BY <2>4, <2>5, <2>6, <2>7 DEF FollowedAt
<1> QED
  BY <1>4, <1>5

-----------------------------------------------------------------------------
(* When all was handled, messages are as they are in Slack. *)

(* Nothing was told at the start.                                           *)
LEMMA FollowedInit == ASSUME Init PROVE Followed
<1>1. Events = {} /\ queue = <<>> /\ stream = <<>>
  BY EmptySet DEF Init, Events
<1>2. Order
  <2>1. \A e, f : ~Precedes(e, f)
    BY <1>1, EmptySet DEF Precedes, Prec
  <2> QED
    BY <2>1 DEF Order, InOrder
<1>3. ASSUME NEW t \in Times PROVE FollowedAt(t)
  <2>1. posts[t] = None /\ rows[t] = None /\ ~Shows(t) /\ t \notin reactions
    BY DEF Init, Nothing, Shows
  <2>2. ~Known(t)
    BY <1>1, <2>1 DEF Known
  <2> QED
    BY <2>1, <2>2 DEF FollowedAt, RowAt, NewAt, DeletedAt, EditedAt, ReactedAt
<1> QED
  BY <1>2, <1>3 DEF Followed

(* Every step is followed.                                                  *)
LEMMA FollowedNext ==
  ASSUME Kept, Kept', Past, Gone, Followed, [Next]_vars PROVE Followed'
<1>1. Order'
  BY OrderKept DEF Followed, FollowedAt
<1>2. \A o \in Times : FollowedAt(o)'
  <2>1. CASE ByUsers
    BY <2>1, FollowedUsers
  <2>2. CASE Around
    BY <2>2, FollowedAround
  <2>3. CASE Takes
    BY Zenon, <2>3, MessageFollowed, TakenEditFollowed, TakenDeletionFollowed,
       TakenReactionFollowed, TakenResyncFollowed DEF Takes
  <2>4. CASE Works
    BY Zenon, <2>4, FetchFailsFollowed, FetchFollowed, SendFollowed, SaveFollowed, WriteFollowed,
       ReadFollowed DEF Works
  <2>5. CASE Crash
    BY <2>5, FollowedCrash
  <2>6. CASE Refused
    BY <2>6, FollowedRefused
  <2> QED
    BY Zenon, <2>1, <2>2, <2>3, <2>4, <2>5, <2>6, StepKinds
<1> QED
  BY <1>1, <1>2 DEF Followed

(* With nothing under way and no job, what is left is Converges.            *)
LEMMA FollowedConverges == ASSUME Kept, Followed PROVE Converges
<1>1. SUFFICES ASSUME AtRest, NEW t \in Bridged \ missed
               PROVE  /\ posts[t] # None /\ shown[t] \in {posts[t], Unsent}
                      /\ t \in reactions <=> t \in reacted
  BY DEF Converges
<1>2. Events = {} /\ ~Shows(t) /\ t \in Times /\ rows[t] # None
  BY <1>1, EmptySet DEF AtRest, Events, Shows, Bridged
<1>3. DeletedAt(t) /\ EditedAt(t) /\ ReactedAt(t) /\ Known(t)
  BY <1>2 DEF Followed, FollowedAt, Known
<1>4. posts[t] # None
  BY <1>1, <1>2, <1>3 DEF DeletedAt
<1>5. shown[t] \in {posts[t], Unsent}
  BY <1>1, <1>2, <1>3, <1>4 DEF EditedAt, Changing, Target
<1>6. t \in reactions <=> t \in reacted
  BY <1>1, <1>2, <1>3, <1>4 DEF ReactedAt, Reacting
<1> QED
  BY <1>4, <1>5, <1>6

(* When everything was handled, a bridged message is there in Slack, shows  *)
(* its last edit and has the user's reaction as it is in Slack, unless a    *)
(* change of it was lost, or Slack did not take its deletion or last edit   *)
(* from Matrix (HandleSlackEvent, ConvertEdit, HandleMatrixEdit).           *)
THEOREM Convergence == Spec => []Converges
<1>1. Init => Kept /\ OnTheWay /\ Followed
  BY KeptInit, OnTheWayInit, FollowedInit
<1>2. Kept /\ OnTheWay /\ Followed /\ [Next]_vars => Kept' /\ OnTheWay' /\ Followed'
  BY KeptNext, OnTheWayNext, FollowedNext DEF OnTheWay
<1>3. Kept /\ Followed => Converges
  BY FollowedConverges
<1> QED
  BY <1>1, <1>2, <1>3, PTL DEF Spec
=============================================================================
