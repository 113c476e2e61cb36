# A TLA+ verification of mautrix-slack

mautrix-slack bridges Slack workspaces and Matrix rooms.  It is a Go program
on top of the `bridgev2` library; this repository adds a reaction mirror
towards a Discord bridge and an identity map read from Keycloak.  The modules
here model the parts of it in which order, concurrency and failure decide
whether it is correct.  TLC checks them on small instances (`*.cfg`), TLAPS
proves the invariants for every value of the constants (`*_proofs.tla`), and
`PROJECT.json` ties every definition to the lines it stands for.

All paths below are relative to `src/`.

## 1. Inventory

| part | state it keeps | operations | how it meets the others |
|---|---|---|---|
| **Reaction debouncer** `pkg/reactionmirror/debounce.go` | map of key to task (function, timer), a mutex | `Schedule`, the timer callback | called by the reaction hook and by its error notices, which run in the callback's goroutine |
| **Reaction mirror** `pkg/connector/reactionmirror.go`, `pkg/reactionmirror/aggregate.go` | two debouncers, the `refreshing` flags, a mutex per message, rows of `MessageMetadata`, the bot's thread in Slack | hook after a Matrix reaction, refresh, deduplication, summary, native reaction, error notice | Matrix relations, Slack's thread and reactions, the bridge's message table |
| **Identity map** `pkg/bridgeidentity/map.go` | one cached map behind an RW mutex, `loadedAt`, `lastFullScanAt`, `refreshInProgress` | `Get`, `GetCached`, full and incremental load, ticker | Keycloak over HTTP, governance data; read by message conversion and user info |
| **Governance data** `pkg/governancedata/loader.go` | one cached result by path, age, modification time; while it loads, flags for the table at hand, one pending channel, the team's slug, name and members | `Get` with a look under the read lock and one under the write lock, three line parsers, the flush of a channel into the maps | TOML files that others edit at any time; the identity map, room mentions and relay mentions read the maps |
| **Emoji store** `pkg/connector/emoji.go`, `pkg/connector/slackdb/emoji.go` | table `emoji`, a mutex per team | change events, `SyncEmojis`, `GetEmoji` with lazy upload, image packs | Slack events (a goroutine each), message and reaction conversion |
| **Slack session** `pkg/connector/client.go`, `login-*.go` | `Client`, `RTM`, `BootResp`, cancel functions, the bridge state | `Connect`, `Disconnect`, token invalidation, event loop, `SyncChannels` | starts the loops of nearly every other part, and sets to nil what they use |
| **User info resync** `client.go:259-298`, `chatinfo.go:392-482` | bounded queue, `syncedAt` of ghosts | `GetUserInfo` with a batch, `resyncUsers` | message handling blocks on the queue |
| **Chat info** `chatinfo.go:44-68` | one-hour cache of channels | fetch, member list, names | change events read the cache |
| **Slack events** `handleslack.go` | last read marks, `LastEditTS` in rows | wrapping, edits, deletions, reactions, read marks | library's portal queue |
| **Matrix events** `handlematrix.go` | rows of messages and reactions | send, edit, redact, react, receipts | Slack's API; the echo comes back as a Slack event |
| **Backfill** `backfill.go` | none of its own | pages before and after an anchor, threads | library's backfill queue, read marks |
| **Capabilities** `capabilities.go` | two shared tables of features | features of a room, with the team's edit age | library caches them by identifier |
| **Message conversion** `pkg/msgconv` | none | Slack blocks and mrkdwn to HTML and back | emoji store, identity map |
| **Starting chats, identifiers, configuration, command** | none, or none after start-up | | |

The hard behaviours: a Go timer that was stopped may already have a callback
behind the mutex; functions and rows are read under a lock and used after it;
the database and Slack are written by several calls of which any may fail; each
emoji event has a goroutine of its own; a refresh replaces a cache
that is read without a lock; sessions are torn down while their goroutines run.
`PROJECT.json` lists each hazard at its line with the properties that cover it,
or the reason why none does; further ones are under *Not modelled*.

What makes the parts correct, in a sentence each:

- debouncer: every function is called once or replaced, never before its delay
  is over unless a race explains it, and a taken function is not written;
- reaction mirror: one refresh of a message at a time, no exit keeps the mutex
  or the flag, and at rest one summary tells the truth and all rows point to it;
- identity map: what is in the cache was linked since the last full load began,
  published maps are immutable, one load at a time, members converge;
- governance data: the maps are what the tables of the files say, no channel is
  lost or has what another table says, and a cached result is that of the files
  but for changes that nothing showed;
- emoji store: the table agrees with Slack at rest, emoji show their own
  images, the lock is held exactly by who works under it, every lookup ends;
- session and user resync: a nil client or connection is used only while the
  session is being left, a nil boot response only for users asked for before the
  boot was answered, bad credentials are reported and stay reported, connections close,
  waiting callers get on, collected users are asked for, and a ghost's stamp is
  that of the data it shows;
- events and backfill: a message is in the room once, agrees with Slack at rest,
  is missing only for a reason that can be named, and is marked as read only if
  it was; its row loses nothing that was saved in it;
- conversion: HTML is nested as its readers expect, words, lists and quotes come
  back from Matrix as they were, a room mention pings only governed channels,
  and the events of an edited message show what Slack shows.

## 2. The modules

| module | models | correspondence |
|---|---|---|
| `DebounceSpec` | the debouncer's promise | one pending function per key, `Schedule` replaces, `Begin` takes |
| `Debouncer` | `debounce.go` | the regions under `d.mu` are the actions `Schedule` and `Callback`; `Fire` is the runtime starting a callback, `Run` the call after the unlock, `Return` the end of the function, `Tick` the clock |
| `ReactionMirror` | `reactionmirror.go`, `aggregate.go` | one bridged message; a refresh is a process whose steps are the calls that leave the process, in the code's order; `Abort`, `Unlock` and `ClearFlag` are the deferred calls, last to first |
| `BridgeIdentity` | `map.go` | callers (`Peek`, `Recheck`, `StartLoad`, `ReturnStale`) are `Get`'s two critical sections; a loader steps once per HTTP request or page; maps are heap objects so that sharing is visible |
| `LinkCache` | the identity map's promise | callers hold whole versions that never change, and one load at a time makes the next |
| `GovernanceData` | `governancedata/loader.go` | `Miss`, `Recheck` and `Load` are the two critical sections of `Get`; reading a file is a step and so is each of its lines, which is a case of the parser's `switch`; the functions that flush and parse keep their names |
| `EmojiStore` | `emoji.go`, `slackdb/emoji.go` | events handled in any order under the lock; goroutines that look up, upload, sync and prune |
| `SlackSession` | `client.go`, state and user events of `handleslack.go`, user information of `chatinfo.go`, `LoadUserLogin` | `Connect`, the consumer, the connection (`ManageConnection` or `runSocketMode`), the resync loop, its requests, `UpdateInfo` and one command of the library are threads that step once per call or per field read by a goroutine that just started; `disconnect`, `ClearToken`, `Drop`, `Report` are `invalidateSession` |
| `MessageRows` | `handlematrix.go`, `handleslack.go`, `backfill.go`, `SyncChannels` and the read cache of `client.go` | one channel; the portal's loop handles one event of either side at a time in the steps read, send, save, while Slack, the connection, `SyncChannels` and the reaction mirror's row write go on |
| `RichText` | `blocks.go`, `matrixfmt/blocks.go`, the texts of `from-matrix.go` | the functions keep their names; a behaviour is one text on its way through both |
| `MessageParts` | `ToMatrix` and `EditToMatrix` of `from-slack.go` | the rows of one message and the events behind them, under changes in Slack of which some are not bridged one by one |
| `MCGovernance` | | the governance files, of blocks of lines in any order, and small ones that are edited |
| `MCConversion` | | `RichText`, `MessageParts` and `GovernanceData` side by side, with the messages and documents that are converted |
| `MC...` | | symmetry sets and constants for TLC |
| `..._proofs` | | the theorems |

`ReactionMirror` uses the debouncer through `DebounceSpec`: at most one function
pends per key and it is started once.  All functions of one key do the same
refresh, so a slot is a flag there; the property `Implements` and the theorem
`ImplementsPromise` are what licenses this.

### Abstractions

- *Debouncer.* A function is the number of its `Schedule` call.  The clock ticks
  `Delay` times within a delay; an expired timer may fire at any later time.
- *ReactionMirror.* One message and its rows; messages share nothing but the
  debouncers.  The text of a summary is the set of reactions it shows.  Left
  out: who is a bridge operator or ghost, the trigger emoji, the page of 50
  replies, edits that write the same rows, and `SummaryThreadTS`, which always
  is the message's own timestamp.  The library that calls the hook is external.
- *BridgeIdentity.* The two maps between Discord and Slack; the four maps keyed
  by Matrix localpart or governance username are built, cloned and published by
  the same statements.  A federated identity is an account or none.
- *GovernanceData.* A line is the head of a table, a key with its value, or none
  that the code knows, which is also what a spelling of TOML becomes that the
  code does not accept.  The maps are sets of pairs, the members of a team a set,
  IDs and names are words with `Upper` for `strings.ToUpper`.  What a file may
  contain is a constant set; it is replaced or changed in place `MaxEdits` times.
  The directory's time is a counter, and grows when an entry is replaced.
- *EmojiStore.* One team.  A value is an image or an alias, the upload of an
  image is named by its URL.  Slack keeps names and URLs distinct, removes the
  aliases of an emoji with it in one event, and does not rename an emoji that
  has aliases.  One save by `addEmoji` is one step: it runs under the lock, and
  in the lock-free download of a pack it can only lose an image that is uploaded
  again.  SQLite's queries are modelled.  Built-in emoji never reach the table, and
  aliases of built-in emoji (`emoji.go:299`) are left out.

- *SlackSession.* A version is `user.Updated`.  `Connect` without a network
  error is three calls (boot, team portal, start); the bridge state is the last
  that was sent.  A nil field that is used ends the process (`Panic`), as an
  unrecovered panic of a goroutine does: `Client`, `RTM`, `SocketMode` and, for
  the information of users, `BootResp`, which `connect` sets.  Left out are the
  other uses of `BootResp` (`chatinfo.go:254-293`, `emoji.go:41-77`,
  `client.go:397`, `startchat.go:197`) and Go's map and slice races.  An error
  that the RTM passes on (`handleslack.go:90-96`) is reported like a fatal one.  slack-go's RTM and socket mode are external: they dial, open, lose
  and close a connection and emit the events that the code distinguishes.
- *MessageRows.* Messages are named by their timestamps, of which there are
  `MaxTime` for sending and editing.  The library is modelled by what this code
  relies on: one event of a portal at a time, rows saved after events are sent,
  known messages not bridged twice, backfill asked for by `CheckNeedsBackfill`.
  A call of Matrix to Slack that fails was refused (`EditRefused`,
  `RemovalRefused`), or was done and its answer lost (`PostUnanswered`,
  `EditUnanswered`, and a disjunct of the removal and of the reactions); the
  room keeps what the user did.  A refusal that leaves everything as it was (of a
  post, a reaction, a read receipt, or for an unknown emoji) is no step.
  `SyncSkips` are the returns of `SyncChannels` before a channel and the
  channels it passes over.  Left out: threads, several parts of a message
  (`MessageParts` has them), the receipts that marks produce.
- *RichText.* A text is a sequence of words; `url`, `host` and `newline` are the
  words that the code tells apart.  HTML is the sequence of tags and texts, and
  the tree that the parser of `golang.org/x/net/html` makes of it, for the tags
  that occur here.  Emoji, times, colours and mrkdwn texts are words.
- *MessageParts.* One text, files and image attachments with their identifiers;
  what an event shows is a version of the text, a file and an image.

Constants that bound a run are named `Max...`, `Cap`, `Attempts` or `PageSize`;
the last three are the code's own numbers made small.

## 3. The runs

| run | instance | what it shows |
|---|---|---|
| `debouncer` | 2 keys, 4 calls, delay 2 | `Inv`; `AtMostOnce`, `TakenIsolated`, `EarlyOnlyAfterRace`; `Served` under fairness; `Implements` |
| `reaction_mirror` | 2 refreshes, 2 parts, 3 changes, 2 faults | `Inv` (with `FlagHasOwner`), `OneWriter`; `Settled`: exactly one correct summary, rows in agreement, native reaction right; `EmojiIsFinal` |
| `reaction_mirror_live` | 2 changes, 1 fault | `RefreshEnds` |
| `bridge_identity` | 2 users, 2 accounts each, 2 loaders, pages of 1, 2 events, the first user a member at first | `Inv` (with `Grounded`, `Private`, `OneLoader`); `Exact`; `Implements`; `OverflowKept` |
| `bridge_identity_live` | cap of one user | `Converges`, and `Exact` where the cap cuts the scan |
| `bridge_identity_stale` | violation | see *Findings* |
| `emoji_store` | 2 emoji, 2 goroutines, 2 changes, 1 fault | `Inv` (with `LockIsHeld`, `OwnImages`), `Mirrors` under interleaving |
| `emoji_store_sequences` | 1 goroutine, 4 changes, 1 fault | `Mirrors`, `SyncRepairs` over long histories |
| `emoji_store_live` | 2 goroutines, 1 change, 1 fault | `Ends` |
| `slack_session` | a user's or an app's login, 1 user and 1 bot as ghosts, queue of 1, 2 events under way, any 3 of: revocation, failure, lost connection, restart, login, `Disconnect`, `LogoutRemote`, change or question of a user | `Inv` (with `PanicsOnlyWhenLeaving`), `StampTellsTruth`, `BadIsFinal`; under fairness `RevokedIsReported`, `Closes`, `Released`, `Collected` |
| `message_rows` | 3 timestamps, pages of 2, any 4 of: messages, edits, deletions, reactions, marks in Slack or Matrix, Matrix calls refused or without an answer, lost connections, failed reads, crashes, mirror writes | `Inv` (with `AtMostOnce`), `Converges`, `NoGap`, `MarkReadIsTrue`, `RowsKeepFacts` |
| `conversion` | lists of up to 3 runs with 2 styles, 3 levels, borders and offsets; pairs of inlines and of blocks; attachments of every kind; 3 pieces of HTML with every m.mentions and kind of team; 2 files, 2 images, 3 edits; a team file or an org.toml of up to 3 blocks of lines in any order, two team files of 2 blocks, small files edited twice while 2 callers look | `Nested`, `RoundTrip`, `RoomPing`, `PartsFollow`, `AsWritten`, `UpToDate` |

Why the bounds are enough.  Four calls on two keys give a burst in which a
callback waits while its task is refilled and a second task of the same key
exists, beside a call of another key.  Two refreshes are what the two slots of
a message can start at once; the third change and second fault let a second
summary appear, be adopted and be removed.  In the identity map callers meet
only in the cache and the flag, so one caller is every caller; the second
loader is one more than the flag admits; pages of one user make the crawl cross
a page border, and the two events are put at every point of it.  In the emoji
store two goroutines are the holder of the lock and one that waits or syncs
without it; four changes are what it takes to replace the target of an alias
while an old event still waits (three do not), and the fault loses an event.

In the session the three events are chosen from all kinds, so that every pair of
a command and a fault meets every step of the threads, and a third can come
between; a queue of one makes callers wait, and the bot takes the path beside
it.  One channel is every channel, as rows, marks and resyncs of two share
nothing.  Pages of two are shorter than the history of three; a message and three
more events let an edit, the mirror's write and a crash or a lost answer meet in one
row, or a loss, two messages and a reconnect in one channel.  In the
conversion three lists are what it takes to go down, up and on again, and every
function of the code takes its elements one by one or in runs of neighbours.
The locals of a governance parser are one channel and the flags of one table, so
three blocks are the table before, the channel and what flushes it, in every
order of nine kinds of team blocks and seven of the organisation; two files
compete for an ID; two edits are one that is read and one that is not.

`Settled`, `Mirrors` and `Exact` speak of states in which nothing is under way,
with a history variable that says what excuses a difference: `degraded` (a call
failed, or the flag dropped a reaction after the relations were read), `trusted`
(a call failed, an event was lost at a restart or overtaken by a later one of
the same emoji, and no full sync ran undisturbed since), `complete`.  In each
case the excuse is an event that can be named, and work under way that ends
without one must end well.  TLC's counterexamples shaped these conditions: that
a rename which is applied after a sync finds its new name taken
(`slackdb/emoji.go:62`), and that an alias may take the image of a target whose
replacement still waits (`emoji.go:138`) and keep it until a full sync, which
is why `SyncRepairs` is about syncs and not about states.

The properties of `MessageRows` are stated in the same way.  `missed` are
messages with a change that was lost with the connection or a crash, `torn` those
that were sent and not saved at a crash, fetched by a backfill while their upload
was pending, or posted by a call whose answer was lost: nothing is noted of those,
so the event of the message is that of another one.  A message whose deletion Slack
did not take is `missed` too, as the room has no event left for it, and one whose
edit Slack did not take shows what only the room has (`Unsent`), until a later
edit.  `excused` are those that no backfill was to find: older than a message that
came before the resync, newer than the counts, beyond the page or on one that
failed, in a channel that the sync passed over (the portals, the conversations or
the channel's information could not be read, or it has no counts and is not
listed), or sent before a reconnect of the RTM, which asks for no sync.  `RowsKeepFacts` names the
three overlaps in which a row is written from an older copy.  `StampTellsTruth`
excuses a ghost for which two `UpdateInfo` calls overlapped (`mixed`), and
`Closes` a `disconnect` that came before `runSocketMode` had installed its cancel
function (`early`): the connection of an app goes on then.  `LinesSurvive` of
`RoundTrip` is an equivalence: lists and quotes come back as they were exactly
if they are `Orderly`, so that the operator lists all the shapes that do not
survive (a list of another style at the same level, a jump of levels, a border
that changes inside a run, a second quote).  `PartsFollow` lists the two shapes
in which an edit shows a file twice or not at all (`SeparateFile`, `MergedFile`).

`AsWritten` compares the maps with `Meaning`, which is defined by tables and not
by flags, for files that are `Readable`.  That is what the code relies on without
a check: a table gives a key once, there is one `[team]` and one
`[org.communication]` and they come before the channels, and a table that a parser
does not know has none of the keys read in the table before it (`NoStrays`).
Other lines may be anywhere.  `overlooked` are the files that changed since they
were read, with nothing that Get looks at: all changes of team files and of
org.toml in place, and a replacement of it while a load is under way.

### Deadlock

`CHECK_DEADLOCK FALSE` is set for the debouncer, the reaction mirror and the
identity map, the session, the message rows and the conversion: once the bounded
calls and changes are used up, nothing is left to do.  In the emoji store a
lookup can always be started.

### Fairness

- `Debouncer!Fairness`: the clock ticks, the runtime fires expired timers, and
  Go's mutex hands itself to a waiter in the end (starvation mode), so a
  callback gets it.  Nothing makes a scheduled function return.
- `ReactionMirror!Fairness`: hooks run, the debouncer starts what it holds
  (`Served`), a refresh takes its next step, and the mutex is not withheld for
  ever from one that waits (strong fairness, as Go's mutex is fair).  Users,
  failures and crashes are not fair.
- `BridgeIdentity!FairSpec`: the clock passes the refresh interval, the ticker's
  goroutine calls `Get`, and a loader's request ends within the HTTP client's
  timeout.
- `SlackSession!Fairness`: each goroutine takes its next step when it can, the
  timer ticks, the connection is dialled, and closed by Slack when its token is
  revoked.  Slack's answers, the callers, the user and the library's commands
  are not fair.
- `EmojiStore!Fairness`: goroutines are scheduled, requests end, and the team's
  mutex is not withheld for ever.

### Findings

`bridge_identity_stale` checks what the comments of `Get` say
("stale-while-revalidate; never blocks", `map.go:155`, and "so mirroring isn't
empty-handed for the multi-minute crawl", `map.go:244`).  The daily full load publishes the map of
the governance members before it starts to scan (`map.go:245`), so Discord
accounts that only the scan finds disappear from the cache until the scan is
over, though their links exist.

Observed and not turned into a run: `DataStamp` is said to trigger a full scan
(`pkg/governancedata/loader.go:141`), but `shouldFullScan` does not look at it.
`DeleteMany` passes a plain slice to Postgres (`slackdb/emoji.go:115`) where
`Prune` wraps it.  A team without emoji makes the SQLite query builder slice at
-1 (`slackdb/emoji.go:107`); the model lets the sync panic there and shows that
the lock is released and lookups end.  A channel of the organisation is said to
have no team, so that its pings reach nobody (`matrixfmt/blocks.go:186-188`),
but `flushOrgChannel` gives it its own slug as that of its team
(`pkg/governancedata/loader.go:353`); where a team has the same slug, that team's
members are pinged.  A table that the loader does not know does not end the one
before it, so its `name` or `url` is taken for that one's.  `BootResp` is nil
until `connect` sets it and stays so after a boot that ends in an unknown error,
while the library may already ask for users: naming one then dereferences nil
(`chatinfo.go:341`; `Inv` says when).  A room mention pings once in every text
that has no `@room` (`matrixfmt/blocks.go:466`), so a message with a bold word
pings several times; `RoomPing` counts them.  An odd number of short fields
leaves a table row open (`blocks.go:585`), which `Nested` excepts.  An edit of a
bot's message that leaves no text part dereferences nil (`from-slack.go:159`), and
so does a Matrix reaction with an emoji that is not in the table
(`handlematrix.go:180-184`); neither is a step of a model.

## 4. The proofs

| theorem | says | argument |
|---|---|---|
| `Debouncer_proofs!Invariance` | `Inv` | see below |
| `RunsAtMostOnce`, `TakenIsIsolated`, `EarlyNeedsRace` | the action properties | from `Inv` and one step |
| `ImplementsPromise` | `Debouncer` implements `DebounceSpec` | the pending function of a key is that of its task; a task counts as begun when the callback takes it |
| `ReactionMirror_proofs!Invariance` | `Inv` | per group of conjuncts |
| `RefreshesExclude`, `FlagIsOwned`, `RecordedEmojiIsFinal` | `OneWriter`, `FlagHasOwner` (part of `Inv`), `EmojiIsFinal` | corollaries, the last from `EmojiKept` |
| `MirrorSettles` | `Settled` | from `Following` and `Stamped`, per step of a refresh |
| `BridgeIdentity_proofs!Invariance` | `Inv` | per action |
| `CacheIsGrounded`, `HeldMapsAreFrozen`, `OverflowIsKept` | `Grounded`, `Frozen` (no property of a run: `Implements` contains it), `OverflowKept` | from `Private`, `OneLoader`, `BuildKeepsCached` |
| `ImplementsLinkCache` | `Implements`: `BridgeIdentity` implements `LinkCache` | per action, with the lemma `FrozenStep` |
| `CrawlIsExact` | `Exact` | from `CrawlInv`, per action, and the places of a list |
| `GovernanceData_proofs!DataTyping` | the types of the loader's state | per action |
| `HitIsUpToDate` | `UpToDate` | from `Reading` and `Current` |
| `GovernanceIsAsWritten` | `AsWritten` | from `OrgInv`, `ForgejoInv`, `TeamInv`, per line |
| `EmojiStore_proofs!Invariance` | `Inv` | per action |
| `MutexDiscipline`, `ImagesAreOwn` | `LockIsHeld`, `OwnImages` | conjuncts of `Inv` |
| `TableMirrors`, `SyncsRepair` | `Mirrors`, `SyncRepairs` | from `MirrorInv`, per action, and one step of a prune |
| `SlackSession_proofs!Invariance`, `StampsTellTruth` | `Inv`, `StampTellsTruth` | from `Kept`, per action |
| `BadCredentialsStay` | `BadIsFinal` | from `Refusal` and one step |
| `MessageRows_proofs!Invariance` | `Inv` with `AtMostOnce` | from `Kept`, per action |
| `FactsAreKept` | `RowsKeepFacts` | from `JobReads` and `MirrorReads`, one step |
| `ReadsAreTrue` | `MarkReadIsTrue` | from `ReadTrue` |
| `NothingIsMissing` | `NoGap` | from `OnTheWay`, per kind of step |
| `Convergence` | `Converges` | from `Followed`, per step and message |
| `MessageParts_proofs!EventsFollow` | `PartsFollow` | from `Tracked`, per step; then by how the message was posted |

Theorems without a module are of the one named above them.  They hold for every
set of keys, refreshes, users, emoji, goroutines, messages and file contents, every number of
files and images of a message and for every value of the bounds.  The assumptions
are the named `ASSUME`s of the modules: null values are no real ones, bounds are
naturals, a delay and a page are not zero, the cap of a scan is a number of full
pages (4000 and 100 in `map.go:283,287`), the images of a message and the emoji
of a team are finitely many, only the empty word is empty in capitals, the
names of team files are ordered as numbers.

Why the invariants are what they are:

- *Debouncer.* `AtMostOnce` is not inductive.  One function could have two
  owners: `OneOwner` says that a live task's function belongs to it alone and
  was not run.  That needs `MapIsCurrent` (a task in the map is not in a
  callback's hands), which needs `NotIssued` (a new call makes a new name).
  `AlignedUnlessRaced` carries the exact value of the timers for
  `EarlyOnlyAfterRace`.
- *ReactionMirror.* Mutual exclusion follows from `MutexHeld`; that the emoji is
  final needs `EmojiKept`, as a refresh writes back what it read: its copy has
  the emoji that all rows name.  `Settled` is about rest, so `Following` says of
  every step of a refresh what is right already (`Advanced`): with no hook, debounced
  call or refresh before its reading of the relations left to correct it, the
  totals are those of now, the thread has what is still to be deleted and what is
  kept, and the first rows agree.  Mutual exclusion makes the one refresh that
  acts the only one that may be wrong.
- *BridgeIdentity.* A cached link existed since the last full load began only
  because the map under construction is grounded (`BuildIsGrounded`), nobody
  else can reach it (`Private`) and no second load exchanges the cache
  (`OneLoader`).  The flag and the loaders define each other (`FlagIsOwned`).
- *BridgeIdentity, what a full load finds.*  `Exact` is about rest, so `CrawlInv`
  follows the crawl: while nothing changed or failed, the map under construction
  has the links of exactly the members looked up and the users seen (`Looked`),
  and those seen are a prefix of each list (`Paged`, `Paging`) whose pages end at
  the cap (`Aligned`).  That an empty or a short page ends the list (`EmptyPage`,
  `ShortPage`) needs that no place in a list is empty (`IndexFills`), which
  follows by well-founded induction.  Links of different users do not overwrite
  each other, as Keycloak links an account to one user (`PutLink`); and a load
  that starts from an exact cache finds nothing new (`Repeats`).
- *BridgeIdentity, the promise.*  Maps are heap objects and a `LinkCache` version
  is a value, so the refinement reads the heap at the caller's and the cache's
  references; a nil map and an empty one are the same to callers.  Each write of
  a load must then be a stutter or make the next version: the objects a loader
  writes are reached by it alone (`Private`), there is one loader whose map can be
  the next version (`OneLoader`), and so a step leaves every version as it is
  that a caller holds (`FrozenStep`).
- *GovernanceData.*  `AsWritten` is about results, so `OrgInv`, `ForgejoInv` and
  `TeamInv` follow the lines.  The flags are those of the last table begun
  (`OrgFlags`, `ForgejoLines`, `TeamFlags`), the channel at hand is what its table
  said so far (`AtHand`), and the maps are those of the channels whose successor
  began (`OrgSoFar`, `TeamSoFar`).  A line that heads a channel closes one and
  begins another, so the flush must put exactly the entry by which `Listed` grows
  (`ListedMore`, `RegisterOver`).  A key changes only the table it is in, which is
  the last one begun because nothing strays.  `Closed` and `Latest` are defined
  with two positions each and no maximum, which spares the induction.  Across
  files, the maps are what the files read so far say together, a later one over
  an earlier one (`TeamMapLast`).  `UpToDate` needs that of each file either the
  text read is the one there, or it is overlooked, or still to be read
  (`Reading`, `Current`).  Both hold for every edit at any time, of which the
  run takes some.
- *EmojiStore.* `LockIsHeld` needs to know which task may be at which step
  (`Control`: only a lookup tries the lock, a pack never waits for it), and
  `OwnImages` needs the row that was read and the row that is written to be
  compared under the lock.
- *EmojiStore, what the table comes to.*  `Mirrors` is about rest, when no event
  waits, so `MirrorInv` says what a trusted table is while some do: `Follows`
  takes the table and the waiting events to what Slack has, emoji by emoji, by
  the last event that touches it, and says of a rename that it will find the old
  name and not the new one.  An event handled in its turn keeps that
  (`FollowsRest`), a change and its event add to it (`FollowsAppend`).  The answer of
  an undisturbed sync is followed by the same events (`FollowsFresh`, which needs
  `Told`: an event that nothing overtook tells the truth).  So a row may already be
  the answer's or still the old one (`FollowsMixed`).  After the prune all rows are
  the answer's, and when the counts agree nothing needed to be pruned
  (`PrunedIsAnswer`, by the cardinality of finite sets).  `SyncRepairs` needs the
  order of a sync's writes too: when an alias is written the images are done, and
  the map has the image of its target or none.
- *SlackSession.* `Whole` alone would not survive: `Fields` adds that a login
  without a token has no threads at all, and `Booting` that without a boot response
  no goroutine of the connection runs, so that any request is that of a caller
  who asked before (`unbooted`).  `StampTellsTruth` needs the same of the
  row that a restart loads and of a call that wrote the name and not yet the
  stamp (`Truth`).  `BadIsFinal` needs `Refusal`: the connection's events are a
  queue in which nothing but a loss can follow `invalid_auth`, as the wire hangs
  until it is closed, and without a token nothing dials again.
- *MessageRows.* `AtMostOnce` is about Matrix events, the row, the job and the
  pending uploads together.  `Once` says that a message that none of the last
  three accounts for was not sent, or is `torn`; `News` that what is about to be sent has no
  row, which for a page follows from its anchor, the newest row, as
  `LatestIsMax` proves of `Max` by well-founded induction from the library.
  `JobReads` says that the row a job will save is no worse than the one that is
  there, unless the mirror wrote meanwhile.
- *MessageRows, on the way.*  The other three properties are about what is still
  to come, so `MessageRows_proofs` first proves what each step does to the set of
  events in the stream and the queue and to their order (`Spread`, `TakenFlow`,
  `CalmFlow`), and one contract per action.  `MarkReadIsTrue`: cache, counts and
  marks under way are never ahead of the user's mark (`ReadTrue`).  `NoGap`: a
  message without a row is `Expected`, by its event, a job, a sync, a resync or
  a fetch, and a fetch finds all that is missing (`Fetching`), as no row is
  saved while it runs.  `Converges`: of each message, `RowAt` says that a row
  with Slack's last edit is one of a message that shows it, also in the mirror's
  copy, where a stale write could otherwise hide an edit from `ConvertEdit`;
  `DeletedAt`, `EditedAt` and `ReactedAt` say that what is not yet so is told by
  an event under way, the last one of its kind (`Final`), and `Order` that events
  of a message come in the order of what they tell.
- *MessageParts.* What an edit does depends on how the message was posted: with a
  text part its row stays the first one (`TextRow`), so that it is always the one
  edited and never deleted, and the others stay what they were; without one
  (`FileRows`) the first file that is still there gets the text, which no later
  row can have.  The number of events that show a file is then counted in the
  five shapes of a message, and only `SeparateFile` and `MergedFile` are not one.

Only model-checked: everything about liveness (`Served`, `RefreshEnds`, `Ends`,
`Converges` of the identity map, `RevokedIsReported`, `Closes`, `Released`,
`Collected`), which is outside the prover's reach, and the conversion
(`Nested`, `RoundTrip`, `RoomPing`), which is recursive.  Every other property
of a passing run is a theorem.

## 5. Plan

What could follow, in this order:

1. Backward pages and threads in `MessageRows`, and several parts per message,
   which joins it with `MessageParts`.
2. `MessageRows` with the whole `ReactionMirror` in the place of its one write.

## 6. Not modelled

- *Chat information*, *capabilities*, *starting chats*,
  *identifiers*, *configuration*, *the emoji table*, *the command* with legacy
  provisioning and migration: requests, records, constants and parsing without
  interleaving; what the library does with chat information is not in this
  repository.
- Of the governance data: a data directory that is missing or another one than
  before, repeated names in a member list, the lookups in the finished maps.
- Of the session: the steps of the login forms, the team portal, several logins
  in one team.  Of the events: typing, membership, topics, mute settings.  Of the
  backfill: backward pages and threads.  Of the conversion: the grammar of
  mrkdwn, media, reply fallbacks, relay profiles.

Further hazards of this code that no property covers:

- a failed page ends the identity map's scan, and a list paged by index moves
  when a user unlinks (`map.go:292,295`); the next full load repairs it;
- 50 replies of a summary thread are listed (`reactionmirror.go:453`);
- chat info is cached for an hour, also for the answer to a change
  (`chatinfo.go:47`);
- `DeleteMany` passes a plain slice to Postgres (`slackdb/emoji.go:115`);
- without an edit age `GetCapabilities` changes the shared table of direct
  messages, whose ID grows (`capabilities.go:222`);
- `compareStringFold` tests one inequality twice and is no order
  (`chatinfo.go:130`);
- a thread's replies are reversed like a channel's history, whatever order
  Slack lists them in (`backfill.go:109`).
