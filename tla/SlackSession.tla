---------------------------- MODULE SlackSession ----------------------------
(***************************************************************************)
(* The life of one login: pkg/connector/client.go, the state events of     *)
(* handleslack.go and the user information of chatinfo.go.                 *)
(*                                                                         *)
(* Connect, the consumer of the connection's events, the connection, the   *)
(* resync loop, its requests and a command of the bridge run beside each   *)
(* other and share the fields of one SlackClient, without a lock.          *)
(* Disconnect sets the fields to nil while the others still run.           *)
(***************************************************************************)
EXTENDS Integers, FiniteSets, Sequences

CONSTANTS
  Ghosts,     \* Slack users seen by the bridge
  Bots,       \* those with a bot ID (B...)
  Nobody,     \* no user
  QueueCap,   \* capacity of userResyncQueue
  EventCap,   \* capacity of the connection's event channel
  Short,      \* ticks of shortResyncWait
  Long,       \* ticks of resyncWait
  MaxTasks,   \* bound on requests for users under way
  MaxSpent    \* bound on what comes from outside: calls, changes, failures, restarts, logins

ASSUME GhostAssumption == Bots \subseteq Ghosts /\ Nobody \notin Ghosts
ASSUME BoundAssumption ==
  /\ {QueueCap, EventCap, Short, Long} \subseteq Nat \ {0}
  /\ {MaxTasks, MaxSpent} \subseteq Nat

Versions == 0..MaxSpent + 1
States == {"none", "connecting", "connected", "transient", "bad", "unknown"}
Pointers == {"client", "link", "boot"}
Plain == {"connecting", "hello", "lost", "closed", "invalid_auth", "fatal"}
Event ==
  [type : Plain, user : {Nobody}, version : {0}]
    \cup [type : {"user_change", "user_invalidated"}, user : Ghosts, version : Versions]
Request == [of : SUBSET Ghosts, since : [Ghosts -> Versions], sent : BOOLEAN, batch : BOOLEAN]
Write == [user : Ghosts, version : Versions, half : BOOLEAN]

VARIABLES
  real,      \* IsRealUser: a user's token, not an app's
  valid,     \* Slack accepts the token
  saved,     \* the token is in the database
  \* the process
  up,
  token,     \* meta.Token
  state,     \* last bridge state
  \* SlackClient
  made,      \* the channel and the maps were made
  client,    \* Client is not nil
  link,      \* RTM, or SocketMode of an app, is not nil
  boot,      \* BootResp is not nil
  stop,      \* stopSocketMode was set
  ctx,       \* context of the resync loop
  \* its goroutines
  connect,   \* Connect
  consume,   \* the consumer of the events
  wire,      \* ManageConnection or runSocketMode
  command,   \* Disconnect or LogoutRemote, called by the bridge
  events,    \* IncomingEvents
  \* users
  version,   \* user.Updated in Slack
  data,      \* version shown by the ghost, 0 while it has no name
  stamp,     \* SlackUpdatedTS
  row,       \* the ghost's row in the database
  fresh,     \* synced less than MinGhostSyncInterval ago
  loop,      \* resyncUsers
  queue,     \* userResyncQueue; what is beyond QueueCap are callers that wait for room
  batch,     \* entries
  left,      \* ticks until the timer fires
  short,     \* forceShortWait
  requests,
  writes,    \* UpdateInfo calls under way
  \* bounds and history
  spent,
  panic,     \* the nil field that a goroutine of this process used
  teardown,  \* disconnect was called in this process
  early,     \* ... before runSocketMode had set its stop function
  unbooted,  \* BootResp is nil, and a caller asked Slack for a user
  mixed      \* ghosts that were written by two UpdateInfo calls at once

session == <<token, made, client, link, boot, stop, ctx>>
threads == <<connect, consume, wire, command>>
ghosts == <<data, stamp, fresh, row>>
resync == <<loop, queue, batch, left, short>>
users == <<version, ghosts, resync, requests, writes, mixed>>
process == <<up, panic, teardown, early, unbooted>>
vars == <<real, valid, saved, process, state, session, threads, events, users, spent>>

Outside == spent < MaxSpent /\ spent' = spent + 1

Keep == UNCHANGED <<real, valid, saved, process, session, users, spent>>

-----------------------------------------------------------------------------
(* Loading and connecting. *)

(* LoadUserLogin for a token: everything is made, or only the frame of it.  *)
LoadUserLogin(logged) ==
  /\ token' = logged
  /\ made' = logged
  /\ client' = logged
  /\ link' = logged
  /\ boot' = FALSE
  /\ stop' = FALSE
  /\ ctx' = "none"
  /\ consume' = "none"
  /\ wire' = "off"
  /\ events' = <<>>
  /\ loop' = "none"
  /\ queue' = <<>>
  /\ batch' = {}
  /\ left' = 0
  /\ short' = FALSE
  /\ requests' = {}
  /\ writes' = {}
  /\ early' = FALSE

(* A goroutine uses a nil field: the process and its memory are gone.       *)
Panic(field) ==
  /\ up' = FALSE
  /\ panic' = field
  /\ LoadUserLogin(saved)
  /\ state' = "none"
  /\ connect' = "idle"
  /\ data' = [g \in Ghosts |-> row[g].data]
  /\ mixed' = [g \in Ghosts |-> row[g].mixed]
  /\ UNCHANGED <<real, valid, saved, teardown, unbooted, command, version, stamp, fresh, row,
                 spent>>

Init ==
  /\ real \in BOOLEAN
  /\ valid = TRUE
  /\ saved = TRUE
  /\ up = TRUE
  /\ panic = "none"
  /\ teardown = FALSE
  /\ early = FALSE
  /\ unbooted = FALSE
  /\ token = TRUE
  /\ made = TRUE
  /\ client = TRUE
  /\ link = TRUE
  /\ boot = FALSE
  /\ stop = FALSE
  /\ ctx = "none"
  /\ state = "none"
  /\ connect = "begin"
  /\ consume = "none"
  /\ wire = "off"
  /\ command = "idle"
  /\ events = <<>>
  /\ version = [g \in Ghosts |-> 1]
  /\ data = [g \in Ghosts |-> 0]
  /\ stamp = [g \in Ghosts |-> 0]
  /\ fresh = [g \in Ghosts |-> FALSE]
  /\ row = [g \in Ghosts |-> [data |-> 0, mixed |-> FALSE]]
  /\ loop = "none"
  /\ queue = <<>>
  /\ batch = {}
  /\ left = 0
  /\ short = FALSE
  /\ requests = {}
  /\ writes = {}
  /\ spent = 0
  /\ mixed = [g \in Ghosts |-> FALSE]

(* The process ends, by itself or after a panic, and is started again; what *)
(* was not saved is lost.  A deleted login is not loaded.                   *)
Restart ==
  /\ saved \/ command # "gone"
  /\ Outside
  /\ LoadUserLogin(saved)
  /\ up' = TRUE
  /\ teardown' = FALSE
  /\ unbooted' = FALSE
  /\ command' = "idle"
  /\ panic' = "none"
  /\ state' = "none"
  /\ connect' = "begin"
  /\ data' = [g \in Ghosts |-> row[g].data]
  /\ mixed' = [g \in Ghosts |-> row[g].mixed]
  /\ UNCHANGED <<real, valid, saved, version, stamp, fresh, row>>

(* The user logs in again when the old session is at rest: SubmitCookies    *)
(* has booted already, SubmitUserInput of an app starts with Connect.       *)
Login ==
  /\ up /\ ~client
  /\ connect = "idle" /\ command # "signout" /\ consume \in {"none", "receive"}
  /\ wire \in {"off", "refused", "ended", "failed"}
  /\ requests = {} /\ writes = {} /\ batch = {} /\ queue = <<>>
  /\ Outside
  /\ LoadUserLogin(TRUE)
  /\ teardown' = FALSE
  /\ unbooted' = FALSE
  /\ command' = "idle"
  /\ valid' = TRUE
  /\ saved' = TRUE
  /\ connect' = IF real THEN "booted" ELSE "begin"
  /\ UNCHANGED <<real, up, panic, state, version, ghosts, mixed>>

(* Mutant: Connect does not test the client.                                *)
NotLoggedInMutated == FALSE
NotLoggedIn == ~client

(* Connect without a token.                                                 *)
ConnectNotLoggedIn ==
  /\ up /\ connect = "begin" /\ NotLoggedIn
  /\ state' = "bad"
  /\ connect' = "idle"
  /\ Keep /\ UNCHANGED <<consume, wire, command, events>>

(* FetchVersionData, whose error is only logged, or GetTeamInfo of an app.  *)
ConnectBegin ==
  /\ up /\ connect = "begin" /\ ~NotLoggedIn
  /\ IF client
     THEN connect' = "boot" /\ Keep /\ UNCHANGED <<state, consume, wire, command, events>>
     ELSE Panic("client")

(* Mutant: a refused token is only logged.                                  *)
BootedMutated == IF valid THEN "team" ELSE "idle"
(* handleBootError invalidates the session if the token is refused.         *)
Booted == IF valid THEN "team" ELSE "save"

KeepBootResp ==
  /\ boot' = TRUE
  /\ unbooted' = FALSE
  /\ UNCHANGED <<token, made, client, link, stop, ctx, up, panic, teardown, early>>

(* ClientUserBoot, or GetUserInfo of an app; connect keeps an answer.       *)
Boot ==
  /\ up /\ connect = "boot"
  /\ IF client
     THEN /\ connect' = Booted
          /\ IF valid THEN KeepBootResp ELSE UNCHANGED <<session, process>>
          /\ UNCHANGED <<real, valid, saved, users, spent, state, consume, wire, command, events>>
     ELSE Panic("client")

(* connect, called after a login with the answer that SubmitCookies got.    *)
ConnectAfterLogin ==
  /\ up /\ connect = "booted"
  /\ connect' = "team"
  /\ KeepBootResp
  /\ UNCHANGED <<real, valid, saved, users, spent, state, consume, wire, command, events>>

(* Connect ends with UnknownError: another answer than an invalid token     *)
(* (handleBootError), or a failed call of the bridge (connect).             *)
ConnectFails ==
  /\ up /\ connect \in {"boot", "team"} /\ client
  /\ Outside
  /\ state' = "unknown"
  /\ connect' = "idle"
  /\ UNCHANGED <<real, valid, saved, process, session, users, consume, wire, command,
                 events>>

(* The end of connect: the goroutines are started.  go s.RTM.Manage-        *)
(* Connection() reads the field at once, the others when they first run.    *)
Start ==
  /\ up /\ connect = "team"
  /\ IF real /\ ~link
     THEN Panic("link")
     ELSE /\ connect' = "idle"
          /\ consume' = "spawned"
          /\ wire' = "spawned"
          /\ loop' = IF real THEN "spawned" ELSE loop
          /\ UNCHANGED <<real, valid, saved, process, state, session, command, events, version,
                         ghosts, queue, batch, left, short, requests, writes, mixed,
                         spent>>

-----------------------------------------------------------------------------
(* Leaving. *)

(* Mutant: the connection is left as it is.                                 *)
disconnectMutated ==
  /\ link' = link
  /\ ctx' = IF ctx = "live" THEN "cancelled" ELSE ctx
  /\ early' = (early \/ (~real /\ link /\ ~stop))
  /\ teardown' = TRUE

(* disconnect: an app's SocketMode is left alone while there is no stop     *)
(* function; the loops themselves are not ended.                            *)
disconnect ==
  /\ link' = (~real /\ link /\ ~stop)
  /\ ctx' = IF ctx = "live" THEN "cancelled" ELSE ctx
  /\ early' = (early \/ (~real /\ link /\ ~stop))
  /\ teardown' = TRUE

(* invalidateSession: token and cookie are cleared and the login is saved,  *)
(* by Connect after a refused boot or by the consumer after invalid_auth.   *)
ClearToken ==
  /\ up
  /\ \/ connect = "save" /\ connect' = "drop" /\ UNCHANGED consume
     \/ consume = "save" /\ consume' = "drop" /\ UNCHANGED connect
  /\ token' = FALSE
  /\ \/ saved' = FALSE /\ UNCHANGED spent
     \/ Outside /\ UNCHANGED saved
  /\ UNCHANGED <<real, valid, process, state, made, client, link, boot, stop, ctx, wire, command,
                 events, users>>

Drop ==
  /\ up
  /\ \/ connect = "drop" /\ connect' = "report" /\ UNCHANGED consume
     \/ consume = "drop" /\ consume' = "report" /\ UNCHANGED connect
  /\ disconnect
  /\ client' = FALSE
  /\ UNCHANGED <<real, valid, saved, up, panic, unbooted, state, token, made, boot, stop, wire,
                 command, events, users, spent>>

Report ==
  /\ up
  /\ \/ connect = "report" /\ connect' = "idle" /\ UNCHANGED consume
     \/ consume = "report" /\ consume' = "receive" /\ UNCHANGED connect
  /\ state' = "bad"
  /\ Keep /\ UNCHANGED <<wire, command, events>>

(* Disconnect, called by the bridge.                                        *)
Disconnect ==
  /\ up /\ command = "idle" /\ made /\ Outside
  /\ disconnect
  /\ client' = FALSE
  /\ command' = "stopped"
  /\ UNCHANGED <<real, valid, saved, up, panic, unbooted, state, token, made, boot, stop, connect,
                 consume, wire, events, users>>

(* LogoutRemote: the connection is dropped before the request to sign out,  *)
(* the client after it; the bridge deletes the login then.                  *)
LogoutRemote ==
  /\ up /\ command = "idle" /\ made /\ Outside
  /\ disconnect
  /\ command' = "signout"
  /\ UNCHANGED <<real, valid, saved, up, panic, unbooted, state, token, made, client, boot, stop,
                 connect, consume, wire, events, users>>

SignedOut ==
  /\ up /\ command = "signout"
  /\ \/ valid' = IF real /\ client THEN FALSE ELSE valid
     \/ UNCHANGED valid
  /\ client' = FALSE
  /\ token' = FALSE
  /\ saved' = FALSE
  /\ command' = "gone"
  /\ UNCHANGED <<real, process, state, made, link, boot, stop, ctx, connect, consume, wire, events,
                 users, spent>>

-----------------------------------------------------------------------------
(* The connection. *)

Plainly(type) == [type |-> type, user |-> Nobody, version |-> 0]
Room == Len(events) < EventCap
Emit(type) == Room /\ events' = Append(events, Plainly(type))
Wire(to) ==
  /\ wire' = to
  /\ Keep /\ UNCHANGED <<state, connect, consume, command>>

(* The context of the connection was cancelled, or the RTM disconnected.    *)
Killed == ~link /\ (real \/ stop)

Revoke ==
  /\ valid /\ Outside
  /\ valid' = FALSE
  /\ UNCHANGED <<real, saved, process, state, session, threads, events, users>>

(* runSocketMode sets its stop function when it first runs.                 *)
WireStarts ==
  /\ up /\ wire = "spawned"
  /\ wire' = IF real THEN "begin" ELSE "check"
  /\ stop' = ~real
  /\ UNCHANGED <<real, valid, saved, process, state, token, made, client, link, boot, ctx, connect,
                 consume, command, events, users, spent>>

(* The loop of runSocketMode: its context, and then the field.              *)
SocketLoop ==
  /\ up /\ wire = "check"
  /\ Wire(IF Killed THEN "ended" ELSE "begin")
  /\ UNCHANGED events

Dial ==
  /\ up /\ wire = "begin"
  /\ IF ~real /\ ~link
     THEN Panic("link")
     ELSE Emit("connecting") /\ Wire("dial")

Open == up /\ wire = "dial" /\ valid /\ ~Killed /\ Emit("hello") /\ Wire("open")

(* Only the RTM tells an invalid token apart.                               *)
Refuse ==
  /\ up /\ wire = "dial" /\ ~valid /\ ~Killed
  /\ \/ real /\ Emit("invalid_auth") /\ Wire("refused")
     \/ ~real /\ Emit("lost") /\ Wire("sleep")

(* The connection breaks; Slack closes it when the token is revoked.        *)
Lose ==
  /\ up /\ wire = "open" /\ ~Killed /\ Room
  /\ IF valid THEN Outside ELSE UNCHANGED spent
  /\ events' = Append(events, Plainly("lost"))
  /\ wire' = IF real THEN "begin" ELSE "sleep"
  /\ UNCHANGED <<real, valid, saved, process, session, users, state, connect, consume,
                 command>>

(* The RTM gives up, or passes an error of Slack's on, which is reported in *)
(* the same way and leaves the connection open.                             *)
Fail ==
  /\ up /\ real /\ wire \in {"dial", "open"} /\ ~Killed /\ Room /\ Outside
  /\ events' = Append(events, Plainly("fatal"))
  /\ wire' = IF wire = "dial" THEN "failed" ELSE "open"
  /\ UNCHANGED <<real, valid, saved, process, session, users, state, connect, consume,
                 command>>

(* After Disconnect; a connection that was refused may report it as a loss. *)
Close ==
  /\ up /\ Killed
  /\ \/ real /\ wire \in {"begin", "dial", "open"} /\ Emit("closed") /\ Wire("ended")
     \/ real /\ wire = "refused" /\ Emit("lost") /\ Wire("ended")
     \/ ~real /\ wire \in {"dial", "open"} /\ Wire("ended") /\ UNCHANGED events
     \/ ~real /\ wire \in {"dial", "open"} /\ Wire("sleep") /\ UNCHANGED events

(* runSocketMode reports the error and waits before it tries again.         *)
SocketError ==
  /\ up /\ wire = "sleep"
  /\ state' = "transient"
  /\ wire' = "check"
  /\ Keep /\ UNCHANGED <<connect, consume, command, events>>

-----------------------------------------------------------------------------
(* The consumer. *)

(* s.RTM or s.SocketMode is read when the goroutine first runs.             *)
ConsumeStarts ==
  /\ up /\ consume = "spawned"
  /\ IF link
     THEN consume' = "receive" /\ Keep /\ UNCHANGED <<state, connect, wire, command, events>>
     ELSE Panic("link")

(* Mutant: a lost connection is always reported.                            *)
StateAfterMutated(type) ==
  CASE type = "connecting" -> IF real /\ state = "transient" THEN state ELSE "connecting"
    [] type = "hello" -> "connected"
    [] type = "lost" -> "transient"
    [] type = "fatal" -> "unknown"
    [] OTHER -> state

(* The bridge state after an event; a retry is not reported again, and a    *)
(* lost connection is not if the credentials are known to be bad.           *)
StateAfter(type) ==
  CASE type = "connecting" -> IF real /\ state = "transient" THEN state ELSE "connecting"
    [] type = "hello" -> "connected"
    [] type = "lost" -> IF real /\ state = "bad" THEN state ELSE "transient"
    [] type = "fatal" -> "unknown"
    [] OTHER -> state

Receiving == up /\ consume = "receive" /\ events # <<>>
Taken == events' = Tail(events)

(* An event of a socket is acknowledged on s.SocketMode.                    *)
HandleStateEvent ==
  /\ Receiving /\ Head(events).type \in Plain
  /\ Taken
  /\ state' = StateAfter(Head(events).type)
  /\ consume' = IF Head(events).type = "invalid_auth" THEN "save" ELSE "receive"
  /\ Keep /\ UNCHANGED <<connect, wire, command>>

Busy == Cardinality(requests) + Cardinality(writes) >= MaxTasks

(* go handleUserChange, which has the user, or go handleUserInvalidated,    *)
(* which asks.                                                              *)
HandleUserEvent ==
  /\ Receiving /\ Head(events).type \notin Plain /\ ~Busy
  /\ IF ~real /\ ~link
     THEN Panic("link")
     ELSE IF ~boot /\ Head(events).type = "user_change"
     THEN Panic("boot")
     ELSE LET e == Head(events)
          IN /\ Taken
             /\ IF e.type = "user_change"
                THEN /\ writes' = writes \cup {[user |-> e.user, version |-> e.version,
                                                half |-> FALSE]}
                     /\ UNCHANGED requests
                ELSE /\ requests' = requests \cup {[of |-> {e.user}, since |-> stamp,
                                                    sent |-> FALSE, batch |-> FALSE]}
                     /\ UNCHANGED writes
             /\ UNCHANGED <<real, valid, saved, process, state, session, threads, version, ghosts,
                            resync, mixed, spent>>

(* A user changes in Slack, which tells those who are connected.            *)
ChangeUser(g) ==
  /\ Outside
  /\ version' = [version EXCEPT ![g] = @ + 1]
  /\ IF up /\ wire = "open" /\ g \notin Bots
     THEN /\ Room
          /\ \E type \in {"user_change", "user_invalidated"} :
               /\ real \/ type = "user_change"
               /\ events' = Append(events, [type |-> type, user |-> g, version |-> version'[g]])
     ELSE UNCHANGED events
  /\ UNCHANGED <<real, valid, saved, process, state, session, threads, ghosts, resync, requests,
                 writes, mixed>>

-----------------------------------------------------------------------------
(* User information. *)

Batched(g, recent) == real /\ g \notin Bots /\ (data[g] # 0 \/ recent)

KeepSession == UNCHANGED <<real, valid, saved, process, state, session, threads, events>>
KeepUsers == KeepSession /\ UNCHANGED spent

Waits(g) == \E i \in DOMAIN queue : i > QueueCap /\ queue[i] = g

(* GetUserInfo of a user whose last sync is long ago: it puts the ghost     *)
(* into the queue, where it waits while that is full, or asks Slack itself. *)
(* recent: less than a minute after connect.                                *)
Enqueue(g, recent) ==
  /\ up /\ made /\ ~fresh[g] /\ Batched(g, recent) /\ ~Waits(g)
  /\ Outside
  /\ queue' = Append(queue, g)
  /\ KeepSession /\ UNCHANGED <<version, ghosts, loop, batch, left, short, requests, writes, mixed>>

(* The bridge calls it as soon as the login is loaded.                      *)
AskDirectly(g, recent) ==
  /\ up /\ made /\ client /\ ~fresh[g] /\ ~Batched(g, recent) /\ ~Busy
  /\ Outside
  /\ requests' = requests \cup {[of |-> {g}, since |-> stamp, sent |-> TRUE, batch |-> FALSE]}
  /\ unbooted' = (unbooted \/ ~boot)
  /\ UNCHANGED <<real, valid, saved, up, panic, teardown, early, state, session, threads, events,
                 version, ghosts, resync, writes, mixed>>

(* resyncUsers installs its cancel function when it first runs.             *)
LoopStarts ==
  /\ up /\ loop = "spawned"
  /\ loop' = "wait"
  /\ ctx' = "live"
  /\ UNCHANGED <<real, valid, saved, process, state, token, made, client, link, boot, stop, threads,
                 events, version, ghosts, queue, batch, left, short, requests, writes,
                 mixed, spent>>

(* Mutant: the loop waits for the answer.                                   *)
LoopFreeMutated == requests = {}
(* The requests of the loop run beside it.                                  *)
LoopFree == TRUE

(* The first entry starts the timer, every other one resets it.  A waiting  *)
(* caller gets the room.                                                    *)
Collect ==
  /\ up /\ loop \in {"wait", "collect"} /\ queue # <<>> /\ LoopFree
  /\ LET g == Head(queue)
     IN /\ queue' = Tail(queue)
        /\ batch' = batch \cup {g}
        /\ short' = (short \/ data[g] = 0)
        /\ left' = IF short' THEN Short ELSE Long
  /\ loop' = "collect"
  /\ KeepUsers /\ UNCHANGED <<version, ghosts, requests, writes, mixed>>

Tick ==
  /\ up /\ loop = "collect" /\ left > 0
  /\ left' = left - 1
  /\ KeepUsers
  /\ UNCHANGED <<version, ghosts, loop, queue, batch, short, requests, writes, mixed>>

(* Mutant: the entries are kept for the next round.                         *)
EntriesLeftMutated == batch
(* Each round has a map of its own.                                         *)
EntriesLeft == {}

(* The timer fires: go syncManyUsers.                                       *)
Expire ==
  /\ up /\ loop = "collect" /\ left = 0
  /\ requests' = requests \cup {[of |-> batch, since |-> stamp, sent |-> FALSE, batch |-> TRUE]}
  /\ batch' = EntriesLeft
  /\ short' = FALSE
  /\ loop' = "wait"
  /\ KeepUsers /\ UNCHANGED <<version, ghosts, queue, left, writes, mixed>>

(* syncManyUsers or fetchUserInfo: the stamps are read, then the client.    *)
Ask(r) ==
  /\ up /\ r \in requests /\ ~r.sent
  /\ IF client
     THEN /\ requests' = (requests \ {r}) \cup {[r EXCEPT !.since = stamp, !.sent = TRUE]}
          /\ KeepUsers /\ UNCHANGED <<version, ghosts, resync, writes, mixed>>
     ELSE Panic("client")

(* Users not updated since are left out of the answer of the users cache.   *)
Answered(r) == {g \in r.of : ~real \/ g \in Bots \/ version[g] > r.since[g]}

(* wrapUserInfo names a user for the team of BootResp.                      *)
Answer(r) ==
  /\ up /\ r \in requests /\ r.sent /\ ~(r.batch /\ ctx = "cancelled")
  /\ IF ~boot /\ Answered(r) # {}
     THEN Panic("boot")
     ELSE /\ requests' = requests \ {r}
          /\ writes' = writes \cup {[user |-> g, version |-> version[g], half |-> FALSE]
                                     : g \in Answered(r)}
          /\ KeepUsers /\ UNCHANGED <<version, ghosts, resync, mixed>>

AnswerFails(r) ==
  /\ up /\ r \in requests /\ r.sent
  /\ IF r.batch /\ ctx = "cancelled" THEN UNCHANGED spent ELSE Outside
  /\ requests' = requests \ {r}
  /\ UNCHANGED <<real, valid, saved, process, state, session, threads, events, version, ghosts,
                 resync, writes, mixed>>

(* UpdateInfo, which takes no lock: name and avatar first, the metadata     *)
(* (ExtraUpdates of wrapUserInfo) last.                                     *)
Show(w) ==
  /\ up /\ w \in writes /\ ~w.half
  /\ data' = [data EXCEPT ![w.user] = w.version]
  /\ mixed' = [mixed EXCEPT ![w.user] = \E o \in writes : o.user = w.user /\ o.half]
  /\ writes' = (writes \ {w}) \cup {[w EXCEPT !.half = TRUE]}
  /\ KeepUsers /\ UNCHANGED <<version, stamp, fresh, row, resync, requests>>

(* Mutant: the time of the sync is taken for the time of the data.          *)
StampOfMutated(w) == version[w.user]
StampOf(w) == w.version

Stamp(w) ==
  /\ up /\ w \in writes /\ w.half
  /\ stamp' = [stamp EXCEPT ![w.user] = StampOf(w)]
  /\ fresh' = [fresh EXCEPT ![w.user] = TRUE]
  /\ row' = [row EXCEPT ![w.user] = [data |-> data[w.user], mixed |-> mixed[w.user]]]
  /\ writes' = writes \ {w}
  /\ KeepUsers /\ UNCHANGED <<version, data, resync, requests, mixed>>

(* MinGhostSyncInterval passes.                                             *)
Age(g) ==
  /\ fresh[g]
  /\ Outside
  /\ fresh' = [fresh EXCEPT ![g] = FALSE]
  /\ KeepSession /\ UNCHANGED <<version, data, stamp, row, resync, requests, writes, mixed>>

-----------------------------------------------------------------------------
Next ==
  \/ Restart \/ Login \/ ConnectNotLoggedIn \/ ConnectBegin \/ Boot \/ ConnectAfterLogin
  \/ ConnectFails \/ Start \/ ClearToken \/ Drop \/ Report \/ Disconnect \/ LogoutRemote
  \/ SignedOut
  \/ Revoke \/ WireStarts \/ SocketLoop \/ Dial \/ Open \/ Refuse \/ Lose \/ Fail \/ Close
  \/ SocketError \/ ConsumeStarts \/ HandleStateEvent \/ HandleUserEvent \/ LoopStarts \/ Collect
  \/ Tick \/ Expire
  \/ \E g \in Ghosts : ChangeUser(g) \/ Age(g)
  \/ \E g \in Ghosts, recent \in BOOLEAN : Enqueue(g, recent) \/ AskDirectly(g, recent)
  \/ \E r \in requests : Ask(r) \/ Answer(r) \/ AnswerFails(r)
  \/ \E w \in writes : Show(w) \/ Stamp(w)

Spec == Init /\ [][Next]_vars

(* The goroutines keep running, the timer ticks, the RTM goes on dialling;  *)
(* nothing is assumed of Slack's answers, of callers and of the user.       *)
Fairness ==
  /\ WF_vars(ConnectNotLoggedIn \/ ConnectBegin \/ Boot \/ ConnectAfterLogin \/ Start)
  /\ WF_vars(ClearToken) /\ WF_vars(Drop) /\ WF_vars(Report)
  /\ WF_vars(WireStarts \/ SocketLoop \/ Dial \/ Open \/ Refuse \/ Close \/ SocketError)
  /\ WF_vars(Lose /\ ~valid)
  /\ WF_vars(ConsumeStarts \/ HandleStateEvent \/ HandleUserEvent)
  /\ WF_vars(LoopStarts \/ Collect \/ Expire)
  /\ WF_vars(Tick)
  /\ WF_vars(\E w \in writes : Show(w) \/ Stamp(w))

FairSpec == Spec /\ Fairness

-----------------------------------------------------------------------------
Types ==
  /\ {real, valid, saved, up, token, made, client, link, boot, stop, short, teardown, early,
      unbooted} \subseteq BOOLEAN
  /\ panic \in Pointers \cup {"none"}
  /\ state \in States
  /\ ctx \in {"none", "live", "cancelled"}
  /\ connect \in {"idle", "begin", "boot", "booted", "team", "save", "drop", "report"}
  /\ consume \in {"none", "spawned", "receive", "save", "drop", "report"}
  /\ wire \in {"off", "spawned", "check", "begin", "dial", "open", "sleep", "refused", "ended",
               "failed"}
  /\ command \in {"idle", "signout", "gone", "stopped"}
  /\ loop \in {"none", "spawned", "wait", "collect"}
  /\ events \in Seq(Event)
  /\ {version, data, stamp} \subseteq [Ghosts -> Versions]
  /\ fresh \in [Ghosts -> BOOLEAN] /\ mixed \in [Ghosts -> BOOLEAN]
  /\ row \in [Ghosts -> [data : Versions, mixed : BOOLEAN]]
  /\ queue \in Seq(Ghosts)
  /\ batch \in SUBSET Ghosts
  /\ left \in 0..(IF Short > Long THEN Short ELSE Long)
  /\ requests \in SUBSET Request /\ writes \in SUBSET Write
  /\ spent \in 0..MaxSpent

(* Until disconnect is called, the fields are as LoadUserLogin left them,   *)
(* and nothing that needs them runs without them.                           *)
Whole ==
  up /\ ~teardown =>
    /\ client = made /\ link = made
    /\ ~made => /\ connect \in {"begin", "idle"}
                /\ consume = "none" /\ wire = "off" /\ loop = "none"
                /\ requests = {}

(* Before the boot response is kept no goroutine of the connection runs,    *)
(* and only a caller of GetUserInfo has asked for users.                    *)
Booting ==
  up /\ ~boot =>
    /\ connect # "team" /\ consume = "none" /\ wire = "off" /\ loop = "none"
    /\ requests # {} => unbooted

(* Client, RTM and SocketMode are nil for a goroutine of a session only if  *)
(* the session is being left by Disconnect, LogoutRemote or an invalid      *)
(* token (Connect, the consumers, the resync requests, runSocketMode), and  *)
(* BootResp, which connect sets late or never, is nil only for the answer   *)
(* to a caller of GetUserInfo who had asked before (wrapUserInfo).          *)
PanicsOnlyWhenLeaving ==
  /\ panic \in {"client", "link"} => teardown
  /\ panic = "boot" => unbooted

Inv == Types /\ Whole /\ Booting /\ PanicsOnlyWhenLeaving

(* A ghost's SlackUpdatedTS, which decides what Slack is asked for, is that *)
(* of the name and avatar it shows, unless two UpdateInfo calls for the     *)
(* ghost overlapped (wrapUserInfo, syncManyUsers, handleUserChange).        *)
StampTellsTruth ==
  \A g \in Ghosts :
    mixed[g] \/ data[g] = stamp[g] \/ \E w \in writes : w.user = g /\ w.half

(* Bad credentials stay the state of a process until a new login: no event  *)
(* of the old connection hides them (HandleSlackEvent, invalidateSession).  *)
BadIsFinal ==
  [][state = "bad" /\ ~token /\ command = "idle" /\ state' # "bad" => state' = "none"]_vars

(* A user whose token was revoked is told so, by Connect or by the RTM,     *)
(* unless the bridge disconnects, the process ends, or Slack's answer was   *)
(* another error (handleBootError, InvalidAuthEvent).                       *)
Reported == state \in {"bad", "unknown"} \/ ~up \/ command # "idle"
RevokedIsReported ==
  (real /\ ~valid /\ \/ connect \in {"begin", "boot"}
                     \/ wire \in {"spawned", "begin", "dial", "open"})
    ~> Reported \/ wire = "failed"

(* A connection ends after disconnect, unless that came before runSocket-   *)
(* Mode had set its stop function (disconnect, runSocketMode).              *)
Closes ==
  (up /\ teardown /\ ~early /\ wire = "open") ~> (wire # "open" \/ ~up)

(* A caller that waits in GetUserInfo gets on once the resync loop runs,    *)
(* even if Slack never answers a request (resyncUsers).                     *)
Released ==
  \A g \in Ghosts :
    (Waits(g) /\ loop # "none") ~> (~Waits(g) \/ ~up)

(* Collected users are asked for in the end, unless users keep coming, as   *)
(* every entry resets the timer (resyncUsers).                              *)
Collected ==
  \/ []<><<\E g \in Ghosts, recent \in BOOLEAN : Enqueue(g, recent)>>_vars
  \/ \A g \in Ghosts : g \in batch ~> (g \notin batch \/ ~up)

=============================================================================
