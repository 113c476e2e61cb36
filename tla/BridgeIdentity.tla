--------------------------- MODULE BridgeIdentity ---------------------------
(***************************************************************************)
(* pkg/bridgeidentity/map.go: the cache of Keycloak's Discord-Slack links. *)
(*                                                                         *)
(* Callers take the pointer globalMap and read the maps behind it without  *)
(* a lock, so the maps are objects on a heap here and callers keep         *)
(* pointers.  A stale cache makes Get start a loader goroutine, whose HTTP *)
(* calls are steps: links, governance members and the day change between   *)
(* them, callers come, and every call may fail.                            *)
(*                                                                         *)
(* Of the six maps behind the pointer the two cross-platform ones are      *)
(* modelled; the four keyed by Matrix localpart and governance username    *)
(* are built, cloned and published by the same statements.                 *)
(***************************************************************************)
EXTENDS Integers, FiniteSets

CONSTANTS
  Users,        \* Keycloak users, numbered in the order of the user list
  Discord, Slack,  \* account IDs
  NoId,         \* no link to that provider
  Callers,      \* goroutines that call Get or GetCached, the ticker is one
  Loaders,      \* goroutines a load may run in
  Objects,      \* addresses of Map values
  NoMap,        \* nil
  PageSize,     \* 100 in the code
  Cap,          \* keycloakScanMaxFirst, 4000 in the code
  MaxEvents     \* bound on the changes of links, members and day and the failed calls

ASSUME WorldAssumption == /\ Users \subseteq Nat
                          /\ NoId \notin Discord \cup Slack
ASSUME HeapAssumption == /\ Objects \subseteq Nat
                         /\ NoMap \notin Objects
ASSUME BoundAssumption == /\ PageSize \in Nat \ {0}
                          /\ Cap \in Nat
                          /\ Cap % PageSize = 0
                          /\ MaxEvents \in Nat

Link == [discord : Discord \cup {NoId}, slack : Slack \cup {NoId}]
Map == [discordToSlack : SUBSET (Discord \X Slack),
        slackToDiscord : SUBSET (Slack \X Discord)]
emptyMap == [discordToSlack |-> {}, slackToDiscord |-> {}]
Alias == {"discord", "slack"}
Scan == [alias : Alias, first : Nat, page : SUBSET Users, last : BOOLEAN,
         seen : SUBSET Users]

VARIABLES
  \* Keycloak and the governance files
  linked,      \* federated identities of each user
  members,     \* users named by AllMembers
  \* the package's variables
  heap,
  globalMap,
  fresh,       \* time.Since(loadedAt) < interval
  fullDue,     \* shouldFullScan
  refreshInProgress,
  \* callers
  caller,      \* "idle", or "stale" between Get's two critical sections
  held,        \* the map the caller has a pointer to
  \* loaders
  pc,
  full,        \* a full load
  map,         \* the map m being built
  todo,        \* members not looked up yet
  scan,        \* locals of scanKeycloakUsersByIdp
  \* bounds and history
  events,
  era,         \* links seen since the full load behind the cache began
  newEra,      \* links seen since the last full load began
  clean,       \* nothing changed or failed since the last full load began
  complete     \* the cache is that of a clean full load and nothing changed since

world == <<linked, members>>
cache == <<globalMap, fresh, fullDue, refreshInProgress>>
callers == <<caller, held>>
loaders == <<pc, full, map, todo, scan>>
history == <<events, era, newEra, clean, complete>>
vars == <<world, heap, cache, callers, loaders, history>>

Building == {"members", "page", "users", "store"}
PCs == Building \cup {"idle", "token", "release"}

NoScan == [alias |-> "discord", first |-> 0, page |-> {}, last |-> FALSE, seen |-> {}]

Both(u) == linked[u].discord # NoId /\ linked[u].slack # NoId
Pair(u) == <<linked[u].discord, linked[u].slack>>
Links == {Pair(u) : u \in {w \in Users : Both(w)}}

(* Keycloak links an external account to one user at most.                 *)
Unique(f) ==
  \A u, w \in Users : u # w => /\ f[u].discord # NoId => f[u].discord # f[w].discord
                               /\ f[u].slack # NoId => f[u].slack # f[w].slack

Init ==
  /\ linked \in [Users -> Link]
  /\ Unique(linked)
  /\ members \in SUBSET Users
  /\ heap = [o \in Objects |-> emptyMap]
  /\ globalMap = NoMap
  /\ fresh = FALSE
  /\ fullDue = TRUE
  /\ refreshInProgress = FALSE
  /\ caller = [c \in Callers |-> "idle"]
  /\ held = [c \in Callers |-> NoMap]
  /\ pc = [l \in Loaders |-> "idle"]
  /\ full = [l \in Loaders |-> FALSE]
  /\ map = [l \in Loaders |-> NoMap]
  /\ todo = [l \in Loaders |-> {}]
  /\ scan = [l \in Loaders |-> NoScan]
  /\ events = 0
  /\ era = Links
  /\ newEra = Links
  /\ clean = FALSE
  /\ complete = FALSE

-----------------------------------------------------------------------------
Event == events < MaxEvents /\ events' = events + 1

(* A user links or unlinks accounts in Keycloak.                            *)
Relink(u, link) ==
  /\ Event
  /\ link # linked[u]
  /\ linked' = [linked EXCEPT ![u] = link]
  /\ Unique(linked')
  /\ era' = era \cup Links'
  /\ newEra' = newEra \cup Links'
  /\ clean' = FALSE
  /\ complete' = FALSE
  /\ UNCHANGED <<members, heap, cache, callers, loaders>>

(* The governance files on the host are updated.                            *)
Govern(set) ==
  /\ Event
  /\ set # members
  /\ members' = set
  /\ clean' = FALSE
  /\ complete' = FALSE
  /\ UNCHANGED <<linked, heap, cache, callers, loaders, era, newEra>>

(* It is 4:00 in New York.                                                  *)
NewDay ==
  /\ Event
  /\ ~fullDue
  /\ fullDue' = TRUE
  /\ UNCHANGED <<world, heap, globalMap, fresh, refreshInProgress, callers, loaders,
                 era, newEra, clean, complete>>

(* The refresh interval passes.                                             *)
Expire ==
  /\ fresh
  /\ fresh' = FALSE
  /\ UNCHANGED <<world, heap, globalMap, fullDue, refreshInProgress, callers, loaders, history>>

-----------------------------------------------------------------------------
(* The pointers in use; what no pointer reaches is garbage and may be       *)
(* allocated.                                                               *)
Reachable == {globalMap} \cup {held[c] : c \in Callers} \cup {map[l] : l \in Loaders}
New(o) == o \notin Reachable /\ \A p \in Objects \ Reachable : o <= p

Hit == globalMap # NoMap /\ fresh

GetCached(c) ==
  /\ caller[c] = "idle"
  /\ held' = [held EXCEPT ![c] = globalMap]
  /\ UNCHANGED <<world, heap, cache, caller, loaders, history>>

(* Get's critical section under RLock.                                      *)
Peek(c) ==
  /\ caller[c] = "idle"
  /\ caller' = [caller EXCEPT ![c] = IF Hit THEN "idle" ELSE "stale"]
  /\ held' = [held EXCEPT ![c] = globalMap]
  /\ UNCHANGED <<world, heap, cache, loaders, history>>

(* Its critical section under Lock: another caller may have refreshed.      *)
Recheck(c) ==
  /\ caller[c] = "stale"
  /\ Hit
  /\ caller' = [caller EXCEPT ![c] = "idle"]
  /\ held' = [held EXCEPT ![c] = globalMap]
  /\ UNCHANGED <<world, heap, cache, loaders, history>>

(* Fault for a mutant: a load is started although one runs.                *)
BusyNever == FALSE

Busy == refreshInProgress

StartLoad(c) ==
  /\ caller[c] = "stale"
  /\ ~Hit
  /\ ~Busy
  /\ refreshInProgress' = TRUE
  /\ \E l \in Loaders : pc[l] = "idle" /\ pc' = [pc EXCEPT ![l] = "token"]
  /\ caller' = [caller EXCEPT ![c] = "idle"]
  /\ UNCHANGED <<world, heap, globalMap, fresh, fullDue, held, full, map, todo, scan, history>>

ReturnStale(c) ==
  /\ caller[c] = "stale"
  /\ ~Hit
  /\ Busy
  /\ caller' = [caller EXCEPT ![c] = "idle"]
  /\ UNCHANGED <<world, heap, cache, held, loaders, history>>

-----------------------------------------------------------------------------
Goto(l, label) == pc' = [pc EXCEPT ![l] = label]

Fail == Event /\ clean' = FALSE

(* m[k] = v                                                                 *)
Put(m, k, v) == {p \in m : p[1] # k} \cup {<<k, v>>}

indexFederatedLinks(m, u) ==
  IF Both(u)
  THEN [discordToSlack |-> Put(m.discordToSlack, linked[u].discord, linked[u].slack),
        slackToDiscord |-> Put(m.slackToDiscord, linked[u].slack, linked[u].discord)]
  ELSE m

(* The lookup of u's identities is indexed, or it fails and u is skipped.   *)
Lookup(l, u) ==
  \/ /\ heap' = [heap EXCEPT ![map[l]] = indexFederatedLinks(@, u)]
     /\ UNCHANGED <<events, clean>>
  \/ Fail /\ UNCHANGED heap

(* No token: the old map is kept and counts as refreshed.                   *)
TokenFails(l) ==
  /\ pc[l] = "token"
  /\ Fail
  /\ IF globalMap # NoMap THEN UNCHANGED <<heap, globalMap>>
     ELSE \E o \in Objects : /\ New(o)
                             /\ heap' = [heap EXCEPT ![o] = emptyMap]
                             /\ globalMap' = o
  /\ fresh' = TRUE
  /\ Goto(l, "release")
  /\ UNCHANGED <<world, fullDue, refreshInProgress, callers, full, map, todo, scan,
                 era, newEra, complete>>

shouldFullScan == fullDue

(* Fault for a mutant: every load starts from nothing.                      *)
snapshotEmpty == emptyMap

snapshotGlobal == IF globalMap = NoMap THEN emptyMap ELSE heap[globalMap]

(* Fault for a mutant: only a full load looks the members up.               *)
AllMembersOfFull == IF shouldFullScan THEN members ELSE {}

AllMembers == members

Begin(l) ==
  /\ pc[l] = "token"
  /\ Goto(l, "members")
  /\ full' = [full EXCEPT ![l] = shouldFullScan]
  /\ \E o \in Objects :
       /\ New(o)
       /\ map' = [map EXCEPT ![l] = o]
       /\ heap' = [heap EXCEPT ![o] = IF shouldFullScan THEN emptyMap ELSE snapshotGlobal]
  /\ todo' = [todo EXCEPT ![l] = AllMembers]
  /\ IF shouldFullScan THEN newEra' = Links /\ clean' = TRUE
     ELSE UNCHANGED <<newEra, clean>>
  /\ UNCHANGED <<world, cache, callers, scan, events, era, complete>>

(* loadGovernanceMember: of its three calls only the last reads links.      *)
loadGovernanceMember(l) ==
  /\ pc[l] = "members"
  /\ \E u \in todo[l] : /\ todo' = [todo EXCEPT ![l] = @ \ {u}]
                        /\ Lookup(l, u)
  /\ UNCHANGED <<world, cache, callers, pc, full, map, scan, era, newEra,
                 complete>>

(* Fault for a mutant: the map is published and not a clone of it.          *)
SetShared(l) == globalMap' = map[l] /\ UNCHANGED heap

SetClone(l) == \E o \in Objects : /\ New(o)
                                  /\ heap' = [heap EXCEPT ![o] = heap[map[l]]]
                                  /\ globalMap' = o

publishMap(l) ==
  /\ pc[l] = "members" /\ todo[l] = {} /\ full[l]
  /\ SetClone(l)
  /\ fresh' = TRUE
  /\ era' = newEra
  /\ complete' = FALSE
  /\ scan' = [scan EXCEPT ![l] = NoScan]
  /\ Goto(l, "page")
  /\ UNCHANGED <<world, fullDue, refreshInProgress, callers, full, map, todo, events,
                 newEra, clean>>

(* Which users have a link to the provider, and at which index of the list. *)
Listed(alias) == {u \in Users : linked[u][alias] # NoId}
Index(alias, u) == Cardinality({w \in Listed(alias) : w < u})

(* scanKeycloakUsersByIdp returns, and the next alias is scanned.           *)
NextAlias(l) ==
  IF scan[l].alias = "discord"
  THEN /\ scan' = [scan EXCEPT ![l] = [NoScan EXCEPT !.alias = "slack", !.seen = scan[l].seen]]
       /\ Goto(l, "page")
  ELSE /\ scan' = [scan EXCEPT ![l] = NoScan]
       /\ Goto(l, "store")

(* Fault for a mutant: one page too many.                                   *)
UpToCap(l) == scan[l].first <= Cap

BelowCap(l) == scan[l].first < Cap

ReadPage(l) ==
  LET alias == scan[l].alias
      first == scan[l].first
      users == {u \in Listed(alias) : Index(alias, u) \in first..first + PageSize - 1}
  IN /\ pc[l] = "page"
     /\ \/ /\ BelowCap(l)
           /\ users # {}
           /\ scan' = [scan EXCEPT ![l].page = users,
                                   ![l].last = Cardinality(users) < PageSize]
           /\ Goto(l, "users")
           /\ UNCHANGED <<events, clean>>
        \/ /\ ~BelowCap(l) \/ users = {}
           /\ NextAlias(l)
           /\ UNCHANGED <<events, clean>>
        \/ /\ BelowCap(l)
           /\ Fail
           /\ NextAlias(l)
     /\ UNCHANGED <<world, heap, cache, callers, full, map, todo, era, newEra,
                    complete>>

ReadUser(l) ==
  /\ pc[l] = "users"
  /\ \E u \in scan[l].page :
       /\ \A w \in scan[l].page : u <= w
       /\ scan' = [scan EXCEPT ![l].page = @ \ {u}, ![l].seen = @ \cup {u}]
       /\ IF u \in scan[l].seen THEN UNCHANGED <<heap, events, clean>> ELSE Lookup(l, u)
  /\ UNCHANGED <<world, cache, callers, pc, full, map, todo, era, newEra,
                 complete>>

(* Fault for a mutant: the next page starts one user too late.              *)
NextPageLate(l) == scan[l].first + PageSize + 1

NextPage(l) == scan[l].first + PageSize

EndPage(l) ==
  /\ pc[l] = "users" /\ scan[l].page = {}
  /\ IF scan[l].last THEN NextAlias(l)
     ELSE /\ scan' = [scan EXCEPT ![l].first = NextPage(l)]
          /\ Goto(l, "page")
  /\ UNCHANGED <<world, heap, cache, callers, full, map, todo, history>>

(* The loaded map becomes the cache.                                        *)
Store(l) ==
  /\ \/ pc[l] = "members" /\ todo[l] = {} /\ ~full[l]
     \/ pc[l] = "store"
  /\ globalMap' = map[l]
  /\ fresh' = TRUE
  /\ fullDue' = (fullDue /\ ~full[l])
  /\ complete' = IF full[l] THEN clean ELSE complete
  /\ Goto(l, "release")
  /\ UNCHANGED <<world, heap, refreshInProgress, callers, full, map, todo, scan, events,
                 era, newEra, clean>>

(* The deferred function: the goroutine ends.                               *)
Release(l) ==
  /\ pc[l] = "release"
  /\ refreshInProgress' = FALSE
  /\ Goto(l, "idle")
  /\ full' = [full EXCEPT ![l] = FALSE]
  /\ map' = [map EXCEPT ![l] = NoMap]
  /\ UNCHANGED <<world, heap, globalMap, fresh, fullDue, callers, todo, scan, history>>

Caller(c) == GetCached(c) \/ Peek(c) \/ Recheck(c) \/ StartLoad(c) \/ ReturnStale(c)

Loader(l) == \/ TokenFails(l) \/ Begin(l) \/ loadGovernanceMember(l) \/ publishMap(l)
             \/ ReadPage(l) \/ ReadUser(l) \/ EndPage(l) \/ Store(l) \/ Release(l)

Next ==
  \/ \E u \in Users, link \in Link : Relink(u, link)
  \/ \E set \in SUBSET Users : Govern(set)
  \/ NewDay
  \/ Expire
  \/ \E c \in Callers : Caller(c)
  \/ \E l \in Loaders : Loader(l)

Spec == Init /\ [][Next]_vars

(* The clock runs, and the ticker's goroutine and the loader's are          *)
(* scheduled; an HTTP call ends within the client's timeout of 30 seconds.  *)
FairSpec ==
  /\ Spec
  /\ WF_vars(Expire)
  /\ \A c \in Callers : WF_vars(Peek(c)) /\ WF_vars(Recheck(c) \/ StartLoad(c) \/ ReturnStale(c))
  /\ \A l \in Loaders : WF_vars(Loader(l))

-----------------------------------------------------------------------------
Pairs == (Discord \cup {NoId}) \X (Slack \cup {NoId})

WorldType == /\ linked \in [Users -> Link]
             /\ members \in SUBSET Users
CacheType == /\ heap \in [Objects -> Map]
             /\ globalMap \in Objects \cup {NoMap}
             /\ fresh \in BOOLEAN /\ fullDue \in BOOLEAN /\ refreshInProgress \in BOOLEAN
CallerType == /\ caller \in [Callers -> {"idle", "stale"}]
              /\ held \in [Callers -> Objects \cup {NoMap}]
LoaderType == /\ pc \in [Loaders -> PCs]
              /\ full \in [Loaders -> BOOLEAN]
              /\ map \in [Loaders -> Objects \cup {NoMap}]
              /\ todo \in [Loaders -> SUBSET Users]
              /\ scan \in [Loaders -> Scan]
HistoryType == /\ events \in 0..MaxEvents
               /\ era \subseteq Pairs /\ newEra \subseteq Pairs
               /\ clean \in BOOLEAN /\ complete \in BOOLEAN
TypeOK == WorldType /\ CacheType /\ CallerType /\ LoaderType /\ HistoryType

Loading(l) == pc[l] # "idle"

(* The flag refreshInProgress keeps loads apart: a second one would write   *)
(* its older view of Keycloak, or of lastFullScanAt, over the first one's.  *)
OneLoader == \A l, k \in Loaders : Loading(l) /\ Loading(k) => l = k

(* The flag is set exactly while a load runs, so that a load that failed    *)
(* never keeps the next one from starting.                                  *)
FlagIsOwned == refreshInProgress <=> \E l \in Loaders : Loading(l)

(* The map a load is building can be reached from nowhere else.             *)
Private ==
  \A l \in Loaders : pc[l] \in Building =>
    /\ map[l] \in Objects
    /\ map[l] # globalMap
    /\ \A c \in Callers : held[c] # map[l]
    /\ \A k \in Loaders : k # l => map[k] # map[l]

Within(m, links) == /\ m.discordToSlack \subseteq links
                    /\ \A p \in m.slackToDiscord : <<p[2], p[1]>> \in links

(* A load before its publishMap is grounded in the era it begins, any other *)
(* in the era of the cache it was copied from.                              *)
BuildIsGrounded ==
  \A l \in Loaders : pc[l] \in Building =>
    Within(heap[map[l]], IF full[l] /\ pc[l] = "members" THEN newEra ELSE era)

(* The cache holds no link that was gone when the last full load began:     *)
(* what was unlinked lasts until the next day's load, and no longer.        *)
Grounded == globalMap # NoMap => Within(heap[globalMap], era)

LinksKnown == Links \subseteq era \cap newEra

Keys(m) == {p[1] : p \in m.discordToSlack}
Cached == IF globalMap = NoMap THEN {} ELSE Keys(heap[globalMap])

(* An incremental load builds on what is cached, and only a full one scans. *)
BuildKeepsCached ==
  \A l \in Loaders : /\ pc[l] = "members" /\ ~full[l] => Cached \subseteq Keys(heap[map[l]])
                     /\ pc[l] \in {"page", "users", "store"} => full[l]

(* The inductive invariant: types, one load at a time, the private map and  *)
(* the eras (Get and its loader, map.go:155-345).                           *)
Inv == /\ TypeOK /\ OneLoader /\ FlagIsOwned /\ Private
       /\ LinksKnown /\ BuildIsGrounded /\ Grounded /\ BuildKeepsCached

(* The users in the pages below Cap, and the members, have their links in   *)
(* the cache after a full load during which nothing changed or failed, and  *)
(* no other link is there: the crawl in pages skips nobody.                 *)
Wanted == {Pair(u) : u \in {w \in Users : /\ Both(w)
                                          /\ \/ w \in members
                                             \/ \E a \in Alias : Index(a, w) < Cap}}
Exact ==
  complete => heap[globalMap] = [discordToSlack |-> Wanted,
                                 slackToDiscord |-> {<<p[2], p[1]>> : p \in Wanted}]

(* Maps are read without a lock (LinkedIdentityKey, SlackUserIDForMXID), so *)
(* no step may write into one that a caller has a pointer to.               *)
Frozen ==
  [][\A c \in Callers : held[c] # NoMap => heap'[held[c]] = heap[held[c]]]_vars

(* The links of the last full scan survive the loads of governance members, *)
(* whatever fails in them ("keep prior full-scan overflow links"): only a   *)
(* full load takes a Discord account out of the cache.                      *)
OverflowKept ==
  [][(\A l \in Loaders : ~full[l]) => Cached \subseteq Cached']_vars

(* Once nothing changes or fails any more, the members' links are in the    *)
(* cache, in both directions, for good.                                     *)
MembersCached ==
  /\ globalMap # NoMap
  /\ \A u \in members : Both(u) =>
       /\ Pair(u) \in heap[globalMap].discordToSlack
       /\ <<linked[u].slack, linked[u].discord>> \in heap[globalMap].slackToDiscord
Converges == <>[]MembersCached

(* Get's comment: "stale-while-revalidate".  While a load runs, a Discord   *)
(* account that was cached and is still linked is found.                    *)
StaleWhileRevalidate ==
  [][refreshInProgress' /\ UNCHANGED linked =>
       Cached \cap {p[1] : p \in Links} \subseteq Cached']_vars

(* What a pointer stands for: nil is handed out as an empty map.            *)
Value(o) == IF o = NoMap THEN emptyMap ELSE heap[o]
Version == Value(globalMap)
Views == [c \in Callers |-> Value(held[c])]

Builds == \E l \in Loaders : pc[l] \in Building
Builder == CHOOSE l \in Loaders : pc[l] \in Building

Phase == CASE ~Builds -> "idle"
           [] Builds /\ pc[Builder] = "members" -> IF full[Builder] THEN "members" ELSE "refresh"
           [] OTHER -> "scan"
Draft == IF Builds THEN heap[map[Builder]] ELSE emptyMap

Promise == INSTANCE LinkCache WITH
  links <- Links,
  version <- Version,
  view <- Views,
  phase <- Phase,
  draft <- Draft
(* What callers see of the cache is LinkCache: versions that never change   *)
(* once Get or GetCached has handed them out (map.go:145-202), drawn up by  *)
(* one load after the other from what was cached or from nothing.           *)
Implements == Promise!Spec

=============================================================================
