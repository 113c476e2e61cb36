------------------------ MODULE BridgeIdentity_proofs ------------------------
(***************************************************************************)
(* Safety of BridgeIdentity for any number of users, accounts, callers,    *)
(* changes and failures: one load at a time, maps that callers can reach   *)
(* are never written, overflow links survive incremental loads, a full     *)
(* load forgets what was unlinked, and if nothing changes or fails in it   *)
(* it finds every user below the cap.                                      *)
(***************************************************************************)
EXTENDS BridgeIdentity, FiniteSetTheorems, WellFoundedInduction, TLAPS

-----------------------------------------------------------------------------
(* Types of the operators. *)

LEMMA EmptyMapType == emptyMap \in Map
BY DEF Map, emptyMap

LEMMA PutType ==
  ASSUME NEW S, NEW T, NEW m \in SUBSET (S \X T), NEW k \in S, NEW v \in T
  PROVE  Put(m, k, v) \in SUBSET (S \X T)
BY DEF Put

LEMMA LinkType ==
  ASSUME WorldType, NEW u \in Users
  PROVE  /\ linked[u].discord \in Discord \cup {NoId}
         /\ linked[u].slack \in Slack \cup {NoId}
BY DEF WorldType, Link

LEMMA LinksType ==
  ASSUME WorldType
  PROVE  Links \subseteq Pairs
BY LinkType DEF Links, Pair, Pairs

LEMMA IndexType ==
  ASSUME WorldType, NEW m \in Map, NEW u \in Users
  PROVE  indexFederatedLinks(m, u) \in Map
<1>1. CASE Both(u)
  <2>1. linked[u].discord \in Discord /\ linked[u].slack \in Slack
    BY <1>1, LinkType DEF Both
  <2>2. m.discordToSlack \in SUBSET (Discord \X Slack)
        /\ m.slackToDiscord \in SUBSET (Slack \X Discord)
    BY DEF Map
  <2>3. Put(m.discordToSlack, linked[u].discord, linked[u].slack) \in SUBSET (Discord \X Slack)
    BY <2>1, <2>2, PutType
  <2>4. Put(m.slackToDiscord, linked[u].slack, linked[u].discord) \in SUBSET (Slack \X Discord)
    BY <2>1, <2>2, PutType
  <2> QED
    BY <1>1, <2>3, <2>4 DEF indexFederatedLinks, Map
<1>2. CASE ~Both(u)
  BY <1>2 DEF indexFederatedLinks
<1> QED
  BY <1>1, <1>2

LEMMA SnapshotType ==
  ASSUME CacheType
  PROVE  snapshotGlobal \in Map
BY EmptyMapType DEF CacheType, snapshotGlobal

LEMMA HeapUpdate ==
  ASSUME heap \in [Objects -> Map], NEW o, NEW m, o \in Objects => m \in Map
  PROVE  [heap EXCEPT ![o] = m] \in [Objects -> Map]
OBVIOUS

LEMMA EventType ==
  ASSUME events \in 0..MaxEvents, Event
  PROVE  events' \in 0..MaxEvents
BY BoundAssumption DEF Event

LEMMA LookupTypes ==
  ASSUME WorldType, CacheType, HistoryType, NEW l, NEW u \in Users, Lookup(l, u)
  PROVE  /\ heap' \in [Objects -> Map]
         /\ events' \in 0..MaxEvents
         /\ clean' \in BOOLEAN
<1>1. CASE heap' = [heap EXCEPT ![map[l]] = indexFederatedLinks(@, u)] /\ UNCHANGED <<events, clean>>
  <2>1. map[l] \in Objects => indexFederatedLinks(heap[map[l]], u) \in Map
    BY IndexType DEF CacheType
  <2>2. heap' \in [Objects -> Map]
    BY <1>1, <2>1, HeapUpdate DEF CacheType
  <2> QED
    BY <1>1, <2>2 DEF HistoryType
<1>2. CASE Fail /\ UNCHANGED heap
  BY <1>2, EventType DEF Fail, HistoryType, CacheType
<1> QED
  BY <1>1, <1>2 DEF Lookup

LEMMA NoScanType == NoScan \in Scan
BY DEF NoScan, Scan, Alias

LEMMA ScanFields ==
  ASSUME NEW s \in Scan
  PROVE  /\ s.first \in Nat /\ s.page \in SUBSET Users /\ s.last \in BOOLEAN
         /\ s.seen \in SUBSET Users /\ s.alias \in Alias
BY DEF Scan

LEMMA WithFirst ==
  ASSUME NEW s \in Scan, NEW n \in Nat
  PROVE  [s EXCEPT !.first = n] \in Scan
BY DEF Scan

LEMMA WithPage ==
  ASSUME NEW s \in Scan, NEW U \in SUBSET Users, NEW b \in BOOLEAN
  PROVE  [s EXCEPT !.page = U, !.last = b] \in Scan
BY DEF Scan

LEMMA WithSeen ==
  ASSUME NEW s \in Scan, NEW U \in SUBSET Users, NEW V \in SUBSET Users
  PROVE  [s EXCEPT !.page = U, !.seen = V] \in Scan
BY DEF Scan

LEMMA WithAlias ==
  ASSUME NEW s \in Scan, NEW a \in Alias, NEW V \in SUBSET Users
  PROVE  [s EXCEPT !.alias = a, !.seen = V] \in Scan
BY DEF Scan

LEMMA NextAliasTypes ==
  ASSUME LoaderType, NEW l \in Loaders, NextAlias(l)
  PROVE  /\ scan' \in [Loaders -> Scan]
         /\ pc' \in [Loaders -> PCs]
         /\ pc' = [pc EXCEPT ![l] = pc'[l]]
         /\ pc'[l] \in {"page", "store"}
<1>1. scan \in [Loaders -> Scan] /\ pc \in [Loaders -> PCs]
  BY DEF LoaderType
<1>2. scan[l].seen \in SUBSET Users
  BY <1>1, ScanFields
<1>3. [NoScan EXCEPT !.alias = "slack", !.seen = scan[l].seen] \in Scan
  BY <1>2, NoScanType, WithAlias DEF Alias
<1>4. CASE scan[l].alias = "discord"
  BY <1>1, <1>3, <1>4 DEF NextAlias, Goto, PCs, Building
<1>5. CASE scan[l].alias # "discord"
  BY <1>1, <1>5, NoScanType DEF NextAlias, Goto, PCs, Building
<1> QED
  BY <1>4, <1>5

-----------------------------------------------------------------------------
(* Type correctness. *)

LEMMA InitType == Init => TypeOK
<1> SUFFICES ASSUME Init PROVE TypeOK
  OBVIOUS
<1>1. WorldType
  BY DEF Init, WorldType
<1>2. CacheType
  BY EmptyMapType DEF Init, CacheType
<1>3. CallerType
  BY DEF Init, CallerType
<1>4. LoaderType
  <2>1. scan \in [Loaders -> Scan]
    BY NoScanType DEF Init
  <2>2. /\ pc \in [Loaders -> PCs]
        /\ full \in [Loaders -> BOOLEAN]
        /\ map \in [Loaders -> Objects \cup {NoMap}]
        /\ todo \in [Loaders -> SUBSET Users]
    BY DEF Init, PCs
  <2> QED
    BY <2>1, <2>2 DEF LoaderType
<1>5. HistoryType
  <2>1. era \subseteq Pairs /\ newEra \subseteq Pairs
    BY <1>1, LinksType DEF Init
  <2>2. events \in 0..MaxEvents
    BY BoundAssumption DEF Init
  <2> QED
    BY <2>1, <2>2 DEF Init, HistoryType
<1> QED
  BY <1>1, <1>2, <1>3, <1>4, <1>5 DEF TypeOK

LEMMA RelinkType ==
  ASSUME TypeOK, NEW u \in Users, NEW link \in Link, Relink(u, link)
  PROVE  TypeOK'
<1>1. WorldType'
  BY DEF TypeOK, WorldType, Relink
<1>2. Links' \subseteq Pairs
  <2>1. \A w \in Users : linked'[w].discord \in Discord \cup {NoId}
                         /\ linked'[w].slack \in Slack \cup {NoId}
    BY <1>1 DEF WorldType, Link
  <2> QED
    BY <2>1 DEF Links, Pair, Pairs
<1>3. HistoryType'
  <2>1. events' \in 0..MaxEvents
    BY EventType DEF TypeOK, HistoryType, Relink
  <2> QED
    BY <1>2, <2>1 DEF TypeOK, HistoryType, Relink
<1>4. CacheType' /\ CallerType' /\ LoaderType'
  BY DEF TypeOK, CacheType, CallerType, LoaderType, Relink, cache, callers, loaders
<1> QED
  BY <1>1, <1>3, <1>4 DEF TypeOK

LEMMA GovernType ==
  ASSUME TypeOK, NEW S \in SUBSET Users, Govern(S)
  PROVE  TypeOK'
<1>1. WorldType'
  BY DEF TypeOK, WorldType, Govern
<1>2. events' \in 0..MaxEvents
  BY EventType DEF TypeOK, HistoryType, Govern
<1>3. HistoryType'
  BY <1>2 DEF TypeOK, HistoryType, Govern
<1>4. CacheType' /\ CallerType' /\ LoaderType'
  BY DEF TypeOK, CacheType, CallerType, LoaderType, Govern, cache, callers, loaders
<1> QED
  BY <1>1, <1>3, <1>4 DEF TypeOK

LEMMA NewDayType ==
  ASSUME TypeOK, NewDay
  PROVE  TypeOK'
<1>1. events' \in 0..MaxEvents
  BY EventType DEF TypeOK, HistoryType, NewDay
<1>2. HistoryType'
  BY <1>1 DEF TypeOK, HistoryType, NewDay
<1>3. CacheType'
  BY DEF TypeOK, CacheType, NewDay
<1>4. WorldType' /\ CallerType' /\ LoaderType'
  BY DEF TypeOK, WorldType, CallerType, LoaderType, NewDay, world, callers, loaders
<1> QED
  BY <1>2, <1>3, <1>4 DEF TypeOK

LEMMA ExpireType ==
  ASSUME TypeOK, Expire
  PROVE  TypeOK'
<1>1. CacheType'
  BY DEF TypeOK, CacheType, Expire
<1>2. WorldType' /\ CallerType' /\ LoaderType' /\ HistoryType'
  BY DEF TypeOK, WorldType, CallerType, LoaderType, HistoryType, Expire, world, callers,
         loaders, history
<1> QED
  BY <1>1, <1>2 DEF TypeOK

LEMMA CallerStepType ==
  ASSUME TypeOK, NEW c \in Callers, Caller(c)
  PROVE  TypeOK'
<1>1. WorldType' /\ HistoryType'
  BY DEF TypeOK, Caller, GetCached, Peek, Recheck, StartLoad, ReturnStale, WorldType,
         HistoryType, world, history
<1>2. CacheType'
  BY DEF TypeOK, Caller, GetCached, Peek, Recheck, StartLoad, ReturnStale, CacheType, cache
<1>3. CallerType'
  <2>1. globalMap \in Objects \cup {NoMap}
    BY DEF TypeOK, CacheType
  <2>2. CASE GetCached(c)
    BY <2>1, <2>2 DEF TypeOK, CallerType, GetCached
  <2>3. CASE Peek(c)
    BY <2>1, <2>3 DEF TypeOK, CallerType, Peek
  <2>4. CASE Recheck(c)
    BY <2>1, <2>4 DEF TypeOK, CallerType, Recheck
  <2>5. CASE StartLoad(c)
    BY <2>5 DEF TypeOK, CallerType, StartLoad
  <2>6. CASE ReturnStale(c)
    BY <2>6 DEF TypeOK, CallerType, ReturnStale
  <2> QED
    BY <2>2, <2>3, <2>4, <2>5, <2>6 DEF Caller
<1>4. LoaderType'
  <2>1. CASE StartLoad(c)
    BY <2>1 DEF TypeOK, LoaderType, StartLoad, PCs
  <2>2. CASE ~StartLoad(c)
    BY <2>2 DEF TypeOK, LoaderType, Caller, GetCached, Peek, Recheck, ReturnStale, loaders
  <2> QED
    BY <2>1, <2>2
<1> QED
  BY <1>1, <1>2, <1>3, <1>4 DEF TypeOK

LEMMA TokenFailsType ==
  ASSUME TypeOK, NEW l \in Loaders, TokenFails(l)
  PROVE  TypeOK'
<1>1. WorldType' /\ CallerType'
  BY DEF TypeOK, TokenFails, WorldType, CallerType, world, callers
<1>2. HistoryType'
  BY EventType DEF TypeOK, TokenFails, HistoryType, Fail
<1>3. LoaderType'
  BY DEF TypeOK, TokenFails, LoaderType, Goto, PCs
<1>4. CacheType'
  <2>1. heap \in [Objects -> Map] /\ globalMap \in Objects \cup {NoMap}
    BY DEF TypeOK, CacheType
  <2>2. CASE globalMap # NoMap
    BY <2>1, <2>2 DEF TypeOK, CacheType, TokenFails
  <2>3. CASE globalMap = NoMap
    <3>1. PICK o \in Objects : heap' = [heap EXCEPT ![o] = emptyMap] /\ globalMap' = o
      BY <2>3 DEF TokenFails
    <3>2. heap' \in [Objects -> Map]
      BY <2>1, <3>1, HeapUpdate, EmptyMapType
    <3> QED
      BY <3>1, <3>2 DEF TypeOK, CacheType, TokenFails
  <2> QED
    BY <2>2, <2>3
<1> QED
  BY <1>1, <1>2, <1>3, <1>4 DEF TypeOK

LEMMA BeginType ==
  ASSUME TypeOK, NEW l \in Loaders, Begin(l)
  PROVE  TypeOK'
<1>1. PICK o \in Objects :
        /\ New(o)
        /\ map' = [map EXCEPT ![l] = o]
        /\ heap' = [heap EXCEPT ![o] = IF shouldFullScan THEN emptyMap ELSE snapshotGlobal]
  BY DEF Begin
<1>2. WorldType' /\ CallerType'
  BY DEF TypeOK, Begin, WorldType, CallerType, world, callers
<1>3. HistoryType'
  BY LinksType DEF TypeOK, Begin, HistoryType
<1>4. LoaderType'
  <2>1. shouldFullScan \in BOOLEAN /\ AllMembers \in SUBSET Users
    BY DEF TypeOK, CacheType, WorldType, shouldFullScan, AllMembers
  <2>2. full' \in [Loaders -> BOOLEAN] /\ todo' \in [Loaders -> SUBSET Users]
    BY <2>1 DEF TypeOK, LoaderType, Begin
  <2>3. map' \in [Loaders -> Objects \cup {NoMap}] /\ pc' \in [Loaders -> PCs]
    BY <1>1 DEF TypeOK, LoaderType, Begin, Goto, PCs, Building
  <2> QED
    BY <2>2, <2>3 DEF TypeOK, LoaderType, Begin
<1>5. CacheType'
  <2>1. (IF shouldFullScan THEN emptyMap ELSE snapshotGlobal) \in Map
    BY EmptyMapType, SnapshotType DEF TypeOK
  <2>2. heap' \in [Objects -> Map]
    BY <1>1, <2>1, HeapUpdate DEF TypeOK, CacheType
  <2> QED
    BY <2>2 DEF TypeOK, CacheType, Begin, cache
<1> QED
  BY <1>2, <1>3, <1>4, <1>5 DEF TypeOK

LEMMA MemberType ==
  ASSUME TypeOK, NEW l \in Loaders, loadGovernanceMember(l)
  PROVE  TypeOK'
<1>1. PICK u \in todo[l] : todo' = [todo EXCEPT ![l] = @ \ {u}] /\ Lookup(l, u)
  BY DEF loadGovernanceMember
<1>2. u \in Users
  BY <1>1 DEF TypeOK, LoaderType
<1>3. heap' \in [Objects -> Map] /\ events' \in 0..MaxEvents /\ clean' \in BOOLEAN
  BY <1>1, <1>2, LookupTypes DEF TypeOK
<1>4. WorldType' /\ CallerType'
  BY DEF TypeOK, loadGovernanceMember, WorldType, CallerType, world, callers
<1>5. HistoryType'
  BY <1>3 DEF TypeOK, loadGovernanceMember, HistoryType
<1>6. CacheType'
  BY <1>3 DEF TypeOK, loadGovernanceMember, CacheType, cache
<1>7. LoaderType'
  BY <1>1 DEF TypeOK, loadGovernanceMember, LoaderType
<1> QED
  BY <1>4, <1>5, <1>6, <1>7 DEF TypeOK

LEMMA PublishType ==
  ASSUME TypeOK, NEW l \in Loaders, publishMap(l), map[l] \in Objects
  PROVE  TypeOK'
<1>1. PICK o \in Objects : heap' = [heap EXCEPT ![o] = heap[map[l]]] /\ globalMap' = o
  BY DEF publishMap, SetClone
<1>2. heap' \in [Objects -> Map]
  BY <1>1, HeapUpdate DEF TypeOK, CacheType
<1>3. WorldType' /\ CallerType'
  BY DEF TypeOK, publishMap, WorldType, CallerType, world, callers
<1>4. HistoryType'
  BY DEF TypeOK, publishMap, HistoryType
<1>5. CacheType'
  BY <1>1, <1>2 DEF TypeOK, publishMap, CacheType
<1>6. LoaderType'
  <2>1. scan' \in [Loaders -> Scan]
    BY NoScanType DEF TypeOK, publishMap, LoaderType
  <2>2. pc' \in [Loaders -> PCs]
    BY DEF TypeOK, publishMap, LoaderType, Goto, PCs, Building
  <2> QED
    BY <2>1, <2>2 DEF TypeOK, publishMap, LoaderType
<1> QED
  BY <1>3, <1>4, <1>5, <1>6 DEF TypeOK

LEMMA ReadPageType ==
  ASSUME TypeOK, NEW l \in Loaders, ReadPage(l)
  PROVE  TypeOK'
<1>1. WorldType' /\ CacheType' /\ CallerType'
  BY DEF TypeOK, ReadPage, WorldType, CacheType, CallerType, world, cache, callers
<1>2. HistoryType'
  BY EventType DEF TypeOK, ReadPage, HistoryType, Fail
<1>3. LoaderType'
  <2>1. CASE NextAlias(l)
    BY <2>1, NextAliasTypes DEF TypeOK, ReadPage, LoaderType
  <2>2. CASE ~NextAlias(l)
    <3>1. PICK users \in SUBSET Users :
            scan' = [scan EXCEPT ![l].page = users, ![l].last = Cardinality(users) < PageSize]
      BY <2>2 DEF ReadPage, Listed
    <3>2. pc' = [pc EXCEPT ![l] = "users"]
      BY <2>2 DEF ReadPage, Goto
    <3>3. scan' = [scan EXCEPT ![l] = [scan[l] EXCEPT !.page = users,
                                                     !.last = Cardinality(users) < PageSize]]
      BY <3>1 DEF TypeOK, LoaderType
    <3>4. (Cardinality(users) < PageSize) \in BOOLEAN
      OBVIOUS
    <3>5. scan[l] \in Scan
      BY DEF TypeOK, LoaderType
    <3>6. [scan[l] EXCEPT !.page = users, !.last = Cardinality(users) < PageSize] \in Scan
      BY <3>4, <3>5, WithPage
    <3>7. scan' \in [Loaders -> Scan]
      BY <3>3, <3>6 DEF TypeOK, LoaderType
    <3> QED
      BY <3>2, <3>7 DEF TypeOK, LoaderType, ReadPage, PCs, Building
  <2> QED
    BY <2>1, <2>2
<1> QED
  BY <1>1, <1>2, <1>3 DEF TypeOK

LEMMA ReadUserType ==
  ASSUME TypeOK, NEW l \in Loaders, ReadUser(l)
  PROVE  TypeOK'
<1>1. PICK u \in scan[l].page :
        /\ scan' = [scan EXCEPT ![l].page = @ \ {u}, ![l].seen = @ \cup {u}]
        /\ IF u \in scan[l].seen THEN UNCHANGED <<heap, events, clean>> ELSE Lookup(l, u)
  BY DEF ReadUser
<1>2. scan[l] \in Scan /\ scan[l].page \in SUBSET Users /\ scan[l].seen \in SUBSET Users
  BY ScanFields DEF TypeOK, LoaderType
<1>3. u \in Users
  BY <1>1, <1>2
<1>4. heap' \in [Objects -> Map] /\ events' \in 0..MaxEvents /\ clean' \in BOOLEAN
  BY <1>1, <1>3, LookupTypes DEF TypeOK, CacheType, HistoryType
<1>5. WorldType' /\ CallerType'
  BY DEF TypeOK, ReadUser, WorldType, CallerType, world, callers
<1>6. HistoryType'
  BY <1>4 DEF TypeOK, ReadUser, HistoryType
<1>7. CacheType'
  BY <1>4 DEF TypeOK, ReadUser, CacheType, cache
<1>8. LoaderType'
  <2>1. scan' = [scan EXCEPT ![l] = [scan[l] EXCEPT !.page = scan[l].page \ {u},
                                                   !.seen = scan[l].seen \cup {u}]]
    BY <1>1, <1>2 DEF TypeOK, LoaderType
  <2>2. scan[l].page \ {u} \in SUBSET Users /\ scan[l].seen \cup {u} \in SUBSET Users
    BY <1>2, <1>3
  <2>3. [scan[l] EXCEPT !.page = scan[l].page \ {u}, !.seen = scan[l].seen \cup {u}] \in Scan
    BY <1>2, <2>2, WithSeen
  <2>4. scan' \in [Loaders -> Scan]
    BY <2>1, <2>3 DEF TypeOK, LoaderType
  <2> QED
    BY <2>4 DEF TypeOK, LoaderType, ReadUser
<1> QED
  BY <1>5, <1>6, <1>7, <1>8 DEF TypeOK

LEMMA EndPageType ==
  ASSUME TypeOK, NEW l \in Loaders, EndPage(l)
  PROVE  TypeOK'
<1>1. WorldType' /\ CacheType' /\ CallerType' /\ HistoryType'
  BY DEF TypeOK, EndPage, WorldType, CacheType, CallerType, HistoryType, world, cache, callers,
         history
<1>2. LoaderType'
  <2>1. CASE NextAlias(l)
    BY <2>1, NextAliasTypes DEF TypeOK, EndPage, LoaderType
  <2>2. CASE ~NextAlias(l)
    <3>1. scan' = [scan EXCEPT ![l].first = NextPage(l)] /\ pc' = [pc EXCEPT ![l] = "page"]
      BY <2>2 DEF EndPage, Goto
    <3>2. scan[l] \in Scan /\ NextPage(l) \in Nat
      BY ScanFields, BoundAssumption DEF TypeOK, LoaderType, NextPage
    <3>3. [scan[l] EXCEPT !.first = NextPage(l)] \in Scan
      BY <3>2, WithFirst
    <3>4. scan' \in [Loaders -> Scan]
      <4>1. scan' = [scan EXCEPT ![l] = [scan[l] EXCEPT !.first = NextPage(l)]]
        BY <3>1 DEF TypeOK, LoaderType
      <4> QED
        BY <3>3, <4>1 DEF TypeOK, LoaderType
    <3> QED
      BY <3>1, <3>4 DEF TypeOK, LoaderType, EndPage, PCs, Building
  <2> QED
    BY <2>1, <2>2
<1> QED
  BY <1>1, <1>2 DEF TypeOK

LEMMA StoreType ==
  ASSUME TypeOK, NEW l \in Loaders, Store(l)
  PROVE  TypeOK'
<1>1. WorldType' /\ CallerType'
  BY DEF TypeOK, Store, WorldType, CallerType, world, callers
<1>2. CacheType'
  BY DEF TypeOK, Store, CacheType, LoaderType
<1>3. LoaderType'
  BY DEF TypeOK, Store, LoaderType, Goto, PCs
<1>4. HistoryType'
  BY DEF TypeOK, Store, HistoryType
<1> QED
  BY <1>1, <1>2, <1>3, <1>4 DEF TypeOK

LEMMA ReleaseType ==
  ASSUME TypeOK, NEW l \in Loaders, Release(l)
  PROVE  TypeOK'
<1>1. WorldType' /\ CallerType' /\ HistoryType'
  BY DEF TypeOK, Release, WorldType, CallerType, HistoryType, world, callers, history
<1>2. CacheType'
  BY DEF TypeOK, Release, CacheType
<1>3. LoaderType'
  BY DEF TypeOK, Release, LoaderType, Goto, PCs
<1> QED
  BY <1>1, <1>2, <1>3 DEF TypeOK

LEMMA StutterType ==
  ASSUME TypeOK, UNCHANGED vars
  PROVE  TypeOK'
BY DEF TypeOK, WorldType, CacheType, CallerType, LoaderType, HistoryType, vars, world, cache,
       callers, loaders, history

LEMMA TypeStep ==
  ASSUME TypeOK, Private, [Next]_vars
  PROVE  TypeOK'
<1>1. ASSUME NEW l \in Loaders, Loader(l) PROVE TypeOK'
  <2>1. publishMap(l) => map[l] \in Objects
    BY DEF publishMap, Private, Building
  <2> QED
    BY <1>1, <2>1, TokenFailsType, BeginType, MemberType, PublishType, ReadPageType,
       ReadUserType, EndPageType, StoreType, ReleaseType DEF Loader
<1> QED
  BY <1>1, RelinkType, GovernType, NewDayType, ExpireType, CallerStepType, StutterType DEF Next

-----------------------------------------------------------------------------
(* One load at a time. *)

LEMMA PageControl ==
  ASSUME TypeOK, NEW l \in Loaders, ReadPage(l) \/ EndPage(l)
  PROVE  /\ pc[l] \in {"page", "users"}
         /\ pc' = [pc EXCEPT ![l] = pc'[l]]
         /\ pc'[l] \in {"page", "users", "store"}
         /\ UNCHANGED <<heap, globalMap, refreshInProgress, held, map, full, linked, era, newEra>>
<1>1. pc \in [Loaders -> PCs]
  BY DEF TypeOK, LoaderType
<1>2. /\ pc[l] \in {"page", "users"}
      /\ UNCHANGED <<heap, globalMap, refreshInProgress, held, map, full, linked, era, newEra>>
  BY DEF ReadPage, EndPage, world, cache, callers, history
<1>3. CASE NextAlias(l)
  BY <1>2, <1>3, NextAliasTypes DEF TypeOK
<1>4. CASE ~NextAlias(l)
  BY <1>1, <1>2, <1>4 DEF ReadPage, EndPage, Goto
<1> QED
  BY <1>3, <1>4

LEMMA LoaderControl ==
  ASSUME TypeOK, NEW l \in Loaders, Loader(l)
  PROVE  /\ pc[l] # "idle"
         /\ pc' = [pc EXCEPT ![l] = pc'[l]]
         /\ \/ pc'[l] # "idle" /\ refreshInProgress' = refreshInProgress
            \/ pc'[l] = "idle" /\ refreshInProgress' = FALSE
<1>1. pc \in [Loaders -> PCs]
  BY DEF TypeOK, LoaderType
<1>2. CASE TokenFails(l) \/ Begin(l) \/ publishMap(l) \/ Store(l)
  BY <1>1, <1>2 DEF TokenFails, Begin, publishMap, Store, Goto, cache
<1>3. CASE loadGovernanceMember(l) \/ ReadUser(l)
  BY <1>1, <1>3 DEF loadGovernanceMember, ReadUser, cache
<1>4. CASE ReadPage(l) \/ EndPage(l)
  BY <1>4, PageControl
<1>5. CASE Release(l)
  BY <1>1, <1>5 DEF Release, Goto
<1> QED
  BY <1>2, <1>3, <1>4, <1>5 DEF Loader

LEMMA CallerControl ==
  ASSUME TypeOK, NEW c \in Callers, Caller(c)
  PROVE  \/ UNCHANGED <<pc, refreshInProgress>>
         \/ /\ ~refreshInProgress
            /\ refreshInProgress'
            /\ \E l \in Loaders : pc[l] = "idle" /\ pc' = [pc EXCEPT ![l] = "token"]
BY DEF Caller, GetCached, Peek, Recheck, StartLoad, ReturnStale, loaders, cache, Busy

LEMMA OtherControl ==
  ASSUME \/ \E u \in Users, link \in Link : Relink(u, link)
         \/ \E S \in SUBSET Users : Govern(S)
         \/ NewDay
         \/ Expire
         \/ UNCHANGED vars
  PROVE  UNCHANGED <<pc, refreshInProgress, heap, globalMap, held, map, full>>
BY DEF Relink, Govern, NewDay, Expire, vars, cache, callers, loaders

LEMMA ControlStep ==
  ASSUME TypeOK, OneLoader, FlagIsOwned, [Next]_vars
  PROVE  OneLoader' /\ FlagIsOwned'
<1>1. pc \in [Loaders -> PCs]
  BY DEF TypeOK, LoaderType
<1>2. CASE UNCHANGED <<pc, refreshInProgress>>
  BY <1>2 DEF OneLoader, FlagIsOwned, Loading
<1>3. ASSUME NEW l \in Loaders, Loader(l) PROVE OneLoader' /\ FlagIsOwned'
  <2>1. /\ pc[l] # "idle"
        /\ pc' = [pc EXCEPT ![l] = pc'[l]]
        /\ \/ pc'[l] # "idle" /\ refreshInProgress' = refreshInProgress
           \/ pc'[l] = "idle" /\ refreshInProgress' = FALSE
    BY <1>3, LoaderControl
  <2>2. \A k \in Loaders : k # l => pc'[k] = pc[k] /\ pc[k] = "idle"
    BY <1>1, <2>1 DEF OneLoader, Loading
  <2>3. OneLoader'
    BY <2>2 DEF OneLoader, Loading
  <2>4. refreshInProgress
    BY <2>1 DEF FlagIsOwned, Loading
  <2>5. CASE pc'[l] # "idle" /\ refreshInProgress' = refreshInProgress
    <3>1. refreshInProgress'
      BY <2>4, <2>5
    <3>2. \E k \in Loaders : pc'[k] # "idle"
      BY <2>5
    <3>3. \E k \in Loaders : Loading(k)'
      BY <3>2 DEF Loading
    <3> QED
      BY <2>3, <3>1, <3>3 DEF FlagIsOwned
  <2>6. CASE pc'[l] = "idle" /\ refreshInProgress' = FALSE
    <3>1. \A k \in Loaders : pc'[k] = "idle"
      BY <2>2, <2>6
    <3>2. ~refreshInProgress'
      BY <2>6
    <3>3. ~\E k \in Loaders : Loading(k)'
      BY <3>1 DEF Loading
    <3> QED
      BY <2>3, <3>2, <3>3 DEF FlagIsOwned
  <2> QED
    BY <2>1, <2>3, <2>5, <2>6
<1>4. ASSUME NEW c \in Callers, Caller(c) PROVE OneLoader' /\ FlagIsOwned'
  <2>1. CASE UNCHANGED <<pc, refreshInProgress>>
    BY <1>2, <2>1
  <2>2. CASE /\ ~refreshInProgress
             /\ refreshInProgress'
             /\ \E l \in Loaders : pc[l] = "idle" /\ pc' = [pc EXCEPT ![l] = "token"]
    <3>1. PICK l \in Loaders : pc' = [pc EXCEPT ![l] = "token"]
      BY <2>2
    <3>2. \A k \in Loaders : pc[k] = "idle"
      BY <2>2 DEF FlagIsOwned, Loading
    <3>3. \A k \in Loaders : k # l => pc'[k] = "idle"
      BY <1>1, <3>1, <3>2
    <3>4. pc'[l] = "token"
      BY <1>1, <3>1
    <3>5. OneLoader'
      BY <3>3 DEF OneLoader, Loading
    <3>6. FlagIsOwned'
      BY <2>2, <3>4 DEF FlagIsOwned, Loading
    <3> QED
      BY <3>5, <3>6
  <2> QED
    BY <1>4, <2>1, <2>2, CallerControl
<1> QED
  BY <1>2, <1>3, <1>4, OtherControl DEF Next

-----------------------------------------------------------------------------
(* What the maps contain. *)

LEMMA EmptyWithin ==
  ASSUME NEW S
  PROVE  Within(emptyMap, S)
BY DEF Within, emptyMap

LEMMA WithinGrows ==
  ASSUME NEW m, NEW S, NEW T, Within(m, S), S \subseteq T
  PROVE  Within(m, T)
BY DEF Within

LEMMA IndexWithin ==
  ASSUME TypeOK, NEW m \in Map, NEW u \in Users, NEW S, Within(m, S), Links \subseteq S
  PROVE  Within(indexFederatedLinks(m, u), S)
<1>1. CASE ~Both(u)
  BY <1>1 DEF indexFederatedLinks
<1>2. CASE Both(u)
  <2> DEFINE d == linked[u].discord
             s == linked[u].slack
             n == indexFederatedLinks(m, u)
  <2>1. <<d, s>> \in S
    BY <1>2 DEF Links, Pair
  <2>2. n.discordToSlack = {p \in m.discordToSlack : p[1] # d} \cup {<<d, s>>}
    BY <1>2 DEF indexFederatedLinks, Put
  <2>3. n.slackToDiscord = {p \in m.slackToDiscord : p[1] # s} \cup {<<s, d>>}
    BY <1>2 DEF indexFederatedLinks, Put
  <2> HIDE DEF d, s, n
  <2>4. n.discordToSlack \subseteq S
    BY <2>1, <2>2 DEF Within
  <2>5. ASSUME NEW p \in n.slackToDiscord PROVE <<p[2], p[1]>> \in S
    <3>1. CASE p = <<s, d>>
      <4>1. p[1] = s /\ p[2] = d
        BY <3>1
      <4> QED
        BY <2>1, <4>1
    <3>2. CASE p # <<s, d>>
      BY <2>3, <3>2 DEF Within
    <3> QED
      BY <3>1, <3>2
  <2>6. Within(n, S)
    BY <2>4, <2>5 DEF Within
  <2> QED
    BY <2>6 DEF n
<1> QED
  BY <1>1, <1>2

LEMMA IndexKeepsKeys ==
  ASSUME NEW m \in Map, NEW u \in Users
  PROVE  Keys(m) \subseteq Keys(indexFederatedLinks(m, u))
<1>1. CASE ~Both(u)
  BY <1>1 DEF indexFederatedLinks
<1>2. CASE Both(u)
  <2> DEFINE d == linked[u].discord
             s == linked[u].slack
             n == indexFederatedLinks(m, u)
  <2>1. n.discordToSlack = {p \in m.discordToSlack : p[1] # d} \cup {<<d, s>>}
    BY <1>2 DEF indexFederatedLinks, Put
  <2> HIDE DEF d, s, n
  <2>2. ASSUME NEW p \in m.discordToSlack PROVE p[1] \in Keys(n)
    <3>1. CASE p[1] = d
      <4>1. <<d, s>> \in n.discordToSlack /\ <<d, s>>[1] = p[1]
        BY <2>1, <3>1
      <4> QED
        BY <4>1 DEF Keys
    <3>2. CASE p[1] # d
      BY <2>1, <3>2 DEF Keys
    <3> QED
      BY <3>1, <3>2
  <2>3. Keys(m) \subseteq Keys(n)
    BY <2>2 DEF Keys
  <2> QED
    BY <2>3 DEF n
<1> QED
  BY <1>1, <1>2

LEMMA EmptyKeys == Keys(emptyMap) = {}
BY DEF Keys, emptyMap

(* A step that writes into the map a load is building.                      *)
LEMMA WriteShape ==
  ASSUME Inv, NEW l \in Loaders, loadGovernanceMember(l) \/ ReadUser(l)
  PROVE  /\ pc[l] \in Building /\ map[l] \in Objects
         /\ UNCHANGED <<pc, full, map, globalMap, held, linked, era, newEra>>
         /\ heap' = [heap EXCEPT ![map[l]] = heap'[map[l]]]
         /\ Keys(heap[map[l]]) \subseteq Keys(heap'[map[l]])
         /\ \A S : Links \subseteq S /\ Within(heap[map[l]], S) => Within(heap'[map[l]], S)
<1>1. /\ pc[l] \in Building
      /\ UNCHANGED <<pc, full, map, globalMap, held, linked, era, newEra>>
  BY DEF loadGovernanceMember, ReadUser, Building, cache, callers, world
<1>2. map[l] \in Objects
  BY <1>1 DEF Inv, Private
<1>3. TypeOK /\ heap \in [Objects -> Map]
  BY DEF Inv, TypeOK, CacheType
<1>4. \/ UNCHANGED heap
      \/ \E u \in Users : heap' = [heap EXCEPT ![map[l]] = indexFederatedLinks(@, u)]
  <2>1. CASE loadGovernanceMember(l)
    <3>1. PICK u \in todo[l] : Lookup(l, u)
      BY <2>1 DEF loadGovernanceMember
    <3>2. u \in Users
      BY <1>3, <3>1 DEF TypeOK, LoaderType
    <3> QED
      BY <3>1, <3>2 DEF Lookup
  <2>2. CASE ReadUser(l)
    <3>1. PICK u \in scan[l].page :
            IF u \in scan[l].seen THEN UNCHANGED <<heap, events, clean>> ELSE Lookup(l, u)
      BY <2>2 DEF ReadUser
    <3>2. u \in Users
      BY <1>3, <3>1, ScanFields DEF TypeOK, LoaderType
    <3> QED
      BY <3>1, <3>2 DEF Lookup
  <2> QED
    BY <2>1, <2>2
<1>5. CASE UNCHANGED heap
  BY <1>1, <1>2, <1>3, <1>5
<1>6. CASE \E u \in Users : heap' = [heap EXCEPT ![map[l]] = indexFederatedLinks(@, u)]
  <2>1. PICK u \in Users : heap' = [heap EXCEPT ![map[l]] = indexFederatedLinks(heap[map[l]], u)]
    BY <1>6
  <2>2. heap[map[l]] \in Map
    BY <1>2, <1>3
  <2>3. heap'[map[l]] = indexFederatedLinks(heap[map[l]], u)
    BY <1>2, <1>3, <2>1
  <2>4. Keys(heap[map[l]]) \subseteq Keys(heap'[map[l]])
    BY <2>2, <2>3, IndexKeepsKeys
  <2>5. \A S : Links \subseteq S /\ Within(heap[map[l]], S) => Within(heap'[map[l]], S)
    BY <1>3, <2>2, <2>3, IndexWithin
  <2>6. heap' = [heap EXCEPT ![map[l]] = heap'[map[l]]]
    BY <2>1, <2>3
  <2> QED
    BY <1>1, <1>2, <2>4, <2>5, <2>6
<1> QED
  BY <1>4, <1>5, <1>6

LEMMA LoaderAlone ==
  ASSUME Inv, NEW l \in Loaders, Loader(l)
  PROVE  \A k \in Loaders : k # l => pc[k] = "idle" /\ pc'[k] = "idle"
<1>1. pc[l] # "idle" /\ pc' = [pc EXCEPT ![l] = pc'[l]]
  BY LoaderControl DEF Inv
<1>2. pc \in [Loaders -> PCs]
  BY DEF Inv, TypeOK, LoaderType
<1> QED
  BY <1>1, <1>2 DEF Inv, OneLoader, Loading

-----------------------------------------------------------------------------
(* The map under construction is private, and grounded.                    *)

Rest == Private /\ LinksKnown /\ BuildIsGrounded /\ Grounded /\ BuildKeepsCached

LEMMA QuietSafe ==
  ASSUME Inv, UNCHANGED <<pc, full, map, heap, globalMap, held>>,
         era \subseteq era', newEra \subseteq newEra', LinksKnown'
  PROVE  Rest'
<1>1. Private'
  BY DEF Inv, Private
<1>2. BuildIsGrounded' /\ Grounded'
  BY WithinGrows DEF Inv, BuildIsGrounded, Grounded
<1>3. BuildKeepsCached'
  BY DEF Inv, BuildKeepsCached, Cached
<1> QED
  BY <1>1, <1>2, <1>3 DEF Rest

LEMMA LinksStep ==
  ASSUME LinksKnown,
         \/ \E u \in Users, link \in Link : Relink(u, link)
         \/ UNCHANGED <<linked, era, newEra>>
  PROVE  LinksKnown' /\ era \subseteq era' /\ newEra \subseteq newEra'
<1>1. CASE UNCHANGED <<linked, era, newEra>>
  BY <1>1 DEF LinksKnown, Links, Pair, Both
<1>2. CASE \E u \in Users, link \in Link : Relink(u, link)
  BY <1>2 DEF LinksKnown, Relink
<1> QED
  BY <1>1, <1>2

LEMMA CallerSafe ==
  ASSUME Inv, NEW c \in Callers, Caller(c)
  PROVE  Rest'
<1>1. /\ UNCHANGED <<heap, globalMap, map, full, linked, era, newEra>>
      /\ held' = held \/ held' = [held EXCEPT ![c] = globalMap]
      /\ UNCHANGED pc \/ \E l \in Loaders : pc' = [pc EXCEPT ![l] = "token"]
  BY DEF Caller, GetCached, Peek, Recheck, StartLoad, ReturnStale, world, cache, loaders, history
<1>2. \A l \in Loaders : pc'[l] = pc[l] \/ pc'[l] = "token"
  BY <1>1 DEF Inv, TypeOK, LoaderType
<1>3. \A l \in Loaders : pc'[l] \in Building \cup {"members", "page", "users", "store"}
                         => pc[l] = pc'[l]
  BY <1>2 DEF Building
<1>4. Private'
  <2>1. \A b \in Callers : held'[b] \in {held[b], globalMap}
    BY <1>1 DEF Inv, TypeOK, CallerType
  <2> QED
    BY <1>1, <1>3, <2>1 DEF Inv, Private
<1>5. LinksKnown'
  BY <1>1, LinksStep DEF Inv
<1>6. BuildIsGrounded' /\ Grounded'
  BY <1>1, <1>3 DEF Inv, BuildIsGrounded, Grounded
<1>7. BuildKeepsCached'
  <2>1. Cached' = Cached
    BY <1>1 DEF Cached
  <2> QED
    BY <1>1, <1>3, <2>1 DEF Inv, BuildKeepsCached
<1> QED
  BY <1>4, <1>5, <1>6, <1>7 DEF Rest

LEMMA WriteSafe ==
  ASSUME Inv, NEW l \in Loaders, loadGovernanceMember(l) \/ ReadUser(l)
  PROVE  Rest'
<1>1. /\ pc[l] \in Building /\ map[l] \in Objects
      /\ UNCHANGED <<pc, full, map, globalMap, held, linked, era, newEra>>
      /\ heap' = [heap EXCEPT ![map[l]] = heap'[map[l]]]
      /\ Keys(heap[map[l]]) \subseteq Keys(heap'[map[l]])
      /\ \A S : Links \subseteq S /\ Within(heap[map[l]], S) => Within(heap'[map[l]], S)
  BY WriteShape
<1>2. heap \in [Objects -> Map]
  BY DEF Inv, TypeOK, CacheType
<1>3. Private'
  BY <1>1 DEF Inv, Private
<1>4. LinksKnown'
  BY <1>1, LinksStep DEF Inv
<1>5. \A k \in Loaders : k # l => pc'[k] = "idle"
  BY <1>1, LoaderAlone DEF Loader
<1>6. BuildIsGrounded'
  <2>1. Within(heap[map[l]], IF full[l] /\ pc[l] = "members" THEN newEra ELSE era)
    BY <1>1 DEF Inv, BuildIsGrounded
  <2>2. Within(heap'[map[l]], IF full[l] /\ pc[l] = "members" THEN newEra ELSE era)
    BY <1>1, <2>1 DEF Inv, LinksKnown
  <2> QED
    BY <1>1, <1>5, <2>2 DEF BuildIsGrounded, Building
<1>7. globalMap # NoMap => heap'[globalMap] = heap[globalMap]
  BY <1>1, <1>2 DEF Inv, Private, TypeOK, CacheType
<1>8. Grounded'
  BY <1>1, <1>7 DEF Inv, Grounded
<1>9. BuildKeepsCached'
  <2>1. Cached' = Cached
    BY <1>1, <1>7 DEF Cached
  <2>2. pc[l] = "members" /\ ~full[l] => Cached \subseteq Keys(heap[map[l]])
    BY DEF Inv, BuildKeepsCached
  <2>3. pc[l] \in {"page", "users", "store"} => full[l]
    BY DEF Inv, BuildKeepsCached
  <2> QED
    BY <1>1, <1>5, <2>1, <2>2, <2>3 DEF BuildKeepsCached
<1> QED
  BY <1>3, <1>4, <1>6, <1>8, <1>9 DEF Rest

LEMMA PageSafe ==
  ASSUME Inv, NEW l \in Loaders, ReadPage(l) \/ EndPage(l)
  PROVE  Rest'
<1>1. /\ pc[l] \in {"page", "users"}
      /\ pc'[l] \in {"page", "users", "store"}
      /\ UNCHANGED <<heap, globalMap, held, map, full, linked, era, newEra>>
  BY PageControl DEF Inv
<1>2. \A k \in Loaders : k # l => pc'[k] = "idle"
  BY LoaderAlone DEF Loader
<1>3. Private'
  BY <1>1, <1>2 DEF Inv, Private, Building
<1>4. LinksKnown'
  BY <1>1, LinksStep DEF Inv
<1>5. BuildIsGrounded'
  BY <1>1, <1>2 DEF Inv, BuildIsGrounded, Building
<1>6. Grounded'
  BY <1>1 DEF Inv, Grounded
<1>7. BuildKeepsCached'
  BY <1>1, <1>2 DEF Inv, BuildKeepsCached
<1> QED
  BY <1>3, <1>4, <1>5, <1>6, <1>7 DEF Rest

LEMMA TokenFailsSafe ==
  ASSUME Inv, NEW l \in Loaders, TokenFails(l)
  PROVE  Rest'
<1>1. \A k \in Loaders : pc'[k] \in {"idle", "release"}
  <2>1. pc' = [pc EXCEPT ![l] = "release"] /\ pc \in [Loaders -> PCs]
    BY DEF TokenFails, Goto, Inv, TypeOK, LoaderType
  <2> QED
    BY <2>1, LoaderAlone DEF Loader
<1>2. Private' /\ BuildIsGrounded' /\ BuildKeepsCached'
  BY <1>1 DEF Private, BuildIsGrounded, BuildKeepsCached, Building
<1>3. UNCHANGED <<linked, era, newEra>>
  BY DEF TokenFails, world
<1>4. LinksKnown'
  BY <1>3, LinksStep DEF Inv
<1>5. Grounded'
  <2>1. CASE globalMap # NoMap
    BY <1>3, <2>1 DEF TokenFails, Inv, Grounded
  <2>2. CASE globalMap = NoMap
    <3>1. PICK o \in Objects : heap' = [heap EXCEPT ![o] = emptyMap] /\ globalMap' = o
      BY <2>2 DEF TokenFails
    <3>2. heap'[globalMap'] = emptyMap
      BY <3>1 DEF Inv, TypeOK, CacheType
    <3> QED
      BY <3>2, EmptyWithin DEF Grounded
  <2> QED
    BY <2>1, <2>2
<1> QED
  BY <1>2, <1>4, <1>5 DEF Rest

LEMMA BeginSafe ==
  ASSUME Inv, NEW l \in Loaders, Begin(l)
  PROVE  Rest'
<1> DEFINE start == IF shouldFullScan THEN emptyMap ELSE snapshotGlobal
<1>1. PICK o \in Objects :
        New(o) /\ map' = [map EXCEPT ![l] = o] /\ heap' = [heap EXCEPT ![o] = start]
  BY DEF Begin
<1>2. /\ UNCHANGED <<linked, era, globalMap, held>>
      /\ newEra' = IF shouldFullScan THEN Links ELSE newEra
  BY DEF Begin, world, cache, callers
<1>3. /\ pc'[l] = "members" /\ full'[l] = shouldFullScan
      /\ \A k \in Loaders : k # l => pc'[k] = "idle"
  <2>1. pc \in [Loaders -> PCs] /\ full \in [Loaders -> BOOLEAN]
    BY DEF Inv, TypeOK, LoaderType
  <2>2. pc' = [pc EXCEPT ![l] = "members"] /\ full' = [full EXCEPT ![l] = shouldFullScan]
    BY DEF Begin, Goto
  <2> QED
    BY <2>1, <2>2, LoaderAlone DEF Loader
<1>4. map'[l] = o /\ heap'[o] = start /\ (globalMap # NoMap => heap'[globalMap] = heap[globalMap])
  BY <1>1 DEF Inv, TypeOK, CacheType, LoaderType, New, Reachable
<1> HIDE DEF start
<1>5. Private'
  <2>1. \A k \in Loaders : k # l => map'[k] # o
    BY <1>1 DEF Inv, TypeOK, LoaderType, New, Reachable
  <2>2. o # globalMap /\ \A c \in Callers : held[c] # o
    BY <1>1 DEF New, Reachable
  <2> QED
    BY <1>2, <1>3, <1>4, <2>1, <2>2 DEF Private, Building
<1>6. LinksKnown'
  BY <1>2 DEF Inv, LinksKnown, Links, Pair, Both
<1>7. BuildIsGrounded'
  <2>1. CASE shouldFullScan
    BY <1>3, <1>4, <2>1, EmptyWithin DEF BuildIsGrounded, Building, start
  <2>2. CASE ~shouldFullScan
    <3>1. Within(start, era)
      BY <2>2, EmptyWithin DEF start, snapshotGlobal, Inv, Grounded
    <3> QED
      BY <1>2, <1>3, <1>4, <2>2, <3>1 DEF BuildIsGrounded, Building
  <2> QED
    BY <2>1, <2>2
<1>8. Grounded'
  BY <1>2, <1>4 DEF Inv, Grounded
<1>9. BuildKeepsCached'
  <2>1. Cached' = Cached
    BY <1>2, <1>4 DEF Cached
  <2>2. ~shouldFullScan => Cached \subseteq Keys(start)
    BY DEF start, snapshotGlobal, Cached
  <2> QED
    BY <1>3, <1>4, <2>1, <2>2 DEF BuildKeepsCached
<1> QED
  BY <1>5, <1>6, <1>7, <1>8, <1>9 DEF Rest

LEMMA PublishSafe ==
  ASSUME Inv, NEW l \in Loaders, publishMap(l)
  PROVE  Rest'
<1>1. PICK o \in Objects :
        New(o) /\ heap' = [heap EXCEPT ![o] = heap[map[l]]] /\ globalMap' = o
  BY DEF publishMap, SetClone
<1>2. /\ UNCHANGED <<linked, newEra, held, map, full>>
      /\ era' = newEra
  BY DEF publishMap, world, callers
<1>3. pc[l] = "members" /\ full[l] /\ pc'[l] = "page"
      /\ \A k \in Loaders : k # l => pc'[k] = "idle"
  <2>1. pc \in [Loaders -> PCs] /\ pc' = [pc EXCEPT ![l] = "page"]
    BY DEF publishMap, Goto, Inv, TypeOK, LoaderType
  <2> QED
    BY <2>1, LoaderAlone DEF Loader, publishMap
<1>4. map[l] \in Objects /\ o # map[l]
  BY <1>1, <1>3 DEF Inv, Private, Building, New, Reachable
<1>5. heap'[o] = heap[map[l]] /\ heap'[map[l]] = heap[map[l]]
  BY <1>1, <1>4 DEF Inv, TypeOK, CacheType
<1>6. Within(heap[map[l]], newEra)
  BY <1>3 DEF Inv, BuildIsGrounded, Building
<1>7. Private'
  BY <1>1, <1>2, <1>3, <1>4 DEF Inv, Private, Building
<1>8. LinksKnown'
  BY <1>2 DEF Inv, LinksKnown, Links, Pair, Both
<1>9. BuildIsGrounded' /\ Grounded'
  BY <1>1, <1>2, <1>3, <1>5, <1>6 DEF BuildIsGrounded, Grounded, Building
<1>10. BuildKeepsCached'
  BY <1>2, <1>3 DEF BuildKeepsCached
<1> QED
  BY <1>7, <1>8, <1>9, <1>10 DEF Rest

LEMMA StoreSafe ==
  ASSUME Inv, NEW l \in Loaders, Store(l)
  PROVE  Rest'
<1>1. \A k \in Loaders : pc'[k] \in {"idle", "release"}
  <2>1. pc' = [pc EXCEPT ![l] = "release"] /\ pc \in [Loaders -> PCs]
    BY DEF Store, Goto, Inv, TypeOK, LoaderType
  <2> QED
    BY <2>1, LoaderAlone DEF Loader
<1>2. Private' /\ BuildIsGrounded' /\ BuildKeepsCached'
  BY <1>1 DEF Private, BuildIsGrounded, BuildKeepsCached, Building
<1>3. UNCHANGED <<linked, era, newEra, heap>> /\ globalMap' = map[l]
  BY DEF Store, world
<1>4. LinksKnown'
  BY <1>3, LinksStep DEF Inv
<1>5. Grounded'
  <2>1. Within(heap[map[l]], era)
    BY DEF Inv, BuildIsGrounded, Store, Building
  <2> QED
    BY <1>3, <2>1 DEF Grounded
<1> QED
  BY <1>2, <1>4, <1>5 DEF Rest

LEMMA ReleaseSafe ==
  ASSUME Inv, NEW l \in Loaders, Release(l)
  PROVE  Rest'
<1>1. \A k \in Loaders : pc'[k] = "idle"
  <2>1. pc' = [pc EXCEPT ![l] = "idle"] /\ pc \in [Loaders -> PCs]
    BY DEF Release, Goto, Inv, TypeOK, LoaderType
  <2> QED
    BY <2>1, LoaderAlone DEF Loader
<1>2. Private' /\ BuildIsGrounded' /\ BuildKeepsCached'
  BY <1>1 DEF Private, BuildIsGrounded, BuildKeepsCached, Building
<1>3. UNCHANGED <<linked, era, newEra, heap, globalMap>>
  BY DEF Release, world, history
<1>4. LinksKnown' /\ Grounded'
  BY <1>3, LinksStep DEF Inv, Grounded
<1> QED
  BY <1>2, <1>4 DEF Rest

-----------------------------------------------------------------------------
(* The theorems. *)

LEMMA InitInv == Init => Inv
<1> SUFFICES ASSUME Init PROVE Inv
  OBVIOUS
<1>1. TypeOK
  BY InitType
<1>2. \A l \in Loaders : pc[l] = "idle"
  BY DEF Init
<1>3. OneLoader /\ Private /\ BuildIsGrounded /\ BuildKeepsCached
  BY <1>2 DEF OneLoader, Loading, Private, BuildIsGrounded, BuildKeepsCached, Building
<1>4. FlagIsOwned
  BY <1>2 DEF Init, FlagIsOwned, Loading
<1>5. LinksKnown /\ Grounded
  BY DEF Init, LinksKnown, Grounded
<1> QED
  BY <1>1, <1>3, <1>4, <1>5 DEF Inv

LEMMA InvStep ==
  ASSUME Inv, [Next]_vars
  PROVE  Inv'
<1>1. TypeOK' /\ OneLoader' /\ FlagIsOwned'
  BY TypeStep, ControlStep DEF Inv
<1>2. Rest'
  <2>1. ASSUME NEW l \in Loaders, Loader(l) PROVE Rest'
    BY <2>1, TokenFailsSafe, BeginSafe, WriteSafe, PublishSafe, PageSafe, StoreSafe,
       ReleaseSafe DEF Loader
  <2>2. ASSUME \/ \E u \in Users, link \in Link : Relink(u, link)
               \/ \E S \in SUBSET Users : Govern(S)
               \/ NewDay
               \/ Expire
               \/ UNCHANGED vars
        PROVE  Rest'
    <3>1. UNCHANGED <<pc, full, map, heap, globalMap, held>>
      BY <2>2, OtherControl
    <3>2. \/ \E u \in Users, link \in Link : Relink(u, link)
          \/ UNCHANGED <<linked, era, newEra>>
      BY <2>2 DEF Govern, NewDay, Expire, vars, world, history
    <3>3. LinksKnown' /\ era \subseteq era' /\ newEra \subseteq newEra'
      BY <3>2, LinksStep DEF Inv
    <3> QED
      BY <3>1, <3>3, QuietSafe
  <2> QED
    BY <2>1, <2>2, CallerSafe DEF Next
<1> QED
  BY <1>1, <1>2 DEF Inv, Rest

(* The inductive invariant: types, one load at a time, the flag, the        *)
(* private map, and the eras.                                               *)
THEOREM Invariance == Spec => []Inv
BY InitInv, InvStep, PTL DEF Spec

(* What was unlinked before the last full load began is not in the cache.   *)
THEOREM CacheIsGrounded == Spec => []Grounded
<1>1. Inv => Grounded
  BY DEF Inv
<1> QED
  BY <1>1, Invariance, PTL

LEMMA FrozenStep ==
  ASSUME Inv, [Next]_vars
  PROVE  \A c \in Callers : held[c] # NoMap => heap'[held[c]] = heap[held[c]]
<1> SUFFICES ASSUME NEW c \in Callers, held[c] # NoMap PROVE heap'[held[c]] = heap[held[c]]
  OBVIOUS
<1>1. held[c] \in Objects /\ heap \in [Objects -> Map]
  BY DEF Inv, TypeOK, CallerType, CacheType
<1>2. ASSUME NEW o \in Objects, New(o), NEW m, heap' = [heap EXCEPT ![o] = m]
      PROVE  heap'[held[c]] = heap[held[c]]
  <2>1. o # held[c]
    BY <1>2 DEF New, Reachable
  <2> QED
    BY <1>1, <1>2, <2>1
<1>3. ASSUME NEW l \in Loaders, Loader(l) PROVE heap'[held[c]] = heap[held[c]]
  <2>1. CASE loadGovernanceMember(l) \/ ReadUser(l)
    <3>1. pc[l] \in Building /\ heap' = [heap EXCEPT ![map[l]] = heap'[map[l]]]
      BY <2>1, WriteShape
    <3>2. map[l] # held[c]
      BY <3>1 DEF Inv, Private
    <3> QED
      BY <1>1, <3>1, <3>2
  <2>2. CASE TokenFails(l)
    BY <1>2, <2>2 DEF TokenFails
  <2>3. CASE Begin(l)
    BY <1>2, <2>3 DEF Begin
  <2>4. CASE publishMap(l)
    BY <1>2, <2>4 DEF publishMap, SetClone
  <2>5. CASE ReadPage(l) \/ EndPage(l) \/ Store(l) \/ Release(l)
    BY <2>5 DEF ReadPage, EndPage, Store, Release
  <2> QED
    BY <1>3, <2>1, <2>2, <2>3, <2>4, <2>5 DEF Loader
<1>4. ASSUME NEW b \in Callers, Caller(b) PROVE heap' = heap
  BY <1>4 DEF Caller, GetCached, Peek, Recheck, StartLoad, ReturnStale
<1> QED
  BY <1>3, <1>4, OtherControl DEF Next

(* No map that a caller of Get or GetCached has a pointer to is written.    *)
THEOREM HeldMapsAreFrozen == Spec => Frozen
BY FrozenStep, Invariance, PTL DEF Spec, Frozen

(* Unless a full load runs, no cached Discord account is lost.              *)
THEOREM OverflowIsKept == Spec => OverflowKept
<1>1. ASSUME Inv, [Next]_vars, \A l \in Loaders : ~full[l]
      PROVE  Cached \subseteq Cached'
  <2>1. heap \in [Objects -> Map] /\ globalMap \in Objects \cup {NoMap}
    BY <1>1 DEF Inv, TypeOK, CacheType
  <2>2. CASE UNCHANGED <<heap, globalMap>>
    BY <2>2 DEF Cached
  <2>3. ASSUME globalMap' = globalMap, NEW o, o # globalMap, NEW m,
               heap' = [heap EXCEPT ![o] = m]
        PROVE  Cached \subseteq Cached'
    BY <2>1, <2>3 DEF Cached
  <2>4. ASSUME NEW l \in Loaders, Loader(l) PROVE Cached \subseteq Cached'
    <3>1. CASE loadGovernanceMember(l) \/ ReadUser(l)
      <4>1. pc[l] \in Building /\ heap' = [heap EXCEPT ![map[l]] = heap'[map[l]]]
            /\ globalMap' = globalMap
        BY <1>1, <3>1, WriteShape
      <4>2. map[l] # globalMap
        BY <1>1, <4>1 DEF Inv, Private
      <4> QED
        BY <2>3, <4>1, <4>2
    <3>2. CASE TokenFails(l)
      BY <3>2 DEF TokenFails, Cached
    <3>3. CASE Begin(l)
      <4>1. PICK o \in Objects :
              New(o) /\ heap' = [heap EXCEPT ![o] = IF shouldFullScan THEN emptyMap
                                                    ELSE snapshotGlobal]
        BY <3>3 DEF Begin
      <4>2. o # globalMap /\ globalMap' = globalMap
        BY <3>3, <4>1 DEF Begin, cache, New, Reachable
      <4> QED
        BY <2>3, <4>1, <4>2
    <3>4. CASE publishMap(l)
      BY <1>1, <3>4 DEF publishMap
    <3>5. CASE Store(l)
      <4>1. pc[l] = "members" /\ globalMap' = map[l] /\ heap' = heap
        BY <1>1, <3>5 DEF Store, Inv, BuildKeepsCached
      <4>2. Cached \subseteq Keys(heap[map[l]]) /\ map[l] \in Objects
        BY <1>1, <4>1 DEF Inv, BuildKeepsCached, Private, Building
      <4>3. Cached' = Keys(heap[map[l]])
        BY <4>1, <4>2, HeapAssumption DEF Cached
      <4> QED
        BY <4>2, <4>3
    <3>6. CASE ReadPage(l) \/ EndPage(l) \/ Release(l)
      BY <2>2, <3>6 DEF ReadPage, EndPage, Release, cache
    <3> QED
      BY <2>4, <3>1, <3>2, <3>3, <3>4, <3>5, <3>6 DEF Loader
  <2>5. ASSUME NEW b \in Callers, Caller(b) PROVE Cached \subseteq Cached'
    BY <2>2, <2>5 DEF Caller, GetCached, Peek, Recheck, StartLoad, ReturnStale, cache
  <2> QED
    BY <1>1, <2>2, <2>4, <2>5, OtherControl DEF Next
<1> QED
  BY <1>1, Invariance, PTL DEF Spec, OverflowKept

-----------------------------------------------------------------------------
(* The cache as its callers see it: BridgeIdentity implements LinkCache.    *)

(* The map under construction, and how far its load is.                     *)
LEMMA AtWork ==
  ASSUME Inv, NEW l \in Loaders, pc[l] \in Building
  PROVE  /\ Draft = heap[map[l]]
         /\ Phase = IF pc[l] = "members" THEN IF full[l] THEN "members" ELSE "refresh"
                    ELSE "scan"
<1>1. Builds /\ Builder \in Loaders /\ pc[Builder] \in Building
  BY DEF Builds, Builder
<1>2. Builder = l
  BY <1>1 DEF Inv, OneLoader, Loading, Building
<1> QED
  BY <1>1, <1>2 DEF Draft, Phase

LEMMA AtWorkNext ==
  ASSUME Inv', NEW l \in Loaders, pc'[l] \in Building
  PROVE  /\ Draft' = heap'[map'[l]]
         /\ Phase' = IF pc'[l] = "members" THEN IF full'[l] THEN "members" ELSE "refresh"
                     ELSE "scan"
<1>1. Builds' /\ Builder' \in Loaders /\ pc'[Builder'] \in Building
  BY DEF Builds, Builder
<1>2. Builder' = l
  BY <1>1 DEF Inv, OneLoader, Loading, Building
<1> QED
  BY <1>1, <1>2 DEF Draft, Phase

LEMMA AtRest ==
  ASSUME \A l \in Loaders : pc[l] \notin Building
  PROVE  Draft = emptyMap /\ Phase = "idle"
BY DEF Draft, Phase, Builds

LEMMA AtRestNext ==
  ASSUME \A l \in Loaders : pc'[l] \notin Building
  PROVE  Draft' = emptyMap /\ Phase' = "idle"
BY DEF Draft, Phase, Builds

(* Who builds nothing and begins nothing leaves the draft alone.            *)
LEMMA WorkKept ==
  ASSUME Inv, Inv', UNCHANGED <<heap, map, full>>,
         \A l \in Loaders : pc[l] \in Building \/ pc'[l] \in Building => pc'[l] = pc[l]
  PROVE  Draft' = Draft /\ Phase' = Phase
<1>1. CASE \E l \in Loaders : pc[l] \in Building
  <2>1. PICK l \in Loaders : pc[l] \in Building /\ pc'[l] = pc[l]
    BY <1>1
  <2> QED
    BY <2>1, AtWork, AtWorkNext
<1>2. CASE \A l \in Loaders : pc[l] \notin Building
  <2>1. \A l \in Loaders : pc'[l] \notin Building
    BY <1>2
  <2> QED
    BY <1>2, <2>1, AtRest, AtRestNext
<1> QED
  BY <1>1, <1>2

(* While one goroutine loads the others build nothing.                      *)
LEMMA OnlyBuilder ==
  ASSUME Inv, NEW l \in Loaders, Loader(l)
  PROVE  /\ pc[l] \notin Building => \A k \in Loaders : pc[k] \notin Building
         /\ pc'[l] \notin Building => \A k \in Loaders : pc'[k] \notin Building
BY LoaderAlone DEF Building

(* A load does not change what callers have been given.                     *)
LEMMA LoaderViews ==
  ASSUME Inv, NEW l \in Loaders, Loader(l)
  PROVE  Views' = Views
<1>1. held' = held
  BY DEF Loader, TokenFails, Begin, loadGovernanceMember, publishMap, ReadPage, ReadUser, EndPage,
         Store, Release, callers
<1>2. \A c \in Callers : held[c] # NoMap => heap'[held[c]] = heap[held[c]]
  BY FrozenStep DEF Next
<1>3. \A c \in Callers : Value(held[c])' = Value(held[c])
  BY <1>1, <1>2 DEF Value
<1> QED
  BY <1>3 DEF Views

LEMMA LinksKept ==
  ASSUME linked' = linked
  PROVE  Links' = Links
BY DEF Links, Pair, Both

LEMMA LinksAreAccounts ==
  ASSUME WorldType
  PROVE  Links \in SUBSET (Discord \X Slack)
BY LinkType DEF Links, Pair, Both

(* Indexing a user's identities adds the link there is, if there is one.    *)
LEMMA IndexAdds ==
  ASSUME NEW u \in Users, NEW m
  PROVE  \/ indexFederatedLinks(m, u) = m
         \/ \E link \in Links : indexFederatedLinks(m, u) = Promise!With(m, link)
<1>1. CASE Both(u)
  <2>1. Pair(u) \in Links /\ Pair(u)[1] = linked[u].discord /\ Pair(u)[2] = linked[u].slack
    BY <1>1 DEF Links, Pair
  <2>2. indexFederatedLinks(m, u) = Promise!With(m, Pair(u))
    BY <1>1 DEF indexFederatedLinks, Put, Promise!With, Pair
  <2> QED
    BY <2>1, <2>2
<1>2. CASE ~Both(u)
  BY <1>2 DEF indexFederatedLinks
<1> QED
  BY <1>1, <1>2

Still == UNCHANGED <<Links, Version, Views, Phase, Draft>>

LEMMA InitPromise ==
  ASSUME Init
  PROVE  Promise!Init
<1>1. WorldType
  BY InitType DEF TypeOK
<1>2. Version = emptyMap /\ Views = [c \in Callers |-> emptyMap]
  BY DEF Init, Version, Views, Value
<1>3. Phase = "idle" /\ Draft = emptyMap
  BY AtRest DEF Init, Building
<1> QED
  BY <1>1, <1>2, <1>3, LinksAreAccounts DEF Promise!Init, Promise!empty, emptyMap

(* Keycloak changes; the clock and the governance files change nothing that *)
(* callers see.                                                             *)
LEMMA WorldPromise ==
  ASSUME Inv, Inv',
         \/ \E u \in Users, link \in Link : Relink(u, link)
         \/ \E S \in SUBSET Users : Govern(S)
         \/ NewDay \/ Expire \/ UNCHANGED vars
  PROVE  Promise!Relink
<1>1. UNCHANGED <<pc, heap, globalMap, held, map, full>>
  BY OtherControl
<1>2. Version' = Version /\ Views' = Views
  BY <1>1 DEF Version, Views, Value
<1>3. Phase' = Phase /\ Draft' = Draft
  BY <1>1, WorkKept
<1>4. Links' \in SUBSET (Discord \X Slack)
  <2>1. WorldType'
    BY DEF Inv, TypeOK
  <2>2. \A u \in Users : /\ linked'[u].discord \in Discord \cup {NoId}
                         /\ linked'[u].slack \in Slack \cup {NoId}
    BY <2>1 DEF WorldType, Link
  <2> QED
    BY <2>2 DEF Links, Pair, Both
<1> QED
  BY <1>2, <1>3, <1>4 DEF Promise!Relink

(* A caller is given the cached map, or nothing new.                        *)
LEMMA CallerPromise ==
  ASSUME Inv, Inv', NEW c \in Callers, Caller(c)
  PROVE  Promise!Give(c) \/ Still
<1>1. /\ UNCHANGED <<heap, globalMap, map, full, linked>>
      /\ held' = held \/ held' = [held EXCEPT ![c] = globalMap]
      /\ \/ UNCHANGED pc
         \/ \E l \in Loaders : pc[l] = "idle" /\ pc' = [pc EXCEPT ![l] = "token"]
  BY DEF Caller, GetCached, Peek, Recheck, StartLoad, ReturnStale, world, cache, loaders
<1>2. \A l \in Loaders : pc'[l] = pc[l] \/ (pc[l] = "idle" /\ pc'[l] = "token")
  BY <1>1 DEF Inv, TypeOK, LoaderType
<1>3. Phase' = Phase /\ Draft' = Draft
  <2>1. \A l \in Loaders : pc[l] \in Building \/ pc'[l] \in Building => pc'[l] = pc[l]
    BY <1>2 DEF Building
  <2> QED
    BY <1>1, <2>1, WorkKept
<1>4. Links' = Links /\ Version' = Version
  BY <1>1, LinksKept DEF Version, Value
<1>5. Views' = Views \/ Views' = [Views EXCEPT ![c] = Version]
  BY <1>1 DEF Inv, TypeOK, CallerType, Views, Version, Value
<1> QED
  BY <1>3, <1>4, <1>5 DEF Promise!Give, Still

(* A load that cannot begin leaves the cache as callers see it: nil and an  *)
(* empty map are the same to them.                                          *)
LEMMA TokenFailsPromise ==
  ASSUME Inv, NEW l \in Loaders, TokenFails(l)
  PROVE  Still
<1>1. Views' = Views /\ Links' = Links
  BY LoaderViews, LinksKept DEF Loader, TokenFails, world
<1>2. pc[l] = "token" /\ pc'[l] = "release"
  BY DEF TokenFails, Goto, Inv, TypeOK, LoaderType
<1>3. Phase' = Phase /\ Draft' = Draft
  BY <1>2, OnlyBuilder, AtRest, AtRestNext DEF Loader, Building
<1>4. Version' = Version
  <2>1. CASE globalMap # NoMap
    BY <2>1 DEF TokenFails, Version, Value
  <2>2. CASE globalMap = NoMap
    <3>1. PICK o \in Objects : heap' = [heap EXCEPT ![o] = emptyMap] /\ globalMap' = o
      BY <2>2 DEF TokenFails
    <3>2. heap'[o] = emptyMap /\ o # NoMap
      BY <3>1, HeapAssumption DEF Inv, TypeOK, CacheType
    <3> QED
      BY <2>2, <3>1, <3>2 DEF Version, Value
  <2> QED
    BY <2>1, <2>2
<1> QED
  BY <1>1, <1>3, <1>4 DEF Still

(* A load begins with an empty map or with what is cached.                  *)
LEMMA BeginPromise ==
  ASSUME Inv, Inv', NEW l \in Loaders, Begin(l)
  PROVE  Promise!Begin
<1>1. PICK o \in Objects :
        /\ New(o)
        /\ map' = [map EXCEPT ![l] = o]
        /\ heap' = [heap EXCEPT ![o] = IF shouldFullScan THEN emptyMap ELSE snapshotGlobal]
  BY DEF Begin
<1>2. Views' = Views /\ Links' = Links /\ globalMap' = globalMap
  BY LoaderViews, LinksKept DEF Loader, Begin, world, cache
<1>3. pc[l] = "token" /\ pc'[l] = "members" /\ full'[l] = shouldFullScan
  BY DEF Begin, Goto, Inv, TypeOK, LoaderType
<1>4. heap'[map'[l]] = IF shouldFullScan THEN emptyMap ELSE snapshotGlobal
  BY <1>1 DEF Inv, TypeOK, CacheType, LoaderType
<1>5. Phase = "idle"
  BY <1>3, OnlyBuilder, AtRest DEF Loader, Building
<1>6. Phase' = (IF shouldFullScan THEN "members" ELSE "refresh") /\ Draft' = heap'[map'[l]]
  BY <1>3, AtWorkNext DEF Building
<1>7. Version' = Version
  <2>1. o # globalMap
    BY <1>1 DEF New, Reachable
  <2>2. globalMap \in Objects \cup {NoMap} /\ heap \in [Objects -> Map]
    BY DEF Inv, TypeOK, CacheType
  <2> QED
    BY <1>1, <1>2, <2>1, <2>2 DEF Version, Value
<1>8. Version = snapshotGlobal
  BY DEF Version, Value, snapshotGlobal
<1> QED
  BY <1>2, <1>4, <1>5, <1>6, <1>7, <1>8 DEF Promise!Begin, Promise!empty, emptyMap

(* A lookup puts a link that Keycloak has into the draft, or nothing.       *)
LEMMA WritePromise ==
  ASSUME Inv, Inv', NEW l \in Loaders, loadGovernanceMember(l) \/ ReadUser(l)
  PROVE  Promise!Add \/ Still
<1>1. /\ pc[l] \in Building /\ map[l] \in Objects
      /\ UNCHANGED <<pc, full, map, globalMap, held, linked>>
      /\ heap' = [heap EXCEPT ![map[l]] = heap'[map[l]]]
  BY WriteShape
<1>2. Views' = Views /\ Links' = Links
  BY <1>1, LoaderViews, LinksKept DEF Loader
<1>3. Draft = heap[map[l]] /\ Draft' = heap'[map[l]] /\ Phase' = Phase /\ Phase # "idle"
  BY <1>1, AtWork, AtWorkNext
<1>4. Version' = Version
  <2>1. map[l] # globalMap /\ globalMap \in Objects \cup {NoMap} /\ heap \in [Objects -> Map]
    BY <1>1 DEF Inv, Private, TypeOK, CacheType
  <2> QED
    BY <1>1, <2>1 DEF Version, Value
<1>5. heap'[map[l]] = heap[map[l]] \/ \E u \in Users : heap'[map[l]] = indexFederatedLinks(heap[map[l]], u)
  <2>1. heap' = heap \/ \E u \in Users : heap' = [heap EXCEPT ![map[l]] = indexFederatedLinks(@, u)]
    <3>1. CASE loadGovernanceMember(l)
      <4>1. PICK u \in todo[l] : Lookup(l, u)
        BY <3>1 DEF loadGovernanceMember
      <4>2. u \in Users
        BY <4>1 DEF Inv, TypeOK, LoaderType
      <4> QED
        BY <4>1, <4>2 DEF Lookup
    <3>2. CASE ReadUser(l)
      <4>1. PICK u \in scan[l].page :
              IF u \in scan[l].seen THEN UNCHANGED <<heap, events, clean>> ELSE Lookup(l, u)
        BY <3>2 DEF ReadUser
      <4>2. u \in Users
        BY <4>1, ScanFields DEF Inv, TypeOK, LoaderType
      <4> QED
        BY <4>1, <4>2 DEF Lookup
    <3> QED
      BY <3>1, <3>2
  <2> QED
    BY <1>1, <2>1 DEF Inv, TypeOK, CacheType
<1>6. Draft' = Draft \/ \E link \in Links : Draft' = Promise!With(Draft, link)
  BY <1>3, <1>5, IndexAdds
<1> QED
  BY <1>2, <1>3, <1>4, <1>6 DEF Promise!Add, Still

(* The members' links are handed out, and the load goes on with its own map.*)
LEMMA PublishPromise ==
  ASSUME Inv, Inv', NEW l \in Loaders, publishMap(l)
  PROVE  Promise!Publish
<1>1. PICK o \in Objects : New(o) /\ heap' = [heap EXCEPT ![o] = heap[map[l]]] /\ globalMap' = o
  BY DEF publishMap, SetClone
<1>2. pc[l] = "members" /\ full[l] /\ pc'[l] = "page" /\ map' = map /\ linked' = linked
  BY DEF publishMap, Goto, Inv, TypeOK, LoaderType, world
<1>3. Views' = Views /\ Links' = Links
  BY <1>2, LoaderViews, LinksKept DEF Loader
<1>4. Phase = "members" /\ Draft = heap[map[l]]
  BY <1>2, AtWork DEF Building
<1>5. Phase' = "scan" /\ Draft' = heap'[map[l]]
  BY <1>2, AtWorkNext DEF Building
<1>6. heap'[map[l]] = heap[map[l]] /\ heap'[o] = heap[map[l]] /\ o # NoMap
  <2>1. map[l] \in Objects /\ o # map[l]
    BY <1>1, <1>2 DEF Inv, Private, Building, New, Reachable
  <2> QED
    BY <1>1, <2>1, HeapAssumption DEF Inv, TypeOK, CacheType
<1>7. Version' = Draft
  BY <1>1, <1>4, <1>6 DEF Version, Value
<1> QED
  BY <1>3, <1>4, <1>5, <1>6, <1>7 DEF Promise!Publish

(* The finished map is handed out from now on.                              *)
LEMMA StorePromise ==
  ASSUME Inv, NEW l \in Loaders, Store(l)
  PROVE  Promise!Store
<1>1. /\ (pc[l] = "members" /\ ~full[l]) \/ pc[l] = "store"
      /\ globalMap' = map[l] /\ heap' = heap /\ linked' = linked /\ pc'[l] = "release"
  BY DEF Store, Goto, Inv, TypeOK, LoaderType, world
<1>2. Views' = Views /\ Links' = Links
  BY <1>1, LoaderViews, LinksKept DEF Loader
<1>3. Phase \in {"refresh", "scan"} /\ Draft = heap[map[l]]
  BY <1>1, AtWork DEF Building
<1>4. Phase' = "idle" /\ Draft' = emptyMap
  BY <1>1, OnlyBuilder, AtRestNext DEF Loader, Building
<1>5. Version' = Draft
  <2>1. map[l] \in Objects
    BY <1>1 DEF Inv, Private, Building
  <2> QED
    BY <1>1, <1>3, <2>1, HeapAssumption DEF Version, Value
<1> QED
  BY <1>2, <1>3, <1>4, <1>5 DEF Promise!Store, Promise!empty, emptyMap

(* Paging through a list, and the end of the goroutine, show nobody a thing.*)
LEMMA QuietPromise ==
  ASSUME Inv, Inv', NEW l \in Loaders, ReadPage(l) \/ EndPage(l) \/ Release(l)
  PROVE  Still
<1>1. UNCHANGED <<heap, globalMap, linked>>
  BY DEF ReadPage, EndPage, Release, world, cache
<1>2. Views' = Views /\ Links' = Links /\ Version' = Version
  BY <1>1, LoaderViews, LinksKept DEF Loader, Version, Value
<1>3. CASE ReadPage(l) \/ EndPage(l)
  <2>1. /\ pc[l] \in {"page", "users"} /\ pc'[l] \in {"page", "users", "store"}
        /\ UNCHANGED <<heap, map, full>>
    BY <1>3, PageControl DEF Inv
  <2>2. Phase' = Phase /\ Draft' = Draft
    BY <2>1, AtWork, AtWorkNext DEF Building
  <2> QED
    BY <1>2, <2>2 DEF Still
<1>4. CASE Release(l)
  <2>1. pc[l] = "release" /\ pc'[l] = "idle"
    BY <1>4 DEF Release, Goto, Inv, TypeOK, LoaderType
  <2>2. Phase' = Phase /\ Draft' = Draft
    BY <1>4, <2>1, OnlyBuilder, AtRest, AtRestNext DEF Loader, Building
  <2> QED
    BY <1>2, <2>2 DEF Still
<1> QED
  BY <1>3, <1>4

LEMMA PromiseStep ==
  ASSUME Inv, Inv', [Next]_vars
  PROVE  Promise!Next \/ Still
<1>1. ASSUME NEW l \in Loaders, Loader(l) PROVE Promise!Next \/ Still
  BY <1>1, TokenFailsPromise, BeginPromise, WritePromise, PublishPromise, StorePromise, QuietPromise
     DEF Loader, Promise!Next
<1>2. ASSUME NEW c \in Callers, Caller(c) PROVE Promise!Next \/ Still
  BY <1>2, CallerPromise DEF Promise!Next
<1>3. CASE \/ \E u \in Users, link \in Link : Relink(u, link)
           \/ \E S \in SUBSET Users : Govern(S)
           \/ NewDay \/ Expire \/ UNCHANGED vars
  BY <1>3, WorldPromise DEF Promise!Next
<1> QED
  BY <1>1, <1>2, <1>3 DEF Next

(* Callers of Get and GetCached see what LinkCache promises: they are given *)
(* whole versions that never change under them, one load at a time draws up *)
(* the next one from the cached links or from nothing, and no version is    *)
(* lost to a load that knew an older one (map.go:93-202).                   *)
THEOREM ImplementsLinkCache == Spec => Implements
<1>1. Init => Promise!Init
  BY InitPromise
<1>2. Inv /\ Inv' /\ [Next]_vars => [Promise!Next]_(Promise!specVars)
  BY PromiseStep DEF Promise!specVars, Still
<1> QED
  BY <1>1, <1>2, Invariance, PTL DEF Spec, Implements, Promise!Spec

-----------------------------------------------------------------------------
(* The inductive invariant of the crawl. *)

(* What the lookups of the users in S put into an empty map.                *)
MapOf(P) == [discordToSlack |-> P, slackToDiscord |-> {<<p[2], p[1]>> : p \in P}]
LinksOf(S) == {Pair(u) : u \in {w \in S : Both(w)}}
Looked(S) == MapOf(LinksOf(S))

(* The first k users of a list, and those of the list before it.            *)
Upto(alias, k) == {u \in Listed(alias) : Index(alias, u) < k}
Behind(alias) == IF alias = "slack" THEN Upto("discord", Cap) ELSE {}

(* The pages fill the cap.                                                  *)
Aligned(first) == \E k \in Nat : Cap = first + k * PageSize

(* How far a full load has come, if nothing changed or failed in it.        *)
Paged(s) == s.seen = Behind(s.alias) \cup Upto(s.alias, s.first)

Paging(s) ==
  /\ s.seen \cup s.page = Behind(s.alias) \cup Upto(s.alias, s.first + PageSize)
  /\ s.first < Cap
  /\ s.last => Listed(s.alias) \subseteq Upto(s.alias, s.first + PageSize)

Crawled(l) ==
  /\ pc[l] = "members" => heap[map[l]] = Looked(members \ todo[l])
  /\ pc[l] \in {"page", "users"} => /\ heap[map[l]] = Looked(members \cup scan[l].seen)
                                    /\ Aligned(scan[l].first)
  /\ pc[l] = "page" => Paged(scan[l])
  /\ pc[l] = "users" => Paging(scan[l])
  /\ pc[l] = "store" => heap[map[l]] = MapOf(Wanted)

(* An incremental load finds nothing new, if nothing changed.               *)
Repeats(l) == todo[l] \subseteq members /\ heap[map[l]] = MapOf(Wanted)

LoadAt(l) ==
  /\ complete /\ ~full[l] /\ pc[l] = "members" => Repeats(l)
  /\ clean /\ full[l] /\ pc[l] \in Building => todo[l] \subseteq members /\ Crawled(l)

CrawlInv ==
  /\ Unique(linked)
  /\ complete => globalMap \in Objects /\ heap[globalMap] = MapOf(Wanted)
  /\ \A l \in Loaders : LoadAt(l)

-----------------------------------------------------------------------------
(* Users and their places in a list. *)

Before(alias, u) == {w \in Listed(alias) : w < u}

(* A list has users.                                                        *)
LEMMA ListedUsers ==
  ASSUME NEW alias PROVE Listed(alias) \subseteq Users /\ Listed(alias) \subseteq Nat
<1>1. Listed(alias) \subseteq Users
  BY DEF Listed
<1> QED
  BY <1>1, WorldAssumption

(* A place in a list is a number.                                           *)
LEMMA BeforeFinite ==
  ASSUME NEW alias, NEW u \in Users
  PROVE  /\ IsFiniteSet(Before(alias, u)) /\ Index(alias, u) = Cardinality(Before(alias, u))
         /\ Index(alias, u) \in Nat
<1>1. u \in Nat /\ Before(alias, u) \in SUBSET Nat /\ \A w \in Before(alias, u) : w <= u
  <2>1. u \in Nat
    BY WorldAssumption
  <2>2. Before(alias, u) \subseteq Listed(alias) /\ \A w \in Before(alias, u) : w < u
    BY DEF Before
  <2> QED
    BY <2>1, <2>2, ListedUsers
<1>2. IsFiniteSet(Before(alias, u))
  BY <1>1, FS_BoundedSetOfNaturals
<1> QED
  BY <1>2, FS_CardinalityType DEF Index, Before

(* The list is in the order of the users.                                   *)
LEMMA IndexGrows ==
  ASSUME NEW alias, NEW u \in Listed(alias), NEW w \in Listed(alias), u < w
  PROVE  Index(alias, u) < Index(alias, w)
<1>1. u \in Users /\ w \in Users /\ u \in Nat /\ w \in Nat
  BY WorldAssumption DEF Listed
<1>2. u \notin Before(alias, u) /\ Before(alias, u) \cup {u} \in SUBSET Before(alias, w)
  <2>1. \A v \in Listed(alias) : v \in Before(alias, u) <=> v < u
    BY DEF Before
  <2>2. \A v \in Listed(alias) : v \in Before(alias, w) <=> v < w
    BY DEF Before
  <2>3. Before(alias, u) \subseteq Listed(alias) /\ \A v \in Listed(alias) : v \in Nat
    BY ListedUsers DEF Before
  <2>4. ASSUME NEW v \in Before(alias, u) \cup {u} PROVE v \in Before(alias, w)
    <3>1. v \in Listed(alias) /\ v \in Nat /\ (v < u \/ v = u)
      BY <2>1, <2>3
    <3> QED
      BY <1>1, <2>2, <3>1
  <2>5. u \notin Before(alias, u)
    BY <1>1, <2>1
  <2> QED
    BY <2>4, <2>5
<1>3. Cardinality(Before(alias, u) \cup {u}) = Cardinality(Before(alias, u)) + 1
  BY <1>1, <1>2, BeforeFinite, FS_AddElement
<1>4. Cardinality(Before(alias, u) \cup {u}) <= Cardinality(Before(alias, w))
  BY <1>1, <1>2, BeforeFinite, FS_Subset
<1>5. PICK i, j : i = Cardinality(Before(alias, u)) /\ j = Cardinality(Before(alias, w))
  OBVIOUS
<1>6. i = Index(alias, u) /\ j = Index(alias, w) /\ i \in Nat /\ j \in Nat
  BY <1>1, <1>5, BeforeFinite
<1> QED
  BY <1>3, <1>4, <1>5, <1>6

(* No two users have the same place.                                        *)
LEMMA IndexOnce ==
  ASSUME NEW alias, NEW u \in Listed(alias), NEW w \in Listed(alias), u # w
  PROVE  Index(alias, u) # Index(alias, w)
<1>1. u \in Nat /\ w \in Nat /\ Index(alias, u) \in Nat /\ Index(alias, w) \in Nat
  BY ListedUsers, BeforeFinite
<1>2. u < w \/ w < u
  BY <1>1
<1> QED
  BY <1>1, <1>2, IndexGrows

(* No place before a user's is empty.                                       *)
LEMMA IndexFills ==
  ASSUME NEW alias, NEW u \in Listed(alias), NEW r \in Nat, r <= Index(alias, u)
  PROVE  \E w \in Listed(alias) : Index(alias, w) = r
<1> DEFINE T == {w \in Listed(alias) : r <= Index(alias, w)}
<1>1. T \in SUBSET Nat /\ u \in T
  BY WorldAssumption DEF Listed
<1>2. \E x \in T : \A y \in T : ~ (<<y, x>> \in OpToRel(<, Nat))
  BY <1>1, NatLessThanWellFounded, WFMin
<1>3. PICK m \in T : \A y \in T : ~(y < m)
  BY <1>1, <1>2 DEF OpToRel
<1>4. m \in Listed(alias) /\ m \in Users /\ r <= Index(alias, m) /\ Index(alias, m) \in Nat
  BY BeforeFinite, ListedUsers
<1>5. Before(alias, m) \subseteq Listed(alias)
  BY DEF Before
<1>6. ASSUME NEW w \in Before(alias, m) PROVE Index(alias, w) \in 0..(r - 1)
  <2>1. w \in Listed(alias) /\ w < m /\ w \in Users
    BY DEF Before, Listed
  <2>2. Index(alias, w) \in Nat
    BY <2>1, BeforeFinite
  <2>3. ~(r <= Index(alias, w))
    BY <1>3, <2>1
  <2> QED
    BY <2>2, <2>3
<1> HIDE DEF T
<1> DEFINE f == [w \in Before(alias, m) |-> Index(alias, w)]
<1>7. f \in Injection(Before(alias, m), 0..(r - 1))
  <2>1. f \in [Before(alias, m) -> 0..(r - 1)]
    BY <1>6
  <2>2. ASSUME NEW a \in Before(alias, m), NEW b \in Before(alias, m), f[a] = f[b] PROVE a = b
    BY <1>5, <2>2, IndexOnce
  <2>3. \A a, b \in Before(alias, m) : f[a] = f[b] => a = b
    BY <2>2
  <2> HIDE DEF f
  <2> QED
    BY <2>1, <2>3 DEF Injection, IsInjective
<1>8. IsFiniteSet(0..(r - 1)) /\ Cardinality(0..(r - 1)) = r
  BY FS_Interval
<1> HIDE DEF f
<1>9. Cardinality(Before(alias, m)) <= Cardinality(0..(r - 1))
  BY <1>7, <1>8, FS_Injection
<1>10. Index(alias, m) <= r
  BY <1>4, <1>8, <1>9, BeforeFinite
<1> QED
  BY <1>4, <1>10

(* A page of the list; it is full if the list goes on after it.             *)
PageOf(alias, first) == {u \in Listed(alias) : Index(alias, u) \in first..first + PageSize - 1}

(* After an empty page there is nobody.                                     *)
LEMMA EmptyPage ==
  ASSUME NEW alias, NEW first \in Nat, PageOf(alias, first) = {}
  PROVE  Listed(alias) \subseteq Upto(alias, first)
<1> SUFFICES ASSUME NEW u \in Listed(alias), ~(Index(alias, u) < first) PROVE FALSE
  BY DEF Upto
<1>1. Index(alias, u) \in Nat
  BY BeforeFinite, ListedUsers
<1>2. PICK w \in Listed(alias) : Index(alias, w) = first
  BY <1>1, IndexFills
<1>3. first \in first..first + PageSize - 1
  BY BoundAssumption
<1> QED
  BY <1>2, <1>3 DEF PageOf

(* After a page that is not full there is nobody.                           *)
LEMMA ShortPage ==
  ASSUME NEW alias, NEW first \in Nat, Cardinality(PageOf(alias, first)) < PageSize
  PROVE  Listed(alias) \subseteq Upto(alias, first + PageSize)
<1> SUFFICES ASSUME NEW u \in Listed(alias), ~(Index(alias, u) < first + PageSize) PROVE FALSE
  BY DEF Upto
<1>1. u \in Users /\ u \in Nat /\ Index(alias, u) \in Nat /\ PageSize \in Nat \ {0}
  BY ListedUsers, BoundAssumption, BeforeFinite
<1> DEFINE page == PageOf(alias, first)
           places == first..first + PageSize - 1
<1>2. page \subseteq Listed(alias) /\ \A w \in page : Index(alias, w) \in places
  BY DEF PageOf
<1>3. ASSUME NEW w \in page PROVE w \in Nat /\ w <= u
  <2>1. w \in Listed(alias) /\ w \in Users /\ w \in Nat /\ Index(alias, w) < Index(alias, u)
    BY <1>1, <1>2, ListedUsers
  <2>2. Index(alias, w) \in Nat
    BY <2>1, BeforeFinite
  <2>3. ~(u < w)
    BY <1>1, <2>1, <2>2, IndexGrows
  <2> QED
    BY <1>1, <2>1, <2>3
<1>4. IsFiniteSet(page)
  BY <1>1, <1>3, FS_BoundedSetOfNaturals
<1> DEFINE f == [w \in page |-> Index(alias, w)]
<1>5. f \in Surjection(page, places)
  <2>1. f \in [page -> places]
    BY <1>2
  <2>2. ASSUME NEW r \in places PROVE \E w \in page : f[w] = r
    <3>1. r \in Nat /\ r <= Index(alias, u)
      BY <1>1
    <3>2. PICK w \in Listed(alias) : Index(alias, w) = r
      BY <3>1, IndexFills
    <3>3. w \in page
      BY <3>2 DEF PageOf
    <3> QED
      BY <3>2, <3>3
  <2> HIDE DEF f
  <2> QED
    BY <2>1, <2>2, Zenon DEF Surjection
<1> HIDE DEF f
<1>6. Cardinality(places) <= Cardinality(page)
  BY <1>4, <1>5, FS_Surjection
<1>7. Cardinality(places) = PageSize
  BY <1>1, FS_Interval
<1>8. Cardinality(page) \in Nat
  BY <1>4, FS_CardinalityType
<1> QED
  BY <1>1, <1>6, <1>7, <1>8

(* What a list has up to the end of a page.                                 *)
LEMMA UptoPage ==
  ASSUME NEW alias, NEW first \in Nat
  PROVE  Upto(alias, first + PageSize) = Upto(alias, first) \cup PageOf(alias, first)
<1>1. \A u \in Listed(alias) : Index(alias, u) \in Nat
  BY BeforeFinite, ListedUsers
<1> QED
  BY <1>1, BoundAssumption DEF Upto, PageOf

(* What is not in a list is not in a longer part of it.                     *)
LEMMA UptoEnd ==
  ASSUME NEW alias, NEW k \in Nat, Listed(alias) \subseteq Upto(alias, k), k <= Cap
  PROVE  Upto(alias, k) = Upto(alias, Cap)
<1>1. \A u \in Listed(alias) : Index(alias, u) \in Nat
  BY BeforeFinite, ListedUsers
<1> QED
  BY <1>1, BoundAssumption DEF Upto

(* At first nobody is seen.                                                 *)
LEMMA UptoZero == \A alias : Upto(alias, 0) = {}
<1>1. \A alias : \A u \in Listed(alias) : Index(alias, u) \in Nat
  BY BeforeFinite, ListedUsers
<1> QED
  BY <1>1 DEF Upto

(* The pages end at the cap.                                                *)
LEMMA AlignedZero == Aligned(0)
<1>1. PICK k \in Nat : k = Cap \div PageSize
  BY BoundAssumption
<1>2. Cap = k * PageSize
  BY <1>1, BoundAssumption
<1> QED
  BY <1>2 DEF Aligned

(* A page that begins below the cap ends there at the latest.               *)
LEMMA AlignedNext ==
  ASSUME NEW first \in Nat, Aligned(first)
  PROVE  /\ first <= Cap
         /\ first < Cap => first + PageSize <= Cap /\ Aligned(first + PageSize)
<1>1. PICK k \in Nat : Cap = first + k * PageSize
  BY DEF Aligned
<1>2. k * PageSize \in Nat /\ PageSize \in Nat \ {0} /\ Cap \in Nat
  BY BoundAssumption
<1>3. ASSUME first < Cap PROVE first + PageSize <= Cap /\ Aligned(first + PageSize)
  <2>1. k # 0
    BY <1>1, <1>2, <1>3
  <2>2. PICK j \in Nat : k = j + 1
    BY <2>1
  <2>3. k * PageSize = j * PageSize + PageSize /\ j * PageSize \in Nat
    BY <1>2, <2>2
  <2>4. Cap = (first + PageSize) + j * PageSize
    BY <1>1, <1>2, <2>3
  <2> QED
    BY <1>2, <2>3, <2>4 DEF Aligned
<1> QED
  BY <1>1, <1>2, <1>3

-----------------------------------------------------------------------------
(* What lookups put into a map. *)

(* The links of several users do not get in each other's way.               *)
LEMMA PutLink ==
  ASSUME Unique(linked), NEW S \in SUBSET Users, NEW u \in Users, Both(u)
  PROVE  /\ Put(LinksOf(S), linked[u].discord, linked[u].slack) = LinksOf(S \cup {u})
         /\ Put({<<p[2], p[1]>> : p \in LinksOf(S)}, linked[u].slack, linked[u].discord)
              = {<<p[2], p[1]>> : p \in LinksOf(S \cup {u})}
<1> DEFINE d == linked[u].discord
           s == linked[u].slack
           flip(P) == {<<p[2], p[1]>> : p \in P}
<1>1. LinksOf(S \cup {u}) = LinksOf(S) \cup {<<d, s>>}
  BY DEF LinksOf, Pair
<1>2. ASSUME NEW p \in LinksOf(S)
      PROVE  /\ p[1] = d => p = <<d, s>>
             /\ p[2] = s => p = <<d, s>>
             /\ p = <<p[1], p[2]>>
  <2>1. PICK w \in S : Both(w) /\ p = <<linked[w].discord, linked[w].slack>>
    BY DEF LinksOf, Pair
  <2>2. w \in Users
    BY <2>1
  <2>3. linked[w].discord = d \/ linked[w].slack = s => w = u
    BY <2>1, <2>2 DEF Unique, Both
  <2> QED
    BY <2>1, <2>3
<1> HIDE DEF d, s
<1>3. PICK P : P = LinksOf(S)
  OBVIOUS
<1>4. Put(P, d, s) = P \cup {<<d, s>>}
  BY <1>2, <1>3 DEF Put
<1>5. flip(P \cup {<<d, s>>}) = flip(P) \cup {<<s, d>>}
  <2>1. <<d, s>>[1] = d /\ <<d, s>>[2] = s
    OBVIOUS
  <2> QED
    BY <2>1
<1>6. ASSUME NEW q \in flip(P) PROVE q[1] = s => q = <<s, d>>
  <2>1. PICK p \in P : q = <<p[2], p[1]>>
    OBVIOUS
  <2>2. q[1] = p[2]
    BY <2>1
  <2>3. p[2] = s => p = <<d, s>>
    BY <1>2, <1>3, <2>1
  <2> QED
    BY <2>1, <2>2, <2>3
<1>7. Put(flip(P), s, d) = flip(P) \cup {<<s, d>>}
  <2>1. PICK Q : Q = flip(P)
    OBVIOUS
  <2>2. \A q \in Q : q[1] = s => q = <<s, d>>
    BY <1>6, <2>1
  <2>3. Put(Q, s, d) = Q \cup {<<s, d>>}
    BY <2>2 DEF Put
  <2> QED
    BY <2>1, <2>3
<1> QED
  BY <1>1, <1>3, <1>4, <1>5, <1>7 DEF d, s

(* One more user is looked up (map.go, indexFederatedLinks).                *)
LEMMA IndexLooked ==
  ASSUME Unique(linked), NEW S \in SUBSET Users, NEW u \in Users
  PROVE  indexFederatedLinks(Looked(S), u) = Looked(S \cup {u})
<1>1. CASE Both(u)
  BY <1>1, PutLink DEF indexFederatedLinks, Looked, MapOf
<1>2. CASE ~Both(u)
  <2>1. LinksOf(S \cup {u}) = LinksOf(S)
    BY <1>2 DEF LinksOf
  <2> QED
    BY <1>2, <2>1 DEF indexFederatedLinks, Looked
<1> QED
  BY <1>1, <1>2

(* A full load begins with nobody.                                          *)
LEMMA LookedNobody == Looked({}) = emptyMap
<1>1. LinksOf({}) = {}
  BY DEF LinksOf
<1> QED
  BY <1>1 DEF Looked, MapOf, emptyMap

(* Whom a full load looks up.                                               *)
Reached == members \cup Upto("discord", Cap) \cup Upto("slack", Cap)

(* Members and the users below the cap in either list are whom it wants.    *)
LEMMA WantedReached ==
  ASSUME WorldType
  PROVE  /\ Reached \in SUBSET Users /\ members \subseteq Reached
         /\ MapOf(Wanted) = Looked(Reached)
<1>1. Reached \in SUBSET Users
  BY ListedUsers DEF Reached, Upto, WorldType
<1>2. ASSUME NEW u \in Users, Both(u)
      PROVE  u \in Reached <=> u \in members \/ \E a \in Alias : Index(a, u) < Cap
  <2>1. u \in Listed("discord") /\ u \in Listed("slack")
    <3>1. linked[u]["discord"] # NoId /\ linked[u]["slack"] # NoId
      BY <1>2 DEF Both
    <3> QED
      BY <3>1 DEF Listed
  <2> QED
    BY <2>1 DEF Reached, Upto, Alias
<1>3. Wanted = LinksOf(Reached)
  <2>1. \A w : w \in Users /\ Both(w) /\ (w \in members \/ \E a \in Alias : Index(a, w) < Cap)
                 <=> w \in Reached /\ Both(w)
    BY <1>1, <1>2
  <2>2. {w \in Users : Both(w) /\ (w \in members \/ \E a \in Alias : Index(a, w) < Cap)}
          = {w \in Reached : Both(w)}
    BY <2>1
  <2> QED
    BY <2>2 DEF Wanted, LinksOf
<1> QED
  BY <1>1, <1>3 DEF Looked, Reached

(* To look up a member again changes nothing.                               *)
LEMMA WantedStays ==
  ASSUME WorldType, Unique(linked), NEW u \in members
  PROVE  indexFederatedLinks(MapOf(Wanted), u) = MapOf(Wanted)
<1>1. u \in Users /\ u \in Reached /\ Reached \in SUBSET Users
  BY WantedReached
<1>2. Reached \cup {u} = Reached
  BY <1>1
<1> QED
  BY <1>1, <1>2, WantedReached, IndexLooked

(* Keycloak and the files stay as they are, and so does what depends on     *)
(* them.                                                                    *)
LEMMA SameWorld ==
  ASSUME UNCHANGED <<linked, members>>
  PROVE  /\ Wanted' = Wanted /\ Reached' = Reached
         /\ \A S : Looked(S)' = Looked(S)
         /\ \A s : (Paged(s)' <=> Paged(s)) /\ (Paging(s)' <=> Paging(s))
         /\ \A m, u : indexFederatedLinks(m, u)' = indexFederatedLinks(m, u)
<1>1. \A a : Listed(a)' = Listed(a)
  BY DEF Listed
<1>2. \A a, u : Index(a, u)' = Index(a, u)
  BY <1>1 DEF Index
<1>3. \A u : Both(u)' = Both(u) /\ Pair(u)' = Pair(u)
  BY DEF Both, Pair
<1>4. \A a, k : Upto(a, k)' = Upto(a, k)
  BY <1>1, <1>2 DEF Upto
<1>5. \A S : LinksOf(S)' = LinksOf(S)
  BY <1>3 DEF LinksOf
<1>6. \A a : Behind(a)' = Behind(a)
  BY <1>4 DEF Behind
<1>7. Reached' = Reached
  BY <1>4 DEF Reached
<1>8. Wanted' = Wanted
  BY <1>2, <1>3 DEF Wanted
<1>9. \A S : Looked(S)' = Looked(S)
  BY <1>5 DEF Looked
<1>10. \A s : (Paged(s)' <=> Paged(s)) /\ (Paging(s)' <=> Paging(s))
  BY <1>1, <1>4, <1>6 DEF Paged, Paging
<1>11. \A m, u : indexFederatedLinks(m, u)' = indexFederatedLinks(m, u)
  BY <1>3 DEF indexFederatedLinks
<1> QED
  BY <1>7, <1>8, <1>9, <1>10, <1>11

-----------------------------------------------------------------------------
(* What a step leaves alone. *)

(* A load stays where it is while others act.                               *)
LEMMA LoadKept ==
  ASSUME NEW l \in Loaders, LoadAt(l), UNCHANGED <<linked, members>>,
         pc'[l] = pc[l], full'[l] = full[l], map'[l] = map[l], todo'[l] = todo[l], scan'[l] = scan[l],
         heap'[map[l]] = heap[map[l]], clean' => clean, complete' => complete
  PROVE  LoadAt(l)'
BY SameWorld DEF LoadAt, Repeats, Crawled

(* Nothing is said of a load that builds nothing.                           *)
LEMMA LoadAway == ASSUME NEW l, pc'[l] \notin Building PROVE LoadAt(l)'
BY DEF LoadAt, Building

(* The cache stays as it is.                                                *)
LEMMA CacheKept ==
  ASSUME CrawlInv, UNCHANGED <<linked, members>>, globalMap' = globalMap,
         globalMap \in Objects => heap'[globalMap] = heap[globalMap], complete' => complete
  PROVE  Unique(linked)' /\ (complete' => globalMap' \in Objects /\ heap'[globalMap'] = MapOf(Wanted)')
BY SameWorld DEF CrawlInv

(* A load that runs is the only one.                                        *)
LEMMA OthersAway ==
  ASSUME Inv, NEW l \in Loaders, Loader(l), LoadAt(l)'
  PROVE  \A k \in Loaders : LoadAt(k)'
<1>1. ASSUME NEW k \in Loaders, k # l PROVE LoadAt(k)'
  <2>1. pc'[k] = "idle"
    BY <1>1, LoaderAlone
  <2> QED
    BY <2>1, LoadAway DEF Building
<1> QED
  BY <1>1

(* Steps beside the loads.                                                  *)
LEMMA QuietCrawl ==
  ASSUME CrawlInv, UNCHANGED <<linked, members, heap, globalMap, full, map, todo, scan, clean, complete>>,
         \A l \in Loaders : pc'[l] = pc[l] \/ pc'[l] = "token"
  PROVE  CrawlInv'
<1>1. ASSUME NEW l \in Loaders PROVE LoadAt(l)'
  <2>1. CASE pc'[l] = pc[l]
    BY <2>1, LoadKept DEF CrawlInv
  <2>2. CASE pc'[l] = "token"
    BY <2>2, LoadAway DEF Building
  <2> QED
    BY <2>1, <2>2
<1>2. Unique(linked)' /\ (complete' => globalMap' \in Objects /\ heap'[globalMap'] = MapOf(Wanted)')
  BY CacheKept
<1> QED
  BY <1>1, <1>2 DEF CrawlInv

-----------------------------------------------------------------------------
(* The world, the callers and the ends of a load. *)

(* Nothing is loaded at first.                                              *)
LEMMA InitCrawl == Init => CrawlInv
<1> SUFFICES ASSUME Init PROVE CrawlInv
  OBVIOUS
<1>1. Unique(linked) /\ ~complete /\ \A l \in Loaders : pc[l] = "idle"
  BY DEF Init
<1>2. \A l \in Loaders : LoadAt(l)
  BY <1>1 DEF LoadAt, Building
<1> QED
  BY <1>1, <1>2 DEF CrawlInv

(* A change of links or members: nothing is claimed until the next full     *)
(* load.                                                                    *)
LEMMA WorldCrawl ==
  ASSUME CrawlInv,
         \/ \E u \in Users, link \in Link : Relink(u, link)
         \/ \E S \in SUBSET Users : Govern(S)
  PROVE  CrawlInv'
<1>1. ~clean' /\ ~complete'
  BY DEF Relink, Govern
<1>2. Unique(linked')
  <2>1. CASE \E u \in Users, link \in Link : Relink(u, link)
    BY <2>1 DEF Relink
  <2>2. CASE \E S \in SUBSET Users : Govern(S)
    BY <2>2 DEF Govern, CrawlInv, Unique
  <2> QED
    BY <2>1, <2>2
<1> QED
  BY <1>1, <1>2 DEF CrawlInv, LoadAt

(* Time passes.                                                             *)
LEMMA ClockCrawl ==
  ASSUME CrawlInv, NewDay \/ Expire \/ UNCHANGED vars
  PROVE  CrawlInv'
<1>1. UNCHANGED <<linked, members, heap, globalMap, full, map, todo, scan, clean, complete, pc>>
  BY DEF NewDay, Expire, vars, world, cache, loaders, history
<1> QED
  BY <1>1, QuietCrawl

(* Callers take pointers, and start loads.                                  *)
LEMMA CallerCrawl ==
  ASSUME Inv, CrawlInv, NEW c \in Callers, Caller(c)
  PROVE  CrawlInv'
<1>1. /\ UNCHANGED <<linked, members, heap, globalMap, full, map, todo, scan, clean, complete>>
      /\ UNCHANGED pc \/ \E l \in Loaders : pc' = [pc EXCEPT ![l] = "token"]
  BY DEF Caller, GetCached, Peek, Recheck, StartLoad, ReturnStale, world, cache, loaders, history
<1>2. \A l \in Loaders : pc'[l] = pc[l] \/ pc'[l] = "token"
  BY <1>1 DEF Inv, TypeOK, LoaderType
<1> QED
  BY <1>1, <1>2, QuietCrawl

(* Where a loader is.                                                       *)
LEMMA GotoAt ==
  ASSUME Inv, NEW l \in Loaders, NEW label, Goto(l, label)
  PROVE  pc'[l] = label
BY DEF Goto, Inv, TypeOK, LoaderType

(* Without a token the old map stays.                                       *)
LEMMA TokenFailsCrawl ==
  ASSUME Inv, CrawlInv, NEW l \in Loaders, TokenFails(l)
  PROVE  CrawlInv'
<1>1. /\ Goto(l, "release") /\ UNCHANGED <<linked, members, complete>>
      /\ globalMap # NoMap => UNCHANGED <<heap, globalMap>>
  BY DEF TokenFails, world
<1>2. pc'[l] = "release"
  BY <1>1, GotoAt
<1>3. LoadAt(l)'
  BY <1>2, LoadAway DEF Building
<1>4. \A k \in Loaders : LoadAt(k)'
  BY <1>3, OthersAway DEF Loader
<1>5. Unique(linked)' /\ (complete' => globalMap' \in Objects /\ heap'[globalMap'] = MapOf(Wanted)')
  <2>1. CASE globalMap # NoMap
    BY <1>1, <2>1, CacheKept
  <2>2. CASE globalMap = NoMap
    <3>1. ~complete /\ Unique(linked)
      BY <2>2, HeapAssumption DEF CrawlInv
    <3> QED
      BY <1>1, <3>1 DEF Unique
  <2> QED
    BY <2>1, <2>2
<1> QED
  BY <1>4, <1>5 DEF CrawlInv

(* A clean full load makes the cache exact, an incremental one keeps it so. *)
LEMMA StoreCrawl ==
  ASSUME Inv, CrawlInv, NEW l \in Loaders, Store(l)
  PROVE  CrawlInv'
<1>1. /\ Goto(l, "release") /\ UNCHANGED <<linked, members, heap>>
      /\ globalMap' = map[l] /\ complete' = IF full[l] THEN clean ELSE complete
  BY DEF Store, world
<1>2. pc'[l] = "release"
  BY <1>1, GotoAt
<1>3. LoadAt(l)'
  BY <1>2, LoadAway DEF Building
<1>4. \A k \in Loaders : LoadAt(k)'
  BY <1>3, OthersAway DEF Loader
<1>5. /\ \/ pc[l] = "members" /\ ~full[l]
         \/ pc[l] = "store" /\ full[l]
      /\ pc[l] \in Building /\ map[l] \in Objects
  <2>1. pc[l] = "store" => full[l]
    BY DEF Inv, BuildKeepsCached
  <2>2. (pc[l] = "members" /\ ~full[l]) \/ pc[l] = "store"
    BY DEF Store
  <2>3. pc[l] \in Building
    BY <2>2 DEF Building
  <2>4. map[l] \in Objects
    BY <2>3 DEF Inv, Private
  <2> QED
    BY <2>1, <2>2, <2>3, <2>4
<1>6. complete' => heap[map[l]] = MapOf(Wanted)
  BY <1>1, <1>5 DEF CrawlInv, LoadAt, Repeats, Crawled
<1>7. Wanted' = Wanted
  BY <1>1, SameWorld
<1>8. Unique(linked)'
  BY <1>1 DEF CrawlInv, Unique
<1> QED
  BY <1>1, <1>4, <1>5, <1>6, <1>7, <1>8 DEF CrawlInv

(* The goroutine ends.                                                      *)
LEMMA ReleaseCrawl ==
  ASSUME Inv, CrawlInv, NEW l \in Loaders, Release(l)
  PROVE  CrawlInv'
<1>1. Goto(l, "idle") /\ UNCHANGED <<linked, members, heap, globalMap, complete>>
  BY DEF Release, world, history
<1>2. pc'[l] = "idle"
  BY <1>1, GotoAt
<1>3. LoadAt(l)'
  BY <1>2, LoadAway DEF Building
<1>4. \A k \in Loaders : LoadAt(k)'
  BY <1>3, OthersAway DEF Loader
<1>5. Unique(linked)' /\ (complete' => globalMap' \in Objects /\ heap'[globalMap'] = MapOf(Wanted)')
  BY <1>1, CacheKept
<1> QED
  BY <1>4, <1>5 DEF CrawlInv

-----------------------------------------------------------------------------
(* The members. *)

(* A full load begins with an empty map, another one with a copy of the     *)
(* cache.                                                                   *)
LEMMA BeginCrawl ==
  ASSUME Inv, CrawlInv, NEW l \in Loaders, Begin(l)
  PROVE  CrawlInv'
<1> DEFINE start == IF shouldFullScan THEN emptyMap ELSE snapshotGlobal
<1>1. PICK o \in Objects : New(o) /\ map' = [map EXCEPT ![l] = o] /\ heap' = [heap EXCEPT ![o] = start]
  BY DEF Begin
<1>2. /\ Goto(l, "members") /\ UNCHANGED <<linked, members, globalMap, complete>>
      /\ full' = [full EXCEPT ![l] = shouldFullScan] /\ todo' = [todo EXCEPT ![l] = members]
  BY DEF Begin, world, cache, AllMembers
<1> HIDE DEF start
<1>3. o # globalMap
  BY <1>1 DEF New, Reachable
<1>4. /\ pc'[l] = "members" /\ map'[l] = o /\ heap'[o] = start
      /\ full'[l] = shouldFullScan /\ todo'[l] = members
      /\ \A p \in Objects \ {o} : heap'[p] = heap[p]
  BY <1>1, <1>2, GotoAt DEF Inv, TypeOK, CacheType, LoaderType
<1>5. Unique(linked)' /\ (complete' => globalMap' \in Objects /\ heap'[globalMap'] = MapOf(Wanted)')
  BY <1>2, <1>3, <1>4, CacheKept
<1>6. LoadAt(l)'
  <2>1. CASE shouldFullScan
    <3>1. start = Looked({}) /\ members \ members = {}
      BY <2>1, LookedNobody DEF start
    <3>2. heap'[map'[l]] = Looked(members \ todo[l])'
      BY <1>2, <1>4, <3>1, SameWorld
    <3> QED
      BY <1>2, <1>4, <2>1, <3>2 DEF LoadAt, Crawled
  <2>2. CASE ~shouldFullScan
    <3>1. complete => start = MapOf(Wanted)
      BY <2>2, HeapAssumption DEF start, snapshotGlobal, CrawlInv
    <3> QED
      BY <1>2, <1>4, <2>2, <3>1, SameWorld DEF LoadAt, Repeats
  <2> QED
    BY <2>1, <2>2
<1>7. \A k \in Loaders : LoadAt(k)'
  BY <1>6, OthersAway DEF Loader
<1> QED
  BY <1>5, <1>7 DEF CrawlInv

(* A lookup writes into the private map only.                               *)
LEMMA LookupFacts ==
  ASSUME Inv, NEW l \in Loaders, pc[l] \in Building, NEW u, Lookup(l, u)
  PROVE  /\ map[l] \in Objects
         /\ \/ heap'[map[l]] = indexFederatedLinks(heap[map[l]], u) /\ clean' = clean
            \/ heap'[map[l]] = heap[map[l]] /\ ~clean'
         /\ globalMap \in Objects => heap'[globalMap] = heap[globalMap]
<1>1. map[l] \in Objects /\ map[l] # globalMap
  BY DEF Inv, Private
<1>2. heap \in [Objects -> Map]
  BY DEF Inv, TypeOK, CacheType
<1> QED
  BY <1>1, <1>2 DEF Lookup, Fail

(* loadGovernanceMember: one member more, or none that is new.              *)
LEMMA MemberCrawl ==
  ASSUME Inv, CrawlInv, NEW l \in Loaders, loadGovernanceMember(l)
  PROVE  CrawlInv'
<1>1. PICK u \in todo[l] : todo' = [todo EXCEPT ![l] = @ \ {u}] /\ Lookup(l, u)
  BY DEF loadGovernanceMember
<1>2. pc[l] = "members" /\ UNCHANGED <<linked, members, globalMap, complete, pc, full, map, scan>>
  BY DEF loadGovernanceMember, world, cache
<1>3. /\ \/ heap'[map[l]] = indexFederatedLinks(heap[map[l]], u) /\ clean' = clean
         \/ heap'[map[l]] = heap[map[l]] /\ ~clean'
      /\ globalMap \in Objects => heap'[globalMap] = heap[globalMap]
  BY <1>1, <1>2, LookupFacts DEF Building
<1>4. todo'[l] = todo[l] \ {u} /\ WorldType /\ members \in SUBSET Users /\ Unique(linked)
  BY <1>1 DEF Inv, TypeOK, LoaderType, WorldType, CrawlInv
<1>5. ASSUME complete', ~full[l] PROVE Repeats(l)'
  <2>1. todo[l] \subseteq members /\ heap[map[l]] = MapOf(Wanted)
    BY <1>2, <1>5 DEF CrawlInv, LoadAt, Repeats
  <2>2. indexFederatedLinks(MapOf(Wanted), u) = MapOf(Wanted)
    BY <1>4, <2>1, WantedStays
  <2>3. heap'[map[l]] = MapOf(Wanted)
    BY <1>3, <2>1, <2>2
  <2> QED
    BY <1>2, <1>4, <2>1, <2>3, SameWorld DEF Repeats
<1>6. ASSUME clean', full[l] PROVE todo'[l] \subseteq members' /\ Crawled(l)'
  <2>1. /\ todo[l] \subseteq members /\ heap[map[l]] = Looked(members \ todo[l])
        /\ heap'[map[l]] = indexFederatedLinks(heap[map[l]], u)
    BY <1>2, <1>3, <1>6 DEF CrawlInv, LoadAt, Crawled, Building
  <2>2. members \ todo[l] \in SUBSET Users /\ u \in Users
    BY <1>4, <2>1
  <2>3. (members \ todo[l]) \cup {u} = members \ todo'[l]
    BY <1>4, <2>1
  <2>4. heap'[map[l]] = Looked(members \ todo'[l])
    BY <1>4, <2>1, <2>2, <2>3, IndexLooked
  <2>5. heap'[map'[l]] = Looked(members \ todo[l])'
    BY <1>2, <2>4, SameWorld
  <2> QED
    BY <1>2, <1>4, <2>1, <2>5 DEF Crawled
<1>7. LoadAt(l)'
  BY <1>2, <1>5, <1>6 DEF LoadAt
<1>8. \A k \in Loaders : LoadAt(k)'
  BY <1>7, OthersAway DEF Loader
<1>9. Unique(linked)' /\ (complete' => globalMap' \in Objects /\ heap'[globalMap'] = MapOf(Wanted)')
  BY <1>2, <1>3, CacheKept
<1> QED
  BY <1>8, <1>9 DEF CrawlInv

(* publishMap: the members are all looked up, and the pages begin.          *)
LEMMA PublishCrawl ==
  ASSUME Inv, CrawlInv, NEW l \in Loaders, publishMap(l)
  PROVE  CrawlInv'
<1>1. PICK o \in Objects : New(o) /\ heap' = [heap EXCEPT ![o] = heap[map[l]]] /\ globalMap' = o
  BY DEF publishMap, SetClone
<1>2. /\ pc[l] = "members" /\ todo[l] = {} /\ full[l]
      /\ Goto(l, "page") /\ scan' = [scan EXCEPT ![l] = NoScan] /\ complete' = FALSE
      /\ UNCHANGED <<linked, members, full, map, todo, clean>>
  BY DEF publishMap, world
<1>3. o # map[l] /\ map[l] \in Objects
  BY <1>1, <1>2 DEF New, Reachable, Inv, Private, Building
<1>4. heap'[map[l]] = heap[map[l]] /\ pc'[l] = "page" /\ scan'[l] = NoScan
  BY <1>1, <1>2, <1>3, GotoAt DEF Inv, TypeOK, CacheType, LoaderType
<1>5. NoScan.seen = {} /\ NoScan.first = 0 /\ NoScan.alias = "discord"
  BY DEF NoScan
<1>6. Paged(NoScan)
  BY <1>5, UptoZero DEF Paged, Behind
<1>7. ASSUME clean PROVE heap[map[l]] = Looked(members \cup {})
  <2>1. heap[map[l]] = Looked(members \ todo[l])
    BY <1>2, <1>7 DEF CrawlInv, LoadAt, Crawled, Building
  <2>2. members \ todo[l] = members \cup {}
    BY <1>2
  <2> QED
    BY <2>1, <2>2
<1>8. ASSUME clean' PROVE Crawled(l)'
  <2>1. heap'[map'[l]] = Looked(members \cup scan[l].seen)'
    BY <1>2, <1>4, <1>5, <1>7, <1>8, SameWorld
  <2>2. Aligned(scan'[l].first) /\ Paged(scan[l])'
    BY <1>2, <1>4, <1>5, <1>6, AlignedZero, SameWorld
  <2> QED
    BY <1>4, <2>1, <2>2 DEF Crawled
<1>9. LoadAt(l)'
  BY <1>2, <1>4, <1>8 DEF LoadAt
<1>10. \A k \in Loaders : LoadAt(k)'
  BY <1>9, OthersAway DEF Loader
<1>11. Unique(linked)'
  BY <1>2 DEF CrawlInv, Unique
<1> QED
  BY <1>2, <1>10, <1>11 DEF CrawlInv

-----------------------------------------------------------------------------
(* The pages. *)

(* What ReadPage, ReadUser and EndPage leave alone.                         *)
LEMMA PageFrame ==
  ASSUME Inv, CrawlInv, NEW l \in Loaders, ReadPage(l) \/ ReadUser(l) \/ EndPage(l)
  PROVE  /\ full[l] /\ pc[l] \in Building /\ scan[l] \in Scan /\ scan \in [Loaders -> Scan]
         /\ UNCHANGED <<linked, members, globalMap, complete, full, map, todo>>
         /\ members \in SUBSET Users /\ WorldType /\ Unique(linked)
<1>1. pc[l] \in {"page", "users"}
  BY DEF ReadPage, ReadUser, EndPage
<1>2. UNCHANGED <<linked, members, globalMap, complete, full, map, todo>>
  BY DEF ReadPage, ReadUser, EndPage, world, cache, history
<1>3. scan[l] \in Scan /\ scan \in [Loaders -> Scan] /\ members \in SUBSET Users /\ WorldType /\ Unique(linked)
  BY DEF Inv, TypeOK, LoaderType, WorldType, CrawlInv
<1>4. full[l]
  BY <1>1 DEF Inv, BuildKeepsCached
<1> QED
  BY <1>1, <1>2, <1>3, <1>4 DEF Building

(* A step of the pages is right if it leaves the load where it should be.   *)
LEMMA PageKept ==
  ASSUME Inv, CrawlInv, NEW l \in Loaders, ReadPage(l) \/ ReadUser(l) \/ EndPage(l),
         clean' => Crawled(l)', globalMap \in Objects => heap'[globalMap] = heap[globalMap],
         clean' => clean
  PROVE  CrawlInv'
<1>1. /\ full[l] /\ pc[l] \in Building
      /\ UNCHANGED <<linked, members, globalMap, complete, full, map, todo>>
  BY PageFrame
<1>2. clean => todo[l] \subseteq members
  BY <1>1 DEF CrawlInv, LoadAt
<1>3. LoadAt(l)'
  BY <1>1, <1>2 DEF LoadAt
<1>4. \A k \in Loaders : LoadAt(k)'
  BY <1>3, OthersAway DEF Loader
<1>5. Unique(linked)' /\ (complete' => globalMap' \in Objects /\ heap'[globalMap'] = MapOf(Wanted)')
  BY <1>1, CacheKept
<1> QED
  BY <1>4, <1>5 DEF CrawlInv

(* After the last page of a list comes the other list, or the end.          *)
LEMMA ListDone ==
  ASSUME Inv, NEW l \in Loaders, NextAlias(l), UNCHANGED <<linked, members, heap, map>>,
         scan[l].seen = Behind(scan[l].alias) \cup Upto(scan[l].alias, Cap),
         heap[map[l]] = Looked(members \cup scan[l].seen)
  PROVE  Crawled(l)'
<1>1. scan \in [Loaders -> Scan] /\ scan[l].alias \in {"discord", "slack"} /\ WorldType
  BY DEF Inv, TypeOK, LoaderType, Scan, Alias
<1>2. CASE scan[l].alias = "discord"
  <2>1. PICK s : s = [NoScan EXCEPT !.alias = "slack", !.seen = scan[l].seen]
    OBVIOUS
  <2>2. s.alias = "slack" /\ s.seen = scan[l].seen /\ s.first = 0
    BY <2>1 DEF NoScan
  <2>3. scan'[l] = s /\ pc'[l] = "page"
    BY <1>1, <1>2, <2>1, GotoAt DEF NextAlias
  <2>4. Paged(s)
    BY <1>2, <2>2, UptoZero DEF Paged, Behind
  <2>5. Paged(scan[l])' /\ Aligned(scan'[l].first)
    BY <2>2, <2>3, <2>4, AlignedZero, SameWorld
  <2>6. heap'[map'[l]] = Looked(members \cup scan[l].seen)'
    BY <2>2, <2>3, SameWorld
  <2> QED
    BY <2>3, <2>5, <2>6 DEF Crawled
<1>3. CASE scan[l].alias = "slack"
  <2>1. pc'[l] = "store"
    BY <1>3, GotoAt DEF NextAlias
  <2>2. members \cup scan[l].seen = Reached
    BY <1>3 DEF Reached, Behind
  <2>3. heap[map[l]] = MapOf(Wanted)
    BY <1>1, <2>2, WantedReached
  <2>4. heap'[map'[l]] = MapOf(Wanted')
    BY <2>3, SameWorld
  <2> QED
    BY <2>1, <2>4 DEF Crawled
<1> QED
  BY <1>1, <1>2, <1>3

(* ReadPage: the next users of the list, if there are any below the cap.    *)
LEMMA ReadPageCrawl ==
  ASSUME Inv, CrawlInv, NEW l \in Loaders, ReadPage(l)
  PROVE  CrawlInv'
<1> DEFINE a == scan[l].alias
           first == scan[l].first
<1>1. /\ full[l] /\ pc[l] \in Building /\ scan[l] \in Scan /\ scan \in [Loaders -> Scan]
      /\ UNCHANGED <<linked, members, globalMap, complete, full, map, todo>>
  BY PageFrame
<1>2. pc[l] = "page" /\ heap' = heap /\ first \in Nat
  BY <1>1, ScanFields DEF ReadPage
<1>3. ASSUME clean
      PROVE  /\ heap[map[l]] = Looked(members \cup scan[l].seen) /\ Aligned(first)
             /\ scan[l].seen = Behind(a) \cup Upto(a, first)
  BY <1>1, <1>2, <1>3 DEF CrawlInv, LoadAt, Crawled, Paged
<1>4. CASE /\ BelowCap(l) /\ PageOf(a, first) # {}
           /\ scan' = [scan EXCEPT ![l].page = PageOf(a, first),
                                   ![l].last = Cardinality(PageOf(a, first)) < PageSize]
           /\ Goto(l, "users") /\ clean' = clean
  <2>1. PICK s : s = [scan[l] EXCEPT !.page = PageOf(a, first), !.last = Cardinality(PageOf(a, first)) < PageSize]
    OBVIOUS
  <2>2. /\ s.alias = a /\ s.first = first /\ s.seen = scan[l].seen /\ s.page = PageOf(a, first)
        /\ s.last = (Cardinality(PageOf(a, first)) < PageSize)
    BY <1>1, <2>1 DEF Scan
  <2>3. scan'[l] = s /\ pc'[l] = "users"
    BY <1>1, <1>4, <2>1, GotoAt
  <2>4. ASSUME clean PROVE Paging(s) /\ Aligned(s.first)
    <3>1. s.seen \cup s.page = Behind(a) \cup Upto(a, first + PageSize)
      BY <1>2, <1>3, <2>2, <2>4, UptoPage
    <3>2. s.last => Listed(a) \subseteq Upto(a, first + PageSize)
      BY <1>2, <2>2, ShortPage
    <3>3. first < Cap
      BY <1>4 DEF BelowCap
    <3> QED
      BY <1>3, <2>2, <2>4, <3>1, <3>2, <3>3 DEF Paging
  <2>5. ASSUME clean' PROVE Crawled(l)'
    <3>1. clean
      BY <1>4, <2>5
    <3>2. heap'[map'[l]] = Looked(members \cup scan[l].seen)'
      BY <1>1, <1>2, <1>3, <2>2, <2>3, <3>1, SameWorld
    <3>3. Paging(scan[l])' /\ Aligned(scan'[l].first)
      BY <1>1, <2>3, <2>4, <3>1, SameWorld
    <3> QED
      BY <2>3, <3>2, <3>3 DEF Crawled
  <2> QED
    BY <1>2, <1>4, <2>5, PageKept
<1>5. CASE /\ ~BelowCap(l) \/ PageOf(a, first) = {}
           /\ NextAlias(l) /\ clean' = clean
  <2>1. ASSUME clean PROVE Upto(a, first) = Upto(a, Cap)
    <3>1. first <= Cap
      BY <1>2, <1>3, <2>1, AlignedNext
    <3>2. CASE PageOf(a, first) = {}
      BY <1>2, <3>1, <3>2, EmptyPage, UptoEnd
    <3>3. CASE ~BelowCap(l)
      <4>1. first = Cap
        BY <1>2, <3>1, <3>3, BoundAssumption DEF BelowCap
      <4> QED
        BY <4>1
    <3> QED
      BY <1>5, <3>2, <3>3
  <2>2. ASSUME clean' PROVE Crawled(l)'
    <3>1. clean
      BY <1>5, <2>2
    <3>2. scan[l].seen = Behind(a) \cup Upto(a, Cap)
      BY <1>3, <2>1, <3>1
    <3> QED
      BY <1>1, <1>2, <1>3, <1>5, <3>1, <3>2, ListDone
  <2> QED
    BY <1>2, <1>5, <2>2, PageKept
<1>6. CASE Fail
  <2>1. ~clean'
    BY <1>6 DEF Fail
  <2> QED
    BY <1>2, <2>1, PageKept
<1> QED
  <2>1. PageOf(a, first) = {u \in Listed(a) : Index(a, u) \in first..first + PageSize - 1}
    BY DEF PageOf
  <2> QED
    BY <1>4, <1>5, <1>6, <2>1 DEF ReadPage

(* ReadUser: the next user of the page is looked up, once.                  *)
LEMMA ReadUserCrawl ==
  ASSUME Inv, CrawlInv, NEW l \in Loaders, ReadUser(l)
  PROVE  CrawlInv'
<1>1. /\ full[l] /\ pc[l] \in Building /\ scan[l] \in Scan /\ scan \in [Loaders -> Scan]
      /\ UNCHANGED <<linked, members, globalMap, complete, full, map, todo>>
      /\ members \in SUBSET Users /\ Unique(linked)
  BY PageFrame
<1>2. PICK u \in scan[l].page :
        /\ scan' = [scan EXCEPT ![l].page = @ \ {u}, ![l].seen = @ \cup {u}]
        /\ IF u \in scan[l].seen THEN UNCHANGED <<heap, events, clean>> ELSE Lookup(l, u)
  BY DEF ReadUser
<1>3. pc[l] = "users" /\ pc' = pc
  BY DEF ReadUser
<1>4. scan[l].seen \in SUBSET Users /\ u \in Users
  BY <1>1, ScanFields
<1>5. PICK s : s = [scan[l] EXCEPT !.page = @ \ {u}, !.seen = @ \cup {u}]
  OBVIOUS
<1>6. /\ s.alias = scan[l].alias /\ s.first = scan[l].first /\ s.last = scan[l].last
      /\ s.seen = scan[l].seen \cup {u} /\ s.seen \cup s.page = scan[l].seen \cup scan[l].page
  BY <1>1, <1>5 DEF Scan
<1>7. scan'[l] = s
  BY <1>1, <1>2, <1>5
<1>8. /\ clean' => clean
      /\ globalMap \in Objects => heap'[globalMap] = heap[globalMap]
  BY <1>1, <1>2, LookupFacts
<1>9. ASSUME clean' PROVE Crawled(l)'
  <2>1. /\ heap[map[l]] = Looked(members \cup scan[l].seen) /\ Aligned(scan[l].first)
        /\ Paging(scan[l])
    BY <1>1, <1>3, <1>8, <1>9 DEF CrawlInv, LoadAt, Crawled
  <2>2. heap'[map[l]] = Looked(members \cup s.seen)
    <3>1. CASE u \in scan[l].seen
      <4>1. scan[l].seen \cup {u} = scan[l].seen /\ heap' = heap
        BY <1>2, <3>1
      <4> QED
        BY <1>6, <2>1, <4>1
    <3>2. CASE u \notin scan[l].seen
      <4>1. heap'[map[l]] = indexFederatedLinks(heap[map[l]], u)
        BY <1>1, <1>2, <1>9, <3>2, LookupFacts
      <4>2. members \cup scan[l].seen \in SUBSET Users
        BY <1>1, <1>4
      <4>3. (members \cup scan[l].seen) \cup {u} = members \cup s.seen
        BY <1>6
      <4> QED
        BY <1>1, <1>4, <2>1, <4>1, <4>2, <4>3, IndexLooked
    <3> QED
      BY <3>1, <3>2
  <2>3. Paging(s) /\ Aligned(s.first)
    BY <1>6, <2>1 DEF Paging
  <2>4. heap'[map'[l]] = Looked(members \cup scan[l].seen)'
    BY <1>1, <1>7, <2>2, SameWorld
  <2>5. Paging(scan[l])' /\ Aligned(scan'[l].first)
    BY <1>1, <1>7, <2>3, SameWorld
  <2> QED
    BY <1>3, <2>4, <2>5 DEF Crawled
<1> QED
  BY <1>8, <1>9, PageKept

(* EndPage: the next page begins where this one ended.                      *)
LEMMA EndPageCrawl ==
  ASSUME Inv, CrawlInv, NEW l \in Loaders, EndPage(l)
  PROVE  CrawlInv'
<1> DEFINE a == scan[l].alias
           first == scan[l].first
<1>1. /\ full[l] /\ pc[l] \in Building /\ scan[l] \in Scan /\ scan \in [Loaders -> Scan]
      /\ UNCHANGED <<linked, members, globalMap, complete, full, map, todo>>
  BY PageFrame
<1>2. pc[l] = "users" /\ scan[l].page = {} /\ heap' = heap /\ clean' = clean /\ first \in Nat
  BY <1>1, ScanFields DEF EndPage, history
<1>3. ASSUME clean
      PROVE  /\ heap[map[l]] = Looked(members \cup scan[l].seen)
             /\ scan[l].seen = Behind(a) \cup Upto(a, first + PageSize)
             /\ first + PageSize <= Cap /\ Aligned(first + PageSize)
             /\ scan[l].last => Listed(a) \subseteq Upto(a, first + PageSize)
  <2>1. /\ heap[map[l]] = Looked(members \cup scan[l].seen) /\ Aligned(first)
        /\ Paging(scan[l])
    BY <1>1, <1>2, <1>3 DEF CrawlInv, LoadAt, Crawled
  <2>2. first < Cap /\ scan[l].seen = Behind(a) \cup Upto(a, first + PageSize)
    BY <1>2, <2>1 DEF Paging
  <2>3. first + PageSize <= Cap /\ Aligned(first + PageSize)
    BY <1>2, <2>1, <2>2, AlignedNext
  <2> QED
    BY <2>1, <2>2, <2>3 DEF Paging
<1>4. CASE scan[l].last /\ NextAlias(l)
  <2>1. ASSUME clean' PROVE Crawled(l)'
    <3>1. clean
      BY <1>2, <2>1
    <3>2. first + PageSize \in Nat
      BY <1>2, BoundAssumption
    <3>3. Upto(a, first + PageSize) = Upto(a, Cap)
      BY <1>3, <1>4, <3>1, <3>2, UptoEnd
    <3> QED
      BY <1>1, <1>2, <1>3, <1>4, <3>1, <3>3, ListDone
  <2> QED
    BY <1>2, <2>1, PageKept
<1>5. CASE ~scan[l].last /\ scan' = [scan EXCEPT ![l].first = NextPage(l)] /\ Goto(l, "page")
  <2>1. PICK s : s = [scan[l] EXCEPT !.first = NextPage(l)]
    OBVIOUS
  <2>2. s.alias = a /\ s.first = first + PageSize /\ s.seen = scan[l].seen
    BY <1>1, <2>1 DEF Scan, NextPage
  <2>3. scan'[l] = s /\ pc'[l] = "page"
    BY <1>1, <1>5, <2>1, GotoAt
  <2>4. ASSUME clean' PROVE Crawled(l)'
    <3>1. clean
      BY <1>2, <2>4
    <3>2. Paged(s) /\ Aligned(s.first)
      BY <1>3, <2>2, <3>1 DEF Paged
    <3>3. Paged(scan[l])' /\ Aligned(scan'[l].first)
      BY <1>1, <2>3, <3>2, SameWorld
    <3>4. heap'[map'[l]] = Looked(members \cup scan[l].seen)'
      BY <1>1, <1>2, <1>3, <2>2, <2>3, <3>1, SameWorld
    <3> QED
      BY <2>3, <3>3, <3>4 DEF Crawled
  <2> QED
    BY <1>2, <2>4, PageKept
<1> QED
  BY <1>4, <1>5 DEF EndPage

-----------------------------------------------------------------------------
(* The theorems of the crawl. *)

(* Every step keeps the invariant.                                          *)
LEMMA CrawlStep ==
  ASSUME Inv, CrawlInv, [Next]_vars
  PROVE  CrawlInv'
<1>1. CASE \E u \in Users, link \in Link : Relink(u, link)
  BY <1>1, WorldCrawl
<1>2. CASE \E S \in SUBSET Users : Govern(S)
  BY <1>2, WorldCrawl
<1>3. CASE NewDay \/ Expire \/ UNCHANGED vars
  BY <1>3, ClockCrawl
<1>4. CASE \E c \in Callers : Caller(c)
  BY <1>4, CallerCrawl
<1>5. CASE \E l \in Loaders : Loader(l)
  BY <1>5, TokenFailsCrawl, BeginCrawl, MemberCrawl, PublishCrawl, ReadPageCrawl, ReadUserCrawl,
     EndPageCrawl, StoreCrawl, ReleaseCrawl DEF Loader
<1> QED
  BY <1>1, <1>2, <1>3, <1>4, <1>5 DEF Next

(* While nothing changes or fails, a full load has the links of the members *)
(* and of the users seen so far in its map, no other links, and has seen    *)
(* the users of the lists up to where it is; a cache that such a load left  *)
(* stays what it is (map.go:155-345).                                       *)
THEOREM CrawlInvariance == Spec => []CrawlInv
BY InitCrawl, CrawlStep, Invariance, PTL DEF Spec

(* After a full load in which nothing changed or failed the cache has the   *)
(* links of the members and of the users below the cap in either list, in   *)
(* both directions, and no others, whatever the size of the pages: the      *)
(* crawl skips nobody, and incremental loads leave it so.                   *)
THEOREM CrawlIsExact == Spec => []Exact
<1>1. CrawlInv => Exact
  BY DEF CrawlInv, Exact, MapOf
<1> QED
  BY <1>1, CrawlInvariance, PTL

=============================================================================
