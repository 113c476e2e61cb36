------------------------ MODULE ReactionMirror_proofs ------------------------
(***************************************************************************)
(* Safety of ReactionMirror for any number of refreshes, reactions, parts, *)
(* changes and faults: types, mutual exclusion of the refreshes, the       *)
(* ownership of the refreshing flag, the permanence of a recorded          *)
(* MirroredEmoji, and what the thread, the rows and the bot's reaction are *)
(* at rest.                                                                *)
(***************************************************************************)
EXTENDS ReactionMirror, TLAPS, WellFoundedInduction

-----------------------------------------------------------------------------
(* Types of the operators. *)

LEMMA MinIsLeast ==
  ASSUME NEW S \in SUBSET Nat, S # {}
  PROVE  Min(S) \in S /\ \A y \in S : Min(S) <= y
<1> DEFINE Less == OpToRel(<, Nat)
<1>1. PICK x \in S : \A y \in S : ~(<<y, x>> \in Less)
  BY WFMin, NatLessThanWellFounded
<1>2. Less = {ss \in Nat \X Nat : ss[1] < ss[2]}
  BY DEF OpToRel
<1>3. \A a, b \in Nat : a < b => <<a, b>> \in Less
  <2> HIDE DEF Less
  <2> QED
    BY <1>2
<1> HIDE DEF Less
<1>4. ASSUME NEW y \in S PROVE ~(y < x)
  BY <1>1, <1>3
<1>5. ASSUME NEW y \in S PROVE x <= y
  <2>1. x \in Nat /\ y \in Nat
    OBVIOUS
  <2> QED
    BY <1>4, <2>1
<1> QED
  BY <1>5 DEF Min

LEMMA KeptType ==
  ASSUME NEW found \in SUBSET Nat, NEW preferred \in Nat
  PROVE  Kept(found, preferred) \in Nat
BY MinIsLeast DEF Kept

LEMMA TimeStampsType ==
  ASSUME WorldType
  PROVE  TimeStamps \subseteq Nat
BY DEF WorldType, Message, TimeStamps

LEMMA NoMetaType == NoMeta \in Meta
BY DEF Meta, NoMeta, NoTS

LEMMA WithTS ==
  ASSUME NEW m \in Meta, NEW t \in Nat
  PROVE  [m EXCEPT !.ts = t] \in Meta
BY DEF Meta

LEMMA WithEmoji ==
  ASSUME NEW m \in Meta, NEW e \in Emoji
  PROVE  [m EXCEPT !.emoji = e] \in Meta
BY DEF Meta

LEMMA MetaFields ==
  ASSUME NEW m \in Meta
  PROVE  m.ts \in Nat /\ m.emoji \in Emoji \cup {NoEmoji}
BY DEF Meta

LEMMA MergedType ==
  ASSUME WorldType
  PROVE  Merged \in Meta
<1> DEFINE LastTS(i) == /\ parts[i].ts # NoTS
                        /\ \A j \in 1..Parts : j > i => parts[j].ts = NoTS
           LastEmoji(i) == /\ parts[i].emoji # NoEmoji
                           /\ \A j \in 1..Parts : j > i => parts[j].emoji = NoEmoji
           t == IF \E i \in 1..Parts : LastTS(i)
                THEN parts[CHOOSE i \in 1..Parts : LastTS(i)].ts ELSE NoTS
           e == IF \E i \in 1..Parts : LastEmoji(i)
                THEN parts[CHOOSE i \in 1..Parts : LastEmoji(i)].emoji ELSE NoEmoji
<1>1. \A i \in 1..Parts : parts[i].ts \in Nat /\ parts[i].emoji \in Emoji \cup {NoEmoji}
  BY MetaFields DEF WorldType
<1>2. t \in Nat
  <2> HIDE DEF LastTS
  <2> QED
    BY <1>1 DEF NoTS
<1>3. e \in Emoji \cup {NoEmoji}
  <2> HIDE DEF LastEmoji
  <2> QED
    BY <1>1
<1>4. Merged = [ts |-> t, emoji |-> e]
  BY DEF Merged
<1> HIDE DEF t, e
<1> QED
  BY <1>2, <1>3, <1>4 DEF Meta

LEMMA SummaryType ==
  ASSUME NEW t \in Nat, NEW body \in SUBSET Reactions
  PROVE  SummaryOf(t, body) \in Message
BY DEF SummaryOf, Message

LEMMA NoticeType ==
  ASSUME NEW t \in Nat
  PROVE  ErrorNotice(t) \in Message
BY DEF ErrorNotice, Message

LEMMA UpdatedType ==
  ASSUME WorldType, LocalsType, NEW r \in Refreshers
  PROVE  Updated(r) \subseteq Message
<1>1. \A m \in thread : m \in Message /\ m.ts \in Nat
  BY DEF WorldType, Message
<1>2. aggregated[r] \in SUBSET Reactions
  BY DEF LocalsType
<1> QED
  BY <1>1, <1>2, SummaryType DEF Updated

LEMMA WantedType ==
  ASSUME LocalsType, NEW r \in Refreshers
  PROVE  Wanted(r) \subseteq Emoji
<1>1. aggregated[r] \subseteq Reactions
  BY DEF LocalsType
<1> QED
  BY <1>1, ReactionAssumption DEF Wanted

LEMMA FaultType ==
  ASSUME BoundsType, Fault, UNCHANGED changes
  PROVE  BoundsType'
BY CountAssumption DEF Fault, BoundsType

LEMMA CountedType ==
  ASSUME BoundsType, faults < MaxFaults, faults' = faults + 1, degraded' = FALSE,
         UNCHANGED changes
  PROVE  BoundsType'
<1>1. degraded' \in BOOLEAN
  OBVIOUS
<1>2. faults' \in 0..MaxFaults
  BY CountAssumption DEF BoundsType
<1> QED
  BY <1>1, <1>2 DEF BoundsType

-----------------------------------------------------------------------------
(* Every action preserves the types. *)

LEMMA InitType == Init => TypeOK
<1> SUFFICES ASSUME Init PROVE TypeOK
  OBVIOUS
<1>1. WorldType
  BY NoMetaType DEF Init, WorldType
<1>2. ProcessType
  BY DEF Init, ProcessType
<1>3. LocalsType
  BY NoMetaType, CountAssumption DEF Init, LocalsType, Slots, NoTS
<1>4. pc \in [Refreshers -> PCs]
  BY DEF Init, PCs
<1>5. BoundsType
  BY CountAssumption DEF Init, BoundsType
<1> QED
  BY <1>1, <1>2, <1>3, <1>4, <1>5 DEF TypeOK

LEMMA HooksType ==
  ASSUME TypeOK,
         \/ \E x \in Reactions : React(x)
         \/ Hook \/ HookUnresolved \/ HookSchedule
         \/ \E r \in Refreshers, s \in Slots : Start(r, s)
  PROVE  TypeOK'
<1> USE DEF world, process, locals, TypeOK, WorldType, ProcessType, LocalsType, BoundsType
<1>1. ASSUME NEW x \in Reactions, React(x) PROVE TypeOK'
  BY <1>1, CountAssumption DEF React
<1>2. CASE Hook
  BY <1>2 DEF Hook
<1>3. CASE HookUnresolved
  <2>1. pending' \subseteq Slots
    BY <1>3 DEF HookUnresolved, Slots
  <2>2. WorldType' /\ LocalsType' /\ pc' = pc
    BY <1>3 DEF HookUnresolved
  <2>3. hooks' \in Nat /\ passed' = passed /\ UNCHANGED <<notice, refreshing, mutex>>
    BY <1>3 DEF HookUnresolved
  <2>4. BoundsType'
    <3>1. faults < MaxFaults /\ faults' = faults + 1 /\ degraded' = FALSE /\ changes' = changes
      BY <1>3 DEF HookUnresolved
    <3> QED
      BY <3>1, CountedType
  <2> QED
    BY <2>1, <2>2, <2>3, <2>4
<1>4. CASE HookSchedule
  <2>1. pending' \subseteq Slots
    BY <1>4 DEF HookSchedule, Slots
  <2>2. WorldType' /\ LocalsType' /\ pc' = pc
    BY <1>4 DEF HookSchedule
  <2>3. hooks' = hooks /\ passed' \in Nat /\ UNCHANGED <<notice, refreshing, mutex>>
    BY <1>4 DEF HookSchedule
  <2>4. BoundsType'
    BY <1>4 DEF HookSchedule
  <2> QED
    BY <2>1, <2>2, <2>3, <2>4
<1>5. ASSUME NEW r \in Refreshers, NEW s \in Slots, Start(r, s) PROVE TypeOK'
  BY <1>5 DEF Start, Goto, PCs
<1> QED
  BY <1>1, <1>2, <1>3, <1>4, <1>5

LEMMA EntryType ==
  ASSUME TypeOK, NEW r \in Refreshers,
         Check(r) \/ Trigger(r) \/ SetFlag(r) \/ Acquire(r)
  PROVE  TypeOK'
<1> USE DEF world, process, locals, TypeOK, WorldType, ProcessType, LocalsType
<1>1. CASE Check(r)
  BY <1>1 DEF Check, Goto, PCs, BoundsType
<1>2. CASE Trigger(r)
  <2>1. BoundsType'
    BY <1>2, FaultType DEF Trigger, BoundsType
  <2> QED
    BY <1>2, <2>1 DEF Trigger, Goto, PCs
<1>3. CASE SetFlag(r)
  BY <1>3 DEF SetFlag, Goto, PCs, BoundsType
<1>4. CASE Acquire(r)
  BY <1>4 DEF Acquire, Goto, PCs, Critical, BoundsType
<1> QED
  BY <1>1, <1>2, <1>3, <1>4

LEMMA ReadType ==
  ASSUME TypeOK, NEW r \in Refreshers,
         Load(r) \/ FetchEvents(r) \/ Aggregate(r) \/ List(r)
  PROVE  TypeOK'
<1> USE DEF TypeOK
<1>1. CASE Load(r)
  <2>1. WorldType' /\ (pc \in [Refreshers -> PCs])' /\ BoundsType' /\ ProcessType'
    <3>1. BoundsType'
      BY <1>1, FaultType DEF Load, BoundsType
    <3> QED
      BY <1>1, <3>1 DEF Load, Abort, Goto, PCs, Critical, world, WorldType, ProcessType
  <2>2. meta' \in [Refreshers -> Meta]
    <3>1. \A i \in 1..Parts : parts[i] \in Meta
      BY DEF WorldType
    <3> QED
      BY <1>1, <3>1, MergedType DEF Load, LocalsType
  <2>3. tries' \in [Refreshers -> 0..Attempts]
    BY <1>1, CountAssumption DEF Load, LocalsType
  <2>4. UNCHANGED <<slot, events, aggregated, keep, extras, again, part>>
    BY <1>1 DEF Load
  <2> QED
    BY <2>1, <2>2, <2>3, <2>4 DEF LocalsType
<1>2. CASE FetchEvents(r)
  <2>1. BoundsType'
    BY <1>2, FaultType DEF FetchEvents, BoundsType
  <2>2. WorldType' /\ ProcessType' /\ (pc \in [Refreshers -> PCs])'
    BY <1>2 DEF FetchEvents, Abort, Goto, PCs, Critical, world, WorldType, ProcessType
  <2>3. LocalsType'
    BY <1>2 DEF FetchEvents, LocalsType, WorldType
  <2> QED
    BY <2>1, <2>2, <2>3
<1>3. CASE Aggregate(r)
  <2>1. BoundsType'
    BY <1>3, FaultType DEF Aggregate, BoundsType
  <2>2. WorldType' /\ ProcessType' /\ (pc \in [Refreshers -> PCs])'
    BY <1>3 DEF Aggregate, Abort, Goto, PCs, Critical, world, WorldType, ProcessType
  <2>3. meta' \in [Refreshers -> Meta]
    <3>1. {EmojiOf[x] : x \in events[r] \cap Discord} \subseteq Emoji
      BY ReactionAssumption DEF LocalsType
    <3>2. CASE ChooseEmoji(r)
      BY SMTT(30), <3>1, <3>2, WithEmoji DEF ChooseEmoji, LocalsType
    <3>3. CASE UNCHANGED meta
      BY <3>3 DEF LocalsType
    <3> QED
      BY <1>3, <3>2, <3>3 DEF Aggregate
  <2>4. aggregated' \in [Refreshers -> SUBSET Reactions]
    BY <1>3 DEF Aggregate, LocalsType, WorldType
  <2>5. tries' \in [Refreshers -> 0..Attempts]
    BY <1>3, CountAssumption DEF Aggregate, LocalsType
  <2>6. UNCHANGED <<slot, events, keep, extras, again, part>>
    BY <1>3 DEF Aggregate
  <2> QED
    BY <2>1, <2>2, <2>3, <2>4, <2>5, <2>6 DEF LocalsType
<1>4. CASE List(r)
  <2> DEFINE preferred == IF again[r] THEN NoTS ELSE meta[r].ts
  <2>1. preferred \in Nat
    BY MetaFields DEF LocalsType, NoTS
  <2>2. PICK found \in {TimeStamps, {}} :
          /\ \/ found = TimeStamps /\ UNCHANGED <<faults, degraded>>
             \/ found # TimeStamps /\ Fault
          /\ keep' = [keep EXCEPT ![r] = Kept(found, preferred)]
          /\ extras' = [extras EXCEPT ![r] = found \ {Kept(found, preferred)}]
          /\ meta' = IF again[r] THEN meta
                     ELSE [meta EXCEPT ![r].ts = Kept(found, preferred)]
    BY <1>4 DEF List
  <2> HIDE DEF preferred
  <2>3. found \in SUBSET Nat /\ Kept(found, preferred) \in Nat
    BY <2>1, <2>2, TimeStampsType, KeptType
  <2>4. LocalsType'
    <3>1. meta' \in [Refreshers -> Meta]
      BY <2>2, <2>3, WithTS DEF LocalsType
    <3>2. keep' \in [Refreshers -> Nat] /\ extras' \in [Refreshers -> SUBSET Nat]
      BY <2>2, <2>3 DEF LocalsType
    <3> QED
      BY <1>4, <3>1, <3>2 DEF List, LocalsType
  <2>5. BoundsType'
    BY <1>4, <2>2, FaultType DEF List, BoundsType
  <2> QED
    BY <1>4, <2>4, <2>5 DEF List, Goto, PCs, Critical, world, process, WorldType, ProcessType
<1> QED
  BY <1>1, <1>2, <1>3, <1>4

LEMMA WriteType ==
  ASSUME TypeOK, NEW r \in Refreshers,
         Delete(r) \/ Post(r) \/ Update(r) \/ UpdateFails(r) \/ GiveUp(r)
  PROVE  TypeOK'
<1> USE DEF TypeOK
<1>0. aggregated[r] \in SUBSET Reactions /\ keep[r] \in Nat
  BY DEF LocalsType
<1>1. CASE Delete(r)
  <2>1. BoundsType'
    BY <1>1, FaultType DEF Delete, BoundsType
  <2> QED
    BY <1>1, <2>1 DEF Delete, Goto, PCs, Critical, process, locals, WorldType, ProcessType,
                      LocalsType
<1>2. CASE Post(r)
  <2>1. BoundsType'
    BY <1>2, FaultType DEF Post, BoundsType
  <2>2. SummaryOf(nextTS, aggregated[r]) \in Message /\ nextTS \in Nat
    BY <1>0, SummaryType DEF WorldType
  <2>3. WorldType'
    BY <1>2, <2>2 DEF Post, WorldType
  <2>4. meta' \in [Refreshers -> Meta]
    BY <1>2, <2>2, WithTS DEF Post, LocalsType
  <2>5. part' \in [Refreshers -> 1..Parts]
    BY <1>2, CountAssumption DEF Post, LocalsType
  <2>6. LocalsType'
    BY <1>2, <2>4, <2>5 DEF Post, LocalsType
  <2> QED
    BY <1>2, <2>1, <2>3, <2>6 DEF Post, Abort, Goto, PCs, Critical, ProcessType
<1>3. CASE Update(r)
  <2>1. WorldType'
    BY <1>3, UpdatedType DEF Update, WorldType
  <2>2. meta' \in [Refreshers -> Meta]
    BY <1>0, <1>3, WithTS DEF Update, LocalsType
  <2>3. part' \in [Refreshers -> 1..Parts]
    BY <1>3, CountAssumption DEF Update, LocalsType
  <2>4. LocalsType'
    BY <1>3, <2>2, <2>3 DEF Update, LocalsType
  <2> QED
    BY <1>3, <2>1, <2>4 DEF Update, Goto, PCs, Critical, process, ProcessType, BoundsType
<1>4. CASE UpdateFails(r)
  <2>1. BoundsType'
    BY <1>4, FaultType DEF UpdateFails, BoundsType
  <2>2. WorldType'
    BY <1>4, UpdatedType DEF UpdateFails, WorldType
  <2>3. LocalsType'
    BY <1>4 DEF UpdateFails, LocalsType
  <2> QED
    BY <1>4, <2>1, <2>2, <2>3 DEF UpdateFails, Abort, Goto, PCs, Critical, ProcessType
<1>5. CASE GiveUp(r)
  BY <1>5 DEF GiveUp, Abort, Goto, PCs, Critical, world, locals, WorldType, ProcessType,
              LocalsType, BoundsType
<1> QED
  BY <1>1, <1>2, <1>3, <1>4, <1>5

LEMMA EndType ==
  ASSUME TypeOK, NEW r \in Refreshers,
         PersistPart(r) \/ Native(r) \/ Unlock(r) \/ ClearFlag(r)
  PROVE  TypeOK'
<1> USE DEF TypeOK
<1>1. CASE PersistPart(r)
  <2>1. BoundsType'
    BY <1>1, FaultType DEF PersistPart, BoundsType
  <2>2. WorldType'
    BY <1>1 DEF PersistPart, WorldType, LocalsType
  <2>3. part' \in [Refreshers -> 1..Parts]
    BY <1>1, CountAssumption DEF PersistPart, LastPart, LocalsType
  <2>4. LocalsType'
    BY <1>1, <2>3 DEF PersistPart, LocalsType
  <2> QED
    BY <1>1, <2>1, <2>2, <2>4 DEF PersistPart, Goto, PCs, Critical, process, ProcessType
<1>2. CASE Native(r)
  <2>1. BoundsType'
    BY <1>2, FaultType DEF Native, BoundsType
  <2>2. native' \subseteq Emoji
    BY <1>2, WantedType DEF Native, NativeAfter, WorldType
  <2> QED
    BY <1>2, <2>1, <2>2 DEF Native, Goto, PCs, Critical, process, locals, WorldType,
                            ProcessType, LocalsType
<1>3. CASE Unlock(r)
  BY <1>3 DEF Unlock, Goto, PCs, Critical, world, locals, WorldType, ProcessType, LocalsType,
              BoundsType
<1>4. CASE ClearFlag(r)
  <2>1. LocalsType'
    BY <1>4, NoMetaType, CountAssumption DEF ClearFlag, LocalsType, Slots, NoTS
  <2> QED
    BY <1>4, <2>1 DEF ClearFlag, FlagDeleted, Goto, PCs, world, WorldType, ProcessType,
                      BoundsType
<1> QED
  BY <1>1, <1>2, <1>3, <1>4

LEMMA EnvironmentType ==
  ASSUME TypeOK, PostNotice \/ Crash \/ UserDeletes \/ UNCHANGED vars
  PROVE  TypeOK'
<1> USE DEF TypeOK
<1>1. CASE PostNotice
  <2>1. BoundsType'
    BY <1>1, FaultType DEF PostNotice, BoundsType
  <2>2. WorldType'
    <3>1. ErrorNotice(nextTS) \in Message
      BY NoticeType DEF WorldType
    <3> QED
      BY <1>1, <3>1 DEF PostNotice, WorldType
  <2> QED
    BY <1>1, <2>1, <2>2 DEF PostNotice, locals, ProcessType, LocalsType
<1>2. CASE Crash
  <2>1. BoundsType'
    BY <1>2, FaultType DEF Crash
  <2>2. LocalsType'
    BY <1>2, NoMetaType, CountAssumption DEF Crash, LocalsType, Slots, NoTS
  <2>3. ProcessType' /\ WorldType' /\ (pc \in [Refreshers -> PCs])'
    BY <1>2 DEF Crash, world, WorldType, ProcessType, PCs
  <2> QED
    BY <2>1, <2>2, <2>3
<1>3. CASE UserDeletes
  <2>1. BoundsType'
    BY <1>3, FaultType DEF UserDeletes
  <2> QED
    BY <1>3, <2>1 DEF UserDeletes, process, locals, WorldType, ProcessType, LocalsType
<1>4. CASE UNCHANGED vars
  BY <1>4 DEF vars, world, process, locals, WorldType, ProcessType, LocalsType, BoundsType
<1> QED
  BY <1>1, <1>2, <1>3, <1>4

LEMMA TypeStep ==
  ASSUME TypeOK, [Next]_vars
  PROVE  TypeOK'
BY HooksType, EntryType, ReadType, WriteType, EndType, EnvironmentType DEF Next, Refresh

(* The variables hold values of their types in every reachable state.       *)
THEOREM TypeCorrect == Spec => []TypeOK
<1> QED
  BY InitType, TypeStep, PTL DEF Spec

-----------------------------------------------------------------------------
(* Control: who holds the mutex and who owns the flag. *)

(* The steps that neither take nor give back the mutex, set or delete the   *)
(* flag, keep every refresh on its side of the lock.                        *)
LEMMA InnerControl ==
  ASSUME TypeOK, NEW r \in Refreshers,
         \/ Load(r) \/ FetchEvents(r) \/ Aggregate(r) \/ List(r) \/ Delete(r) \/ Post(r)
         \/ Update(r) \/ UpdateFails(r) \/ GiveUp(r) \/ PersistPart(r) \/ Native(r)
  PROVE  /\ pc[r] \in Critical \ {"unlock"} /\ pc'[r] \in Critical
         /\ \A q \in Refreshers \ {r} : pc'[q] = pc[q]
         /\ UNCHANGED <<mutex, refreshing>>
<1> USE DEF TypeOK, Critical, Goto, Abort, world, process, locals
<1>1. CASE Load(r) \/ FetchEvents(r)
  BY <1>1 DEF Load, FetchEvents
<1>2. CASE Aggregate(r)
  BY <1>2 DEF Aggregate
<1>3. CASE List(r) \/ Delete(r)
  BY <1>3 DEF List, Delete
<1>4. CASE Post(r) \/ Update(r) \/ UpdateFails(r) \/ GiveUp(r)
  BY <1>4 DEF Post, Update, UpdateFails, GiveUp
<1>5. CASE PersistPart(r) \/ Native(r)
  BY <1>5 DEF PersistPart, Native
<1> QED
  BY <1>1, <1>2, <1>3, <1>4, <1>5

(* The other steps, with what each does to the program counters. *)
LEMMA OuterControl ==
  ASSUME TypeOK
  PROVE  /\ \/ \E x \in Reactions : React(x)
            \/ Hook \/ HookUnresolved \/ HookSchedule \/ PostNotice \/ UserDeletes
            \/ UNCHANGED vars
            => UNCHANGED <<pc, mutex, refreshing>>
         /\ \A r \in Refreshers :
              \/ \E s \in Slots : Start(r, s)
              \/ Check(r) \/ Trigger(r)
              => /\ pc[r] \in {"idle", "check", "trigger"}
                 /\ pc'[r] \in {"idle", "check", "trigger", "flag"}
                 /\ \A q \in Refreshers \ {r} : pc'[q] = pc[q]
                 /\ UNCHANGED <<mutex, refreshing>>
<1> USE DEF TypeOK, Goto, world, process, locals
<1>1. ASSUME NEW r \in Refreshers, Check(r) \/ Trigger(r) \/ \E s \in Slots : Start(r, s)
      PROVE  /\ pc[r] \in {"idle", "check", "trigger"}
             /\ pc'[r] \in {"idle", "check", "trigger", "flag"}
             /\ \A q \in Refreshers \ {r} : pc'[q] = pc[q]
             /\ UNCHANGED <<mutex, refreshing>>
  BY <1>1 DEF Check, Trigger, Start
<1>2. ASSUME \/ \E x \in Reactions : React(x)
             \/ Hook \/ HookUnresolved \/ HookSchedule \/ PostNotice \/ UserDeletes
             \/ UNCHANGED vars
      PROVE  UNCHANGED <<pc, mutex, refreshing>>
  BY <1>2 DEF React, Hook, HookUnresolved, HookSchedule, PostNotice, UserDeletes, vars
<1> QED
  BY <1>1, <1>2

LEMMA ControlStep ==
  ASSUME TypeOK, MutexHeld, FlagHasOwner, [Next]_vars
  PROVE  MutexHeld' /\ FlagHasOwner'
<1> USE DEF MutexHeld, FlagHasOwner
<1>1. CASE \/ \E x \in Reactions : React(x)
           \/ Hook \/ HookUnresolved \/ HookSchedule \/ PostNotice \/ UserDeletes
           \/ UNCHANGED vars
  <2>1. UNCHANGED <<pc, mutex, refreshing>>
    BY <1>1, OuterControl
  <2> QED
    BY <2>1
<1>2. ASSUME NEW r \in Refreshers, Check(r) \/ Trigger(r) \/ \E s \in Slots : Start(r, s)
      PROVE  MutexHeld' /\ FlagHasOwner'
  BY <1>2, OuterControl DEF Critical
<1>3. ASSUME NEW r \in Refreshers, SetFlag(r) PROVE MutexHeld' /\ FlagHasOwner'
  BY <1>3 DEF SetFlag, Goto, TypeOK, Critical
<1>4. ASSUME NEW r \in Refreshers, Acquire(r) PROVE MutexHeld' /\ FlagHasOwner'
  BY <1>4, ReactionAssumption DEF Acquire, MutexFree, Goto, TypeOK, Critical
<1>5. ASSUME NEW r \in Refreshers,
             \/ Load(r) \/ FetchEvents(r) \/ Aggregate(r) \/ List(r) \/ Delete(r) \/ Post(r)
             \/ Update(r) \/ UpdateFails(r) \/ GiveUp(r) \/ PersistPart(r) \/ Native(r)
      PROVE  MutexHeld' /\ FlagHasOwner'
  <2>1. /\ pc[r] \in Critical \ {"unlock"} /\ pc'[r] \in Critical
        /\ \A q \in Refreshers \ {r} : pc'[q] = pc[q]
        /\ UNCHANGED <<mutex, refreshing>>
    BY <1>5, InnerControl
  <2> QED
    BY <2>1
<1>6. ASSUME NEW r \in Refreshers, Unlock(r) PROVE MutexHeld' /\ FlagHasOwner'
  BY <1>6 DEF Unlock, Goto, TypeOK, Critical
<1>7. ASSUME NEW r \in Refreshers, ClearFlag(r) PROVE MutexHeld' /\ FlagHasOwner'
  BY <1>7 DEF ClearFlag, FlagDeleted, Goto, TypeOK, Critical
<1>8. CASE Crash
  BY <1>8 DEF Crash, Critical
<1> QED
  BY <1>1, <1>2, <1>3, <1>4, <1>5, <1>6, <1>7, <1>8 DEF Next, Refresh

-----------------------------------------------------------------------------
(* The recorded emoji. *)

(* Reading any row, or all of them, gives the emoji recorded in every row.  *)
LEMMA MergedEmoji ==
  ASSUME NEW e \in Emoji, Recorded(e)
  PROVE  Merged.emoji = e
<1> DEFINE LastEmoji(i) == /\ parts[i].emoji # NoEmoji
                           /\ \A j \in 1..Parts : j > i => parts[j].emoji = NoEmoji
<1>1. Parts \in 1..Parts /\ \A j \in 1..Parts : ~(j > Parts)
  BY CountAssumption
<1>2. \E i \in 1..Parts : LastEmoji(i)
  BY <1>1 DEF Recorded
<1>3. (CHOOSE i \in 1..Parts : LastEmoji(i)) \in 1..Parts
  <2> HIDE DEF LastEmoji
  <2> QED
    BY <1>2
<1>4. Merged.emoji = parts[CHOOSE i \in 1..Parts : LastEmoji(i)].emoji
  BY <1>2 DEF Merged
<1> QED
  BY <1>3, <1>4 DEF Recorded

(* A step that leaves the rows alone, and the emoji of every refresh that   *)
(* has loaded them, preserves EmojiKept.                                    *)
LEMMA EmojiFrame ==
  ASSUME EmojiKept, UNCHANGED parts,
         \A q \in Refreshers : pc'[q] \in Loaded =>
            pc[q] \in Loaded /\ meta'[q].emoji = meta[q].emoji
  PROVE  EmojiKept'
BY DEF EmojiKept, Recorded

LEMMA LoadEmoji ==
  ASSUME TypeOK, EmojiKept, NEW r \in Refreshers, Load(r)
  PROVE  EmojiKept'
<1>1. pc'[r] = "events" => meta' = [meta EXCEPT ![r] = Merged]
                           \/ \E i \in 1..Parts : meta' = [meta EXCEPT ![r] = parts[i]]
  BY DEF Load, Abort, Goto, TypeOK
<1>2. pc'[r] \in Loaded => pc'[r] = "events"
  BY DEF Load, Abort, Goto, TypeOK, Loaded
<1>3. \A q \in Refreshers \ {r} : pc'[q] = pc[q] /\ meta'[q] = meta[q]
  BY DEF Load, Abort, Goto, TypeOK, LocalsType
<1>4. UNCHANGED parts
  BY DEF Load, world
<1>5. ASSUME NEW e \in Emoji, Recorded(e), pc'[r] = "events"
      PROVE  meta'[r].emoji = e
  BY <1>1, <1>5, MergedEmoji DEF Recorded, TypeOK, LocalsType
<1> QED
  BY <1>2, <1>3, <1>4, <1>5 DEF EmojiKept, Recorded

LEMMA AggregateEmoji ==
  ASSUME TypeOK, EmojiKept, NEW r \in Refreshers, Aggregate(r)
  PROVE  EmojiKept'
<1>1. UNCHANGED parts /\ \A q \in Refreshers \ {r} : pc'[q] = pc[q] /\ meta'[q] = meta[q]
  BY DEF Aggregate, ChooseEmoji, Abort, Goto, TypeOK, LocalsType, world
<1>2. pc[r] \in Loaded
  BY DEF Aggregate, Loaded, Critical
<1>3. meta[r].emoji # NoEmoji => meta'[r] = meta[r]
  BY DEF Aggregate, ChooseEmoji
<1> QED
  BY <1>1, <1>2, <1>3 DEF EmojiKept, Recorded

LEMMA PersistEmoji ==
  ASSUME TypeOK, MutexHeld, EmojiKept, NEW r \in Refreshers, PersistPart(r)
  PROVE  EmojiKept' /\ \A e \in Emoji : Recorded(e) => Recorded(e)'
<1>1. \A q \in Refreshers : pc'[q] \in Loaded => q = r
  BY DEF PersistPart, Goto, TypeOK, Loaded, Critical, MutexHeld
<1>2. pc[r] \in Loaded /\ UNCHANGED meta /\ part[r] \in 1..Parts
  BY DEF PersistPart, Loaded, Critical, TypeOK, LocalsType
<1>3. UNCHANGED parts \/ parts' = [parts EXCEPT ![part[r]] = meta[r]]
  BY DEF PersistPart
<1>4. ASSUME NEW e \in Emoji, Recorded(e) PROVE Recorded(e)'
  BY ZenonT(60), <1>2, <1>3, <1>4 DEF EmojiKept, Recorded, TypeOK, WorldType
<1>5. ASSUME NEW e \in Emoji, Recorded(e)' PROVE meta[r].emoji = e
  <2>1. CASE UNCHANGED parts
    BY <1>2, <1>5, <2>1 DEF EmojiKept, Recorded
  <2>2. CASE parts' = [parts EXCEPT ![part[r]] = meta[r]]
    BY <1>2, <1>5, <2>2 DEF Recorded, TypeOK, WorldType
  <2> QED
    BY <1>3, <2>1, <2>2
<1> QED
  BY <1>1, <1>2, <1>4, <1>5 DEF EmojiKept

LEMMA EmojiStep ==
  ASSUME TypeOK, MutexHeld, EmojiKept, [Next]_vars
  PROVE  EmojiKept' /\ \A e \in Emoji : Recorded(e) => Recorded(e)'
<1> DEFINE Kept2 == /\ UNCHANGED parts
                    /\ \A q \in Refreshers : pc'[q] \in Loaded =>
                          pc[q] \in Loaded /\ meta'[q].emoji = meta[q].emoji
<1>1. Kept2 => EmojiKept' /\ \A e \in Emoji : Recorded(e) => Recorded(e)'
  BY EmojiFrame DEF Recorded
<1> USE DEF TypeOK, LocalsType, Goto, Abort, Loaded, Critical, world, process, locals
<1>2. CASE \/ \E x \in Reactions : React(x)
           \/ Hook \/ HookUnresolved \/ HookSchedule \/ PostNotice \/ UserDeletes
           \/ UNCHANGED vars
  <2>1. UNCHANGED <<pc, meta, parts>>
    BY <1>2 DEF React, Hook, HookUnresolved, HookSchedule, PostNotice, UserDeletes, vars
  <2> QED
    BY <1>1, <2>1
<1>3. ASSUME NEW r \in Refreshers, Check(r) \/ Trigger(r) \/ \E s \in Slots : Start(r, s)
      PROVE  Kept2
  BY <1>3 DEF Check, Trigger, Start
<1>4. ASSUME NEW r \in Refreshers, SetFlag(r) \/ Acquire(r) PROVE Kept2
  BY <1>4 DEF SetFlag, Acquire
<1>5. ASSUME NEW r \in Refreshers, FetchEvents(r) \/ Delete(r) \/ GiveUp(r) PROVE Kept2
  BY <1>5 DEF FetchEvents, Delete, GiveUp
<1>6. ASSUME NEW r \in Refreshers, List(r) PROVE Kept2
  <2>1. meta'[r].emoji = meta[r].emoji /\ \A q \in Refreshers \ {r} : meta'[q] = meta[q]
    BY <1>6 DEF List, Meta
  <2> QED
    BY <1>6, <2>1 DEF List
<1>7. ASSUME NEW r \in Refreshers, Post(r) \/ Update(r) \/ UpdateFails(r) PROVE Kept2
  <2>1. meta'[r].emoji = meta[r].emoji /\ \A q \in Refreshers \ {r} : meta'[q] = meta[q]
    BY <1>7 DEF Post, Update, UpdateFails, Meta
  <2> QED
    BY <1>7, <2>1 DEF Post, Update, UpdateFails
<1>8. ASSUME NEW r \in Refreshers, Native(r) \/ Unlock(r) PROVE Kept2
  BY <1>8 DEF Native, Unlock
<1>9. ASSUME NEW r \in Refreshers, ClearFlag(r) PROVE Kept2
  BY <1>9 DEF ClearFlag
<1>10. CASE Crash
  <2>1. Kept2
    BY <1>10 DEF Crash
  <2> QED
    BY <1>1, <2>1
<1>11. ASSUME NEW r \in Refreshers, Load(r) \/ Aggregate(r)
       PROVE  EmojiKept' /\ \A e \in Emoji : Recorded(e) => Recorded(e)'
  <2>1. UNCHANGED parts
    BY <1>11 DEF Load, Aggregate
  <2> QED
    BY <1>11, <2>1, LoadEmoji, AggregateEmoji DEF Recorded
<1> HIDE DEF Kept2
<1> QED
  BY <1>1, <1>2, <1>3, <1>4, <1>5, <1>6, <1>7, <1>8, <1>9, <1>10, <1>11, PersistEmoji
  DEF Next, Refresh

-----------------------------------------------------------------------------
(* From the relations to the mirrored message. *)

(* Mutual exclusion: while one refresh acts, the others do not, and none    *)
(* of them is between the relations and the thread.                         *)
LEMMA ActsAlone ==
  ASSUME MutexHeld, NEW r \in Refreshers, pc[r] \in Critical
  PROVE  \A q \in Refreshers \ {r} : pc[q] \notin Critical /\ pc[q] \notin Acting
BY DEF MutexHeld, Critical, Acting

LEMMA NotYetActing ==
  ASSUME NEW r \in Refreshers, pc[r] \notin Acting
  PROVE  Advanced(r)
BY DEF Advanced, Acting

(* What a refresh that acts alone has to show after its step. *)
LEMMA FollowingAlone ==
  ASSUME NEW r \in Refreshers,
         \A q \in Refreshers \ {r} : pc'[q] \notin Acting,
         ~degraded' /\ ~Due' =>
           /\ pc'[r] \in Acting => Advanced(r)'
           /\ pc'[r] \notin Acting => Mirrored'
  PROVE  Following'
<1> SUFFICES ASSUME ~degraded', ~Due'
             PROVE  /\ \A q \in Refreshers : Advanced(q)'
                    /\ (\A q \in Refreshers : pc'[q] \notin Acting) => Mirrored'
  BY DEF Following
<1>1. ASSUME NEW q \in Refreshers, pc'[q] \notin Acting PROVE Advanced(q)'
  BY <1>1 DEF Advanced, Acting
<1>2. ASSUME NEW q \in Refreshers PROVE Advanced(q)'
  BY <1>1
<1> QED
  BY <1>2

(* A step that leaves the world, the refreshes that act and what is due     *)
(* alone.                                                                   *)
LEMMA FollowingFrame ==
  ASSUME Following, UNCHANGED <<reactions, Summaries, native, parts>>,
         ~degraded' => ~degraded, Due => Due',
         \A q \in Refreshers :
           /\ pc[q] \in Acting \/ pc'[q] \in Acting => pc'[q] = pc[q]
           /\ pc'[q] \in Acting =>
                UNCHANGED <<meta[q], aggregated[q], keep[q], extras[q], part[q]>>
  PROVE  Following'
<1> SUFFICES ASSUME ~degraded', ~Due'
             PROVE  /\ \A q \in Refreshers : Advanced(q)'
                    /\ (\A q \in Refreshers : pc'[q] \notin Acting) => Mirrored'
  BY DEF Following
<1>1. /\ \A q \in Refreshers : Advanced(q)
      /\ (\A q \in Refreshers : pc[q] \notin Acting) => Mirrored
  BY DEF Following
<1>2. ASSUME NEW q \in Refreshers PROVE Advanced(q)'
  <2>1. CASE pc'[q] \notin Acting
    BY <2>1 DEF Advanced, Acting
  <2>2. CASE pc'[q] \in Acting
    BY <1>1, <2>2 DEF Advanced
  <2> QED
    BY <2>1, <2>2
<1>3. Mirrored => Mirrored'
  BY DEF Mirrored
<1> QED
  BY <1>1, <1>2, <1>3

(* A step after which something is due, or has gone wrong. *)
LEMMA FollowingDue ==
  ASSUME degraded' \/ Due'
  PROVE  Following'
BY DEF Following

LEMMA UnreadIsDue == Unread => Due
BY DEF Unread, Due, Reading

(* Users' reactions, hooks and the debouncer: what they leave is due, or    *)
(* was dropped too late.                                                    *)
LEMMA HooksFollow ==
  ASSUME TypeOK, Following,
         \/ \E x \in Reactions : React(x)
         \/ Hook \/ HookUnresolved \/ HookSchedule
         \/ \E r \in Refreshers, s \in Slots : Start(r, s)
  PROVE  Following'
<1> USE DEF TypeOK, ProcessType, BoundsType
<1>1. ASSUME NEW x \in Reactions, React(x) PROVE Following'
  <2>1. hooks' > 0
    BY <1>1 DEF React
  <2> QED
    BY <2>1, FollowingDue DEF Due
<1>2. CASE Hook
  <2>1. CASE ~refreshing
    <3>1. passed' > 0
      BY <1>2, <2>1 DEF Hook
    <3> QED
      BY <3>1, FollowingDue DEF Due
  <2>2. CASE refreshing
    <3>1. degraded' = (degraded \/ ~Unread) /\ UNCHANGED pc
      BY <1>2, <2>2 DEF Hook
    <3>2. Unread => Due'
      BY <3>1 DEF Unread, Due, Reading
    <3>3. degraded' \/ Due'
      BY <3>1, <3>2
    <3> QED
      BY <3>3, FollowingDue
  <2> QED
    BY <2>1, <2>2
<1>3. CASE HookUnresolved \/ HookSchedule
  <2>1. pending' # {}
    BY <1>3 DEF HookUnresolved, HookSchedule
  <2> QED
    BY <2>1, FollowingDue DEF Due
<1>4. ASSUME NEW r \in Refreshers, NEW s \in Slots, Start(r, s) PROVE Following'
  <2>1. pc'[r] \in Reading
    BY <1>4 DEF Start, Goto, Reading
  <2> QED
    BY <2>1, FollowingDue DEF Due
<1> QED
  BY <1>1, <1>2, <1>3, <1>4

(* A refresh that is going to read the relations, or fails to. *)
LEMMA EntryFollows ==
  ASSUME TypeOK, Following, NEW r \in Refreshers,
         Check(r) \/ Trigger(r) \/ SetFlag(r) \/ Acquire(r) \/ Load(r) \/ FetchEvents(r)
  PROVE  Following'
<1> USE DEF TypeOK
<1>1. CASE Check(r)
  <2>1. CASE pc'[r] = "trigger"
    BY <2>1, FollowingDue DEF Due, Reading
  <2>2. CASE pc'[r] # "trigger"
    <3>1. degraded' = (degraded \/ ~Unread) /\ pc' = [pc EXCEPT ![r] = "idle"]
          /\ pc[r] = "check"
      BY <1>1, <2>2 DEF Check, Goto
    <3>2. Unread => Due'
      BY <3>1 DEF Unread, Due, Reading
    <3>3. degraded' \/ Due'
      BY <3>1, <3>2
    <3> QED
      BY <3>3, FollowingDue
  <2> QED
    BY <2>1, <2>2
<1>2. CASE Trigger(r) \/ SetFlag(r) \/ Acquire(r)
  <2>1. degraded' \/ pc'[r] \in Reading
    BY <1>2 DEF Trigger, SetFlag, Acquire, Goto, Fault, Reading
  <2> QED
    BY <2>1, FollowingDue DEF Due
<1>3. CASE Load(r) \/ FetchEvents(r)
  <2>1. degraded' \/ pc'[r] \in Reading
    BY <1>3 DEF Load, FetchEvents, Abort, Goto, Fault, Reading
  <2> QED
    BY <2>1, FollowingDue DEF Due
<1> QED
  BY <1>1, <1>2, <1>3

(* The aggregate is what the message has now. *)
LEMMA AggregateFollows ==
  ASSUME TypeOK, MutexHeld, Following, NEW r \in Refreshers, Aggregate(r)
  PROVE  Following'
<1> USE DEF TypeOK
<1>1. \A q \in Refreshers \ {r} : pc'[q] = pc[q]
  BY DEF Aggregate, Abort, Goto
<1>2. CASE pc'[r] = "events"
  BY <1>2, FollowingDue DEF Due, Reading
<1>3. CASE pc'[r] = "list"
  <2>1. aggregated'[r] = reactions' /\ pc[r] \in Critical
    BY <1>3 DEF Aggregate, Abort, Goto, world, LocalsType, Critical
  <2>2. Advanced(r)'
    BY <1>3, <2>1 DEF Advanced
  <2>3. \A q \in Refreshers \ {r} : pc'[q] \notin Acting
    BY <1>1, <2>1, ActsAlone
  <2>4. pc'[r] \in Acting
    BY <1>3 DEF Acting
  <2> QED
    BY <2>2, <2>3, <2>4, FollowingAlone
<1>4. CASE pc'[r] \notin {"events", "list"}
  <2>1. degraded'
    BY <1>4 DEF Aggregate, Abort, Goto, Fault
  <2> QED
    BY <2>1, FollowingDue
<1> QED
  BY <1>2, <1>3, <1>4

(* What a step of a refresh that acts may rely on. *)
LEMMA ActingControl ==
  ASSUME TypeOK, MutexHeld, Following, NEW r \in Refreshers,
         \/ List(r) \/ Delete(r) \/ Post(r) \/ Update(r) \/ UpdateFails(r) \/ GiveUp(r)
         \/ PersistPart(r) \/ Native(r)
  PROVE  /\ \A q \in Refreshers \ {r} : pc'[q] \notin Acting
         /\ UNCHANGED <<reactions, aggregated>>
         /\ ~degraded' /\ ~Due' => Advanced(r)
<1>1. /\ pc[r] \in Acting /\ pc[r] \in Critical
      /\ \A q \in Refreshers \ {r} : pc'[q] = pc[q]
      /\ UNCHANGED <<hooks, passed, pending>>
      /\ degraded => degraded'
  <2> USE DEF TypeOK, Goto, Abort, Fault, process, Acting, Critical
  <2>1. CASE List(r) \/ Delete(r)
    BY <2>1 DEF List, Delete
  <2>2. CASE Post(r) \/ Update(r) \/ GiveUp(r)
    BY <2>2 DEF Post, Update, GiveUp
  <2>3. CASE UpdateFails(r)
    BY <2>3 DEF UpdateFails
  <2>4. CASE PersistPart(r) \/ Native(r)
    BY <2>4 DEF PersistPart, Native
  <2> QED
    BY <2>1, <2>2, <2>3, <2>4
<1>2. UNCHANGED <<reactions, aggregated>>
  <2> USE DEF world, locals
  <2>1. CASE List(r) \/ Delete(r)
    BY <2>1 DEF List, Delete
  <2>2. CASE Post(r) \/ Update(r) \/ UpdateFails(r) \/ GiveUp(r)
    BY <2>2 DEF Post, Update, UpdateFails, GiveUp
  <2>3. CASE PersistPart(r) \/ Native(r)
    BY <2>3 DEF PersistPart, Native
  <2> QED
    BY <2>1, <2>2, <2>3
<1>3. \A q \in Refreshers \ {r} : pc'[q] \notin Acting
  BY <1>1, ActsAlone
<1>4. Due => Due'
  BY <1>1 DEF Due, Reading, Acting
<1> QED
  BY <1>1, <1>2, <1>3, <1>4 DEF Following

LEMMA ListFollows ==
  ASSUME TypeOK, MutexHeld, Following, NEW r \in Refreshers, List(r)
  PROVE  Following'
<1> USE DEF TypeOK
<1>1. pc[r] = "list" /\ pc'[r] = "delete" /\ UNCHANGED thread
  BY DEF List, Goto, world
<1>2. ASSUME ~degraded'
      PROVE  keep'[r] \in Nat /\ extras'[r] = TimeStamps \ {keep'[r]}
  <2> DEFINE preferred == IF again[r] THEN NoTS ELSE meta[r].ts
  <2>1. /\ keep' = [keep EXCEPT ![r] = Kept(TimeStamps, preferred)]
        /\ extras' = [extras EXCEPT ![r] = TimeStamps \ {Kept(TimeStamps, preferred)}]
    BY <1>2 DEF List, Fault
  <2>2. preferred \in Nat
    BY MetaFields DEF LocalsType, NoTS
  <2> HIDE DEF preferred
  <2>3. Kept(TimeStamps, preferred) \in Nat
    BY <2>2, TimeStampsType, KeptType
  <2> QED
    BY <2>1, <2>3 DEF LocalsType
<1>3. ASSUME ~degraded', ~Due' PROVE Advanced(r)'
  <2>1. aggregated'[r] = reactions'
    BY <1>1, <1>3, ActingControl DEF Advanced, Acting
  <2>2. ASSUME NEW m \in Summaries' PROVE m.ts \in extras'[r] \cup {keep'[r]}
    <3>1. m.ts \in TimeStamps
      BY <1>1, <2>2 DEF Summaries, TimeStamps
    <3> QED
      BY <3>1, <1>2, <1>3
  <2> QED
    BY <1>1, <2>1, <2>2 DEF Advanced
<1> QED
  BY <1>1, <1>3, ActingControl, FollowingAlone DEF Acting

LEMMA DeleteFollows ==
  ASSUME TypeOK, MutexHeld, Following, NEW r \in Refreshers, Delete(r)
  PROVE  Following'
<1> USE DEF TypeOK
<1>1. pc[r] = "delete" /\ pc'[r] = "write" /\ UNCHANGED <<keep, extras>>
  BY DEF Delete, Goto, locals
<1>2. ~degraded' => thread' = {m \in thread : m.ts \notin extras[r]}
  BY DEF Delete, Fault
<1>3. ASSUME ~degraded', ~Due' PROVE Advanced(r)'
  <2>1. Advanced(r) /\ UNCHANGED <<reactions, aggregated>>
    BY <1>3, ActingControl
  <2>2. aggregated'[r] = reactions'
    BY <1>1, <2>1 DEF Advanced, Acting
  <2>3. ASSUME NEW m \in Summaries' PROVE m.ts = keep'[r]
    <3>1. m \in Summaries /\ m.ts \notin extras[r]
      BY <1>2, <1>3, <2>3 DEF Summaries
    <3> QED
      BY <3>1, <1>1, <2>1 DEF Advanced
  <2> QED
    BY <1>1, <2>2, <2>3 DEF Advanced
<1> QED
  BY <1>1, <1>3, ActingControl, FollowingAlone DEF Acting

(* After the deletions no summary is left, or only the one to be updated.   *)
LEMMA PostFollows ==
  ASSUME TypeOK, MutexHeld, Stamped, Following, NEW r \in Refreshers, Post(r)
  PROVE  Following'
<1> USE DEF TypeOK
<1>1. pc[r] = "write" /\ keep[r] = NoTS
  BY DEF Post
<1>2. CASE degraded'
  BY <1>2, FollowingDue
<1>3. CASE ~degraded'
  <2>1. /\ thread' = thread \cup {SummaryOf(nextTS, aggregated[r])}
        /\ meta' = [meta EXCEPT ![r].ts = nextTS]
        /\ pc' = [pc EXCEPT ![r] = "persist"]
        /\ part' = [part EXCEPT ![r] = 1]
    BY <1>3 DEF Post, Fault, Goto
  <2>2. pc'[r] = "persist" /\ part'[r] = 1 /\ meta'[r].ts = nextTS
    BY <2>1 DEF LocalsType, Meta
  <2>3. ASSUME ~Due' PROVE Advanced(r)'
    <3>1. Advanced(r) /\ UNCHANGED <<reactions, aggregated>>
      BY <1>3, <2>3, ActingControl
    <3>2. aggregated[r] = reactions
      BY <1>1, <3>1 DEF Advanced, Acting
    <3>3. Summaries = {}
      BY <1>1, <3>1 DEF Advanced, Stamped, Summaries
    <3>4. Summaries' = {SummaryOf(nextTS, reactions)}
      BY <2>1, <3>2, <3>3 DEF Summaries, SummaryOf
    <3>5. ASSUME NEW i \in 1..Parts PROVE ~(i < part'[r])
      BY <2>2
    <3> QED
      BY <2>2, <3>1, <3>2, <3>4, <3>5 DEF Advanced
  <2> QED
    BY <1>3, <2>2, <2>3, ActingControl, FollowingAlone DEF Acting
<1> QED
  BY <1>2, <1>3

LEMMA UpdateFollows ==
  ASSUME TypeOK, MutexHeld, Following, NEW r \in Refreshers, Update(r)
  PROVE  Following'
<1> USE DEF TypeOK
<1>1. /\ pc[r] = "write" /\ keep[r] \in TimeStamps
      /\ thread' = Updated(r)
      /\ meta' = [meta EXCEPT ![r].ts = keep[r]]
      /\ pc' = [pc EXCEPT ![r] = "persist"]
      /\ part' = [part EXCEPT ![r] = 1]
  BY DEF Update, Goto
<1>2. pc'[r] = "persist" /\ part'[r] = 1 /\ meta'[r].ts = keep[r]
  BY <1>1 DEF LocalsType, Meta
<1>3. ASSUME ~degraded', ~Due' PROVE Advanced(r)'
  <2>1. Advanced(r) /\ UNCHANGED <<reactions, aggregated>>
    BY <1>3, ActingControl
  <2>2. aggregated[r] = reactions /\ \A m \in Summaries : m.ts = keep[r]
    BY <1>1, <2>1 DEF Advanced, Acting
  <2>3. PICK n \in thread : n.ts = keep[r]
    BY <1>1 DEF TimeStamps
  <2>4. SummaryOf(keep[r], reactions) \in Summaries'
    BY <1>1, <2>2, <2>3 DEF Updated, Summaries, SummaryOf
  <2>5. ASSUME NEW m \in Summaries' PROVE m = SummaryOf(keep[r], reactions)
    <3>1. PICK n2 \in thread :
            m = IF n2.ts = keep[r] THEN SummaryOf(n2.ts, aggregated[r]) ELSE n2
      BY <1>1, <2>5 DEF Updated, Summaries
    <3>2. CASE n2.ts = keep[r]
      BY <2>2, <3>1, <3>2
    <3>3. CASE n2.ts # keep[r]
      <4>1. m = n2 /\ m.kind = "summary"
        BY <2>5, <3>1, <3>3 DEF Summaries
      <4>2. m \in Summaries
        BY <4>1 DEF Summaries
      <4> QED
        BY <2>2, <3>3, <4>1, <4>2
    <3> QED
      BY <3>2, <3>3
  <2>6. Summaries' = {SummaryOf(keep[r], reactions)}
    BY <2>4, <2>5
  <2>7. ASSUME NEW i \in 1..Parts PROVE ~(i < part'[r])
    BY <1>2
  <2> QED
    BY <1>2, <2>1, <2>2, <2>6, <2>7 DEF Advanced
<1> QED
  BY <1>2, <1>3, ActingControl, FollowingAlone DEF Acting

(* An update fails for want of the message: the thread is searched again.   *)
LEMMA FailedUpdateFollows ==
  ASSUME TypeOK, MutexHeld, Following, NEW r \in Refreshers, UpdateFails(r) \/ GiveUp(r)
  PROVE  Following'
<1> USE DEF TypeOK
<1>1. CASE degraded'
  BY <1>1, FollowingDue
<1>2. CASE ~degraded'
  <2>1. UpdateFails(r)
    BY <1>2 DEF GiveUp
  <2>2. pc[r] = "write" /\ pc' = [pc EXCEPT ![r] = "list"]
    BY <1>2, <2>1 DEF UpdateFails, Fault, Goto, Abort
  <2>3. pc'[r] = "list"
    BY <2>2
  <2>4. ASSUME ~Due' PROVE Advanced(r)'
    <3>1. Advanced(r) /\ UNCHANGED <<reactions, aggregated>>
      BY <1>2, <2>1, <2>4, ActingControl
    <3>2. aggregated'[r] = reactions'
      BY <2>2, <3>1 DEF Advanced, Acting
    <3> QED
      BY <2>3, <3>2 DEF Advanced
  <2> QED
    BY <2>1, <2>3, <2>4, ActingControl, FollowingAlone DEF Acting
<1> QED
  BY <1>1, <1>2

LEMMA PersistFollows ==
  ASSUME TypeOK, MutexHeld, Following, NEW r \in Refreshers, PersistPart(r)
  PROVE  Following'
<1> USE DEF TypeOK
<1>1. CASE degraded'
  BY <1>1, FollowingDue
<1>2. CASE ~degraded'
  <2>1. /\ pc[r] = "persist"
        /\ parts' = [parts EXCEPT ![part[r]] = meta[r]]
        /\ UNCHANGED <<thread, meta>>
        /\ part[r] \in 1..Parts
    BY <1>2 DEF PersistPart, Fault, LocalsType
  <2>2. \/ part[r] # Parts /\ part'[r] = part[r] + 1 /\ pc'[r] = "persist"
        \/ part[r] = Parts /\ pc'[r] = "native"
    BY <1>2 DEF PersistPart, LastPart, Fault, Goto, LocalsType
  <2>3. ASSUME ~Due' PROVE Advanced(r)'
    <3>1. Advanced(r) /\ UNCHANGED <<reactions, aggregated>>
      BY <1>2, <2>3, ActingControl
    <3>2. /\ aggregated'[r] = reactions'
          /\ Summaries' = {SummaryOf(meta'[r].ts, reactions')}
      BY <2>1, <3>1 DEF Advanced, Acting, Summaries
    <3>3. ASSUME NEW i \in 1..Parts, i <= part[r] PROVE parts'[i] = meta'[r]
      BY <2>1, <3>1, <3>3 DEF Advanced, WorldType
    <3>4. ASSUME pc'[r] = "persist", NEW i \in 1..Parts, i < part'[r]
          PROVE  parts'[i] = meta'[r]
      BY <2>1, <2>2, <3>3, <3>4
    <3>5. ASSUME pc'[r] = "native", NEW i \in 1..Parts PROVE parts'[i] = meta'[r]
      BY <2>1, <2>2, <3>3, <3>5, CountAssumption
    <3> QED
      BY <2>2, <3>2, <3>4, <3>5 DEF Advanced
  <2> QED
    BY <2>2, <2>3, ActingControl, FollowingAlone DEF Acting
<1> QED
  BY <1>1, <1>2

(* The last step leaves the message mirrored. *)
LEMMA NativeFollows ==
  ASSUME TypeOK, MutexHeld, Following, NEW r \in Refreshers, Native(r)
  PROVE  Following'
<1> USE DEF TypeOK
<1>1. CASE degraded'
  BY <1>1, FollowingDue
<1>2. CASE ~degraded'
  <2>1. /\ pc[r] = "native" /\ pc'[r] = "unlock"
        /\ native' = (native \ {meta[r].emoji}) \cup Wanted(r)
        /\ UNCHANGED <<reactions, thread, parts>>
    BY <1>2 DEF Native, NativeAfter, Fault, Goto
  <2>2. ASSUME ~Due' PROVE Mirrored'
    <3> DEFINE m == SummaryOf(meta[r].ts, reactions)
               e == meta[r].emoji
    <3>1. Advanced(r)
      BY <1>2, <2>2, ActingControl
    <3>2. /\ aggregated[r] = reactions
          /\ Summaries = {SummaryOf(meta[r].ts, reactions)}
          /\ \A i \in 1..Parts : parts[i] = meta[r]
      BY <2>1, <3>1 DEF Advanced, Acting
    <3>3. Summaries' = {m} /\ m.body = reactions' /\ m.ts = meta[r].ts
      BY <2>1, <3>2 DEF Summaries, SummaryOf
    <3>4. meta[r] = [ts |-> meta[r].ts, emoji |-> e]
      BY DEF LocalsType, Meta
    <3>5. \A i \in 1..Parts : parts'[i] = [ts |-> m.ts, emoji |-> parts'[1].emoji]
      BY <2>1, <3>2, <3>3, <3>4, CountAssumption
    <3>6. parts'[1].emoji = e
      BY <2>1, <3>2, CountAssumption
    <3>7. e \in native' <=> \E x \in reactions : EmojiOf[x] = e
      BY <2>1, <3>2 DEF Wanted
    <3> HIDE DEF m, e
    <3> QED
      BY <2>1, <3>3, <3>5, <3>6, <3>7 DEF Mirrored
  <2> QED
    BY <2>1, <2>2, ActingControl, FollowingAlone DEF Acting
<1> QED
  BY <1>1, <1>2

(* The end of a refresh, notices, crashes and users' deletions. *)
LEMMA EndFollows ==
  ASSUME TypeOK, Following,
         \/ \E r \in Refreshers : Unlock(r) \/ ClearFlag(r)
         \/ PostNotice \/ Crash \/ UserDeletes \/ UNCHANGED vars
  PROVE  Following'
<1> USE DEF TypeOK, LocalsType, world, process, locals
<1>1. ASSUME NEW r \in Refreshers, Unlock(r) \/ ClearFlag(r) PROVE Following'
  <2>1. /\ pc[r] \in {"unlock", "clear"} /\ pc'[r] \in {"clear", "idle"}
        /\ \A q \in Refreshers \ {r} :
             /\ pc'[q] = pc[q]
             /\ UNCHANGED <<meta[q], aggregated[q], keep[q], extras[q], part[q]>>
        /\ UNCHANGED <<world, hooks, passed, pending, degraded>>
    BY <1>1 DEF Unlock, ClearFlag, Goto
  <2>2. UNCHANGED <<reactions, Summaries, native, parts>>
    BY <2>1 DEF Summaries
  <2>3. Due => Due'
    BY <2>1 DEF Due, Reading
  <2>4. \A q \in Refreshers :
          /\ pc[q] \in Acting \/ pc'[q] \in Acting => pc'[q] = pc[q]
          /\ pc'[q] \in Acting =>
               UNCHANGED <<meta[q], aggregated[q], keep[q], extras[q], part[q]>>
    BY <2>1 DEF Acting
  <2> QED
    BY <2>1, <2>2, <2>3, <2>4, FollowingFrame
<1>2. CASE PostNotice
  <2>1. CASE degraded'
    BY <2>1, FollowingDue
  <2>2. CASE ~degraded'
    <3>1. /\ thread' = thread \cup {ErrorNotice(nextTS)}
          /\ UNCHANGED <<reactions, native, parts, hooks, passed, pending, pc, locals, degraded>>
      BY <1>2, <2>2 DEF PostNotice, Fault
    <3>2. Summaries' = Summaries
      BY <3>1 DEF Summaries, ErrorNotice
    <3>3. Due => Due'
      BY <3>1 DEF Due
    <3> QED
      BY <3>1, <3>2, <3>3, FollowingFrame
  <2> QED
    BY <2>1, <2>2
<1>3. CASE Crash \/ UserDeletes
  <2>1. degraded'
    BY <1>3 DEF Crash, UserDeletes, Fault
  <2> QED
    BY <2>1, FollowingDue
<1>4. CASE UNCHANGED vars
  BY SMTT(30), <1>4 DEF vars, Following, Due, Advanced, Mirrored, Summaries
<1> QED
  BY <1>1, <1>2, <1>3, <1>4

LEMMA FollowingStep ==
  ASSUME TypeOK, MutexHeld, Stamped, Following, [Next]_vars
  PROVE  Following'
<1>1. CASE \/ \E x \in Reactions : React(x)
           \/ Hook \/ HookUnresolved \/ HookSchedule
           \/ \E r \in Refreshers, s \in Slots : Start(r, s)
  BY <1>1, HooksFollow
<1>2. ASSUME NEW r \in Refreshers, Refresh(r) PROVE Following'
  <2>1. CASE \/ Check(r) \/ Trigger(r) \/ SetFlag(r) \/ Acquire(r) \/ Load(r) \/ FetchEvents(r)
    BY <2>1, EntryFollows
  <2>2. CASE Aggregate(r) \/ List(r) \/ Delete(r) \/ Post(r) \/ Update(r)
    BY <2>2, AggregateFollows, ListFollows, DeleteFollows, PostFollows, UpdateFollows
  <2>3. CASE UpdateFails(r) \/ GiveUp(r) \/ PersistPart(r) \/ Native(r)
    BY <2>3, FailedUpdateFollows, PersistFollows, NativeFollows
  <2>4. CASE Unlock(r) \/ ClearFlag(r)
    BY <2>4, EndFollows
  <2> QED
    BY <1>2, <2>1, <2>2, <2>3, <2>4 DEF Refresh
<1>3. CASE PostNotice \/ Crash \/ UserDeletes \/ UNCHANGED vars
  BY <1>3, EndFollows
<1> QED
  BY <1>1, <1>2, <1>3 DEF Next

(* Every message of the thread has a timestamp of Slack's. *)
LEMMA StampedStep ==
  ASSUME TypeOK, Stamped, [Next]_vars
  PROVE  Stamped'
<1>0. nextTS # NoTS
  BY DEF TypeOK, WorldType, NoTS
<1>1. ASSUME \A m \in thread' : m \in thread \/ m.ts = nextTS \/ \E n \in thread : m.ts = n.ts
      PROVE  Stamped'
  BY <1>0, <1>1 DEF Stamped
<1>2. ASSUME NEW r \in Refreshers, Delete(r) \/ Post(r) PROVE Stamped'
  BY <1>1, <1>2 DEF Delete, Post, SummaryOf
<1>3. ASSUME NEW r \in Refreshers, Update(r) \/ UpdateFails(r) PROVE Stamped'
  <2>1. thread' = thread \/ thread' = Updated(r)
    BY <1>3 DEF Update, UpdateFails
  <2>2. \A m \in Updated(r) : \E n \in thread : m.ts = n.ts
    BY DEF Updated, SummaryOf
  <2> QED
    BY <1>1, <2>1, <2>2
<1>4. CASE PostNotice \/ UserDeletes
  BY <1>1, <1>4 DEF PostNotice, UserDeletes, ErrorNotice
<1> USE DEF world
<1>5. ASSUME UNCHANGED thread PROVE Stamped'
  BY <1>5 DEF Stamped
<1>6. CASE \/ \E x \in Reactions : React(x)
           \/ Hook \/ HookUnresolved \/ HookSchedule \/ Crash \/ UNCHANGED vars
           \/ \E r \in Refreshers, s \in Slots : Start(r, s)
  BY <1>5, <1>6 DEF React, Hook, HookUnresolved, HookSchedule, Start, Crash, vars
<1>7. ASSUME NEW r \in Refreshers,
             \/ Check(r) \/ Trigger(r) \/ SetFlag(r) \/ Acquire(r) \/ Load(r) \/ FetchEvents(r)
      PROVE  Stamped'
  BY <1>5, <1>7 DEF Check, Trigger, SetFlag, Acquire, Load, FetchEvents
<1>8. ASSUME NEW r \in Refreshers,
             \/ Aggregate(r) \/ List(r) \/ GiveUp(r) \/ PersistPart(r) \/ Native(r) \/ Unlock(r)
             \/ ClearFlag(r)
      PROVE  Stamped'
  BY <1>5, <1>8 DEF Aggregate, List, GiveUp, PersistPart, Native, Unlock, ClearFlag
<1> QED
  BY <1>2, <1>3, <1>4, <1>6, <1>7, <1>8 DEF Next, Refresh

-----------------------------------------------------------------------------
LEMMA InitInv == Init => Inv
<1> SUFFICES ASSUME Init PROVE Inv
  OBVIOUS
<1>1. MutexHeld /\ FlagHasOwner /\ EmojiKept
  BY DEF Init, MutexHeld, FlagHasOwner, EmojiKept, Critical, Loaded
<1>2. Stamped /\ Following
  BY DEF Init, Stamped, Following
<1> QED
  BY <1>1, <1>2, InitType DEF Inv

LEMMA InvStep == Inv /\ [Next]_vars => Inv'
BY TypeStep, ControlStep, EmojiStep, FollowingStep, StampedStep DEF Inv

(* Inv is an invariant, for every number of refreshes, parts and faults.    *)
THEOREM Invariance == Spec => []Inv
<1> QED
  BY InitInv, InvStep, PTL DEF Spec

(* Two refreshes are never between Lock and Unlock at once.                 *)
THEOREM RefreshesExclude == Spec => []OneWriter
<1>1. Inv => OneWriter
  BY DEF Inv, MutexHeld, OneWriter
<1> QED
  BY <1>1, Invariance, PTL

(* The refreshing flag is never left without a refresh that will delete it. *)
THEOREM FlagIsOwned == Spec => []FlagHasOwner
<1>1. Inv => FlagHasOwner
  BY DEF Inv
<1> QED
  BY <1>1, Invariance, PTL

(* At rest, with nothing dropped too late and nothing failed since the last *)
(* Schedule, the message is mirrored: one summary that shows its reactions, *)
(* rows that all point at it, and the bot's reaction if somebody has it.    *)
THEOREM MirrorSettles == Spec => []Settled
<1>1. Inv => Settled
  BY DEF Inv, Following, Settled, Quiet, Due, Reading, Acting
<1> QED
  BY <1>1, Invariance, PTL

(* The emoji that every row names is never changed.                         *)
THEOREM RecordedEmojiIsFinal == Spec => EmojiIsFinal
<1>1. Inv /\ [Next]_vars => [\A e \in Emoji : Recorded(e) => Recorded(e)']_vars
  BY EmojiStep DEF Inv
<1> QED
  BY <1>1, Invariance, PTL DEF Spec, EmojiIsFinal
=============================================================================
