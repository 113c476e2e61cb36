--------------------------- MODULE Debouncer_proofs ---------------------------
(***************************************************************************)
(* Proofs about Debouncer for every set of keys, every number of calls and *)
(* every delay: the inductive invariant Inv, the action properties that    *)
(* follow from it, and that the debouncer implements DebounceSpec.         *)
(***************************************************************************)
EXTENDS Debouncer, TLAPS

(* The function of the next call exists, and a delay is a legal time.       *)
LEMMA NextFn ==
  ASSUME TypeOK, issued < MaxCalls
  PROVE  issued + 1 \in Fns /\ issued + 1 \in Tasks /\ issued + 1 \in 0..MaxCalls
  BY CallsAssumption DEF TypeOK, Fns, Tasks

LEMMA Ticks == Delay \in 0..Delay /\ 0 \in 0..Delay /\ Delay \in Nat /\ Delay > 0
  BY DelayAssumption

LEMMA TaskIsNumber == \A t \in Tasks : t \in Nat /\ t # NoTask /\ t \in Fns
  BY CallsAssumption DEF Tasks, Fns, NoTask

(* A callback belongs to a task that was created, so it has a key.          *)
LEMMA CallbackHasKey ==
  ASSUME TypeOK, NotIssued, NEW t \in Tasks, callbacks[t] > 0 \/ timer[t] # Stopped
  PROVE  keyOf[t] \in Keys /\ t <= issued
  <1>1. t \in Fns /\ t \in Nat /\ issued \in Nat
    BY TaskIsNumber, CallsAssumption DEF TypeOK
  <1>2. ~ (t > issued)
    BY DEF NotIssued
  <1>3. keyOf[t] # NoKey
    BY <1>1, <1>2 DEF NotIssued
  <1> QED
    BY <1>1, <1>2, <1>3 DEF TypeOK

-----------------------------------------------------------------------------
(* Type correctness.  A callback reads the map under its key, which is a    *)
(* key only because NotIssued holds. *)

LEMMA InitType == Init => TypeOK
  <1> SUFFICES ASSUME Init PROVE TypeOK
    OBVIOUS
  <1>1. issued \in 0..MaxCalls
    BY CallsAssumption DEF Init
  <1>2. since \in [Keys -> 0..Delay]
    BY DelayAssumption DEF Init
  <1>3. fn \in [Tasks -> Fns]
    BY DEF Init, Tasks
  <1>4. timer \in [Tasks -> 0..Delay \cup {Stopped}]
    BY DEF Init
  <1>5. keyOf \in [Fns -> Keys \cup {NoKey}]
    BY DEF Init
  <1> QED
    BY <1>1, <1>2, <1>3, <1>4, <1>5 DEF Init, TypeOK

LEMMA TypeStep == TypeOK /\ NotIssued /\ [Next]_vars => TypeOK'
  <1> SUFFICES ASSUME TypeOK, NotIssued, [Next]_vars PROVE TypeOK'
    OBVIOUS
  <1> USE DEF TypeOK
  <1>1. ASSUME NEW k \in Keys, Schedule(k) PROVE TypeOK'
    <2>1. issued + 1 \in Fns /\ issued + 1 \in Tasks /\ issued + 1 \in 0..MaxCalls
      BY <1>1, NextFn DEF Schedule
    <2>2. (timer \in [Tasks -> 0..Delay \cup {Stopped}])'
      BY <1>1, <2>1, Ticks DEF Schedule, Reschedule, NewTask
    <2>3. (tasks \in [Keys -> Tasks \cup {NoTask}])'
      BY <1>1, <2>1 DEF Schedule, Reschedule, NewTask
    <2>4. (fn \in [Tasks -> Fns])'
      BY <1>1, <2>1 DEF Schedule, Reschedule, NewTask
    <2>5. (keyOf \in [Fns -> Keys \cup {NoKey}])'
      BY <1>1, <2>1 DEF Schedule
    <2>6. (since \in [Keys -> 0..Delay])'
      BY <1>1, Ticks DEF Schedule
    <2>7. (raced \subseteq Keys)'
      BY <1>1 DEF Schedule
    <2> QED
      BY <1>1, <2>1, <2>2, <2>3, <2>4, <2>5, <2>6, <2>7 DEF Schedule
  <1>2. ASSUME NEW t \in Tasks, Fire(t) PROVE TypeOK'
    BY <1>2 DEF Fire
  <1>3. ASSUME NEW t \in Tasks, Callback(t) PROVE TypeOK'
    <2>1. (tasks \in [Keys -> Tasks \cup {NoTask}])'
      BY <1>3 DEF Callback, Unlink
    <2>2. (callbacks \in [Tasks -> Nat])'
      <3>1. callbacks[t] \in Nat /\ callbacks[t] > 0
        BY <1>3 DEF Callback
      <3>2. callbacks[t] - 1 \in Nat
        BY <3>1
      <3> QED
        BY <1>3, <3>2 DEF Callback
    <2>3. (taken \subseteq Tasks)'
      <3>1. tasks[keyOf[t]] \in Tasks \cup {NoTask}
        BY <1>3, CallbackHasKey DEF Callback
      <3> QED
        BY <1>3, <3>1 DEF Callback, Unlink
    <2> QED
      BY <1>3, <2>1, <2>2, <2>3 DEF Callback
  <1>4. ASSUME NEW t \in Tasks, Run(t) PROVE TypeOK'
    BY <1>4 DEF Run
  <1>5. ASSUME NEW f \in Fns, Return(f) PROVE TypeOK'
    BY <1>5 DEF Return
  <1>6. ASSUME Tick PROVE TypeOK'
    <2>1. (timer \in [Tasks -> 0..Delay \cup {Stopped}])'
      BY <1>6, Ticks DEF Tick, Stopped
    <2>2. (since \in [Keys -> 0..Delay])'
      BY <1>6, Ticks DEF Tick
    <2> QED
      BY <1>6, <2>1, <2>2 DEF Tick
  <1>7. CASE UNCHANGED vars
    BY <1>7 DEF vars
  <1> QED
    BY <1>1, <1>2, <1>3, <1>4, <1>5, <1>6, <1>7 DEF Next

-----------------------------------------------------------------------------
(* How the actions move tasks between the map and the callbacks.            *)

LEMMA InLive ==
  ASSUME NEW t
  PROVE  t \in Live <=> t \in taken \/ \E k \in Keys : tasks[k] # NoTask /\ tasks[k] = t
  BY DEF Live

LEMMA LiveIsIssued ==
  ASSUME TypeOK, NotIssued, NEW t \in Live
  PROVE  t \in Tasks /\ t <= issued /\ fn[t] \in Fns /\ fn[t] <= issued
  BY InLive DEF NotIssued, TypeOK

(* Schedule either refills the key's task or makes f both task and function.*)
LEMMA ScheduleShape ==
  ASSUME TypeOK, NotIssued, NEW k \in Keys, Schedule(k)
  PROVE  /\ issued + 1 \in Fns /\ issued + 1 \in Tasks /\ issued \in Nat
         /\ issued' = issued + 1
         /\ keyOf' = [keyOf EXCEPT ![issued + 1] = k]
         /\ UNCHANGED <<callbacks, taken, running, finished>>
         /\ tasks'[k] \in Live' /\ tasks'[k] \in Tasks
         /\ fn' = [fn EXCEPT ![tasks'[k]] = issued + 1]
         /\ timer' = [timer EXCEPT ![tasks'[k]] = Delay]
         /\ tasks' = [tasks EXCEPT ![k] = tasks'[k]]
         /\ tasks'[k] = IF tasks[k] = NoTask THEN issued + 1 ELSE tasks[k]
         /\ tasks'[k] <= issued + 1
  <1>1. issued + 1 \in Fns /\ issued + 1 \in Tasks /\ issued \in Nat /\ issued + 1 # NoTask
    BY NextFn, CallsAssumption, TaskIsNumber DEF Schedule, TypeOK
  <1>2. CASE tasks[k] = NoTask
    <2>1. NewTask(k, issued + 1)
      BY <1>2 DEF Schedule
    <2>2. tasks'[k] = issued + 1
      BY <2>1, <1>1 DEF NewTask, TypeOK
    <2>3. tasks'[k] \in Live'
      BY <2>2, <1>1 DEF Live
    <2> QED
      BY <1>1, <1>2, <2>1, <2>2, <2>3 DEF Schedule, NewTask, TypeOK
  <1>3. CASE tasks[k] # NoTask
    <2>1. Reschedule(tasks[k], issued + 1)
      BY <1>3 DEF Schedule
    <2>2. tasks' = tasks /\ tasks[k] \in Tasks
      BY <2>1, <1>3 DEF Reschedule, TypeOK
    <2>3. tasks'[k] \in Live'
      BY <2>2, <1>3 DEF Live
    <2>4. tasks[k] \in Live
      BY <1>3 DEF Live
    <2>5. tasks[k] <= issued + 1
      BY <1>1, <2>2, <2>4, LiveIsIssued, TaskIsNumber
    <2> QED
      BY <1>1, <1>3, <2>1, <2>2, <2>3, <2>5 DEF Schedule, Reschedule, TypeOK
  <1> QED
    BY <1>2, <1>3

(* After a Schedule the live tasks are those before it and the key's task.  *)
LEMMA ScheduleLive ==
  ASSUME TypeOK, NotIssued, NEW k \in Keys, Schedule(k), NEW t \in Live'
  PROVE  t \in Live \/ t = tasks'[k]
  BY ScheduleShape, InLive DEF Live, TypeOK

(* A callback empties its key and takes the task it found there.            *)
LEMMA CallbackShape ==
  ASSUME TypeOK, NotIssued, NEW t \in Tasks, Callback(t)
  PROVE  /\ keyOf[t] \in Keys
         /\ UNCHANGED <<issued, keyOf, fn, timer, running, finished, since, raced>>
         /\ callbacks' = [callbacks EXCEPT ![t] = callbacks[t] - 1]
         /\ callbacks[t] > 0
         /\ tasks' = [tasks EXCEPT ![keyOf[t]] = NoTask]
         /\ tasks[keyOf[t]] \in Tasks \cup {NoTask}
         /\ tasks[keyOf[t]] # NoTask => tasks[keyOf[t]] \in Live
         /\ taken' = IF tasks[keyOf[t]] # NoTask THEN taken \cup {tasks[keyOf[t]]} ELSE taken
         /\ Live' \subseteq Live
  <1>1. keyOf[t] \in Keys
    BY CallbackHasKey DEF Callback
  <1>2. tasks' = [tasks EXCEPT ![keyOf[t]] = NoTask]
    BY DEF Callback, Unlink
  <1>3. tasks[keyOf[t]] \in Tasks \cup {NoTask}
    BY <1>1 DEF TypeOK
  <1>4. tasks[keyOf[t]] # NoTask => tasks[keyOf[t]] \in Live
    BY <1>1 DEF Live
  <1>5. taken' = IF tasks[keyOf[t]] # NoTask THEN taken \cup {tasks[keyOf[t]]} ELSE taken
    BY DEF Callback, Unlink
  <1>6. Live' \subseteq Live
    BY <1>1, <1>2, <1>4, <1>5 DEF Live, TypeOK
  <1> QED
    BY <1>1, <1>2, <1>3, <1>4, <1>5, <1>6 DEF Callback

LEMMA OtherLive ==
  /\ \A t \in Tasks : Fire(t) => Live' = Live
  /\ \A t \in Tasks : Run(t) => Live' \subseteq Live
  /\ \A f \in Fns : Return(f) => Live' = Live
  /\ Tick => Live' = Live
  /\ UNCHANGED vars => Live' = Live
  BY DEF Live, Fire, Run, Return, Tick, vars

-----------------------------------------------------------------------------
(* The parts of the inductive invariant, one lemma each. *)

LEMMA NotIssuedStep == TypeOK /\ NotIssued /\ [Next]_vars => NotIssued'
  <1> SUFFICES ASSUME TypeOK, NotIssued, [Next]_vars PROVE NotIssued'
    OBVIOUS
  <1>1. ASSUME NEW k \in Keys, Schedule(k) PROVE NotIssued'
    <2>1. \A g \in Fns : (g > issued <=> keyOf[g] = NoKey)'
      BY <1>1, ScheduleShape, KeysAssumption, CallsAssumption DEF NotIssued, TypeOK, Fns
    <2>2. \A t \in Tasks : (t > issued => timer[t] = Stopped /\ callbacks[t] = 0 /\ t \notin taken)'
      BY <1>1, ScheduleShape, TaskIsNumber DEF NotIssued, TypeOK
    <2>3. \A g \in running' \cup finished' : g <= issued'
      BY <1>1, ScheduleShape, TaskIsNumber DEF NotIssued, TypeOK, Tasks
    <2>4. \A t \in Live' : t <= issued' /\ fn'[t] <= issued'
      <3> SUFFICES ASSUME NEW t \in Live' PROVE t <= issued' /\ fn'[t] <= issued'
        OBVIOUS
      <3>1. CASE t = tasks'[k]
        BY <1>1, <3>1, ScheduleShape DEF TypeOK
      <3>2. CASE t \in Live /\ t # tasks'[k]
        <4>1. t \in Tasks /\ t \in Nat /\ fn[t] \in Nat /\ t <= issued /\ fn[t] <= issued
          BY <3>2, LiveIsIssued, TaskIsNumber DEF Tasks
        <4> QED
          BY <1>1, <3>2, <4>1, ScheduleShape DEF TypeOK
      <3> QED
        BY <1>1, <3>1, <3>2, ScheduleLive
    <2> QED
      BY <2>1, <2>2, <2>3, <2>4 DEF NotIssued
  <1>2. ASSUME NEW t \in Tasks, Fire(t) PROVE NotIssued'
    <2>1. ~ (t > issued)
      BY <1>2 DEF Fire, NotIssued, Stopped
    <2> QED
      BY <1>2, <2>1, OtherLive DEF Fire, NotIssued, TypeOK
  <1>3. ASSUME NEW t \in Tasks, Callback(t) PROVE NotIssued'
    <2>1. ~ (t > issued)
      BY <1>3 DEF Callback, NotIssued
    <2>2. \A u \in Tasks : u > issued => u \notin taken'
      <3> SUFFICES ASSUME NEW u \in Tasks, u \in taken' PROVE ~ (u > issued)
        OBVIOUS
      <3>1. u \in Live
        BY <1>3, CallbackShape, InLive
      <3> QED
        BY <3>1, LiveIsIssued, TaskIsNumber DEF TypeOK
    <2> QED
      BY <1>3, <2>1, <2>2, CallbackShape DEF NotIssued, TypeOK
  <1>4. ASSUME NEW t \in Tasks, Run(t) PROVE NotIssued'
    <2>1. fn[t] <= issued
      BY <1>4 DEF Run, NotIssued, Live
    <2> QED
      BY <1>4, <2>1, OtherLive DEF Run, NotIssued
  <1>5. ASSUME NEW f \in Fns, Return(f) PROVE NotIssued'
    BY <1>5, OtherLive DEF Return, NotIssued
  <1>6. ASSUME Tick PROVE NotIssued'
    BY <1>6, OtherLive DEF Tick, NotIssued, Stopped, TypeOK
  <1>7. CASE UNCHANGED vars
    BY <1>7, OtherLive DEF vars, NotIssued
  <1> QED
    BY <1>1, <1>2, <1>3, <1>4, <1>5, <1>6, <1>7 DEF Next

LEMMA NoLostTaskStep ==
  TypeOK /\ NotIssued /\ MapIsCurrent /\ NoLostTask /\ [Next]_vars => NoLostTask'
  <1> SUFFICES ASSUME TypeOK, NotIssued, MapIsCurrent, NoLostTask, [Next]_vars,
                      NEW j \in Keys, tasks'[j] # NoTask
               PROVE  timer'[tasks'[j]] # Stopped \/ callbacks'[tasks'[j]] > 0
    BY DEF NoLostTask
  <1> DEFINE Held == timer'[tasks'[j]] # Stopped \/ callbacks'[tasks'[j]] > 0
  <1>0. Delay # Stopped
    BY Ticks DEF Stopped
  <1>1. ASSUME NEW k \in Keys, Schedule(k) PROVE Held
    BY <1>0, <1>1, ScheduleShape DEF NoLostTask, TypeOK
  <1>2. ASSUME NEW t \in Tasks, Fire(t) PROVE Held
    BY <1>2 DEF Fire, NoLostTask, TypeOK
  <1>3. ASSUME NEW t \in Tasks, Callback(t) PROVE Held
    <2>1. j # keyOf[t] /\ tasks'[j] = tasks[j]
      BY <1>3, CallbackShape DEF TypeOK
    <2>2. tasks[j] # t
      BY <2>1 DEF MapIsCurrent
    <2> QED
      BY <1>3, <2>1, <2>2, CallbackShape DEF NoLostTask, TypeOK
  <1>4. ASSUME NEW t \in Tasks, Run(t) PROVE Held
    BY <1>4 DEF Run, NoLostTask
  <1>5. ASSUME NEW f \in Fns, Return(f) PROVE Held
    BY <1>5 DEF Return, NoLostTask
  <1>6. ASSUME Tick PROVE Held
    BY <1>6 DEF Tick, NoLostTask, TypeOK, Stopped
  <1>7. CASE UNCHANGED vars
    BY <1>7 DEF vars, NoLostTask
  <1> QED
    BY <1>1, <1>2, <1>3, <1>4, <1>5, <1>6, <1>7 DEF Next

LEMMA MapIsCurrentStep ==
  TypeOK /\ NotIssued /\ MapIsCurrent /\ [Next]_vars => MapIsCurrent'
  <1> DEFINE At(j) == /\ keyOf[tasks[j]] = j
                      /\ keyOf[fn[tasks[j]]] = j
                      /\ \A f \in Fns : keyOf[f] = j => f <= fn[tasks[j]]
                      /\ tasks[j] \notin taken
  <1> SUFFICES ASSUME TypeOK, NotIssued, MapIsCurrent, [Next]_vars,
                      NEW j \in Keys, tasks'[j] # NoTask
               PROVE  At(j)'
    BY DEF MapIsCurrent
  <1>0. tasks[j] # NoTask => At(j) /\ tasks[j] \in Live /\ tasks[j] \in Tasks
    BY DEF MapIsCurrent, Live, TypeOK
  <1>1. ASSUME NEW k \in Keys, Schedule(k) PROVE At(j)'
    <2> DEFINE f == issued + 1
    <2>0. f \in Fns /\ f \in Tasks /\ keyOf[f] = NoKey /\ f \notin taken
      BY <1>1, ScheduleShape DEF NotIssued
    <2>1. CASE j = k
      <3>1. keyOf'[tasks'[k]] = k
        BY <1>0, <1>1, <2>0, <2>1, ScheduleShape DEF TypeOK, Tasks
      <3>2. fn'[tasks'[k]] = f /\ keyOf'[f] = k
        BY <1>1, <2>0, ScheduleShape DEF TypeOK
      <3>3. \A g \in Fns : keyOf'[g] = k => g <= f
        BY <1>1, <2>0, ScheduleShape, KeysAssumption, TaskIsNumber
        DEF TypeOK, NotIssued, Tasks
      <3>4. tasks'[k] \notin taken'
        BY <1>0, <1>1, <2>0, <2>1, ScheduleShape
      <3> QED
        BY <2>1, <3>1, <3>2, <3>3, <3>4
    <2>2. CASE j # k
      <3>1. tasks'[j] = tasks[j] /\ taken' = taken
        BY <1>1, <2>2, ScheduleShape DEF TypeOK
      <3>2. tasks'[k] # tasks[j]
        BY <1>0, <1>1, <2>0, <2>2, <3>1, ScheduleShape, KeysAssumption DEF MapIsCurrent
      <3>3. fn'[tasks[j]] = fn[tasks[j]] /\ fn[tasks[j]] \in Fns
        BY <1>0, <1>1, <3>1, <3>2, ScheduleShape DEF TypeOK
      <3>4. \A g \in Fns : g # f => keyOf'[g] = keyOf[g]
        BY <1>1, ScheduleShape DEF TypeOK
      <3>5. tasks[j] # f /\ fn[tasks[j]] # f /\ keyOf'[f] = k
        BY <1>0, <1>1, <2>0, <3>1, KeysAssumption, ScheduleShape DEF TypeOK
      <3> QED
        BY <1>0, <2>2, <3>1, <3>3, <3>4, <3>5 DEF Tasks
    <2> QED
      BY <2>1, <2>2
  <1>2. ASSUME NEW t \in Tasks, Fire(t) PROVE At(j)'
    BY <1>0, <1>2 DEF Fire
  <1>3. ASSUME NEW t \in Tasks, Callback(t) PROVE At(j)'
    <2>1. j # keyOf[t] /\ tasks'[j] = tasks[j]
      BY <1>3, CallbackShape DEF TypeOK
    <2>2. tasks[keyOf[t]] # tasks[j] \/ tasks[keyOf[t]] = NoTask
      BY <1>3, <2>1, CallbackShape DEF MapIsCurrent
    <2>3. tasks'[j] \notin taken'
      BY <1>0, <1>3, <2>1, <2>2, CallbackShape
    <2> QED
      BY <1>0, <1>3, <2>1, <2>3, CallbackShape
  <1>4. ASSUME NEW t \in Tasks, Run(t) PROVE At(j)'
    BY <1>0, <1>4 DEF Run
  <1>5. ASSUME NEW f \in Fns, Return(f) PROVE At(j)'
    BY <1>0, <1>5 DEF Return
  <1>6. ASSUME Tick PROVE At(j)'
    BY <1>0, <1>6 DEF Tick
  <1>7. CASE UNCHANGED vars
    BY <1>0, <1>7 DEF vars
  <1> QED
    BY <1>1, <1>2, <1>3, <1>4, <1>5, <1>6, <1>7 DEF Next

LEMMA OneOwnerStep ==
  TypeOK /\ NotIssued /\ MapIsCurrent /\ OneOwner /\ [Next]_vars => OneOwner'
  <1> SUFFICES ASSUME TypeOK, NotIssued, MapIsCurrent, OneOwner, [Next]_vars
               PROVE  OneOwner'
    OBVIOUS
  <1>1. ASSUME NEW k \in Keys, Schedule(k) PROVE OneOwner'
    <2> DEFINE f == issued + 1
    <2>1. \A t \in Live : t \in Tasks /\ fn[t] # f
      BY <1>1, ScheduleShape, LiveIsIssued, TaskIsNumber DEF Tasks
    <2>2. f \notin running \cup finished
      BY <1>1, ScheduleShape, TaskIsNumber DEF NotIssued, TypeOK, Tasks
    <2>3. \A t \in Live' : t # tasks'[k] => t \in Live /\ fn'[t] = fn[t]
      BY <1>1, <2>1, ScheduleLive, ScheduleShape DEF TypeOK
    <2>4. fn'[tasks'[k]] = f /\ running' = running /\ finished' = finished
      BY <1>1, ScheduleShape DEF TypeOK
    <2> QED
      BY <2>1, <2>2, <2>3, <2>4 DEF OneOwner
  <1>2. ASSUME NEW t \in Tasks, Fire(t) PROVE OneOwner'
    BY <1>2, OtherLive DEF Fire, OneOwner
  <1>3. ASSUME NEW t \in Tasks, Callback(t) PROVE OneOwner'
    BY <1>3, CallbackShape DEF OneOwner
  <1>4. ASSUME NEW t \in Tasks, Run(t) PROVE OneOwner'
    <2>1. t \in Live /\ t \notin Live'
      BY <1>4 DEF Run, Live, MapIsCurrent
    <2> QED
      BY <1>4, <2>1, OtherLive DEF Run, OneOwner
  <1>5. ASSUME NEW f \in Fns, Return(f) PROVE OneOwner'
    BY <1>5, OtherLive DEF Return, OneOwner
  <1>6. ASSUME Tick PROVE OneOwner'
    BY <1>6, OtherLive DEF Tick, OneOwner
  <1>7. CASE UNCHANGED vars
    BY <1>7, OtherLive DEF vars, OneOwner
  <1> QED
    BY <1>1, <1>2, <1>3, <1>4, <1>5, <1>6, <1>7 DEF Next

LEMMA AlignedStep ==
  Inv /\ [Next]_vars => AlignedUnlessRaced'
  <1> DEFINE On(j, t) ==
               /\ timer[t] # Stopped =>
                     tasks[j] = t /\ callbacks[t] = 0 /\ timer[t] = Delay - since[j]
               /\ callbacks[t] > 0 =>
                     tasks[j] = t /\ callbacks[t] = 1 /\ since[j] = Delay
  <1> SUFFICES ASSUME TypeOK, NotIssued, MapIsCurrent, NoLostTask, AlignedUnlessRaced,
                      [Next]_vars,
                      NEW j \in Keys, j \notin raced',
                      NEW u \in Tasks, keyOf'[u] = j
               PROVE  On(j, u)'
    BY DEF Inv, AlignedUnlessRaced
  <1>0. j \notin raced /\ keyOf[u] = j => On(j, u)
    BY DEF AlignedUnlessRaced
  <1>1. ASSUME NEW k \in Keys, Schedule(k) PROVE On(j, u)'
    <2> DEFINE f == issued + 1
    <2>0. f \in Fns /\ f \in Tasks /\ keyOf[f] = NoKey /\ timer[f] = Stopped /\ callbacks[f] = 0
      BY <1>1, ScheduleShape DEF NotIssued, TypeOK
    <2>1. CASE j # k
      <3>1. u # f /\ keyOf[u] = j
        BY <1>1, <2>0, <2>1, ScheduleShape DEF TypeOK, Tasks
      <3>2. u # tasks'[k]
        BY <1>1, <2>1, <3>1, ScheduleShape DEF MapIsCurrent
      <3>3. j \notin raced /\ tasks'[j] = tasks[j] /\ since'[j] = since[j]
        <4>1. j \notin raced
          BY <1>1, <2>1 DEF Schedule
        <4>2. tasks'[j] = tasks[j]
          BY <1>1, <2>1, ScheduleShape DEF TypeOK
        <4>3. since'[j] = since[j]
          BY <1>1, <2>1 DEF Schedule, TypeOK
        <4> QED
          BY <4>1, <4>2, <4>3
      <3>4. timer'[u] = timer[u] /\ callbacks'[u] = callbacks[u]
        BY <1>1, <3>2, ScheduleShape DEF TypeOK
      <3> QED
        BY <1>0, <3>1, <3>3, <3>4
    <2>2. CASE j = k
      <3>1. ~ CallbackWaiting(k) /\ (Quiet(k) \/ k \notin raced)
        BY <1>1, <2>2 DEF Schedule
      <3>2. u = f \/ keyOf[u] = k
        BY <1>1, <2>0, <2>2, ScheduleShape DEF TypeOK, Tasks
      <3>3. callbacks[u] = 0 /\ callbacks' = callbacks
        BY <1>1, <2>0, <3>1, <3>2, ScheduleShape DEF CallbackWaiting, TypeOK
      <3>4. timer'[u] # Stopped => u = tasks'[k]
        <4> SUFFICES ASSUME timer'[u] # Stopped, u # tasks'[k] PROVE FALSE
          OBVIOUS
        <4>1. timer[u] # Stopped
          BY <1>1, ScheduleShape DEF TypeOK
        <4>2. keyOf[u] = k /\ k \notin raced
          BY <2>0, <3>1, <3>2, <4>1 DEF Quiet
        <4>3. tasks[k] = u
          BY <1>0, <2>2, <4>1, <4>2
        <4> QED
          BY <1>1, <4>3, ScheduleShape, TaskIsNumber
      <3>5. timer'[tasks'[k]] = Delay /\ since'[k] = 0
        BY <1>1, ScheduleShape DEF Schedule, TypeOK
      <3> QED
        BY <2>2, <3>3, <3>4, <3>5, Ticks
    <2> QED
      BY <2>1, <2>2
  <1>2. ASSUME NEW t \in Tasks, Fire(t) PROVE On(j, u)'
    <2>1. On(j, u)
      BY <1>0, <1>2 DEF Fire
    <2>2. 0 # Stopped /\ since[j] \in 0..Delay
      BY DEF Stopped, TypeOK
    <2> QED
      BY <1>2, <2>1, <2>2, Ticks DEF Fire, TypeOK
  <1>3. ASSUME NEW t \in Tasks, Callback(t) PROVE On(j, u)'
    <2>1. On(j, u) /\ j \notin raced /\ keyOf[u] = j
      BY <1>0, <1>3, CallbackShape
    <2>2. CASE keyOf[t] = j
      <3>1. tasks[j] = t /\ callbacks[t] = 1
        BY <1>3, <2>1, <2>2, CallbackShape DEF AlignedUnlessRaced
      <3>2. callbacks'[u] = 0
        BY <1>3, <2>1, <3>1, CallbackShape DEF TypeOK
      <3> QED
        BY <1>3, <2>1, <3>1, <3>2, CallbackShape
    <2>3. CASE keyOf[t] # j
      BY <1>3, <2>1, <2>3, CallbackShape DEF TypeOK
    <2> QED
      BY <2>2, <2>3
  <1>4. ASSUME NEW t \in Tasks, Run(t) PROVE On(j, u)'
    BY <1>0, <1>4 DEF Run
  <1>5. ASSUME NEW f \in Fns, Return(f) PROVE On(j, u)'
    BY <1>0, <1>5 DEF Return
  <1>6. ASSUME Tick PROVE On(j, u)'
    <2>1. On(j, u) /\ callbacks' = callbacks /\ tasks' = tasks
      BY <1>0, <1>6 DEF Tick
    <2>2. timer[u] \in 0..Delay \cup {Stopped} /\ since[j] \in 0..Delay
      BY DEF TypeOK
    <2>3. timer'[u] = IF timer[u] > 0 THEN timer[u] - 1 ELSE timer[u]
      BY <1>6 DEF Tick
    <2>4. since'[j] = IF since[j] < Delay THEN since[j] + 1 ELSE since[j]
      BY <1>6 DEF Tick
    <2> QED
      BY <2>1, <2>2, <2>3, <2>4, Ticks DEF Stopped
  <1>7. CASE UNCHANGED vars
    BY <1>0, <1>7 DEF vars
  <1> QED
    BY <1>1, <1>2, <1>3, <1>4, <1>5, <1>6, <1>7 DEF Next

-----------------------------------------------------------------------------
(* Initially nothing was scheduled. *)
LEMMA InitInv == Init => Inv
  <1> SUFFICES ASSUME Init PROVE Inv
    OBVIOUS
  <1>1. TypeOK
    BY InitType
  <1>2. Live = {}
    BY DEF Init, Live
  <1>3. NotIssued
    <2>1. \A f \in Fns : f > issued /\ keyOf[f] = NoKey
      BY CallsAssumption DEF Init, Fns
    <2>2. \A t \in Tasks : timer[t] = Stopped /\ callbacks[t] = 0 /\ t \notin taken
      BY DEF Init
    <2>3. running \cup finished = {}
      BY DEF Init
    <2> QED
      BY <1>2, <2>1, <2>2, <2>3 DEF NotIssued
  <1>4. AlignedUnlessRaced
    BY KeysAssumption DEF Init, AlignedUnlessRaced, Tasks
  <1> QED
    BY <1>1, <1>2, <1>3, <1>4 DEF Init, Inv, NoLostTask, MapIsCurrent, OneOwner

LEMMA InvStep == Inv /\ [Next]_vars => Inv'
  BY TypeStep, NotIssuedStep, NoLostTaskStep, MapIsCurrentStep, OneOwnerStep,
     AlignedStep DEF Inv

(* In every state of the debouncer every scheduled task has a timer or a    *)
(* callback to come, the map holds each key's newest function, no function  *)
(* has two owners, and without a lost race the timers are aligned with the  *)
(* last Schedule (Schedule and the AfterFunc callback, debounce.go).        *)
THEOREM Invariance == Spec => []Inv
  BY InitInv, InvStep, PTL DEF Spec

-----------------------------------------------------------------------------
(* The action properties *)

(* The function of a task is called at most once (current.fn() after the    *)
(* unlock), however often the timers of a key have fired.                   *)
THEOREM RunsAtMostOnce == Spec => AtMostOnce
  <1>1. Inv => [\A t \in Tasks : Run(t) => fn[t] \notin running \cup finished]_vars
    BY DEF Inv, OneOwner, Live, Run
  <1> QED
    BY <1>1, Invariance, PTL DEF AtMostOnce

(* current.fn is safe to read after the unlock: no Schedule writes to a     *)
(* task that has left the map.                                              *)
THEOREM TakenIsIsolated == Spec => TakenIsolated
  <1>1. Inv /\ [Next]_vars => [\A t \in taken : fn'[t] = fn[t]]_vars
    <2> SUFFICES ASSUME Inv, Next, NEW t \in taken PROVE fn'[t] = fn[t]
      OBVIOUS
    <2>1. ASSUME NEW k \in Keys, Schedule(k) PROVE fn'[t] = fn[t]
      <3>1. TypeOK /\ NotIssued /\ t \in Live /\ t \in Tasks
        BY DEF Inv, Live, TypeOK
      <3>2. t # tasks'[k]
        BY <2>1, <3>1, ScheduleShape, TaskIsNumber, LiveIsIssued DEF Inv, MapIsCurrent
      <3> QED
        BY <2>1, <3>1, <3>2, ScheduleShape DEF TypeOK
    <2> QED
      BY <2>1 DEF Next, Fire, Callback, Run, Return, Tick
  <1> QED
    BY <1>1, Invariance, PTL DEF TakenIsolated, Spec

(* A function leaves the map before its delay is over only when a Schedule  *)
(* met a callback of its key that had already been started.                 *)
THEOREM EarlyNeedsRace == Spec => EarlyOnlyAfterRace
  <1>1. Inv /\ [Next]_vars => [\A k \in Keys : EarlyTake(k) => k \in raced]_vars
    <2> SUFFICES ASSUME Inv, Next, NEW k \in Keys, EarlyTake(k) PROVE k \in raced
      OBVIOUS
    <2> USE DEF EarlyTake
    <2>0. TypeOK /\ NotIssued /\ AlignedUnlessRaced
      BY DEF Inv
    <2>1. ASSUME NEW j \in Keys, Schedule(j) PROVE FALSE
      BY <2>0, <2>1, ScheduleShape, TaskIsNumber DEF TypeOK
    <2>2. ASSUME NEW t \in Tasks, Callback(t) PROVE k \in raced
      <3>1. keyOf[t] = k /\ callbacks[t] > 0
        BY <2>0, <2>2, CallbackShape DEF TypeOK
      <3>2. since[k] # Delay
        BY <2>0, Ticks DEF TypeOK
      <3> QED
        BY <2>0, <3>1, <3>2 DEF AlignedUnlessRaced
    <2> QED
      BY <2>1, <2>2 DEF Next, Fire, Run, Return, Tick
  <1> QED
    BY <1>1, Invariance, PTL DEF EarlyOnlyAfterRace, Spec

-----------------------------------------------------------------------------
(* The debouncer implements its promise: each step is a Schedule or a Begin *)
(* of DebounceSpec on the functions in the map, or changes nothing there.   *)
THEOREM ImplementsPromise == Spec => Implements
  <1> DEFINE pend == [k \in Keys |-> IF tasks[k] = NoTask THEN 0 ELSE fn[tasks[k]]]
             bgun == {fn[t] : t \in taken} \cup running \cup finished
  <1>1. Init => Promise!Init
    <2> SUFFICES ASSUME Init PROVE Promise!Init
      OBVIOUS
    <2>1. pend = [k \in Keys |-> 0] /\ bgun = {} /\ issued = 0
      BY DEF Init
    <2> QED
      BY <2>1 DEF Promise!Init, Promise!NoFn
  <1>2. Inv /\ Inv' /\ [Next]_vars => [Promise!Next]_(Promise!specVars)
    <2> SUFFICES ASSUME Inv, Inv', [Next]_vars
                 PROVE  Promise!Next \/ (issued' = issued /\ pend' = pend /\ bgun' = bgun)
      BY DEF Promise!specVars
    <2>0. TypeOK /\ NotIssued /\ MapIsCurrent /\ MapIsCurrent' /\ TypeOK'
      BY DEF Inv
    <2> HIDE DEF pend, bgun
    <2>1. ASSUME NEW k \in Keys, Schedule(k) PROVE Promise!Schedule(k)
      <3>1. pend' = [pend EXCEPT ![k] = issued + 1]
        <4>1. pend'[k] = issued + 1
          BY <2>0, <2>1, ScheduleShape, TaskIsNumber DEF TypeOK, pend
        <4>2. ASSUME NEW j \in Keys, j # k PROVE pend'[j] = pend[j]
          <5>1. tasks'[j] = tasks[j]
            BY <2>0, <2>1, <4>2, ScheduleShape DEF TypeOK
          <5>2. tasks[j] # NoTask => tasks[j] # tasks'[k]
            BY <2>0, <2>1, <4>2, <5>1, ScheduleShape, TaskIsNumber DEF MapIsCurrent
          <5> QED
            BY <2>0, <2>1, <5>1, <5>2, ScheduleShape DEF TypeOK, pend
        <4> QED
          BY <4>1, <4>2 DEF pend
      <3>2. bgun' = bgun
        <4>1. tasks'[k] \notin taken' /\ taken' = taken
          BY <2>0, <2>1, ScheduleShape, TaskIsNumber DEF MapIsCurrent
        <4>2. \A t \in taken : fn'[t] = fn[t]
          BY <2>0, <2>1, <4>1, ScheduleShape DEF TypeOK
        <4> QED
          BY <2>0, <2>1, <4>1, <4>2, ScheduleShape DEF bgun
      <3> QED
        BY <2>1, <3>1, <3>2 DEF Schedule, Promise!Schedule, pend, bgun
    <2>2. ASSUME NEW t \in Tasks, Callback(t), NEW k \in Keys, keyOf[t] = k
          PROVE  Promise!Begin(k) \/ (issued' = issued /\ pend' = pend /\ bgun' = bgun)
      <3>1. k \in Keys /\ issued' = issued
        BY <2>0, <2>2, CallbackShape
      <3>2. pend' = [pend EXCEPT ![k] = 0]
        BY ZenonT(60), <2>0, <2>2, CallbackShape DEF TypeOK, pend
      <3>3. CASE tasks[k] = NoTask
        <4>1. pend[k] = 0
          BY <3>1, <3>3 DEF pend
        <4>2. bgun' = bgun
          BY <2>0, <2>2, <3>3, CallbackShape DEF bgun
        <4> QED
          BY <3>1, <3>2, <4>1, <4>2 DEF pend
      <3>4. CASE tasks[k] # NoTask
        <4>1. pend[k] = fn[tasks[k]] /\ pend[k] # 0
          BY <2>0, <2>2, <3>1, <3>4, CallbackShape, TaskIsNumber DEF pend, TypeOK, NoTask, Tasks
        <4>2. bgun' = bgun \cup {fn[tasks[k]]}
          BY <2>0, <2>2, <3>4, CallbackShape DEF bgun
        <4> QED
          BY <3>1, <3>2, <4>1, <4>2 DEF Promise!Begin, Promise!NoFn, pend, bgun
      <3> QED
        BY <3>3, <3>4
    <2>3. ASSUME NEW t \in Tasks, Run(t) PROVE issued' = issued /\ pend' = pend /\ bgun' = bgun
      BY <2>3 DEF Run, pend, bgun
    <2>4. ASSUME NEW f \in Fns, Return(f) PROVE issued' = issued /\ pend' = pend /\ bgun' = bgun
      BY <2>4 DEF Return, pend, bgun
    <2>5. ASSUME NEW t \in Tasks, Fire(t) PROVE issued' = issued /\ pend' = pend /\ bgun' = bgun
      BY <2>5 DEF Fire, pend, bgun
    <2>6. CASE Tick \/ UNCHANGED vars
      BY <2>6 DEF Tick, vars, pend, bgun
    <2>7. \A t \in Tasks : Callback(t) => keyOf[t] \in Keys
      BY <2>0, CallbackShape
    <2> DEFINE Goal == Promise!Next \/ (issued' = issued /\ pend' = pend /\ bgun' = bgun)
    <2>8. \A k \in Keys : Schedule(k) => Goal
      BY <2>1 DEF Promise!Next
    <2>9. ASSUME NEW t \in Tasks, Callback(t) PROVE Goal
      <3>1. PICK k \in Keys : keyOf[t] = k
        BY <2>7, <2>9
      <3>2. Promise!Begin(k) => Promise!Next
        BY DEF Promise!Next
      <3> QED
        BY <2>2, <2>9, <3>1, <3>2
    <2>10. \A t \in Tasks : Run(t) \/ Fire(t) => Goal
      BY <2>3, <2>5
    <2>11. \A f \in Fns : Return(f) => Goal
      BY <2>4
    <2>12. Tick \/ UNCHANGED vars => Goal
      BY <2>6
    <2> HIDE DEF Goal
    <2>13. Goal
      BY <2>8, <2>9, <2>10, <2>11, <2>12 DEF Next
    <2> QED
      BY <2>13 DEF Goal
  <1> QED
    BY <1>1, <1>2, Invariance, PTL DEF Spec, Implements, Promise!Spec

=============================================================================
