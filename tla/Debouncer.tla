------------------------------ MODULE Debouncer ------------------------------
(***************************************************************************)
(* reactionmirror.Debouncer: one mutex, a map from keys to tasks, a Go     *)
(* timer per task.  Both regions that hold the mutex contain no blocking   *)
(* call, so each is one action.  What is not atomic is the rest: a timer   *)
(* expires without the mutex, and its callback, a goroutine of its own,    *)
(* may wait for the mutex while Schedule stops, refills and resets the     *)
(* task; the callback reads and runs the task's function after the unlock. *)
(*                                                                         *)
(* A function is named by the number of the Schedule call that passed it,  *)
(* a task by the function it was created for.  Timers count down the       *)
(* ticks of a coarse clock; an expired timer may fire late.                *)
(***************************************************************************)
EXTENDS Integers

CONSTANTS
  Keys,       \* debounce keys
  NoKey,      \* the key of a Schedule call that was not made yet
  MaxCalls,   \* bound on the calls of Schedule
  Delay       \* NewDebouncer's delay, in ticks

ASSUME KeysAssumption == NoKey \notin Keys
ASSUME CallsAssumption == MaxCalls \in Nat
ASSUME DelayAssumption == Delay \in Nat \ {0}

Fns == 1..MaxCalls
Tasks == Fns
NoTask == 0     \* a key that is absent from d.tasks
Stopped == -1   \* a timer that is neither running nor expired

VARIABLES
  issued,     \* number of Schedule calls so far
  keyOf,      \* the key each Schedule call was made for
  tasks,      \* d.tasks: the task of each key, or NoTask
  fn,         \* task.fn
  timer,      \* task.timer: ticks left (0 is expired) or Stopped
  callbacks,  \* per task, timer callbacks that have not got d.mu yet
  taken,      \* tasks a callback has deleted from d.tasks and not yet run
  running,    \* functions that have been called
  finished,   \* functions that have returned
  since,      \* history: ticks since the last Schedule of a key, up to Delay
  raced       \* history: keys whose Schedule met a callback waiting for d.mu,
              \* until the key has been quiet once

vars == <<issued, keyOf, tasks, fn, timer, callbacks, taken, running, finished,
          since, raced>>

Init ==
  /\ issued = 0
  /\ keyOf = [f \in Fns |-> NoKey]
  /\ tasks = [k \in Keys |-> NoTask]
  /\ fn = [t \in Tasks |-> t]
  /\ timer = [t \in Tasks |-> Stopped]
  /\ callbacks = [t \in Tasks |-> 0]
  /\ taken = {}
  /\ running = {}
  /\ finished = {}
  /\ since = [k \in Keys |-> Delay]
  /\ raced = {}

-----------------------------------------------------------------------------
(* A timer callback of this key is blocked on d.mu. *)
CallbackWaiting(k) == \E t \in Tasks : keyOf[t] = k /\ callbacks[t] > 0

(* No timer of the key is running and no callback of it is on its way. *)
Quiet(k) == \A t \in Tasks :
               keyOf[t] = k => timer[t] = Stopped /\ callbacks[t] = 0

(* Faulty variants of Reschedule, for the mutants: the Reset is forgotten,  *)
(* the old function is kept, the timer is left as it was.                   *)
RescheduleNoReset(t, f) ==
  /\ fn' = [fn EXCEPT ![t] = f]
  /\ timer' = [timer EXCEPT ![t] = Stopped]
  /\ UNCHANGED tasks

RescheduleOldFn(t, f) ==
  /\ timer' = [timer EXCEPT ![t] = Delay]
  /\ UNCHANGED <<fn, tasks>>

RescheduleOldTimer(t, f) ==
  /\ fn' = [fn EXCEPT ![t] = f]
  /\ UNCHANGED <<timer, tasks>>

(* Schedule with the key in d.tasks: Stop, replace the function, Reset.     *)
(* Stop does not recall a callback that was already started.                *)
Reschedule(t, f) ==
  /\ fn' = [fn EXCEPT ![t] = f]
  /\ timer' = [timer EXCEPT ![t] = Delay]
  /\ UNCHANGED tasks

(* Schedule without a task for the key: a new task and its AfterFunc timer. *)
NewTask(k, f) ==
  /\ tasks' = [tasks EXCEPT ![k] = f]
  /\ fn' = [fn EXCEPT ![f] = f]
  /\ timer' = [timer EXCEPT ![f] = Delay]

Schedule(k) ==
  LET f == issued + 1 IN
  /\ issued < MaxCalls
  /\ issued' = f
  /\ keyOf' = [keyOf EXCEPT ![f] = k]
  /\ \/ tasks[k] # NoTask /\ Reschedule(tasks[k], f)
     \/ tasks[k] = NoTask /\ NewTask(k, f)
  /\ since' = [since EXCEPT ![k] = 0]
  /\ raced' = IF CallbackWaiting(k) THEN raced \cup {k}
              ELSE IF Quiet(k) THEN raced \ {k} ELSE raced
  /\ UNCHANGED <<callbacks, taken, running, finished>>

(* The runtime starts the callback of an expired timer. *)
Fire(t) ==
  /\ timer[t] = 0
  /\ timer' = [timer EXCEPT ![t] = Stopped]
  /\ callbacks' = [callbacks EXCEPT ![t] = @ + 1]
  /\ UNCHANGED <<issued, keyOf, tasks, fn, taken, running, finished, since, raced>>

(* Faulty variants of Unlink: the delete is forgotten; the callback runs    *)
(* only the task it was created for.                                        *)
UnlinkKeep(t) ==
  LET current == tasks[keyOf[t]] IN
  /\ taken' = IF current # NoTask THEN taken \cup {current} ELSE taken
  /\ UNCHANGED tasks

UnlinkOwn(t) ==
  LET current == tasks[keyOf[t]] IN
  /\ taken' = IF current = t THEN taken \cup {current} ELSE taken
  /\ tasks' = [tasks EXCEPT ![keyOf[t]] = NoTask]

(* The callback's critical section: the task under the key now, which need  *)
(* not be the task whose timer fired, leaves the map.                       *)
Unlink(t) ==
  LET current == tasks[keyOf[t]] IN
  /\ taken' = IF current # NoTask THEN taken \cup {current} ELSE taken
  /\ tasks' = [tasks EXCEPT ![keyOf[t]] = NoTask]

Callback(t) ==
  /\ callbacks[t] > 0
  /\ callbacks' = [callbacks EXCEPT ![t] = @ - 1]
  /\ Unlink(t)
  /\ UNCHANGED <<issued, keyOf, fn, timer, running, finished, since, raced>>

(* current.fn is read and called after the unlock. *)
Run(t) ==
  /\ t \in taken
  /\ taken' = taken \ {t}
  /\ running' = running \cup {fn[t]}
  /\ UNCHANGED <<issued, keyOf, tasks, fn, timer, callbacks, finished, since, raced>>

Return(f) ==
  /\ f \in running
  /\ running' = running \ {f}
  /\ finished' = finished \cup {f}
  /\ UNCHANGED <<issued, keyOf, tasks, fn, timer, callbacks, taken, since, raced>>

(* Time passes for every running timer; an expired one waits to be fired. *)
Tick ==
  /\ (\E t \in Tasks : timer[t] > 0) \/ (\E k \in Keys : since[k] < Delay)
  /\ timer' = [t \in Tasks |-> IF timer[t] > 0 THEN timer[t] - 1 ELSE timer[t]]
  /\ since' = [k \in Keys |-> IF since[k] < Delay THEN since[k] + 1 ELSE since[k]]
  /\ UNCHANGED <<issued, keyOf, tasks, fn, callbacks, taken, running, finished, raced>>

Next ==
  \/ \E k \in Keys : Schedule(k)
  \/ \E t \in Tasks : Fire(t) \/ Callback(t) \/ Run(t)
  \/ \E f \in Fns : Return(f)
  \/ Tick

(* The clock advances, the runtime fires due timers, and a Go mutex hands   *)
(* itself to a waiter in the end.  Nothing makes a scheduled function       *)
(* return, so Return is not fair.                                           *)
Fairness ==
  /\ WF_vars(Tick)
  /\ \A t \in Tasks : WF_vars(Fire(t)) /\ WF_vars(Callback(t)) /\ WF_vars(Run(t))

Spec == Init /\ [][Next]_vars
FairSpec == Spec /\ Fairness

-----------------------------------------------------------------------------
TypeOK ==
  /\ issued \in 0..MaxCalls
  /\ keyOf \in [Fns -> Keys \cup {NoKey}]
  /\ tasks \in [Keys -> Tasks \cup {NoTask}]
  /\ fn \in [Tasks -> Fns]
  /\ timer \in [Tasks -> 0..Delay \cup {Stopped}]
  /\ callbacks \in [Tasks -> Nat]
  /\ taken \subseteq Tasks
  /\ running \subseteq Fns
  /\ finished \subseteq Fns
  /\ since \in [Keys -> 0..Delay]
  /\ raced \subseteq Keys

(* A task in the map is not forgotten: its own timer is running or has a    *)
(* callback on the way, however callbacks and resets have crossed.          *)
NoLostTask ==
  \A k \in Keys : tasks[k] # NoTask =>
      timer[tasks[k]] # Stopped \/ callbacks[tasks[k]] > 0

(* The tasks that still have a function to run. *)
Live == {tasks[k] : k \in {j \in Keys : tasks[j] # NoTask}} \cup taken

(* The map keeps each task under its own key, with the newest function of   *)
(* that key, and never one that a callback already holds.                   *)
MapIsCurrent ==
  \A k \in Keys : tasks[k] # NoTask =>
      /\ keyOf[tasks[k]] = k
      /\ keyOf[fn[tasks[k]]] = k
      /\ \A f \in Fns : keyOf[f] = k => f <= fn[tasks[k]]
      /\ tasks[k] \notin taken

(* Every function that has still to be run is held by one task only and was *)
(* not run before.                                                          *)
OneOwner ==
  /\ \A t, u \in Live : fn[t] = fn[u] => t = u
  /\ \A t \in Live : fn[t] \notin running \cup finished

(* Calls that were not made have left no trace. *)
NotIssued ==
  /\ \A f \in Fns : f > issued <=> keyOf[f] = NoKey
  /\ \A t \in Tasks : t > issued => timer[t] = Stopped /\ callbacks[t] = 0 /\ t \notin taken
  /\ \A f \in running \cup finished : f <= issued
  /\ \A t \in Live : t <= issued /\ fn[t] <= issued

(* As long as Schedule has not met a waiting callback, only the timer of    *)
(* the key's task is on, and it expires Delay after the last Schedule.      *)
AlignedUnlessRaced ==
  \A k \in Keys : k \notin raced =>
      \A t \in Tasks : keyOf[t] = k =>
          /\ timer[t] # Stopped =>
                tasks[k] = t /\ callbacks[t] = 0 /\ timer[t] = Delay - since[k]
          /\ callbacks[t] > 0 =>
                tasks[k] = t /\ callbacks[t] = 1 /\ since[k] = Delay

(* The inductive invariant: the map, the timers and the callbacks fit       *)
(* together in every state of Schedule and the callback (debounce.go:26-46).*)
Inv == TypeOK /\ NoLostTask /\ MapIsCurrent /\ OneOwner /\ NotIssued /\ AlignedUnlessRaced

-----------------------------------------------------------------------------
(* A function is called at most once, although the timer of one task can    *)
(* fire several times and the callback of one task can run another's.       *)
AtMostOnce == [][\A t \in Tasks : Run(t) => fn[t] \notin running \cup finished]_vars

(* The callback reads current.fn without the mutex: no Schedule writes the  *)
(* function of a task that a callback has taken out of the map.             *)
TakenIsolated == [][\A t \in taken : fn'[t] = fn[t]]_vars

(* A function is taken before its delay is over only in a burst in which a  *)
(* Schedule found a callback of its key waiting for the mutex.              *)
EarlyTake(k) == tasks[k] # NoTask /\ tasks'[k] = NoTask /\ since[k] < Delay
EarlyOnlyAfterRace == [][\A k \in Keys : EarlyTake(k) => k \in raced]_vars

(* Every scheduled function is called or replaced by a later one of its key.*)
Replaced(f) == \E g \in Fns : g > f /\ keyOf[g] = keyOf[f]
Served ==
  \A f \in Fns : (f <= issued) ~> (f \in running \cup finished \/ Replaced(f))

(* The promise to the callers, with a taken task counting as begun. *)
Promise == INSTANCE DebounceSpec WITH
  pending <- [k \in Keys |-> IF tasks[k] = NoTask THEN 0 ELSE fn[tasks[k]]],
  begun <- {fn[t] : t \in taken} \cup running \cup finished
Implements == Promise!Spec

=============================================================================
