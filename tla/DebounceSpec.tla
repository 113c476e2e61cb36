---------------------------- MODULE DebounceSpec ----------------------------
(***************************************************************************)
(* What pkg/reactionmirror/debounce.go promises to its callers.  For each  *)
(* key at most one function is pending.  Scheduling replaces the pending   *)
(* function, beginning it empties the slot, and nothing else changes it:   *)
(* a function that was never replaced is begun, no function is begun       *)
(* twice, and a replaced function is never begun.                          *)
(***************************************************************************)
EXTENDS Naturals

CONSTANTS
  Keys,       \* debounce keys, e.g. portal/channel/timestamp
  MaxCalls    \* bound on the calls of Schedule

(* Functions are named by the number of the Schedule call that passed them. *)
Fns == 1..MaxCalls
NoFn == 0

VARIABLES
  issued,     \* number of Schedule calls so far
  pending,    \* the function waiting under each key, or NoFn
  begun       \* the functions whose execution has been started

specVars == <<issued, pending, begun>>

Init ==
  /\ issued = 0
  /\ pending = [k \in Keys |-> NoFn]
  /\ begun = {}

Schedule(k) ==
  /\ issued < MaxCalls
  /\ issued' = issued + 1
  /\ pending' = [pending EXCEPT ![k] = issued + 1]
  /\ UNCHANGED begun

Begin(k) ==
  /\ pending[k] # NoFn
  /\ begun' = begun \cup {pending[k]}
  /\ pending' = [pending EXCEPT ![k] = NoFn]
  /\ UNCHANGED issued

Next == \E k \in Keys : Schedule(k) \/ Begin(k)

Spec == Init /\ [][Next]_specVars

=============================================================================
