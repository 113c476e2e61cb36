------------------------------ MODULE LinkCache ------------------------------
(***************************************************************************)
(* What Get and GetCached of pkg/bridgeidentity/map.go promise.  The cache *)
(* is a value, and what a caller is given is the version that was cached   *)
(* then, for as long as it keeps it.  A new version is drawn up by one     *)
(* load at a time: a refresh puts links over the cached ones, a full load  *)
(* puts them into an empty map, hands out the members' links on the way,   *)
(* and the whole at the end.  Nothing else changes what is cached.         *)
(***************************************************************************)
CONSTANTS
  Discord, Slack,  \* account IDs
  Callers          \* goroutines that ask for the map

VARIABLES
  links,      \* pairs of accounts that one user has in Keycloak
  version,    \* the cached map
  view,       \* the map each caller was given last
  phase,      \* "idle", "refresh", or "members" and then "scan" of a full load
  draft       \* the map of the load under way

specVars == <<links, version, view, phase, draft>>

empty == [discordToSlack |-> {}, slackToDiscord |-> {}]

(* The entries of both directions for the link, over those there are.       *)
With(m, link) ==
  [discordToSlack |-> {p \in m.discordToSlack : p[1] # link[1]} \cup {link},
   slackToDiscord |-> {p \in m.slackToDiscord : p[1] # link[2]} \cup {<<link[2], link[1]>>}]

Init ==
  /\ links \in SUBSET (Discord \X Slack)
  /\ version = empty
  /\ view = [c \in Callers |-> empty]
  /\ phase = "idle"
  /\ draft = empty

Relink ==
  /\ links' \in SUBSET (Discord \X Slack)
  /\ UNCHANGED <<version, view, phase, draft>>

Give(c) ==
  /\ view' = [view EXCEPT ![c] = version]
  /\ UNCHANGED <<links, version, phase, draft>>

Begin ==
  /\ phase = "idle"
  /\ \/ phase' = "refresh" /\ draft' = version
     \/ phase' = "members" /\ draft' = empty
  /\ UNCHANGED <<links, version, view>>

Add ==
  /\ phase # "idle"
  /\ \E link \in links : draft' = With(draft, link)
  /\ UNCHANGED <<links, version, view, phase>>

Publish ==
  /\ phase = "members"
  /\ version' = draft
  /\ phase' = "scan"
  /\ UNCHANGED <<links, view, draft>>

Store ==
  /\ phase \in {"refresh", "scan"}
  /\ version' = draft
  /\ phase' = "idle"
  /\ draft' = empty
  /\ UNCHANGED <<links, view>>

Next == Relink \/ (\E c \in Callers : Give(c)) \/ Begin \/ Add \/ Publish \/ Store

Spec == Init /\ [][Next]_specVars

=============================================================================
