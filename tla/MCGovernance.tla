---------------------------- MODULE MCGovernance ----------------------------
(***************************************************************************)
(* Governance files made of blocks of lines, in any order: one file of up  *)
(* to three blocks, or two files of two, that stay as they are; or small   *)
(* files that are edited, replaced, added and removed as two callers look. *)
(* All of these are in OrgTexts and TeamTexts, as DataInit wants.          *)
(***************************************************************************)
EXTENDS GovernanceData, TLC

Table(x) == [table |-> x, key |-> "", value |-> ""]
Gives(key, v) == [table |-> "", key |-> key, value |-> v]
Comment == [table |-> "", key |-> "", value |-> ""]

TeamA == <<Table("team"), Gives("name", "A"), Gives("slug", "a"), Gives("leads", {"ann"})>>
TeamB == <<Comment, Gives("name", "B"), Table("team"), Gives("slug", "b"), Gives("members", {"lee"})>>
TeamBlocks ==
  {TeamA, TeamB,
   <<Table("team.projects"), Gives("name", "C"), Gives("slug", "c"), Gives("members", {"lee"})>>,
   <<Table("team.repos"), Gives("name", "D")>>,
   <<Table("team.channels"), Gives("slack", "c1"), Gives("discord", "1"), Gives("mirror_role", "B")>>,
   <<Table("team.projects.channels"), Gives("mirror_everyone", TRUE), Gives("slack", "C1")>>,
   <<Table("team.channels"), Gives("slack", "c2"), Comment, Gives("discord", "1")>>,
   <<Table("team.channels")>>,
   <<Table("other"), Gives("name", "D"), Gives("slack", "c2")>>}
OrgBlocks ==
  {<<Table("org"), Gives("name", "A"), Gives("url", "x")>>,
   <<Table("org.forgejo"), Gives("url", "y")>>,
   <<Table("org.keycloak"), Gives("url", "x")>>,
   <<Table("org.communication"), Gives("slack_hub_channel_id", "c1"), Gives("discord_leads_channel_id", "1")>>,
   <<Table("org.communication.channels"), Gives("slack", "C1"), Gives("slug", "a"), Gives("name", "A")>>,
   <<Table("org.communication.channels"), Gives("discord", "1"), Gives("mirror_everyone", TRUE)>>,
   <<Table("other"), Gives("slack", "c2"), Gives("url", "x")>>}

UpTo3(blocks) ==
  LET some == blocks \cup {<<>>} IN {a \o b \o c : a \in some, b \in some, c \in some}
Small == {<<Table("team"), Gives("slug", s), Table("team.channels"), Gives("slack", "c1")>> : s \in {"a", "b"}}
SmallOrg == {<<Table("org.forgejo"), Gives("url", u)>> : u \in {"x", "y"}}

MCOrgTexts == UpTo3(OrgBlocks) \cup SmallOrg
MCTeamTexts == UpTo3(TeamBlocks) \cup Small
MCWord == {"A", "B", "C", "D", "a", "b", "c", "c1", "c2", "C1", "C2", "1", "x", "y", "X"}
MCUpper ==
  [w \in MCWord \cup {""} |->
     CASE w = "a" -> "A" [] w = "b" -> "B" [] w = "c" -> "C" [] w = "x" -> "X"
       [] w = "c1" -> "C1" [] w = "c2" -> "C2" [] OTHER -> w]

Pairs == {a \o b : a \in {TeamA, TeamB}, b \in TeamBlocks \ {TeamA, TeamB}}
Kept(o, t) == org = o /\ teams = t /\ edits = MaxEdits
GovernanceStart ==
  /\ \/ \E t \in MCTeamTexts : Kept(Absent, <<t, Absent>>)
     \/ \E o \in MCOrgTexts : Kept(o, <<Absent, Absent>>)
     \/ \E t, u \in Pairs : Kept(Absent, <<t, u>>)
     \/ \E o \in SmallOrg, t \in Small : org = o /\ teams = <<t, Absent>> /\ edits = 0
  /\ file = 1 /\ NothingLoaded
GovernanceAtRest == Kept(Absent, <<Absent, Absent>>) /\ file = 1 /\ NothingLoaded

(* Time matters if something was overlooked.                                *)
GovernanceNext ==
  \/ Get \/ LoadOrg \/ LoadTeam
  \/ Expire /\ overlooked # allSeen
  \/ \E o \in SmallOrg \cup {Absent}, t \in Small \cup {Absent} : Edit(o, 1, t)

CONSTANTS k1, k2
Symmetry == Permutations({k1, k2})

=============================================================================
