------------------------ MODULE GovernanceData_proofs ------------------------
(***************************************************************************)
(* What Get hands out is what the files say, for any files, any number of  *)
(* tables and lines and any edits.  The argument follows the lines: after  *)
(* each of them, flags, locals and maps are what the lines so far say, but *)
(* for the channel that is still at hand.                                  *)
(***************************************************************************)
EXTENDS GovernanceData, TLAPS

-----------------------------------------------------------------------------
(* The invariant. *)

(* The last of these tables that begins in the first k lines, and those     *)
(* that begin before it.                                                    *)
Latest(t, tables, j, k) ==
  j \in Named(t, tables) /\ j <= k /\ \A h \in Named(t, tables) : h <= j \/ k < h
NoneYet(t, tables, k) == \A h \in Named(t, tables) : k < h
Closed(t, tables, k) ==
  {j \in Named(t, tables) : \E h \in Named(t, tables) : j < h /\ h <= k}

Begun(t, tables, k) == {j \in Named(t, tables) : j <= k}
Placed(t, tables, k) ==
  NoneYet(t, tables, k) \/ \E j \in Named(t, tables) : Latest(t, tables, j, k)

(* What the locals and maps are after k lines.                              *)
AtHand(t, tables, k, ch) ==
  /\ Placed(t, tables, k)
  /\ NoneYet(t, tables, k) => ch = noChannel
  /\ \A j \in Named(t, tables) : Latest(t, tables, j, k) => ch = SaidIn(t, k, {j})

OrgFlags(t, k, comm, chans) ==
  /\ Placed(t, OrgTables, k)
  /\ NoneYet(t, OrgTables, k) => ~comm
  /\ \A j \in Named(t, OrgTables) :
       Latest(t, OrgTables, j, k) => comm /\ (chans <=> t[j].table \in OrgChannels)
OrgSoFar(t, k, key) == Over(Hubs(t, k, key), Listed(t, k, Closed(t, OrgChannels, k), key))

ForgejoLines(t, k, inside, url) ==
  /\ Placed(t, ForgejoTables, k)
  /\ NoneYet(t, ForgejoTables, k) => ~inside
  /\ \A j \in Named(t, ForgejoTables) :
       Latest(t, ForgejoTables, j, k) => (inside <=> t[j].table = "org.forgejo")
  /\ url = Url(t, k)

TeamFlags(t, k, team, project, chans) ==
  /\ Placed(t, TeamTables, k)
  /\ NoneYet(t, TeamTables, k) => ~team /\ ~project /\ ~chans
  /\ \A j \in Named(t, TeamTables) :
       Latest(t, TeamTables, j, k) =>
         /\ chans <=> t[j].table \in TeamChannels
         /\ ~chans => (team <=> t[j].table = "team") /\ (project <=> t[j].table = "team.projects")
TeamValue(t, k, key) == Value(t, k, Named(t, {"team"}), key)
TeamSoFar(t, k, key) ==
  IF SlugOf(t) = Blank THEN {} ELSE Listed(t, k, Closed(t, TeamChannels, k), key)

Done == at - 1
OrgLines ==
  /\ OrgFlags(text, Done, inOrgComm, inOrgChannels)
  /\ AtHand(text, OrgChannels, Done, channel)
  /\ d.orgSlack = OrgSoFar(text, Done, "slack")
  /\ d.orgDiscord = OrgSoFar(text, Done, "discord")
Before == [seen.teams EXCEPT ![file] = <<>>]
AllMembers(texts) == UNION {MembersOf(texts[f]) : f \in Files}
AllTeamMembers(texts) ==
  UNION {{SlugOf(texts[f])} \X MembersOf(texts[f]) : f \in {g \in Files : SlugOf(texts[g]) # Blank}}
TeamLines ==
  /\ TeamFlags(text, Done, inTeamHeader, inProject, inChannelTable)
  /\ AtHand(text, TeamChannels, Done, channel)
  /\ slug = TeamValue(text, Done, "slug")
  /\ name = TeamValue(text, Done, "name")
  /\ localMembers = Members(text, Done)
  /\ d.slackToTeam = Over(TeamMap(Before, "slack"), TeamSoFar(text, Done, "slack"))
  /\ d.discordToTeam = Over(TeamMap(Before, "discord"), TeamSoFar(text, Done, "discord"))
  /\ d.members = AllMembers(Before) \cup Members(text, Done)
  /\ d.teamMembers = AllTeamMembers(Before)

(* Where the load is.                                                       *)
OrgRead == pc \in {"forgejo", "forgejo lines", "files", "team lines"}
ForgejoRead == pc \in {"files", "team lines"}
TidyTeams == \A f \in Files : TidyTeam(seen.teams[f])

OrgInv ==
  /\ pc = "org" => d.orgSlack = {} /\ d.orgDiscord = {}
  /\ pc = "org lines" /\ TidyOrg(text) => OrgLines
  /\ OrgRead /\ TidyOrg(seen.org) =>
       d.orgSlack = OrgMap(seen.org, "slack") /\ d.orgDiscord = OrgMap(seen.org, "discord")
ForgejoInv ==
  /\ pc \in {"org", "org lines", "forgejo"} => d.forgejoURL = Blank
  /\ pc = "forgejo lines" /\ TidyForgejo(text) =>
       ForgejoLines(text, Done, inForgejo, d.forgejoURL)
  /\ ForgejoRead /\ TidyForgejo(seen.forgejo) => d.forgejoURL = Url(seen.forgejo, Len(seen.forgejo))
TeamInv ==
  /\ pc = "team lines" /\ TidyTeams => TeamLines
  /\ pc \notin {"idle", "team lines"} /\ TidyTeams =>
       /\ d.slackToTeam = TeamMap(seen.teams, "slack")
       /\ d.discordToTeam = TeamMap(seen.teams, "discord")
       /\ d.members = AllMembers(seen.teams)
       /\ d.teamMembers = AllTeamMembers(seen.teams)

(* What is read is kept for the record, the files in their order.           *)
Reading ==
  /\ pc = "idle" <=> holder = NoCaller
  /\ pc = "org lines" => text = seen.org
  /\ pc = "forgejo lines" => text = seen.forgejo
  /\ pc \in {"org", "org lines", "forgejo", "forgejo lines"} => seen.teams = nothingSeen.teams
  /\ pc = "files" => \A e \in entries, f \in Files : seen.teams[f] # <<>> => f < e
  /\ pc = "team lines" =>
       /\ text = seen.teams[file]
       /\ \A f \in Files : seen.teams[f] # <<>> => f <= file
       /\ \A e \in entries : file < e

Current ==
  /\ loadedMod <= dirMod
  /\ pc = "idle" /\ globalData # NoData =>
       /\ ~overlooked.org /\ dirMod <= loadedMod =>
            shown.org = Content(org) /\ shown.forgejo = Content(org)
       /\ \A f \in Files \ overlooked.teams : shown.teams[f] = Content(teams[f])
  /\ pc \in {"org lines", "forgejo"} /\ ~overlooked.org => seen.org = Content(org)
  /\ pc \in {"forgejo lines", "files", "team lines"} /\ ~overlooked.org =>
       seen.org = Content(org) /\ seen.forgejo = Content(org)
  /\ pc \in {"files", "team lines"} =>
       \A f \in Files \ (overlooked.teams \cup entries) : seen.teams[f] = Content(teams[f])

Texts == [org : Seq(FileLine), forgejo : Seq(FileLine), teams : [Files -> Seq(FileLine)]]
FileTypes ==
  /\ org \in OrgTexts \cup {Absent} /\ teams \in [Files -> TeamTexts \cup {Absent}]
  /\ text \in Seq(FileLine) /\ seen \in Texts /\ shown \in Texts

Types == DataTypes /\ FileTypes
LoadInv == Reading /\ OrgInv /\ ForgejoInv /\ TeamInv
Truth == globalData # NoData /\ Readable(shown) => globalData = Meaning(shown)

-----------------------------------------------------------------------------
(* Lines and tables. *)

LEMMA LineType ==
  ASSUME NEW l \in FileLine
  PROVE  /\ l.table # "" => l.key = ""
         /\ l.key \in WordKeys => l.value \in String
         /\ l.key = "mirror_everyone" => l.value \in BOOLEAN
         /\ l.key \in UserKeys => l.value \subseteq Users
         /\ l.key # "" => l.table = ""
<1>1. CASE l \in TableLine
  <2>1. l.key = "" /\ l.table \in Tables
    BY <1>1 DEF TableLine
  <2> QED
    BY <2>1 DEF WordKeys, UserKeys, PairKeys, SlackKeys, DiscordKeys
<1>2. CASE l \in [table : {""}, key : WordKeys, value : String]
  BY <1>2 DEF WordKeys, UserKeys, PairKeys, SlackKeys, DiscordKeys
<1>3. CASE l \in [table : {""}, key : {"mirror_everyone"}, value : BOOLEAN]
  BY <1>3 DEF WordKeys, UserKeys, PairKeys, SlackKeys, DiscordKeys
<1>4. CASE l \in [table : {""}, key : UserKeys, value : SUBSET Users]
  BY <1>4 DEF WordKeys, UserKeys, PairKeys, SlackKeys, DiscordKeys
<1>5. CASE l = [table |-> "", key |-> "", value |-> Blank]
  BY <1>5 DEF WordKeys, UserKeys, PairKeys, SlackKeys, DiscordKeys
<1> QED
  BY <1>1, <1>2, <1>3, <1>4, <1>5 DEF FileLine, KeyLine

LEMMA Positions ==
  ASSUME NEW t \in Seq(FileLine)
  PROVE  /\ Len(t) \in Nat
         /\ \A j \in Heads(t) : j \in Nat /\ 1 <= j /\ j <= Len(t)
         /\ \A tables : Named(t, tables) \subseteq Heads(t)
<1>1. Len(t) \in Nat
  OBVIOUS
<1>2. ASSUME NEW j \in Heads(t)
      PROVE  j \in Nat /\ 1 <= j /\ j <= Len(t)
  <2>1. j \in 1..Len(t)
    BY DEF Heads
  <2> QED
    BY <1>1, <2>1
<1>3. \A tables : Named(t, tables) \subseteq Heads(t)
  BY DEF Named
<1> QED
  BY <1>1, <1>2, <1>3

LEMMA EmptyText ==
  /\ <<>> \in Seq(FileLine) /\ Len(<<>>) = 0
  /\ Heads(<<>>) = {}
  /\ \A tables : Named(<<>>, tables) = {}
  /\ TidyTeam(<<>>)
<1>1. <<>> \in Seq(FileLine) /\ Len(<<>>) = 0
  OBVIOUS
<1>2. Heads(<<>>) = {}
  BY <1>1 DEF Heads
<1>3. \A tables : Named(<<>>, tables) = {}
  BY <1>2 DEF Named
<1> QED
  BY <1>1, <1>2, <1>3 DEF TidyTeam, Tidy, NoStrays

(* A line of the first k + 1 is one of the first k or the last.             *)
LEMMA KeyedStep ==
  ASSUME NEW t \in Seq(FileLine), NEW k \in Nat, k < Len(t), NEW J, NEW key
  PROVE  /\ ~(t[k + 1].key = key /\ \E j \in J : In(t, j, k + 1)) =>
              Keyed(t, k + 1, J, key) = Keyed(t, k, J, key)
         /\ (t[k + 1].key = key /\ \E j \in J : In(t, j, k + 1)) =>
              Keyed(t, k + 1, J, key) = Keyed(t, k, J, key) \cup {k + 1}
<1>1. 1..(k + 1) = 1..k \cup {k + 1}
  OBVIOUS
<1> QED
  BY <1>1 DEF Keyed

LEMMA ValueSame ==
  ASSUME NEW t, NEW k, NEW l, NEW J, NEW key, Keyed(t, l, J, key) = Keyed(t, k, J, key)
  PROVE  Value(t, l, J, key) = Value(t, k, J, key)
  BY DEF Value

LEMMA ValueNew ==
  ASSUME NEW t \in Seq(FileLine), NEW k \in Nat, k < Len(t), NEW J, NEW key,
         t[k + 1].key = key, \E j \in J : In(t, j, k + 1),
         \A i, l \in Keyed(t, Len(t), J, key) : i = l
  PROVE  Value(t, k + 1, J, key) = t[k + 1].value
<1>1. Keyed(t, k + 1, J, key) \subseteq Keyed(t, Len(t), J, key)
  BY DEF Keyed
<1>2. k + 1 \in Keyed(t, k + 1, J, key)
  BY DEF Keyed
<1>3. (CHOOSE i \in Keyed(t, k + 1, J, key) : TRUE) = k + 1
  BY <1>1, <1>2
<1> QED
  BY <1>2, <1>3 DEF Value

(* The tables of a tidy text have one line for a key.                       *)
LEMMA OneRow ==
  ASSUME NEW t \in Seq(FileLine), Tidy(t), NEW key, key # ""
  PROVE  /\ \A j \in Heads(t) : \A i, l \in Keyed(t, Len(t), {j}, key) : i = l
         /\ \A x \in Single : \A i, l \in Keyed(t, Len(t), Named(t, {x}), key) : i = l
<1>1. ASSUME NEW j \in Heads(t), NEW i \in Keyed(t, Len(t), {j}, key),
             NEW l \in Keyed(t, Len(t), {j}, key)
      PROVE  i = l
  BY <1>1 DEF Keyed, Tidy
<1>2. ASSUME NEW x \in Single, NEW i \in Keyed(t, Len(t), Named(t, {x}), key),
             NEW l \in Keyed(t, Len(t), Named(t, {x}), key)
      PROVE  i = l
  <2>1. PICK j \in Named(t, {x}) : In(t, j, i)
    BY DEF Keyed
  <2>2. PICK h \in Named(t, {x}) : In(t, h, l)
    BY DEF Keyed
  <2>3. j = h
    BY DEF Named, Tidy
  <2> QED
    BY <2>1, <2>2, <2>3 DEF Keyed, Named, Tidy
<1> QED
  BY <1>1, <1>2

(* A table ends where another begins.                                       *)
LEMMA Passed ==
  ASSUME NEW t \in Seq(FileLine), NEW k \in Nat, NEW j \in Nat, NEW h \in Heads(t), j < h, h <= k
  PROVE  ~In(t, j, k + 1)
  BY Positions DEF In

LEMMA InIsLatest ==
  ASSUME NEW t \in Seq(FileLine), NEW k \in Nat, k < Len(t), NEW tables,
         NEW j \in Named(t, tables), In(t, j, k + 1)
  PROVE  Latest(t, tables, j, k)
  BY Positions DEF In, Latest

LEMMA NamedIs ==
  ASSUME NEW t \in Seq(FileLine), NEW tables, "" \notin tables, NEW i \in 1..Len(t)
  PROVE  i \in Named(t, tables) <=> t[i].table \in tables
  BY DEF Named, Heads

LEMMA HeadIs ==
  ASSUME NEW t \in Seq(FileLine), NEW tables, "" \notin tables, NEW i \in 1..Len(t),
         t[i].table \in tables
  PROVE  i \in Heads(t)
<1>1. i \in Named(t, tables)
  BY NamedIs
<1> QED
  BY <1>1, Positions

(* What a line does to the tables that began.                               *)
LEMMA HeadStep ==
  ASSUME NEW t \in Seq(FileLine), NEW k \in Nat, k < Len(t), NEW tables,
         k + 1 \in Named(t, tables)
  PROVE  /\ \A j \in Named(t, tables) : Latest(t, tables, j, k + 1) <=> j = k + 1
         /\ Latest(t, tables, k + 1, k + 1)
         /\ ~NoneYet(t, tables, k + 1)
         /\ Closed(t, tables, k + 1) = Begun(t, tables, k)
  BY Positions DEF Latest, NoneYet, Closed, Begun

LEMMA OtherStep ==
  ASSUME NEW t \in Seq(FileLine), NEW k \in Nat, k < Len(t), NEW tables,
         k + 1 \notin Named(t, tables)
  PROVE  /\ \A j \in Named(t, tables) : Latest(t, tables, j, k + 1) <=> Latest(t, tables, j, k)
         /\ NoneYet(t, tables, k + 1) <=> NoneYet(t, tables, k)
         /\ Closed(t, tables, k + 1) = Closed(t, tables, k)
  BY Positions DEF Latest, NoneYet, Closed

LEMMA FirstStep ==
  ASSUME NEW t \in Seq(FileLine), NEW tables
  PROVE  /\ NoneYet(t, tables, 0)
         /\ \A j \in Named(t, tables) : ~Latest(t, tables, j, 0)
         /\ Closed(t, tables, 0) = {}
  BY Positions DEF Latest, NoneYet, Closed

LEMMA BegunIs ==
  ASSUME NEW t \in Seq(FileLine), NEW tables, NEW k \in Nat
  PROVE  /\ NoneYet(t, tables, k) => Begun(t, tables, k) = {} /\ Closed(t, tables, k) = {}
         /\ \A j \in Named(t, tables) :
              Latest(t, tables, j, k) => Begun(t, tables, k) = Closed(t, tables, k) \cup {j}
         /\ Begun(t, tables, Len(t)) = Named(t, tables)
  BY Positions DEF Latest, NoneYet, Closed, Begun

LEMMA LatestOne ==
  ASSUME NEW t \in Seq(FileLine), NEW k \in Nat, NEW tables, NEW j \in Named(t, tables),
         NEW h \in Named(t, tables), Latest(t, tables, j, k), Latest(t, tables, h, k)
  PROVE  j = h
  BY Positions DEF Latest

LEMMA LatestIn ==
  ASSUME NEW t \in Seq(FileLine), NEW k \in Nat, NEW tables, NEW some \in SUBSET tables,
         NEW j \in Named(t, some), Latest(t, tables, j, k)
  PROVE  Latest(t, some, j, k)
  BY Positions DEF Latest, Named

LEMMA AfterLatest ==
  ASSUME NEW t \in Seq(FileLine), NEW k \in Nat, k < Len(t), NEW tables, NEW j \in Named(t, tables),
         Latest(t, tables, j, k), k + 1 \notin Named(t, tables)
  PROVE  After(t, tables, j, k + 1)
  BY Positions DEF Latest, After

LEMMA ClosedFacts ==
  ASSUME NEW t \in Seq(FileLine), NEW tables, NEW k \in Nat
  PROVE  /\ NoneYet(t, tables, k) => Closed(t, tables, k) = {}
         /\ \A j \in Named(t, tables) :
              Latest(t, tables, j, k) => \A l \in Closed(t, tables, k) : l < j
         /\ Closed(t, tables, k) \subseteq Named(t, tables)
         /\ \A l \in Closed(t, tables, k) : ~In(t, l, k + 1)
  BY Passed, Positions DEF Latest, NoneYet, Closed

(* A line that does not speak of a table changes nothing of it.             *)
LEMMA SaidSame ==
  ASSUME NEW t \in Seq(FileLine), NEW k \in Nat, k < Len(t), NEW j,
         t[k + 1].key \notin PairKeys \/ ~In(t, j, k + 1)
  PROVE  SaidIn(t, k + 1, {j}) = SaidIn(t, k, {j})
<1>1. ASSUME NEW key \in PairKeys
      PROVE  Value(t, k + 1, {j}, key) = Value(t, k, {j}, key)
  <2>1. Keyed(t, k + 1, {j}, key) = Keyed(t, k, {j}, key)
    BY KeyedStep
  <2> QED
    BY <2>1, ValueSame
<1> QED
  BY <1>1 DEF SaidIn

LEMMA SaidNew ==
  ASSUME NEW t \in Seq(FileLine), Tidy(t), NEW k \in Nat, k < Len(t), NEW j \in Heads(t),
         t[k + 1].key \in PairKeys, In(t, j, k + 1)
  PROVE  SaidIn(t, k + 1, {j}) = [SaidIn(t, k, {j}) EXCEPT ![t[k + 1].key] = t[k + 1].value]
<1>1. \A key \in PairKeys : key # t[k + 1].key =>
        Value(t, k + 1, {j}, key) = Value(t, k, {j}, key)
  BY KeyedStep, ValueSame
<1>2. t[k + 1].key # ""
  BY DEF PairKeys
<1>3. Value(t, k + 1, {j}, t[k + 1].key) = t[k + 1].value
  BY <1>2, OneRow, ValueNew
<1> QED
  BY <1>1, <1>3 DEF SaidIn

LEMMA SaidNothing ==
  ASSUME NEW t \in Seq(FileLine), NEW j \in Nat
  PROVE  SaidIn(t, j, {j}) = noChannel
<1>1. \A key : Keyed(t, j, {j}, key) = {}
  BY DEF Keyed, In
<1> QED
  BY <1>1 DEF SaidIn, Value, noChannel

LEMMA ListedSame ==
  ASSUME NEW t \in Seq(FileLine), NEW k \in Nat, k < Len(t), NEW C, NEW key \in {"slack", "discord"},
         \A j \in C : \A x \in Owner(t, j) \cup {j} :
           t[k + 1].key \notin PairKeys \/ ~In(t, x, k + 1)
  PROVE  Listed(t, k + 1, C, key) = Listed(t, k, C, key)
<1>1. key \in PairKeys /\ "slug" \in PairKeys /\ "name" \in PairKeys
  BY DEF PairKeys
<1>2. ASSUME NEW j \in C
      PROVE  IdOf(t, k + 1, j, key) = IdOf(t, k, j, key) /\ InfoOf(t, k + 1, j) = InfoOf(t, k, j)
  <2>1. Value(t, k + 1, {j}, key) = Value(t, k, {j}, key)
    BY <1>1, KeyedStep, ValueSame
  <2>2. \A x \in {"slug", "name"} : Value(t, k + 1, Owner(t, j), x) = Value(t, k, Owner(t, j), x)
    BY <1>1, KeyedStep, ValueSame
  <2>3. SaidIn(t, k + 1, {j}) = SaidIn(t, k, {j})
    BY SaidSame
  <2> QED
    BY <2>1, <2>2, <2>3 DEF IdOf, InfoOf
<1>3. LastOf(t, k + 1, C, key) = LastOf(t, k, C, key)
  BY <1>2 DEF LastOf
<1>4. \A j \in LastOf(t, k, C, key) : j \in C
  BY DEF LastOf
<1> QED
  BY <1>2, <1>3, <1>4 DEF Listed

(* The channel that another one follows is put over those before.           *)
LEMMA ListedMore ==
  ASSUME NEW t, NEW k, NEW C \in SUBSET Nat, NEW j \in Nat, \A l \in C : l < j, NEW key
  PROVE  Listed(t, k, C \cup {j}, key) = Register(Listed(t, k, C, key), IdOf(t, k, j, key), InfoOf(t, k, j))
<1>1. j \notin C /\ \A l \in C : l # j /\ ~(l > j)
  OBVIOUS
<1>2. CASE IdOf(t, k, j, key) = Blank
  <2>1. LastOf(t, k, C \cup {j}, key) = LastOf(t, k, C, key)
    BY <1>1, <1>2 DEF LastOf
  <2> QED
    BY <1>2, <2>1 DEF Listed, Register
<1>3. CASE IdOf(t, k, j, key) # Blank
  <2>1. LastOf(t, k, C \cup {j}, key)
          = {l \in LastOf(t, k, C, key) : IdOf(t, k, l, key) # IdOf(t, k, j, key)} \cup {j}
    <3>1. ASSUME NEW l \in C
          PROVE  l \in LastOf(t, k, C \cup {j}, key)
                   <=> l \in LastOf(t, k, C, key) /\ IdOf(t, k, l, key) # IdOf(t, k, j, key)
      BY <1>1 DEF LastOf
    <3>2. j \in LastOf(t, k, C \cup {j}, key)
      BY <1>1, <1>3 DEF LastOf
    <3>3. LastOf(t, k, C \cup {j}, key) \subseteq C \cup {j} /\ LastOf(t, k, C, key) \subseteq C
      BY DEF LastOf
    <3> QED
      BY <3>1, <3>2, <3>3
  <2>2. Listed(t, k, C \cup {j}, key)
          = {<<IdOf(t, k, l, key), InfoOf(t, k, l)>> :
               l \in {l \in LastOf(t, k, C, key) : IdOf(t, k, l, key) # IdOf(t, k, j, key)}}
            \cup {<<IdOf(t, k, j, key), InfoOf(t, k, j)>>}
    BY <2>1 DEF Listed
  <2>3. {p \in Listed(t, k, C, key) : p[1] # IdOf(t, k, j, key)}
          = {<<IdOf(t, k, l, key), InfoOf(t, k, l)>> :
               l \in {l \in LastOf(t, k, C, key) : IdOf(t, k, l, key) # IdOf(t, k, j, key)}}
    BY DEF Listed
  <2> QED
    BY <1>3, <2>2, <2>3 DEF Register, Put
<1> QED
  BY <1>2, <1>3

LEMMA RegisterOver ==
  ASSUME NEW P, NEW Q, NEW id, NEW info
  PROVE  Register(Over(P, Q), id, info) = Over(P, Register(Q, id, info))
<1>1. Put(Over(P, Q), id, info) = Over(P, Put(Q, id, info))
  <2>1. ASSUME NEW p
        PROVE  p \in Put(Over(P, Q), id, info) <=> p \in Over(P, Put(Q, id, info))
    <3>1. p \in Put(Over(P, Q), id, info) <=>
            \/ p \in P /\ p[1] # id /\ \A q \in Q : q[1] # p[1]
            \/ p \in Q /\ p[1] # id
            \/ p = <<id, info>>
      BY DEF Over, Put
    <3>2. p \in P =>
            ((\A q \in Put(Q, id, info) : q[1] # p[1]) <=>
             (p[1] # id /\ \A q \in Q : q[1] # p[1]))
      <4>1. <<id, info>>[1] = id /\ <<id, info>> \in Put(Q, id, info)
        BY DEF Put
      <4>2. \A q \in Q : q[1] # id => q \in Put(Q, id, info)
        BY DEF Put
      <4>3. \A q \in Put(Q, id, info) : q \in Q \/ q = <<id, info>>
        BY DEF Put
      <4> QED
        BY <4>1, <4>2, <4>3
    <3> QED
      BY <3>1, <3>2 DEF Over, Put
  <2> QED
    BY <2>1
<1> QED
  BY <1>1 DEF Register

LEMMA NoIds ==
  ASSUME NEW map, NEW info
  PROVE  /\ Register(map, Upper[noChannel["slack"]], info) = map
         /\ Register(map, noChannel["discord"], info) = map
  BY WordAssumption DEF noChannel, PairKeys, String, Register

LEMMA HubPut ==
  ASSUME NEW H, NEW id, NEW info, \A p \in H : p = <<p[1], info>>
  PROVE  Put(H, id, info) = H \cup {<<id, info>>}
  BY DEF Put

LEMMA OverNothing ==
  ASSUME NEW P
  PROVE  Over(P, {}) = P /\ Over({}, P) = P
  BY DEF Over

-----------------------------------------------------------------------------
(* Types. *)

LEMMA FlagTypes ==
  ASSUME DataTypes
  PROVE  /\ inOrgComm \in BOOLEAN /\ inOrgChannels \in BOOLEAN /\ inForgejo \in BOOLEAN
         /\ inTeamHeader \in BOOLEAN /\ inProject \in BOOLEAN /\ inChannelTable \in BOOLEAN
  BY DEF DataTypes

LEMMA RegisterType ==
  ASSUME NEW map \in SUBSET (String \X Info), NEW id \in String, NEW info \in Info
  PROVE  Put(map, id, info) \in SUBSET (String \X Info) /\ Register(map, id, info) \in SUBSET (String \X Info)
  BY DEF Register, Put

LEMMA NoInfoType == noInfo \in Info /\ noChannel = [k \in PairKeys |-> noChannel[k]]
                    /\ (\A k \in PairKeys \cap WordKeys : noChannel[k] \in String)
                    /\ noChannel["mirror_everyone"] = FALSE
<1>1. /\ "slack" \in PairKeys /\ "discord" \in PairKeys /\ "mirror_role" \in PairKeys
      /\ "mirror_everyone" \in PairKeys /\ "mirror_everyone" \notin WordKeys
  BY DEF PairKeys, WordKeys, SlackKeys, DiscordKeys
<1>2. Blank \in String /\ Upper[Blank] \in String
  BY WordAssumption DEF String
<1> QED
  BY <1>1, <1>2 DEF noInfo, TeamInfo, noChannel, Info

LEMMA FlushTypes ==
  ASSUME DataTypes
  PROVE  flushTeamChannel \in Data /\ flushOrgChannel \in Data
<1>1. /\ "slack" \in PairKeys \cap WordKeys /\ "discord" \in PairKeys \cap WordKeys
      /\ "mirror_role" \in PairKeys \cap WordKeys /\ "slug" \in PairKeys \cap WordKeys
      /\ "name" \in PairKeys \cap WordKeys
  BY DEF PairKeys, WordKeys, SlackKeys, DiscordKeys
<1>2. /\ channel["slack"] \in String /\ channel["discord"] \in String
      /\ channel["mirror_role"] \in String /\ channel["slug"] \in String
      /\ channel["name"] \in String /\ channel["mirror_everyone"] \in BOOLEAN
  BY <1>1 DEF DataTypes
<1>3. Upper[channel["slack"]] \in String
  BY <1>2, WordAssumption
<1>4. \A sl, nm \in String : TeamInfo(sl, nm, channel) \in Info
  BY <1>2, <1>3 DEF TeamInfo, Info
<1>5. d \in Data /\ slug \in String /\ name \in String
  BY DEF DataTypes
<1>6. flushTeamChannel \in Data
  <2>1. PICK i \in Info : i = TeamInfo(slug, name, channel)
    BY <1>4, <1>5
  <2>2. PICK sm \in SUBSET (String \X Info) : sm = Register(d.slackToTeam, Upper[channel["slack"]], i)
    BY <1>3, <1>5, RegisterType DEF Data
  <2>3. PICK dm \in SUBSET (String \X Info) : dm = Register(d.discordToTeam, channel["discord"], i)
    BY <1>2, <1>5, RegisterType DEF Data
  <2>4. flushTeamChannel = IF slug = Blank THEN d ELSE [d EXCEPT !.slackToTeam = sm, !.discordToTeam = dm]
    BY <2>1, <2>2, <2>3, <1>5 DEF flushTeamChannel, Data
  <2> QED
    BY <2>4, <1>5 DEF Data
<1>7. flushOrgChannel \in Data
  <2>1. PICK i \in Info : i = TeamInfo(channel["slug"], channel["name"], channel)
    BY <1>2, <1>4
  <2>2. PICK sm \in SUBSET (String \X Info) : sm = Register(d.orgSlack, Upper[channel["slack"]], i)
    BY <1>3, <1>5, RegisterType DEF Data
  <2>3. PICK dm \in SUBSET (String \X Info) : dm = Register(d.orgDiscord, channel["discord"], i)
    BY <1>2, <1>5, RegisterType DEF Data
  <2>4. flushOrgChannel = [d EXCEPT !.orgSlack = sm, !.orgDiscord = dm]
    BY <2>1, <2>2, <2>3, <1>5 DEF flushOrgChannel, Data
  <2> QED
    BY <2>4, <1>5 DEF Data
<1> QED
  BY <1>6, <1>7

LEMMA LineIsOne ==
  ASSUME Types, More
  PROVE  /\ line \in FileLine /\ at \in Nat /\ at - 1 \in Nat /\ (at - 1) + 1 = at
         /\ at - 1 < Len(text) /\ at + 1 \in 1..Len(text) + 1 /\ at \in 1..Len(text)
<1>0. text \in Seq(FileLine)
  BY DEF Types, FileTypes
<1>1. at \in 1..Len(text) + 1 /\ Len(text) \in Nat
  <2>1. Len(text) \in Nat
    BY <1>0
  <2> QED
    BY <2>1 DEF Types, DataTypes
<1>2. at \in 1..Len(text)
  BY <1>1 DEF More
<1> QED
  BY <1>0, <1>1, <1>2 DEF line

LEMMA PairTypes ==
  ASSUME DataTypes, line \in FileLine
  PROVE  /\ parseChannelPair(line) = [k \in PairKeys |-> parseChannelPair(line)[k]]
         /\ \A k \in PairKeys \cap WordKeys : parseChannelPair(line)[k] \in String
         /\ parseChannelPair(line)["mirror_everyone"] \in BOOLEAN
<1>1. CASE line.key \notin PairKeys
  BY <1>1 DEF parseChannelPair, DataTypes
<1>2. CASE line.key \in PairKeys
  <2>1. parseChannelPair(line) = [channel EXCEPT ![line.key] = line.value]
    BY <1>2 DEF parseChannelPair
  <2>2. channel = [k \in PairKeys |-> channel[k]]
    BY DEF DataTypes
  <2>3. parseChannelPair(line) = [k \in PairKeys |-> IF k = line.key THEN line.value ELSE channel[k]]
    BY <2>1, <2>2
  <2>4. "mirror_everyone" \in PairKeys /\ "mirror_everyone" \notin WordKeys
    BY DEF PairKeys, WordKeys, SlackKeys, DiscordKeys
  <2>5. line.key \in WordKeys => line.value \in String
    BY LineType
  <2>6. line.key = "mirror_everyone" => line.value \in BOOLEAN
    BY LineType
  <2>7. ASSUME NEW k \in PairKeys \cap WordKeys
        PROVE  parseChannelPair(line)[k] \in String
    <3>1. parseChannelPair(line)[k] = IF k = line.key THEN line.value ELSE channel[k]
      BY <2>3
    <3>2. channel[k] \in String
      BY DEF DataTypes
    <3> QED
      BY <3>1, <3>2, <2>5
  <2>8. parseChannelPair(line)["mirror_everyone"] \in BOOLEAN
    <3>1. CASE line.key = "mirror_everyone"
      <4>1. parseChannelPair(line)["mirror_everyone"] = line.value
        BY <2>3, <2>4, <3>1
      <4> QED
        BY <4>1, <2>6, <3>1
    <3>2. CASE line.key # "mirror_everyone"
      <4>1. parseChannelPair(line)["mirror_everyone"] = channel["mirror_everyone"]
        BY <2>3, <2>4, <3>2
      <4> QED
        BY <4>1 DEF DataTypes
    <3> QED
      BY <3>1, <3>2
  <2> QED
    BY <2>3, <2>7, <2>8
<1> QED
  BY <1>1, <1>2

LEMMA ContentType ==
  ASSUME FileTypes
  PROVE  Content(org) \in Seq(FileLine) /\ \A f \in Files : Content(teams[f]) \in Seq(FileLine)
  BY TextAssumption DEF FileTypes, Content

LEMMA EmptyTypes == emptyData \in Data /\ nothingSeen \in Texts /\ allSeen \in [org : BOOLEAN, teams : SUBSET Files]
  BY EmptyText DEF emptyData, nothingSeen, allSeen, Data, Texts, String

LEMMA TypesStart == DataInit => Types
<1> SUFFICES ASSUME DataInit PROVE Types
  OBVIOUS
<1>1. at \in 1..Len(text) + 1
  BY DEF DataInit, NothingLoaded
<1>2. DataTypes
  BY <1>1, NoInfoType, EmptyTypes DEF DataInit, NothingLoaded, DataTypes, String
<1>3. FileTypes
  BY EmptyTypes, EmptyText DEF DataInit, NothingLoaded, FileTypes
<1> QED
  BY <1>2, <1>3 DEF Types

LEMMA TypesStep == Types /\ [DataNext]_dataVars => Types'
<1> SUFFICES ASSUME Types, [DataNext]_dataVars PROVE Types'
  OBVIOUS
<1> USE DEF Types
<1>1. CASE \E c \in Callers : Miss(c) \/ Recheck(c)
  <2>1. DataTypes'
    BY <1>1 DEF Miss, Recheck, DataTypes, directory, package, flags, result, reading, history
  <2>2. FileTypes'
    BY <1>1 DEF Miss, Recheck, FileTypes, directory, package, flags, result, reading, history
  <2> QED
    BY <2>1, <2>2 DEF Types
<1>2. CASE \E c \in Callers : Load(c)
  <2>1. DataTypes'
    BY <1>2, EmptyTypes DEF Load, DataTypes, directory, package, flags, result, reading, history
  <2>2. FileTypes'
    BY <1>2, EmptyTypes DEF Load, FileTypes, directory, package, flags, result, reading, history
  <2> QED
    BY <2>1, <2>2 DEF Types
<1>3. CASE Finish
  <2>1. DataTypes'
    BY <1>3 DEF Finish, DataTypes, directory, package, flags, result, reading, history
  <2>2. FileTypes'
    BY <1>3 DEF Finish, FileTypes, directory, package, flags, result, reading, history
  <2> QED
    BY <2>1, <2>2 DEF Types
<1>4. CASE ReadOrg
  <2>1. /\ channel' = [k \in PairKeys |-> channel'[k]] /\ channel'["mirror_everyone"] \in BOOLEAN
        /\ \A k \in PairKeys \cap WordKeys : channel'[k] \in String
    BY <1>4, NoInfoType DEF ReadOrg
  <2>2. text' \in Seq(FileLine)
    BY <1>4, ContentType DEF ReadOrg
  <2>3. at' \in 1..Len(text') + 1
    <3>1. at' = 1
      BY <1>4 DEF ReadOrg
    <3>2. Len(text') \in Nat
      BY <2>2
    <3> QED
      BY <3>1, <3>2
  <2>4. overlooked' \in [org : BOOLEAN, teams : SUBSET Files]
    BY <1>4 DEF ReadOrg, DataTypes
  <2>5. seen' \in Texts
    BY <1>4, ContentType DEF ReadOrg, FileTypes, Texts
  <2>6. DataTypes'
    BY <1>4, <2>1, <2>2, <2>3, <2>4 DEF ReadOrg, DataTypes, directory, package, flags, result, reading, history
  <2>7. FileTypes'
    BY <1>4, <2>2, <2>5 DEF ReadOrg, FileTypes, directory, package, flags, result, reading, history
  <2> QED
    BY <2>6, <2>7
<1>5. CASE OrgLine
  <2>1. line \in FileLine /\ at + 1 \in 1..Len(text) + 1
    BY <1>5, LineIsOne DEF OrgLine
  <2>2. /\ channel' = [k \in PairKeys |-> channel'[k]] /\ channel'["mirror_everyone"] \in BOOLEAN
        /\ \A k \in PairKeys \cap WordKeys : channel'[k] \in String
    <3>1. channel' \in {channel, noChannel, parseChannelPair(line)}
      BY <1>5 DEF OrgLine
    <3>2. CASE channel' = channel
      BY <3>2 DEF DataTypes
    <3>3. CASE channel' = noChannel
      BY <3>3, NoInfoType
    <3>4. CASE channel' = parseChannelPair(line)
      BY <2>1, <3>4, PairTypes
    <3> QED
      BY <3>1, <3>2, <3>3, <3>4
  <2>3. d' \in Data
    <3>1. d' \in {d, flushOrgChannel, parseOrgCommKey(line)}
      BY <1>5 DEF OrgLine
    <3>2. parseOrgCommKey(line) \in Data
      <4>1. d \in Data
        BY DEF DataTypes
      <4>2. CASE line.key \in SlackKeys \cup DiscordKeys
        <5>1. line.value \in String /\ Upper[line.value] \in String
          BY <2>1, <4>2, LineType, WordAssumption DEF WordKeys
        <5>2. PICK sm \in SUBSET (String \X Info) : sm = Put(d.orgSlack, Upper[line.value], noInfo)
          BY <4>1, <5>1, RegisterType, NoInfoType DEF Data
        <5>3. PICK dm \in SUBSET (String \X Info) : dm = Put(d.orgDiscord, line.value, noInfo)
          BY <4>1, <5>1, RegisterType, NoInfoType DEF Data
        <5>4. [d EXCEPT !.orgSlack = sm] \in Data /\ [d EXCEPT !.orgDiscord = dm] \in Data
          BY <4>1 DEF Data
        <5>5. /\ [d EXCEPT !.orgSlack = Put(@, Upper[line.value], noInfo)] = [d EXCEPT !.orgSlack = sm]
              /\ [d EXCEPT !.orgDiscord = Put(@, line.value, noInfo)] = [d EXCEPT !.orgDiscord = dm]
          BY <5>2, <5>3
        <5> QED
          BY <4>1, <4>2, <5>4, <5>5 DEF parseOrgCommKey
      <4>3. CASE line.key \notin SlackKeys \cup DiscordKeys
        BY <4>1, <4>3 DEF parseOrgCommKey
      <4> QED
        BY <4>2, <4>3
    <3> QED
      BY <3>1, <3>2, FlushTypes DEF DataTypes
  <2>4. inOrgComm' \in BOOLEAN /\ inOrgChannels' \in BOOLEAN
    BY <1>5, FlagTypes DEF OrgLine
  <2>5. DataTypes'
    BY <1>5, <2>1, <2>2, <2>3, <2>4 DEF OrgLine, DataTypes, directory, package, history
  <2>6. FileTypes'
    BY <1>5 DEF OrgLine, FileTypes, directory, package, history
  <2> QED
    BY <2>5, <2>6
<1>6. CASE OrgEnd
  <2>1. DataTypes'
    BY <1>6, FlushTypes, NoInfoType DEF OrgEnd, DataTypes, directory, package, flags, result, reading, history
  <2>2. FileTypes'
    BY <1>6, FlushTypes, NoInfoType DEF OrgEnd, FileTypes, directory, package, flags, result, reading, history
  <2> QED
    BY <2>1, <2>2 DEF Types
<1>7. CASE ReadForgejo
  <2>1. text' \in Seq(FileLine)
    BY <1>7, ContentType DEF ReadForgejo
  <2>2. at' \in 1..Len(text') + 1
    <3>1. at' = 1
      BY <1>7 DEF ReadForgejo
    <3>2. Len(text') \in Nat
      BY <2>1
    <3> QED
      BY <3>1, <3>2
  <2>3. seen' \in Texts
    BY <1>7, ContentType DEF ReadForgejo, FileTypes, Texts
  <2>4. DataTypes'
    BY <1>7, <2>1, <2>2 DEF ReadForgejo, DataTypes, directory, package, flags, result, reading, history
  <2>5. FileTypes'
    BY <1>7, <2>1, <2>3 DEF ReadForgejo, FileTypes, directory, package, flags, result, reading, history
  <2> QED
    BY <2>4, <2>5
<1>8. CASE ForgejoLine
  <2>1. line \in FileLine /\ at + 1 \in 1..Len(text) + 1
    BY <1>8, LineIsOne DEF ForgejoLine
  <2>2. d' \in Data
    <3>1. line.key = "url" => line.value \in String
      BY <2>1, LineType DEF WordKeys
    <3> QED
      BY <1>8, <3>1 DEF ForgejoLine, DataTypes, Data
  <2>3. inForgejo' \in BOOLEAN
    BY <1>8, FlagTypes DEF ForgejoLine
  <2>4. DataTypes'
    BY <1>8, <2>1, <2>2, <2>3 DEF ForgejoLine, DataTypes, directory, package, history
  <2>5. FileTypes'
    BY <1>8 DEF ForgejoLine, FileTypes, directory, package, history
  <2> QED
    BY <2>4, <2>5
<1>9. CASE ForgejoEnd
  <2>1. DataTypes'
    BY <1>9 DEF ForgejoEnd, DataTypes, directory, package, flags, result, reading, history
  <2>2. FileTypes'
    BY <1>9 DEF ForgejoEnd, FileTypes, directory, package, flags, result, reading, history
  <2> QED
    BY <2>1, <2>2 DEF Types
<1>10. CASE ReadTeam
  <2>0. PICK f \in entries :
          /\ entries' = entries \ {f} /\ file' = f
          /\ text' = Content(teams[f])
          /\ seen' = [seen EXCEPT !.teams[f] = Content(teams[f])]
          /\ overlooked' = [overlooked EXCEPT !.teams = @ \ {f}]
    BY <1>10 DEF ReadTeam
  <2>1. f \in Files
    BY DEF DataTypes
  <2>2. text' \in Seq(FileLine)
    BY <2>0, <2>1, ContentType
  <2>3. at' \in 1..Len(text') + 1
    <3>1. at' = 1
      BY <1>10 DEF ReadTeam
    <3>2. Len(text') \in Nat
      BY <2>2
    <3> QED
      BY <3>1, <3>2
  <2>4. seen' \in Texts
    BY <2>0, <2>1, ContentType DEF FileTypes, Texts
  <2>5. /\ channel' = [k \in PairKeys |-> channel'[k]] /\ channel'["mirror_everyone"] \in BOOLEAN
        /\ \A k \in PairKeys \cap WordKeys : channel'[k] \in String
    BY <1>10, NoInfoType DEF ReadTeam
  <2>6. overlooked' \in [org : BOOLEAN, teams : SUBSET Files]
    BY <2>0 DEF DataTypes
  <2>7. DataTypes'
    BY <1>10, <2>0, <2>1, <2>3, <2>5, <2>6 DEF ReadTeam, DataTypes, String, directory, package
  <2>8. FileTypes'
    BY <1>10, <2>2, <2>4 DEF ReadTeam, FileTypes, directory, package
  <2> QED
    BY <2>7, <2>8
<1>11. CASE TeamLine
  <2>1. line \in FileLine /\ at + 1 \in 1..Len(text) + 1
    BY <1>11, LineIsOne DEF TeamLine
  <2>2. OtherTable \/ ChannelTable \/ TeamKey
    BY <1>11 DEF TeamLine
  <2>3. /\ channel' = [k \in PairKeys |-> channel'[k]] /\ channel'["mirror_everyone"] \in BOOLEAN
        /\ \A k \in PairKeys \cap WordKeys : channel'[k] \in String
    <3>1. channel' \in {channel, noChannel, parseChannelPair(line)}
      BY <2>2 DEF OtherTable, ChannelTable, TeamKey, result
    <3>2. CASE channel' = channel
      BY <3>2 DEF DataTypes
    <3>3. CASE channel' = noChannel
      BY <3>3, NoInfoType
    <3>4. CASE channel' = parseChannelPair(line)
      BY <2>1, <3>4, PairTypes
    <3> QED
      BY <3>1, <3>2, <3>3, <3>4
  <2>4. slug' \in String /\ name' \in String
    <3>1. line.key \in {"slug", "name"} => line.value \in String
      BY <2>1, LineType DEF WordKeys, PairKeys
    <3> QED
      BY <2>2, <3>1 DEF OtherTable, ChannelTable, TeamKey, result, DataTypes
  <2>5. localMembers' \subseteq Users /\ d' \in Data
    <3>1. line.key \in UserKeys => line.value \subseteq Users
      BY <2>1, LineType
    <3>2. CASE OtherTable
      BY <3>2 DEF OtherTable, result, DataTypes
    <3>3. CASE ChannelTable
      BY <3>3, FlushTypes DEF ChannelTable, DataTypes
    <3>4. CASE TeamKey
      <4>1. d \in Data /\ localMembers \subseteq Users
        BY DEF DataTypes
      <4>2. CASE ~inChannelTable /\ (inTeamHeader \/ inProject) /\ line.key \in UserKeys
        <5>1. localMembers' = localMembers \cup line.value /\ d' = [d EXCEPT !.members = @ \cup line.value]
          BY <3>4, <4>2 DEF TeamKey
        <5> QED
          BY <3>1, <4>1, <4>2, <5>1 DEF Data
      <4>3. CASE ~(~inChannelTable /\ (inTeamHeader \/ inProject) /\ line.key \in UserKeys)
        BY <3>4, <4>1, <4>3 DEF TeamKey
      <4> QED
        BY <4>2, <4>3
    <3> QED
      BY <2>2, <3>2, <3>3, <3>4
  <2>6. inTeamHeader' \in BOOLEAN /\ inProject' \in BOOLEAN /\ inChannelTable' \in BOOLEAN
    BY <2>2, FlagTypes DEF OtherTable, ChannelTable, TeamKey
  <2>7. DataTypes'
    BY <1>11, <2>1, <2>3, <2>4, <2>5, <2>6 DEF TeamLine, DataTypes, directory, package, history
  <2>8. FileTypes'
    BY <1>11 DEF TeamLine, FileTypes, directory, package, history
  <2> QED
    BY <2>7, <2>8
<1>12. CASE TeamEnd
  <2>1. /\ channel' = [k \in PairKeys |-> channel'[k]] /\ channel'["mirror_everyone"] \in BOOLEAN
        /\ \A k \in PairKeys \cap WordKeys : channel'[k] \in String
    BY <1>12, NoInfoType DEF TeamEnd
  <2>2. d' \in Data
    BY <1>12, FlushTypes DEF TeamEnd, Data, DataTypes
  <2>3. DataTypes'
    BY <1>12, <2>1, <2>2 DEF TeamEnd, DataTypes, directory, package, flags, result, reading, history
  <2>4. FileTypes'
    BY <1>12 DEF TeamEnd, FileTypes, directory, package, flags, result, reading, history
  <2> QED
    BY <2>3, <2>4
<1>13. CASE Expire
  <2>1. DataTypes'
    BY <1>13 DEF Expire, DataTypes, directory, package, flags, result, reading, history
  <2>2. FileTypes'
    BY <1>13 DEF Expire, FileTypes, directory, package, flags, result, reading, history
  <2> QED
    BY <2>1, <2>2 DEF Types
<1>14. CASE \E o \in OrgTexts \cup {Absent}, f \in Files, t \in TeamTexts \cup {Absent} : Edit(o, f, t)
  <2>0. PICK o \in OrgTexts \cup {Absent}, f \in Files, t \in TeamTexts \cup {Absent} : Edit(o, f, t)
    BY <1>14
  <2>1. edits' \in 0..MaxEdits
    <3>1. edits \in 0..MaxEdits /\ edits < MaxEdits /\ edits' = edits + 1 /\ MaxEdits \in Nat
      BY <2>0, BoundAssumption DEF Edit, DataTypes
    <3> QED
      BY <3>1
  <2>2. dirMod' \in Nat /\ overlooked' \in [org : BOOLEAN, teams : SUBSET Files]
    <3>1. overlooked \in [org : BOOLEAN, teams : SUBSET Files] /\ dirMod \in Nat
      BY DEF DataTypes
    <3>2. CASE EditOrg(o)
      BY <3>1, <3>2 DEF EditOrg
    <3>3. CASE ReplaceOrg(o)
      <4>1. dirMod' = dirMod + 1 /\ overlooked' = [overlooked EXCEPT !.org = @ \/ holder # NoCaller]
        BY <3>3 DEF ReplaceOrg
      <4>2. PICK b \in BOOLEAN : b = (overlooked.org \/ holder # NoCaller)
        OBVIOUS
      <4>3. overlooked' = [overlooked EXCEPT !.org = b]
        BY <4>1, <4>2
      <4> QED
        BY <3>1, <4>1, <4>3
    <3>4. CASE EditTeam(f, t)
      BY <3>1, <3>4 DEF EditTeam
    <3> QED
      BY <2>0, <3>2, <3>3, <3>4 DEF Edit
  <2>3. DataTypes'
    BY <2>0, <2>1, <2>2 DEF Edit, DataTypes, package, flags, result, reading
  <2>4. FileTypes'
    BY <2>0 DEF Edit, EditOrg, ReplaceOrg, EditTeam, FileTypes, package, flags, result, reading
  <2> QED
    BY <2>3, <2>4
<1>15. CASE UNCHANGED dataVars
  <2>1. DataTypes'
    BY <1>15 DEF dataVars, DataTypes, directory, package, flags, result, reading, history
  <2>2. FileTypes'
    BY <1>15 DEF dataVars, FileTypes, directory, package, flags, result, reading, history
  <2> QED
    BY <2>1, <2>2 DEF Types
<1> QED
  BY <1>1, <1>2, <1>3, <1>4, <1>5, <1>6, <1>7, <1>8, <1>9, <1>10, <1>11, <1>12, <1>13, <1>14, <1>15
  DEF DataNext, Get, LoadOrg, LoadTeam

-----------------------------------------------------------------------------
(* What was read, and when. *)

LEMMA FileFacts ==
  ASSUME Types
  PROVE  /\ Files \subseteq Nat /\ entries \subseteq Files /\ file \in Files
         /\ seen.teams \in [Files -> Seq(FileLine)] /\ text \in Seq(FileLine)
         /\ seen.org \in Seq(FileLine) /\ seen.forgejo \in Seq(FileLine)
         /\ seen = [org |-> seen.org, forgejo |-> seen.forgejo, teams |-> seen.teams]
         /\ overlooked.org \in BOOLEAN /\ overlooked.teams \subseteq Files
         /\ overlooked = [org |-> overlooked.org, teams |-> overlooked.teams]
  BY TextAssumption DEF Types, DataTypes, FileTypes, Texts

LEMMA ReadingStart == DataInit => Reading
  BY DEF DataInit, NothingLoaded, Reading

LEMMA ReadingStep == Types /\ Reading /\ [DataNext]_dataVars => Reading'
<1> SUFFICES ASSUME Types, Reading, [DataNext]_dataVars PROVE Reading'
  OBVIOUS
<1>1. CASE \E c \in Callers : Miss(c) \/ Recheck(c)
  BY <1>1 DEF Miss, Recheck, Reading, directory, package, flags, result, reading, history
<1>2. CASE \E c \in Callers : Load(c)
  BY <1>2, BoundAssumption DEF Load, Reading, directory, package, flags, result, reading, history
<1>3. CASE Finish
  BY <1>3 DEF Finish, Reading, directory, package, flags, result, reading, history
<1>4. CASE ReadOrg
  BY <1>4, FileFacts DEF ReadOrg, Reading, directory, package, flags, result, reading, history
<1>5. CASE OrgLine
  BY <1>5 DEF OrgLine, Reading, directory, package, flags, result, reading, history
<1>6. CASE OrgEnd
  BY <1>6 DEF OrgEnd, Reading, directory, package, flags, result, reading, history
<1>7. CASE ReadForgejo
  BY <1>7, FileFacts DEF ReadForgejo, Reading, directory, package, flags, result, reading, history
<1>8. CASE ForgejoLine
  BY <1>8 DEF ForgejoLine, Reading, directory, package, flags, result, reading, history
<1>9. CASE ForgejoEnd
  BY <1>9, FileFacts DEF ForgejoEnd, Reading, nothingSeen, directory, package, flags, result, reading, history
<1>10. CASE ReadTeam
  <2>0. PICK f \in entries :
          /\ \A g \in entries : f <= g
          /\ entries' = entries \ {f} /\ file' = f
          /\ text' = Content(teams[f])
          /\ seen' = [seen EXCEPT !.teams[f] = Content(teams[f])]
    BY <1>10 DEF ReadTeam
  <2>1. f \in Files
    BY FileFacts
  <2>2. seen'.teams = [seen.teams EXCEPT ![f] = Content(teams[f])]
    BY <2>0, FileFacts
  <2>3. text' = seen'.teams[file']
    BY <2>0, <2>1, <2>2, FileFacts
  <2>4. \A g \in Files : seen'.teams[g] # <<>> => g <= file'
    <3> SUFFICES ASSUME NEW g \in Files, seen'.teams[g] # <<>> PROVE g <= file'
      OBVIOUS
    <3>1. f \in Nat /\ g \in Nat /\ file' = f
      BY <2>0, <2>1, FileFacts
    <3>2. g # f => seen'.teams[g] = seen.teams[g]
      BY <2>2, FileFacts
    <3>3. seen.teams[g] # <<>> => g < f
      BY <1>10 DEF ReadTeam, Reading
    <3> QED
      BY <3>1, <3>2, <3>3
  <2>5. \A e \in entries' : file' < e
    BY <2>0, <2>1, FileFacts
  <2> QED
    BY <1>10, <2>3, <2>4, <2>5 DEF ReadTeam, Reading, package
<1>11. CASE TeamLine
  BY <1>11 DEF TeamLine, OtherTable, ChannelTable, TeamKey, Reading, directory, package, flags, result, reading, history
<1>12. CASE TeamEnd
  <2>1. ASSUME NEW e \in entries, NEW f \in Files, seen.teams[f] # <<>>
        PROVE  f < e
    <3>1. f \in Nat /\ e \in Nat /\ file \in Nat
      BY FileFacts
    <3>2. f <= file /\ file < e
      BY <1>12, <2>1 DEF TeamEnd, Reading
    <3> QED
      BY <3>1, <3>2
  <2> QED
    BY <1>12, <2>1 DEF TeamEnd, Reading, directory, package, history
<1>13. CASE Expire
  BY <1>13 DEF Expire, Reading, directory, package, flags, result, reading, history
<1>14. CASE \E o \in OrgTexts \cup {Absent}, f \in Files, t \in TeamTexts \cup {Absent} : Edit(o, f, t)
  BY <1>14 DEF Edit, Reading, directory, package, flags, result, reading, history
<1>15. CASE UNCHANGED dataVars
  BY <1>15 DEF dataVars, Reading, directory, package, flags, result, reading, history
<1> QED
  BY <1>1, <1>2, <1>3, <1>4, <1>5, <1>6, <1>7, <1>8, <1>9, <1>10, <1>11, <1>12, <1>13, <1>14, <1>15
  DEF DataNext, Get, LoadOrg, LoadTeam

LEMMA CurrentStart == DataInit => Current
  BY DEF DataInit, NothingLoaded, Current

LEMMA CurrentStep == Types /\ Reading /\ Current /\ [DataNext]_dataVars => Current'
<1> SUFFICES ASSUME Types, Reading, Current, [DataNext]_dataVars PROVE Current'
  OBVIOUS
<1>1. CASE \E c \in Callers : Miss(c) \/ Recheck(c)
  BY <1>1 DEF Miss, Recheck, Current, directory, package, flags, result, reading, history
<1>2. CASE \E c \in Callers : Load(c)
  BY <1>2 DEF Load, Current, directory, package, flags, result, reading, history
<1>3. CASE Finish
  <2>1. dirMod \in Nat
    BY DEF Types, DataTypes
  <2>2. loadedMod' <= dirMod'
    BY <1>3, <2>1 DEF Finish, directory
  <2>3. pc = "files" /\ entries = {} /\ pc' = "idle" /\ shown' = seen
    BY <1>3 DEF Finish
  <2>4. ~overlooked.org => seen.org = Content(org) /\ seen.forgejo = Content(org)
    BY <2>3 DEF Current
  <2>5. \A f \in Files \ overlooked.teams : seen.teams[f] = Content(teams[f])
    BY <2>3 DEF Current
  <2> QED
    BY <1>3, <2>2, <2>3, <2>4, <2>5 DEF Finish, Current, directory
<1>4. CASE ReadOrg
  BY <1>4, FileFacts DEF ReadOrg, Current, directory, package, flags, result, reading, history
<1>5. CASE OrgLine
  BY <1>5 DEF OrgLine, Current, directory, package, flags, result, reading, history
<1>6. CASE OrgEnd
  BY <1>6 DEF OrgEnd, Current, directory, package, flags, result, reading, history
<1>7. CASE ReadForgejo
  BY <1>7, FileFacts DEF ReadForgejo, Current, directory, package, flags, result, reading, history
<1>8. CASE ForgejoLine
  BY <1>8 DEF ForgejoLine, Current, directory, package, flags, result, reading, history
<1>9. CASE ForgejoEnd
  <2>1. entries' = {f \in Files : teams[f] # Absent}
    BY <1>9 DEF ForgejoEnd
  <2>2. overlooked'.org = overlooked.org /\ overlooked'.teams = overlooked.teams \cap entries'
    BY <1>9, FileFacts DEF ForgejoEnd
  <2>3. ASSUME NEW f \in Files \ (overlooked'.teams \cup entries')
        PROVE  seen.teams[f] = Content(teams[f])
    <3>1. Content(teams[f]) = <<>>
      BY <2>1 DEF Content
    <3>2. seen.teams[f] = <<>>
      BY <1>9 DEF ForgejoEnd, Reading, nothingSeen
    <3> QED
      BY <3>1, <3>2
  <2> QED
    BY <1>9, <2>2, <2>3 DEF ForgejoEnd, Current, directory, package
<1>10. CASE ReadTeam
  <2>0. PICK f \in entries :
          /\ entries' = entries \ {f} /\ file' = f
          /\ seen' = [seen EXCEPT !.teams[f] = Content(teams[f])]
          /\ overlooked' = [overlooked EXCEPT !.teams = @ \ {f}]
    BY <1>10 DEF ReadTeam
  <2>1. f \in Files
    BY FileFacts
  <2>2. /\ seen'.teams = [seen.teams EXCEPT ![f] = Content(teams[f])]
        /\ seen'.org = seen.org /\ seen'.forgejo = seen.forgejo
    BY <2>0, FileFacts
  <2>3. overlooked'.org = overlooked.org /\ overlooked'.teams = overlooked.teams \ {f}
    BY <2>0, FileFacts
  <2>4. ASSUME NEW g \in Files \ (overlooked'.teams \cup entries')
        PROVE  seen'.teams[g] = Content(teams[g])
    <3>1. CASE g = f
      BY <2>1, <2>2, <3>1, FileFacts
    <3>2. CASE g # f
      <4>1. g \in Files \ (overlooked.teams \cup entries)
        BY <2>0, <2>3, <3>2
      <4>2. seen'.teams[g] = seen.teams[g]
        BY <2>2, <3>2, FileFacts
      <4> QED
        BY <1>10, <4>1, <4>2 DEF ReadTeam, Current
    <3> QED
      BY <3>1, <3>2
  <2> QED
    BY <1>10, <2>2, <2>3, <2>4 DEF ReadTeam, Current, directory, package
<1>11. CASE TeamLine
  BY <1>11 DEF TeamLine, OtherTable, ChannelTable, TeamKey, Current, directory, package, flags, result, reading, history
<1>12. CASE TeamEnd
  BY <1>12 DEF TeamEnd, Current, directory, package, flags, result, reading, history
<1>13. CASE Expire
  BY <1>13 DEF Expire, Current, directory, package, flags, result, reading, history
<1>14. CASE \E o \in OrgTexts \cup {Absent}, f \in Files, t \in TeamTexts \cup {Absent} : Edit(o, f, t)
  <2>0. PICK o \in OrgTexts \cup {Absent}, f \in Files, t \in TeamTexts \cup {Absent} : Edit(o, f, t)
    BY <1>14
  <2>1. dirMod \in Nat /\ loadedMod \in Nat
    BY DEF Types, DataTypes
  <2>2. CASE EditOrg(o)
    <3>1. overlooked'.org = TRUE /\ overlooked'.teams = overlooked.teams
      BY <2>2, FileFacts DEF EditOrg
    <3> QED
      BY <2>0, <2>2, <3>1 DEF Edit, EditOrg, Current, package, reading
  <2>3. CASE ReplaceOrg(o)
    <3>1. overlooked'.org = (overlooked.org \/ holder # NoCaller) /\ overlooked'.teams = overlooked.teams
      BY <2>3, FileFacts DEF ReplaceOrg
    <3>2. pc # "idle" => overlooked'.org
      BY <3>1 DEF Reading
    <3>3. ~(dirMod' <= loadedMod') /\ loadedMod' <= dirMod'
      <4>1. loadedMod <= dirMod /\ dirMod' = dirMod + 1 /\ loadedMod' = loadedMod
        BY <2>0, <2>3 DEF Edit, ReplaceOrg, Current, package
      <4> QED
        BY <2>1, <4>1
    <3> QED
      BY <2>0, <2>3, <3>1, <3>2, <3>3 DEF Edit, ReplaceOrg, Current, package, reading
  <2>4. CASE EditTeam(f, t)
    <3>1. overlooked'.org = overlooked.org /\ overlooked'.teams = overlooked.teams \cup {f}
      BY <2>4, FileFacts DEF EditTeam
    <3>2. \A g \in Files \ {f} : teams'[g] = teams[g]
      BY <2>4 DEF EditTeam, Types, FileTypes
    <3> QED
      BY <2>0, <2>4, <3>1, <3>2 DEF Edit, EditTeam, Current, package, reading
  <2> QED
    BY <2>0, <2>2, <2>3, <2>4 DEF Edit
<1>15. CASE UNCHANGED dataVars
  BY <1>15 DEF dataVars, Current, directory, package, flags, result, reading, history
<1> QED
  BY <1>1, <1>2, <1>3, <1>4, <1>5, <1>6, <1>7, <1>8, <1>9, <1>10, <1>11, <1>12, <1>13, <1>14, <1>15
  DEF DataNext, Get, LoadOrg, LoadTeam

(* The types, for any files and edits.  Every other argument needs them.    *)
THEOREM DataTyping == DataSpec => []Types
<1>1. DataInit => Types
  BY TypesStart
<1>2. Types /\ [DataNext]_dataVars => Types'
  BY TypesStep
<1> QED
  BY <1>1, <1>2, PTL DEF DataSpec

LEMMA Recorded == DataSpec => [](Types /\ Reading /\ Current)
<1>1. DataInit => Reading /\ Current
  BY ReadingStart, CurrentStart
<1>2. Types /\ (Reading /\ Current) /\ [DataNext]_dataVars => (Reading /\ Current)'
  BY ReadingStep, CurrentStep
<1> QED
  BY <1>1, <1>2, DataTyping, PTL DEF DataSpec

(* A result that Get hands out again is that of the files as they are now,  *)
(* but for those of which nothing told Get that they changed: what was read *)
(* at one time and noted at another is accounted for at every interleaving  *)
(* of edits with a load and of callers with each other (loader.go:109-139). *)
THEOREM HitIsUpToDate == DataSpec => []UpToDate
<1>1. Types /\ Reading /\ Current => UpToDate
  BY DEF Current, UpToDate, Hit
<1> QED
  BY <1>1, Recorded, PTL

-----------------------------------------------------------------------------
(* org.toml. *)

Parsed(ch, l) == IF l.key \in PairKeys THEN [ch EXCEPT ![l.key] = l.value] ELSE ch
HubKeys(key) == IF key = "slack" THEN SlackKeys ELSE DiscordKeys
Id(ch, key) == IF key = "slack" THEN Upper[ch["slack"]] ELSE ch["discord"]

(* A flush puts the channel at hand over those that are complete.           *)
LEMMA Flush ==
  ASSUME NEW t \in Seq(FileLine), NEW k \in Nat, NEW tables, NEW ch, NEW info,
         AtHand(t, tables, k, ch), NEW key \in {"slack", "discord"},
         \A j \in Named(t, tables) : Latest(t, tables, j, k) => info = InfoOf(t, k, j)
  PROVE  Register(Listed(t, k, Closed(t, tables, k), key), Id(ch, key), info)
           = Listed(t, k, Begun(t, tables, k), key)
<1>1. CASE NoneYet(t, tables, k)
  <2>1. ch = noChannel /\ Begun(t, tables, k) = Closed(t, tables, k)
    BY <1>1, BegunIs DEF AtHand
  <2> QED
    BY <2>1, NoIds DEF Id
<1>2. ASSUME NEW j \in Named(t, tables), Latest(t, tables, j, k)
      PROVE  Register(Listed(t, k, Closed(t, tables, k), key), Id(ch, key), info)
               = Listed(t, k, Begun(t, tables, k), key)
  <2>1. ch = SaidIn(t, k, {j}) /\ info = InfoOf(t, k, j)
    BY <1>2 DEF AtHand
  <2>2. Id(ch, key) = IdOf(t, k, j, key)
    BY <2>1 DEF Id, IdOf, SaidIn, PairKeys
  <2>3. Begun(t, tables, k) = Closed(t, tables, k) \cup {j}
    BY <1>2, BegunIs
  <2>4. \A l \in Closed(t, tables, k) : l < j
    BY <1>2, ClosedFacts
  <2>5. Closed(t, tables, k) \in SUBSET Nat /\ j \in Nat
    BY ClosedFacts, Positions
  <2> QED
    BY <2>1, <2>2, <2>3, <2>4, <2>5, ListedMore
<1> QED
  BY <1>1, <1>2 DEF AtHand, Placed

LEMMA HubsSame ==
  ASSUME NEW t \in Seq(FileLine), NEW k \in Nat, k < Len(t), NEW key,
         ~(t[k + 1].key \in HubKeys(key) /\ \E h \in Named(t, {"org.communication"}) : In(t, h, k + 1))
  PROVE  Hubs(t, k + 1, key) = Hubs(t, k, key)
<1>1. \A hub \in HubKeys(key) : Keyed(t, k + 1, Named(t, {"org.communication"}), hub)
                                = Keyed(t, k, Named(t, {"org.communication"}), hub)
  BY KeyedStep
<1> QED
  BY <1>1 DEF Hubs, HubKeys

LEMMA HubsNew ==
  ASSUME NEW t \in Seq(FileLine), NEW k \in Nat, k < Len(t), NEW key \in {"slack", "discord"},
         t[k + 1].key \in HubKeys(key), \E h \in Named(t, {"org.communication"}) : In(t, h, k + 1)
  PROVE  Hubs(t, k + 1, key) = Put(Hubs(t, k, key), IF key = "slack" THEN Upper[t[k + 1].value]
                                                    ELSE t[k + 1].value, noInfo)
<1> DEFINE Id1(i) == IF key = "slack" THEN Upper[t[i].value] ELSE t[i].value
           K(n, hub) == Keyed(t, n, Named(t, {"org.communication"}), hub)
           H(n) == {i \in 1..n : \E hub \in HubKeys(key) : i \in K(n, hub)}
<1>1. ASSUME NEW n \in Nat
      PROVE  Hubs(t, n, key) = {<<Id1(i), noInfo>> : i \in H(n)}
  <2>1. \A hub : K(n, hub) \subseteq 1..n
    BY DEF Keyed
  <2> QED
    BY <2>1 DEF Hubs, HubKeys
<1>2. H(k + 1) = H(k) \cup {k + 1}
  <2>1. \A hub \in HubKeys(key) : K(k + 1, hub) \in {K(k, hub), K(k, hub) \cup {k + 1}}
    BY KeyedStep
  <2>2. K(k + 1, t[k + 1].key) = K(k, t[k + 1].key) \cup {k + 1}
    <3>1. PICK J : J = Named(t, {"org.communication"})
      OBVIOUS
    <3>2. PICK hub : hub = t[k + 1].key
      OBVIOUS
    <3>3. Keyed(t, k + 1, J, hub) = Keyed(t, k, J, hub) \cup {k + 1}
      <4>1. t[k + 1].key = hub /\ \E j \in J : In(t, j, k + 1)
        BY <3>1, <3>2
      <4>2. 1..(k + 1) = 1..k \cup {k + 1}
        OBVIOUS
      <4> HIDE <3>1, <3>2
      <4> QED
        BY <4>1, <4>2 DEF Keyed
    <3> QED
      BY <3>1, <3>2, <3>3
  <2>3. \A hub : K(k, hub) \subseteq 1..k /\ K(k + 1, hub) \subseteq 1..(k + 1)
    BY DEF Keyed
  <2>4. 1..(k + 1) = 1..k \cup {k + 1}
    OBVIOUS
  <2> HIDE DEF K
  <2> QED
    BY <2>1, <2>2, <2>3, <2>4
<1>3. Hubs(t, k + 1, key) = Hubs(t, k, key) \cup {<<Id1(k + 1), noInfo>>}
  <2> HIDE DEF H, Id1
  <2> QED
    BY <1>1, <1>2
<1>4. \A p \in Hubs(t, k, key) : p = <<p[1], noInfo>>
  BY DEF Hubs
<1> QED
  <2>1. PICK P : P = Hubs(t, k, key)
    OBVIOUS
  <2>2. PICK id : id = Id1(k + 1)
    OBVIOUS
  <2>3. Put(P, id, noInfo) = P \cup {<<id, noInfo>>}
    BY <1>4, <2>1, HubPut
  <2> HIDE DEF K, H, Id1
  <2>4. Hubs(t, k + 1, key) = Put(Hubs(t, k, key), Id1(k + 1), noInfo)
    BY <1>3, <2>1, <2>2, <2>3
  <2> QED
    BY <2>4 DEF Id1

LEMMA OrgTablesAre ==
  ASSUME NEW t \in Seq(FileLine)
  PROVE  /\ OrgChannels \subseteq OrgTables
         /\ \A j \in Named(t, OrgTables) :
              /\ Owner(t, j) = {j} /\ j \in Heads(t)
              /\ t[j].table \in OrgChannels => j \in Named(t, OrgChannels)
              /\ t[j].table \notin OrgChannels =>
                   t[j].table = "org.communication" /\ j \in Named(t, {"org.communication"})
         /\ \A j \in Named(t, OrgChannels) :
              t[j].table \in OrgChannels /\ j \in Named(t, OrgTables)
         /\ \A j \in Named(t, {"org.communication"}) :
              t[j].table = "org.communication" /\ j \in Named(t, OrgTables)
  BY DEF Named, Owner, OrgTables, OrgChannels

(* Lines that the parser of org.toml looks at.                              *)
LEMMA OrgCommHead ==
  ASSUME NEW t \in Seq(FileLine), NEW k \in Nat, k < Len(t), NEW comm, NEW chans, NEW ch,
         OrgFlags(t, k, comm, chans), AtHand(t, OrgChannels, k, ch),
         t[k + 1].table = "org.communication"
  PROVE  /\ OrgFlags(t, k + 1, TRUE, FALSE) /\ AtHand(t, OrgChannels, k + 1, ch)
         /\ \A key \in {"slack", "discord"} : OrgSoFar(t, k + 1, key) = OrgSoFar(t, k, key)
<1>1. t[k + 1] \in FileLine /\ k + 1 \in 1..Len(t)
  OBVIOUS
<1>2. t[k + 1].key = ""
  BY <1>1, LineType
<1>3. t[k + 1].key \notin PairKeys /\ \A key : t[k + 1].key \notin HubKeys(key)
  BY <1>2 DEF PairKeys, HubKeys, SlackKeys, DiscordKeys
<1>4. k + 1 \in Named(t, OrgTables) /\ k + 1 \notin Named(t, OrgChannels)
  <2>1. /\ "" \notin OrgTables /\ "" \notin OrgChannels
        /\ t[k + 1].table \in OrgTables /\ t[k + 1].table \notin OrgChannels
    BY DEF OrgTables, OrgChannels
  <2> QED
    BY <1>1, <2>1, NamedIs
<1>5. OrgFlags(t, k + 1, TRUE, FALSE)
  <2>1. t[k + 1].table \notin OrgChannels
    BY DEF OrgChannels
  <2> QED
    BY <1>4, <2>1, HeadStep DEF OrgFlags, Placed
<1>6. AtHand(t, OrgChannels, k + 1, ch)
  BY <1>3, <1>4, OtherStep, SaidSame DEF AtHand, Placed
<1>7. ASSUME NEW key \in {"slack", "discord"}
      PROVE  OrgSoFar(t, k + 1, key) = OrgSoFar(t, k, key)
  BY <1>3, <1>4, OtherStep, ListedSame, HubsSame DEF OrgSoFar
<1> QED
  BY <1>5, <1>6, <1>7

OrgFlushed(t, k, key, ch, info) ==
  OrgSoFar(t, k + 1, key) = Register(OrgSoFar(t, k, key), Id(ch, key), info)
LEMMA OrgChannelHead ==
  ASSUME NEW t \in Seq(FileLine), NEW k \in Nat, k < Len(t), NEW comm, NEW chans, NEW ch,
         OrgFlags(t, k, comm, chans), AtHand(t, OrgChannels, k, ch),
         t[k + 1].table = "org.communication.channels",
         NEW info, info = TeamInfo(ch["slug"], ch["name"], ch), NEW key \in {"slack", "discord"}
  PROVE  /\ OrgFlags(t, k + 1, TRUE, TRUE) /\ AtHand(t, OrgChannels, k + 1, noChannel)
         /\ OrgFlushed(t, k, key, ch, info)
<1>1. t[k + 1] \in FileLine /\ k + 1 \in 1..Len(t)
  OBVIOUS
<1>2. t[k + 1].key = ""
  BY <1>1, LineType
<1>3. t[k + 1].key \notin PairKeys /\ t[k + 1].key \notin HubKeys(key)
  BY <1>2 DEF PairKeys, HubKeys, SlackKeys, DiscordKeys
<1>4. k + 1 \in Named(t, OrgTables) /\ k + 1 \in Named(t, OrgChannels)
  BY <1>1, NamedIs DEF OrgTables, OrgChannels
<1>5. OrgFlags(t, k + 1, TRUE, TRUE)
  <2>1. t[k + 1].table \in OrgChannels
    BY DEF OrgChannels
  <2> QED
    BY <1>4, <2>1, HeadStep DEF OrgFlags, Placed
<1>6. AtHand(t, OrgChannels, k + 1, noChannel)
  BY <1>4, HeadStep, SaidNothing DEF AtHand, Placed
<1>7. OrgFlushed(t, k, key, ch, info)
  <2> DEFINE C == Closed(t, OrgChannels, k)
  <2>1. ASSUME NEW j \in Named(t, OrgChannels), Latest(t, OrgChannels, j, k)
        PROVE  info = InfoOf(t, k, j)
    <3>1. Owner(t, j) = {j} /\ ch = SaidIn(t, k, {j})
      BY <2>1, OrgTablesAre DEF AtHand
    <3> QED
      BY <3>1 DEF InfoOf, SaidIn, PairKeys
  <2>2. Register(Listed(t, k, C, key), Id(ch, key), info) = Listed(t, k, Begun(t, OrgChannels, k), key)
    BY <2>1, Flush
  <2>3. Listed(t, k + 1, Begun(t, OrgChannels, k), key) = Listed(t, k, Begun(t, OrgChannels, k), key)
    BY <1>3, ListedSame
  <2>4. Closed(t, OrgChannels, k + 1) = Begun(t, OrgChannels, k)
    BY <1>4, HeadStep
  <2>5. Hubs(t, k + 1, key) = Hubs(t, k, key)
    BY <1>3, HubsSame
  <2> QED
    BY <2>2, <2>3, <2>4, <2>5, RegisterOver DEF OrgSoFar, OrgFlushed
<1> QED
  BY <1>5, <1>6, <1>7

(* A key of the table at hand is read there and nowhere else.               *)
LEMMA OrgOtherLine ==
  ASSUME NEW t \in Seq(FileLine), TidyOrg(t), NEW k \in Nat, k < Len(t), NEW comm, NEW chans, NEW ch,
         OrgFlags(t, k, comm, chans), AtHand(t, OrgChannels, k, ch),
         t[k + 1].table \notin {"org.communication", "org.communication.channels"}
  PROVE  /\ OrgFlags(t, k + 1, comm, chans)
         /\ AtHand(t, OrgChannels, k + 1, IF comm /\ chans THEN Parsed(ch, t[k + 1]) ELSE ch)
         /\ \A key \in {"slack", "discord"} :
              OrgSoFar(t, k + 1, key)
                = IF comm /\ ~chans /\ t[k + 1].key \in HubKeys(key)
                  THEN Put(OrgSoFar(t, k, key),
                           IF key = "slack" THEN Upper[t[k + 1].value] ELSE t[k + 1].value, noInfo)
                  ELSE OrgSoFar(t, k, key)
<1>1. t[k + 1] \in FileLine /\ k + 1 \in 1..Len(t)
  OBVIOUS
<1>2. k + 1 \notin Named(t, OrgTables) /\ k + 1 \notin Named(t, OrgChannels)
  <2>1. /\ "" \notin OrgTables /\ "" \notin OrgChannels
        /\ t[k + 1].table \notin OrgTables /\ t[k + 1].table \notin OrgChannels
    BY DEF OrgTables, OrgChannels
  <2> QED
    BY <1>1, <2>1, NamedIs
<1>3. OrgFlags(t, k + 1, comm, chans)
  BY <1>2, OtherStep DEF OrgFlags, Placed
<1>4. \A j \in Named(t, OrgTables) : In(t, j, k + 1) => Latest(t, OrgTables, j, k)
  BY InIsLatest
<1>5. ASSUME NEW j \in Named(t, OrgTables), Latest(t, OrgTables, j, k),
             t[k + 1].key \in ReadIn(t[j].table) \cap (PairKeys \cup SlackKeys \cup DiscordKeys)
      PROVE  In(t, j, k + 1)
  BY <1>1, <1>2, <1>5, AfterLatest DEF TidyOrg, NoStrays
<1>6. ASSUME NEW key \in {"slack", "discord"}
      PROVE  Listed(t, k + 1, Closed(t, OrgChannels, k + 1), key)
               = Listed(t, k, Closed(t, OrgChannels, k), key)
  <2>1. \A j \in Closed(t, OrgChannels, k) : Owner(t, j) = {j} /\ ~In(t, j, k + 1)
    BY ClosedFacts, OrgTablesAre
  <2> QED
    BY <1>2, <2>1, OtherStep, ListedSame
<1>7. AtHand(t, OrgChannels, k + 1, IF comm /\ chans THEN Parsed(ch, t[k + 1]) ELSE ch)
  <2>1. CASE comm /\ chans
    <3>1. PICK h \in Named(t, OrgTables) : Latest(t, OrgTables, h, k)
      BY <2>1 DEF OrgFlags, Placed
    <3>2. h \in Named(t, OrgChannels) /\ t[h].table \in OrgChannels
      BY <2>1, <3>1, OrgTablesAre DEF OrgFlags
    <3>3. Latest(t, OrgChannels, h, k)
      BY <3>1, <3>2, LatestIn, OrgTablesAre
    <3>4. ~NoneYet(t, OrgChannels, k + 1) /\ Placed(t, OrgChannels, k + 1)
      BY <1>2, <3>2, <3>3, OtherStep, Positions DEF AtHand, Placed, NoneYet, Latest
    <3>5. ch = SaidIn(t, k, {h})
      BY <3>2, <3>3 DEF AtHand
    <3>6. Parsed(ch, t[k + 1]) = SaidIn(t, k + 1, {h})
      <4>1. CASE t[k + 1].key \in PairKeys
        <5>1. ReadIn(t[h].table) = PairKeys
          BY <3>2 DEF ReadIn, OrgChannels, TeamChannels
        <5>2. In(t, h, k + 1)
          BY <1>5, <3>1, <4>1, <5>1
        <5> QED
          BY <3>2, <3>5, <4>1, <5>2, SaidNew, Positions DEF Parsed, TidyOrg
      <4>2. CASE t[k + 1].key \notin PairKeys
        BY <3>5, <4>2, SaidSame DEF Parsed
      <4> QED
        BY <4>1, <4>2
    <3>7. \A j \in Named(t, OrgChannels) : Latest(t, OrgChannels, j, k + 1) => j = h
      BY <1>2, <3>2, <3>3, OtherStep, LatestOne
    <3> QED
      BY <2>1, <3>4, <3>6, <3>7 DEF AtHand
  <2>2. CASE ~(comm /\ chans)
    <3>1. \A j \in Named(t, OrgChannels) : ~In(t, j, k + 1)
      BY <1>4, <2>2, OrgTablesAre DEF OrgFlags
    <3>2. \A j \in Named(t, OrgChannels) : SaidIn(t, k + 1, {j}) = SaidIn(t, k, {j})
      BY <3>1, SaidSame
    <3> QED
      BY <1>2, <2>2, <3>2, OtherStep DEF AtHand, Placed
  <2> QED
    BY <2>1, <2>2
<1>8. ASSUME NEW key \in {"slack", "discord"}, comm, ~chans, t[k + 1].key \in HubKeys(key)
      PROVE  OrgSoFar(t, k + 1, key)
               = Put(OrgSoFar(t, k, key),
                     IF key = "slack" THEN Upper[t[k + 1].value] ELSE t[k + 1].value, noInfo)
  <2>1. PICK h \in Named(t, OrgTables) : Latest(t, OrgTables, h, k)
    BY <1>8 DEF OrgFlags, Placed
  <2>2. h \in Named(t, {"org.communication"}) /\ t[h].table = "org.communication"
    BY <1>8, <2>1, OrgTablesAre DEF OrgFlags
  <2>3. In(t, h, k + 1)
    <3>1. ReadIn(t[h].table) = SlackKeys \cup DiscordKeys
      BY <2>2 DEF ReadIn, OrgChannels, TeamChannels
    <3>2. t[k + 1].key \in SlackKeys \cup DiscordKeys
      BY <1>8 DEF HubKeys
    <3> QED
      BY <1>5, <2>1, <3>1, <3>2
  <2>4. Closed(t, OrgChannels, k) = {}
    <3>1. SUFFICES ASSUME NEW c \in Closed(t, OrgChannels, k) PROVE FALSE
      OBVIOUS
    <3>2. c \in Named(t, OrgChannels) /\ c <= k /\ c \in Nat
      <4>1. PICK x \in Named(t, OrgChannels) : c < x /\ x <= k
        BY DEF Closed
      <4>2. c \in Named(t, OrgChannels) /\ c \in Nat /\ x \in Nat
        BY ClosedFacts, Positions
      <4> QED
        BY <4>1, <4>2
    <3>3. c <= h /\ h \in Nat
      BY <2>1, <3>2, OrgTablesAre, Positions DEF Latest
    <3>4. h < c
      <4>1. h \in Named(t, {"team", "org.communication"})
        BY <2>2 DEF Named
      <4>2. c \in Named(t, TeamChannels \cup OrgChannels)
        BY <3>2 DEF Named
      <4> QED
        BY <4>1, <4>2 DEF TidyOrg, Tidy
    <3> QED
      BY <3>2, <3>3, <3>4
  <2>5. Listed(t, k, {}, key) = {}
    BY DEF Listed, LastOf
  <2>6. OrgSoFar(t, k, key) = Hubs(t, k, key) /\ OrgSoFar(t, k + 1, key) = Hubs(t, k + 1, key)
    BY <1>6, <2>4, <2>5, OverNothing DEF OrgSoFar
  <2> QED
    BY <1>8, <2>2, <2>3, <2>6, HubsNew
<1>9. ASSUME NEW key \in {"slack", "discord"}, ~(comm /\ ~chans /\ t[k + 1].key \in HubKeys(key))
      PROVE  OrgSoFar(t, k + 1, key) = OrgSoFar(t, k, key)
  <2>1. ~(t[k + 1].key \in HubKeys(key) /\ \E h \in Named(t, {"org.communication"}) : In(t, h, k + 1))
    <3>1. SUFFICES ASSUME NEW h \in Named(t, {"org.communication"}), In(t, h, k + 1) PROVE comm /\ ~chans
      BY <1>9
    <3>2. h \in Named(t, OrgTables) /\ t[h].table = "org.communication"
      BY OrgTablesAre
    <3>3. Latest(t, OrgTables, h, k)
      BY <1>4, <3>1, <3>2
    <3>4. t[h].table \notin OrgChannels
      BY <3>2 DEF OrgChannels
    <3> QED
      BY <3>2, <3>3, <3>4 DEF OrgFlags
  <2> QED
    BY <1>6, <2>1, HubsSame DEF OrgSoFar
<1> QED
  BY <1>3, <1>7, <1>8, <1>9

(* A flush changes the maps that it is about.                               *)
LEMMA FlushFields ==
  ASSUME d \in Data
  PROVE  /\ flushOrgChannel.orgSlack
              = Register(d.orgSlack, Id(channel, "slack"), TeamInfo(channel["slug"], channel["name"], channel))
         /\ flushOrgChannel.orgDiscord
              = Register(d.orgDiscord, Id(channel, "discord"), TeamInfo(channel["slug"], channel["name"], channel))
         /\ flushOrgChannel.slackToTeam = d.slackToTeam /\ flushOrgChannel.discordToTeam = d.discordToTeam
         /\ flushOrgChannel.members = d.members /\ flushOrgChannel.teamMembers = d.teamMembers
         /\ flushOrgChannel.forgejoURL = d.forgejoURL
         /\ slug # Blank =>
              /\ flushTeamChannel.slackToTeam
                   = Register(d.slackToTeam, Id(channel, "slack"), TeamInfo(slug, name, channel))
              /\ flushTeamChannel.discordToTeam
                   = Register(d.discordToTeam, Id(channel, "discord"), TeamInfo(slug, name, channel))
         /\ slug = Blank => flushTeamChannel = d
         /\ flushTeamChannel.orgSlack = d.orgSlack /\ flushTeamChannel.orgDiscord = d.orgDiscord
         /\ flushTeamChannel.members = d.members /\ flushTeamChannel.teamMembers = d.teamMembers
         /\ flushTeamChannel.forgejoURL = d.forgejoURL
  BY DEF Data, flushOrgChannel, flushTeamChannel, Id

LEMMA OrgCommFields ==
  ASSUME d \in Data
  PROVE  /\ parseOrgCommKey(line).orgSlack
              = IF line.key \in HubKeys("slack") THEN Put(d.orgSlack, Upper[line.value], noInfo) ELSE d.orgSlack
         /\ parseOrgCommKey(line).orgDiscord
              = IF line.key \in HubKeys("discord") THEN Put(d.orgDiscord, line.value, noInfo) ELSE d.orgDiscord
         /\ parseOrgCommKey(line).slackToTeam = d.slackToTeam
         /\ parseOrgCommKey(line).discordToTeam = d.discordToTeam
         /\ parseOrgCommKey(line).members = d.members /\ parseOrgCommKey(line).teamMembers = d.teamMembers
         /\ parseOrgCommKey(line).forgejoURL = d.forgejoURL
  BY DEF Data, parseOrgCommKey, HubKeys, SlackKeys, DiscordKeys

LEMMA OrgBegins ==
  ASSUME NEW t \in Seq(FileLine)
  PROVE  /\ OrgFlags(t, 0, FALSE, FALSE) /\ AtHand(t, OrgChannels, 0, noChannel)
         /\ \A key \in {"slack", "discord"} : OrgSoFar(t, 0, key) = {}
<1>1. \A J, key : Keyed(t, 0, J, key) = {}
  BY DEF Keyed
<1>2. \A key : Hubs(t, 0, key) = {}
  BY <1>1 DEF Hubs
<1>3. \A key : Listed(t, 0, {}, key) = {}
  BY DEF Listed, LastOf
<1>4. \A key : OrgSoFar(t, 0, key) = {}
  BY <1>2, <1>3, FirstStep DEF OrgSoFar, Over
<1> QED
  BY <1>4, FirstStep DEF OrgFlags, AtHand, Placed

LEMMA OrgEnds ==
  ASSUME NEW t \in Seq(FileLine), NEW ch, AtHand(t, OrgChannels, Len(t), ch), NEW key \in {"slack", "discord"}
  PROVE  Register(OrgSoFar(t, Len(t), key), Id(ch, key), TeamInfo(ch["slug"], ch["name"], ch)) = OrgMap(t, key)
<1>0. PICK info : info = TeamInfo(ch["slug"], ch["name"], ch)
  OBVIOUS
<1>1. ASSUME NEW j \in Named(t, OrgChannels), Latest(t, OrgChannels, j, Len(t))
      PROVE  info = InfoOf(t, Len(t), j)
  <2>1. Owner(t, j) = {j} /\ ch = SaidIn(t, Len(t), {j})
    BY <1>1, OrgTablesAre DEF AtHand
  <2> QED
    BY <1>0, <2>1 DEF InfoOf, SaidIn, PairKeys
<1>2. Len(t) \in Nat /\ Begun(t, OrgChannels, Len(t)) = Named(t, OrgChannels)
  BY Positions, BegunIs
<1>3. Register(Listed(t, Len(t), Closed(t, OrgChannels, Len(t)), key), Id(ch, key), info)
        = Listed(t, Len(t), Named(t, OrgChannels), key)
  BY <1>1, <1>2, Flush
<1> QED
  BY <1>0, <1>3, RegisterOver DEF OrgSoFar, OrgMap

LEMMA OrgLineKeeps ==
  ASSUME Types, OrgLine, TidyOrg(text), OrgLines
  PROVE  OrgLines'
<1>1. /\ at \in Nat /\ at - 1 \in Nat /\ at - 1 < Len(text) /\ (at - 1) + 1 = at
      /\ text \in Seq(FileLine) /\ d \in Data
  BY LineIsOne DEF OrgLine, Types, FileTypes, DataTypes
<1>2. PICK k \in Nat : k = at - 1 /\ k < Len(text) /\ k + 1 = at /\ at' - 1 = k + 1 /\ text' = text
  <2>1. at' = at + 1 /\ text' = text
    BY DEF OrgLine
  <2>2. at' - 1 = (at - 1) + 1
    BY <1>1, <2>1
  <2> QED
    BY <1>1, <2>1, <2>2
<1>3. line = text[k + 1]
  BY <1>2 DEF line
<1>4. /\ OrgFlags(text, k, inOrgComm, inOrgChannels) /\ AtHand(text, OrgChannels, k, channel)
      /\ d.orgSlack = OrgSoFar(text, k, "slack") /\ d.orgDiscord = OrgSoFar(text, k, "discord")
  BY <1>2 DEF OrgLines, Done
<1>5. SUFFICES /\ OrgFlags(text, k + 1, inOrgComm', inOrgChannels')
               /\ AtHand(text, OrgChannels, k + 1, channel')
               /\ d'.orgSlack = OrgSoFar(text, k + 1, "slack")
               /\ d'.orgDiscord = OrgSoFar(text, k + 1, "discord")
  BY <1>2 DEF OrgLines, Done
<1>6. CASE line.table = "org.communication"
  <2>1. inOrgComm' = TRUE /\ inOrgChannels' = FALSE /\ d' = d /\ channel' = channel
    BY <1>6 DEF OrgLine
  <2> QED
    BY <1>1, <1>2, <1>3, <1>4, <1>6, <2>1, OrgCommHead
<1>7. CASE line.table = "org.communication.channels"
  <2>1. inOrgComm' = TRUE /\ inOrgChannels' = TRUE /\ d' = flushOrgChannel /\ channel' = noChannel
    BY <1>7 DEF OrgLine
  <2> QED
    <3>1. PICK info : info = TeamInfo(channel["slug"], channel["name"], channel)
      OBVIOUS
    <3>2. /\ OrgFlags(text, k + 1, TRUE, TRUE) /\ AtHand(text, OrgChannels, k + 1, noChannel)
          /\ \A key \in {"slack", "discord"} :
               OrgSoFar(text, k + 1, key) = Register(OrgSoFar(text, k, key), Id(channel, key), info)
      <4>1. text[k + 1].table = "org.communication.channels"
        BY <1>3, <1>7
      <4>2. ASSUME NEW key \in {"slack", "discord"}
            PROVE  /\ OrgFlags(text, k + 1, TRUE, TRUE) /\ AtHand(text, OrgChannels, k + 1, noChannel)
                   /\ OrgFlushed(text, k, key, channel, info)
        BY <1>1, <1>2, <1>4, <3>1, <4>1, OrgChannelHead
      <4> QED
        BY <4>2 DEF OrgFlushed
    <3>3. /\ d'.orgSlack = Register(d.orgSlack, Id(channel, "slack"), info)
          /\ d'.orgDiscord = Register(d.orgDiscord, Id(channel, "discord"), info)
      BY <1>1, <2>1, <3>1, FlushFields
    <3> QED
      BY <1>4, <2>1, <3>2, <3>3
<1>8. CASE line.table \notin {"org.communication", "org.communication.channels"}
  <2>1. /\ inOrgComm' = inOrgComm /\ inOrgChannels' = inOrgChannels
        /\ channel' = IF inOrgComm /\ inOrgChannels THEN Parsed(channel, line) ELSE channel
        /\ d' = IF inOrgComm /\ ~inOrgChannels THEN parseOrgCommKey(line) ELSE d
    BY <1>8 DEF OrgLine, parseChannelPair, Parsed
  <2>2. /\ OrgFlags(text, k + 1, inOrgComm, inOrgChannels)
        /\ AtHand(text, OrgChannels, k + 1,
                  IF inOrgComm /\ inOrgChannels THEN Parsed(channel, line) ELSE channel)
        /\ \A key \in {"slack", "discord"} :
             OrgSoFar(text, k + 1, key)
                = IF inOrgComm /\ ~inOrgChannels /\ line.key \in HubKeys(key)
                  THEN Put(OrgSoFar(text, k, key),
                           IF key = "slack" THEN Upper[line.value] ELSE line.value, noInfo)
                  ELSE OrgSoFar(text, k, key)
    BY <1>1, <1>2, <1>3, <1>4, <1>8, OrgOtherLine
  <2>3. d'.orgSlack = OrgSoFar(text, k + 1, "slack") /\ d'.orgDiscord = OrgSoFar(text, k + 1, "discord")
    BY <1>1, <1>4, <2>1, <2>2, OrgCommFields
  <2> QED
    BY <2>1, <2>2, <2>3
<1> QED
  BY <1>6, <1>7, <1>8

LEMMA OrgStart == DataInit => OrgInv
  BY DEF DataInit, NothingLoaded, OrgInv, OrgRead

LEMMA OrgStep == Types /\ Reading /\ OrgInv /\ [DataNext]_dataVars => OrgInv'
<1> SUFFICES ASSUME Types, Reading, OrgInv, [DataNext]_dataVars PROVE OrgInv'
  OBVIOUS
<1>1. CASE \E c \in Callers : Miss(c) \/ Recheck(c)
  BY <1>1 DEF Miss, Recheck, OrgLines, Done, OrgInv, OrgRead, directory, package, flags, result, reading, history
<1>2. CASE \E c \in Callers : Load(c)
  <2>1. pc' = "org" /\ d' = emptyData
    BY <1>2 DEF Load
  <2> QED
    BY <2>1 DEF OrgInv, OrgRead, emptyData
<1>3. CASE Finish
  BY <1>3 DEF Finish, OrgInv, OrgRead, directory, package, flags, result, reading, history
<1>4. CASE ReadOrg
  <2>1. /\ text' \in Seq(FileLine) /\ text' = Content(org) /\ at' = 1 /\ pc' = "org lines" /\ d' = d
        /\ inOrgComm' = FALSE /\ inOrgChannels' = FALSE /\ channel' = noChannel
        /\ d.orgSlack = {} /\ d.orgDiscord = {}
    BY <1>4, ContentType DEF ReadOrg, OrgInv, Types
  <2>2. at' - 1 = 0
    <3>1. at' = 1
      BY <2>1
    <3> QED
      BY <3>1
  <2>3. OrgLines'
    BY <2>1, <2>2, OrgBegins DEF OrgLines, Done
  <2> QED
    BY <2>1, <2>3 DEF OrgInv, OrgRead
<1>5. CASE OrgLine
  <2>1. pc = "org lines" /\ pc' = "org lines" /\ text' = text
    BY <1>5 DEF OrgLine
  <2> QED
    BY <1>5, <2>1, OrgLineKeeps DEF OrgInv, OrgRead
<1>6. CASE OrgEnd
  <2>1. pc = "org lines" /\ pc' = "forgejo" /\ d' = flushOrgChannel /\ seen' = seen
    BY <1>6 DEF OrgEnd, history
  <2>2. text = seen.org /\ text \in Seq(FileLine) /\ d \in Data
    BY <2>1 DEF Reading, Types, FileTypes, DataTypes
  <2>3. at - 1 = Len(text)
    <3>1. Len(text) \in Nat
      BY <2>2
    <3>2. at \in 1..Len(text) + 1 /\ ~(at <= Len(text))
      BY <1>6 DEF OrgEnd, More, Types, DataTypes
    <3> QED
      BY <3>1, <3>2
  <2>4. ASSUME TidyOrg(text)
        PROVE  d'.orgSlack = OrgMap(text, "slack") /\ d'.orgDiscord = OrgMap(text, "discord")
    <3>1. /\ AtHand(text, OrgChannels, Len(text), channel)
          /\ d.orgSlack = OrgSoFar(text, Len(text), "slack")
          /\ d.orgDiscord = OrgSoFar(text, Len(text), "discord")
      BY <2>1, <2>3, <2>4 DEF OrgInv, OrgLines, Done
    <3> QED
      BY <2>1, <2>2, <3>1, OrgEnds, FlushFields
  <2> QED
    BY <2>1, <2>2, <2>4 DEF OrgInv
<1>7. CASE ReadForgejo
  <2>1. pc = "forgejo" /\ pc' = "forgejo lines" /\ d' = d /\ seen'.org = seen.org
    BY <1>7, FileFacts DEF ReadForgejo, result
  <2> QED
    BY <2>1 DEF OrgInv, OrgRead
<1>8. CASE ForgejoLine
  <2>1. d \in Data /\ pc = "forgejo lines" /\ pc' = pc /\ seen' = seen
    BY <1>8 DEF ForgejoLine, history, Types, DataTypes
  <2>2. d'.orgSlack = d.orgSlack /\ d'.orgDiscord = d.orgDiscord
    BY <1>8, <2>1 DEF ForgejoLine, Data
  <2> QED
    BY <2>1, <2>2 DEF OrgInv, OrgRead
<1>9. CASE ForgejoEnd
  BY <1>9 DEF ForgejoEnd, OrgInv, OrgRead, directory, package, flags, result, reading, history
<1>10. CASE ReadTeam
  <2>1. pc = "files" /\ pc' = "team lines" /\ d' = d /\ seen'.org = seen.org
    BY <1>10, FileFacts DEF ReadTeam
  <2> QED
    BY <2>1 DEF OrgInv, OrgRead
<1>11. CASE TeamLine
  <2>1. d \in Data /\ pc = "team lines" /\ pc' = pc /\ seen' = seen
    BY <1>11 DEF TeamLine, history, Types, DataTypes
  <2>2. OtherTable \/ ChannelTable \/ TeamKey
    BY <1>11 DEF TeamLine
  <2>3. d'.orgSlack = d.orgSlack /\ d'.orgDiscord = d.orgDiscord
    <3>1. CASE OtherTable
      BY <3>1 DEF OtherTable, result
    <3>2. CASE ChannelTable
      BY <2>1, <3>2, FlushFields DEF ChannelTable
    <3>3. CASE TeamKey
      BY <2>1, <3>3 DEF TeamKey, Data
    <3> QED
      BY <2>2, <3>1, <3>2, <3>3
  <2> QED
    BY <2>1, <2>3 DEF OrgInv, OrgRead
<1>12. CASE TeamEnd
  <2>1. d \in Data /\ pc = "team lines" /\ pc' = "files" /\ seen' = seen
    BY <1>12 DEF TeamEnd, history, Types, DataTypes
  <2>2. d'.orgSlack = d.orgSlack /\ d'.orgDiscord = d.orgDiscord
    <3>1. flushTeamChannel \in Data
      BY FlushTypes DEF Types
    <3> QED
      BY <1>12, <2>1, <3>1, FlushFields DEF TeamEnd, Data
  <2> QED
    BY <2>1, <2>2 DEF OrgInv, OrgRead
<1>13. CASE Expire
  BY <1>13 DEF Expire, OrgLines, Done, OrgInv, OrgRead, directory, package, flags, result, reading, history
<1>14. CASE \E o \in OrgTexts \cup {Absent}, f \in Files, t \in TeamTexts \cup {Absent} : Edit(o, f, t)
  BY <1>14 DEF Edit, OrgLines, Done, OrgInv, OrgRead, directory, package, flags, result, reading, history
<1>15. CASE UNCHANGED dataVars
  BY <1>15 DEF dataVars, OrgLines, Done, OrgInv, OrgRead, directory, package, flags, result, reading, history
<1> QED
  BY <1>1, <1>2, <1>3, <1>4, <1>5, <1>6, <1>7, <1>8, <1>9, <1>10, <1>11, <1>12, <1>13, <1>14, <1>15
  DEF DataNext, Get, LoadOrg, LoadTeam

-----------------------------------------------------------------------------
(* The second reading of org.toml. *)

LEMMA ForgejoBegins ==
  ASSUME NEW t \in Seq(FileLine)
  PROVE  ForgejoLines(t, 0, FALSE, Blank)
<1>1. Keyed(t, 0, Named(t, {"org.forgejo"}), "url") = {}
  BY DEF Keyed
<1> QED
  BY <1>1, FirstStep DEF ForgejoLines, Placed, Url, Value

LEMMA ForgejoHead ==
  ASSUME NEW t \in Seq(FileLine), NEW k \in Nat, k < Len(t), NEW inside, NEW url,
         ForgejoLines(t, k, inside, url), t[k + 1].table \in ForgejoTables
  PROVE  ForgejoLines(t, k + 1, t[k + 1].table = "org.forgejo", url)
<1>1. t[k + 1] \in FileLine /\ k + 1 \in 1..Len(t)
  OBVIOUS
<1>2. t[k + 1].key # "url"
  BY <1>1, LineType DEF ForgejoTables
<1>3. k + 1 \in Named(t, ForgejoTables)
  BY <1>1, NamedIs DEF ForgejoTables
<1>4. Url(t, k + 1) = Url(t, k)
  BY <1>2, KeyedStep, ValueSame DEF Url
<1> QED
  BY <1>3, <1>4, HeadStep DEF ForgejoLines, Placed

LEMMA ForgejoKey ==
  ASSUME NEW t \in Seq(FileLine), TidyForgejo(t), NEW k \in Nat, k < Len(t), NEW inside, NEW url,
         ForgejoLines(t, k, inside, url), t[k + 1].table \notin ForgejoTables
  PROVE  ForgejoLines(t, k + 1, inside, IF inside /\ t[k + 1].key = "url" THEN t[k + 1].value ELSE url)
<1>1. t[k + 1] \in FileLine /\ k + 1 \in 1..Len(t)
  OBVIOUS
<1>2. k + 1 \notin Named(t, ForgejoTables)
  <2>1. "" \notin ForgejoTables
    BY DEF ForgejoTables
  <2> QED
    BY <1>1, <2>1, NamedIs
<1>3. \A j \in Named(t, {"org.forgejo"}) : j \in Named(t, ForgejoTables) /\ t[j].table = "org.forgejo"
  BY DEF Named, ForgejoTables
<1>4. CASE inside /\ t[k + 1].key = "url"
  <2>1. PICK j \in Named(t, ForgejoTables) : Latest(t, ForgejoTables, j, k)
    BY <1>4 DEF ForgejoLines, Placed
  <2>2. t[j].table = "org.forgejo" /\ j \in Named(t, {"org.forgejo"})
    BY <1>4, <2>1 DEF ForgejoLines, Named
  <2>3. "url" \in ReadIn(t[j].table)
    BY <2>2 DEF ReadIn, TeamChannels, OrgChannels
  <2>4. In(t, j, k + 1)
    BY <1>1, <1>2, <1>4, <2>1, <2>3, AfterLatest DEF TidyForgejo, NoStrays
  <2>5. \A i, l \in Keyed(t, Len(t), Named(t, {"org.forgejo"}), "url") : i = l
    BY OneRow DEF TidyForgejo, Single
  <2>6. Url(t, k + 1) = t[k + 1].value
    BY <1>4, <2>2, <2>4, <2>5, ValueNew DEF Url
  <2> QED
    BY <1>2, <1>4, <2>6, OtherStep DEF ForgejoLines, Placed
<1>5. CASE ~(inside /\ t[k + 1].key = "url")
  <2>1. ~(t[k + 1].key = "url" /\ \E j \in Named(t, {"org.forgejo"}) : In(t, j, k + 1))
    BY <1>3, <1>5, InIsLatest DEF ForgejoLines
  <2>2. Url(t, k + 1) = Url(t, k)
    BY <2>1, KeyedStep, ValueSame DEF Url
  <2> QED
    BY <1>2, <1>5, <2>2, OtherStep DEF ForgejoLines, Placed
<1> QED
  BY <1>4, <1>5

LEMMA ForgejoLineKeeps ==
  ASSUME Types, ForgejoLine, TidyForgejo(text), ForgejoLines(text, Done, inForgejo, d.forgejoURL)
  PROVE  ForgejoLines(text', Done', inForgejo', d'.forgejoURL)
<1>1. /\ at \in Nat /\ at - 1 \in Nat /\ at - 1 < Len(text) /\ (at - 1) + 1 = at
      /\ text \in Seq(FileLine) /\ d \in Data
  BY LineIsOne DEF ForgejoLine, Types, FileTypes, DataTypes
<1>2. PICK k \in Nat : k = at - 1 /\ k < Len(text) /\ k + 1 = at /\ at' - 1 = k + 1 /\ text' = text
  <2>1. at' = at + 1 /\ text' = text
    BY DEF ForgejoLine
  <2>2. at' - 1 = (at - 1) + 1
    BY <1>1, <2>1
  <2> QED
    BY <1>1, <2>1, <2>2
<1>3. line = text[k + 1]
  BY <1>2 DEF line
<1>4. ForgejoLines(text, k, inForgejo, d.forgejoURL)
  BY <1>2 DEF Done
<1>5. /\ inForgejo' = IF line.table \in ForgejoTables THEN line.table = "org.forgejo" ELSE inForgejo
      /\ d'.forgejoURL = IF inForgejo /\ line.key = "url" THEN line.value ELSE d.forgejoURL
  BY <1>1 DEF ForgejoLine, Data
<1>6. CASE line.table \in ForgejoTables
  <2>1. line.key # "url"
    <3>1. line \in FileLine
      BY LineIsOne DEF ForgejoLine
    <3> QED
      BY <1>6, <3>1, LineType DEF ForgejoTables
  <2>2. inForgejo' = (text[k + 1].table = "org.forgejo") /\ d'.forgejoURL = d.forgejoURL
    BY <1>3, <1>5, <1>6, <2>1
  <2> QED
    BY <1>1, <1>2, <1>3, <1>4, <1>6, <2>2, ForgejoHead DEF Done
<1>7. CASE line.table \notin ForgejoTables
  BY <1>1, <1>2, <1>3, <1>4, <1>5, <1>7, ForgejoKey DEF Done
<1> QED
  BY <1>6, <1>7

LEMMA ForgejoStart == DataInit => ForgejoInv
  BY DEF DataInit, NothingLoaded, ForgejoInv, ForgejoRead, emptyData

LEMMA ForgejoStep == Types /\ Reading /\ ForgejoInv /\ [DataNext]_dataVars => ForgejoInv'
<1> SUFFICES ASSUME Types, Reading, ForgejoInv, [DataNext]_dataVars PROVE ForgejoInv'
  OBVIOUS
<1>1. CASE \E c \in Callers : Miss(c) \/ Recheck(c)
  BY <1>1 DEF Miss, Recheck, ForgejoInv, ForgejoRead, Done, directory, package, flags, result, reading, history
<1>2. CASE \E c \in Callers : Load(c)
  <2>1. pc' = "org" /\ d' = emptyData
    BY <1>2 DEF Load
  <2> QED
    BY <2>1 DEF ForgejoInv, ForgejoRead, emptyData
<1>3. CASE Finish
  BY <1>3 DEF Finish, ForgejoInv, ForgejoRead, Done, directory, package, flags, result, reading, history
<1>4. CASE ReadOrg
  <2>1. pc = "org" /\ pc' = "org lines" /\ d' = d
    BY <1>4 DEF ReadOrg
  <2> QED
    BY <2>1 DEF ForgejoInv, ForgejoRead
<1>5. CASE OrgLine
  <2>1. d \in Data /\ pc = "org lines" /\ pc' = pc /\ d' \in {d, flushOrgChannel, parseOrgCommKey(line)}
    BY <1>5 DEF OrgLine, Types, DataTypes
  <2>2. d'.forgejoURL = d.forgejoURL
    <3>1. CASE d' = d
      BY <3>1
    <3>2. CASE d' = flushOrgChannel
      BY <2>1, <3>2, FlushFields
    <3>3. CASE d' = parseOrgCommKey(line)
      BY <2>1, <3>3, OrgCommFields
    <3> QED
      BY <2>1, <3>1, <3>2, <3>3
  <2> QED
    BY <2>1, <2>2 DEF ForgejoInv, ForgejoRead
<1>6. CASE OrgEnd
  <2>1. d \in Data /\ pc = "org lines" /\ pc' = "forgejo" /\ d' = flushOrgChannel
    BY <1>6 DEF OrgEnd, Types, DataTypes
  <2>2. d'.forgejoURL = d.forgejoURL
    BY <2>1, FlushFields
  <2> QED
    BY <2>1, <2>2 DEF ForgejoInv, ForgejoRead
<1>7. CASE ReadForgejo
  <2>1. /\ text' \in Seq(FileLine) /\ pc = "forgejo" /\ pc' = "forgejo lines" /\ d' = d
        /\ inForgejo' = FALSE
    BY <1>7, ContentType DEF ReadForgejo, result, Types
  <2>2. at' - 1 = 0
    <3>1. at' = 1
      BY <1>7 DEF ReadForgejo
    <3> QED
      BY <3>1
  <2>3. d'.forgejoURL = Blank
    BY <2>1 DEF ForgejoInv
  <2>4. ForgejoLines(text', at' - 1, inForgejo', d'.forgejoURL)
    BY <2>1, <2>2, <2>3, ForgejoBegins
  <2> QED
    BY <2>1, <2>4 DEF ForgejoInv, ForgejoRead, Done
<1>8. CASE ForgejoLine
  <2>1. pc = "forgejo lines" /\ pc' = pc /\ text' = text
    BY <1>8 DEF ForgejoLine
  <2> QED
    BY <1>8, <2>1, ForgejoLineKeeps DEF ForgejoInv, ForgejoRead
<1>9. CASE ForgejoEnd
  <2>1. pc = "forgejo lines" /\ pc' = "files" /\ d' = d /\ seen' = seen
    BY <1>9 DEF ForgejoEnd, result
  <2>2. text = seen.forgejo /\ text \in Seq(FileLine)
    BY <2>1 DEF Reading, Types, FileTypes
  <2>3. at - 1 = Len(text)
    <3>1. Len(text) \in Nat
      BY <2>2
    <3>2. at \in 1..Len(text) + 1 /\ ~(at <= Len(text))
      BY <1>9 DEF ForgejoEnd, More, Types, DataTypes
    <3> QED
      BY <3>1, <3>2
  <2>4. TidyForgejo(text) => d.forgejoURL = Url(text, Len(text))
    BY <2>1, <2>3 DEF ForgejoInv, ForgejoLines, Done
  <2> QED
    BY <2>1, <2>2, <2>4 DEF ForgejoInv
<1>10. CASE ReadTeam
  <2>1. pc = "files" /\ pc' = "team lines" /\ d' = d /\ seen'.forgejo = seen.forgejo
    BY <1>10, FileFacts DEF ReadTeam
  <2> QED
    BY <2>1 DEF ForgejoInv, ForgejoRead
<1>11. CASE TeamLine
  <2>1. d \in Data /\ pc = "team lines" /\ pc' = pc /\ seen' = seen
    BY <1>11 DEF TeamLine, history, Types, DataTypes
  <2>2. OtherTable \/ ChannelTable \/ TeamKey
    BY <1>11 DEF TeamLine
  <2>3. d'.forgejoURL = d.forgejoURL
    <3>1. CASE OtherTable
      BY <3>1 DEF OtherTable, result
    <3>2. CASE ChannelTable
      BY <2>1, <3>2, FlushFields DEF ChannelTable
    <3>3. CASE TeamKey
      BY <2>1, <3>3 DEF TeamKey, Data
    <3> QED
      BY <2>2, <3>1, <3>2, <3>3
  <2> QED
    BY <2>1, <2>3 DEF ForgejoInv, ForgejoRead
<1>12. CASE TeamEnd
  <2>1. d \in Data /\ pc = "team lines" /\ pc' = "files" /\ seen' = seen
    BY <1>12 DEF TeamEnd, history, Types, DataTypes
  <2>2. d'.forgejoURL = d.forgejoURL
    <3>1. flushTeamChannel \in Data
      BY FlushTypes DEF Types
    <3> QED
      BY <1>12, <2>1, <3>1, FlushFields DEF TeamEnd, Data
  <2> QED
    BY <2>1, <2>2 DEF ForgejoInv, ForgejoRead
<1>13. CASE Expire
  BY <1>13 DEF Expire, ForgejoInv, ForgejoRead, Done, directory, package, flags, result, reading, history
<1>14. CASE \E o \in OrgTexts \cup {Absent}, f \in Files, t \in TeamTexts \cup {Absent} : Edit(o, f, t)
  BY <1>14 DEF Edit, ForgejoInv, ForgejoRead, Done, directory, package, flags, result, reading, history
<1>15. CASE UNCHANGED dataVars
  BY <1>15 DEF dataVars, ForgejoInv, ForgejoRead, Done, directory, package, flags, result, reading, history
<1> QED
  BY <1>1, <1>2, <1>3, <1>4, <1>5, <1>6, <1>7, <1>8, <1>9, <1>10, <1>11, <1>12, <1>13, <1>14, <1>15
  DEF DataNext, Get, LoadOrg, LoadTeam

-----------------------------------------------------------------------------
(* A team file. *)

LEMMA TeamTablesAre ==
  ASSUME NEW t \in Seq(FileLine)
  PROVE  /\ TeamChannels \subseteq TeamTables
         /\ \A j \in Named(t, TeamTables) :
              t[j].table \in TeamChannels => j \in Named(t, TeamChannels)
         /\ \A j \in Named(t, TeamChannels) :
              /\ t[j].table \in TeamChannels /\ j \in Named(t, TeamTables)
              /\ Owner(t, j) = Named(t, {"team"})
         /\ \A x \in {"team", "team.projects"} : \A j \in Named(t, {x}) :
              t[j].table = x /\ t[j].table \notin TeamChannels /\ j \in Named(t, TeamTables)
         /\ \A j \in Named(t, {"team", "team.projects"}) :
              /\ t[j].table \in {"team", "team.projects"} /\ t[j].table \notin TeamChannels
              /\ j \in Named(t, TeamTables)
  BY DEF Named, Owner, TeamTables, TeamChannels, OrgTables

LEMMA MembersSame ==
  ASSUME NEW t \in Seq(FileLine), NEW k \in Nat, k < Len(t),
         ~(t[k + 1].key \in UserKeys /\ \E h \in Named(t, {"team", "team.projects"}) : In(t, h, k + 1))
  PROVE  Members(t, k + 1) = Members(t, k)
<1>1. \A key \in UserKeys : Keyed(t, k + 1, Named(t, {"team", "team.projects"}), key)
                            = Keyed(t, k, Named(t, {"team", "team.projects"}), key)
  BY KeyedStep
<1> QED
  BY <1>1 DEF Members

LEMMA MembersNew ==
  ASSUME NEW t \in Seq(FileLine), NEW k \in Nat, k < Len(t),
         t[k + 1].key \in UserKeys, \E h \in Named(t, {"team", "team.projects"}) : In(t, h, k + 1)
  PROVE  Members(t, k + 1) = Members(t, k) \cup t[k + 1].value
<1> DEFINE J == Named(t, {"team", "team.projects"})
           H(n) == UNION {Keyed(t, n, J, key) : key \in UserKeys}
<1>1. H(k + 1) = H(k) \cup {k + 1}
  <2>1. 1..(k + 1) = 1..k \cup {k + 1}
    OBVIOUS
  <2>2. ASSUME NEW i
        PROVE  i \in H(k + 1) <=> i \in 1..(k + 1) /\ t[i].key \in UserKeys /\ \E j \in J : In(t, j, i)
    BY DEF Keyed
  <2>3. ASSUME NEW i
        PROVE  i \in H(k) <=> i \in 1..k /\ t[i].key \in UserKeys /\ \E j \in J : In(t, j, i)
    BY DEF Keyed
  <2>4. ASSUME NEW i
        PROVE  i \in H(k + 1) <=> i \in H(k) \/ i = k + 1
    BY <2>1, <2>2, <2>3
  <2> HIDE DEF H
  <2> QED
    BY <2>4
<1>2. \A n : Members(t, n) = UNION {t[i].value : i \in H(n)}
  BY DEF Members
<1> HIDE DEF H
<1> QED
  BY <1>1, <1>2

LEMMA TeamBegins ==
  ASSUME NEW t \in Seq(FileLine)
  PROVE  /\ TeamFlags(t, 0, FALSE, FALSE, FALSE) /\ AtHand(t, TeamChannels, 0, noChannel)
         /\ TeamValue(t, 0, "slug") = Blank /\ TeamValue(t, 0, "name") = Blank
         /\ Members(t, 0) = {}
         /\ \A key \in {"slack", "discord"} : TeamSoFar(t, 0, key) = {}
<1>1. \A J, key : Keyed(t, 0, J, key) = {}
  BY DEF Keyed
<1>2. Members(t, 0) = {}
  BY <1>1 DEF Members
<1>3. TeamValue(t, 0, "slug") = Blank /\ TeamValue(t, 0, "name") = Blank
  BY <1>1 DEF TeamValue, Value
<1>4. \A key : Listed(t, 0, {}, key) = {}
  BY DEF Listed, LastOf
<1>5. \A key : TeamSoFar(t, 0, key) = {}
  BY <1>4, FirstStep DEF TeamSoFar
<1> QED
  BY <1>2, <1>3, <1>5, FirstStep DEF TeamFlags, AtHand, Placed

(* When channels are there, the team that they are of is known.             *)
LEMMA TeamSettled ==
  ASSUME NEW t \in Seq(FileLine), TidyTeam(t), NEW k \in Nat, k <= Len(t),
         NEW c \in Named(t, TeamChannels), c <= k
  PROVE  /\ \A j \in Named(t, {"team"}), i \in 1..Len(t) : k < i => ~In(t, j, i)
         /\ \A key : TeamValue(t, k, key) = TeamValue(t, Len(t), key)
<1>1. ASSUME NEW j \in Named(t, {"team"}), NEW i \in 1..Len(t), k < i
      PROVE  ~In(t, j, i)
  <2>1. j < c
    <3>1. j \in Named(t, {"team", "org.communication"}) /\ c \in Named(t, TeamChannels \cup OrgChannels)
      BY DEF Named
    <3> QED
      BY <3>1 DEF TidyTeam, Tidy
  <2>2. c \in Heads(t) /\ c \in Nat /\ j \in Nat /\ i \in Nat
    BY Positions
  <2> QED
    BY <1>1, <2>1, <2>2 DEF In
<1>2. ASSUME NEW key
      PROVE  Keyed(t, k, Named(t, {"team"}), key) = Keyed(t, Len(t), Named(t, {"team"}), key)
  <2>1. Len(t) \in Nat
    BY Positions
  <2>2. \A i \in 1..Len(t) : i \in 1..k \/ k < i
    BY <2>1
  <2>3. 1..k \subseteq 1..Len(t)
    BY <2>1
  <2> QED
    BY <1>1, <2>2, <2>3 DEF Keyed
<1>3. ASSUME NEW key
      PROVE  TeamValue(t, k, key) = TeamValue(t, Len(t), key)
  BY <1>2, ValueSame DEF TeamValue
<1> QED
  BY <1>1, <1>3

LEMMA TeamFlush ==
  ASSUME NEW t \in Seq(FileLine), TidyTeam(t), NEW k \in Nat, k <= Len(t), NEW ch,
         AtHand(t, TeamChannels, k, ch), NEW sl, sl = TeamValue(t, k, "slug"),
         NEW nm, nm = TeamValue(t, k, "name"), NEW info, info = TeamInfo(sl, nm, ch),
         NEW key \in {"slack", "discord"}
  PROVE  (IF SlugOf(t) = Blank THEN {} ELSE Listed(t, k, Begun(t, TeamChannels, k), key))
           = IF sl = Blank THEN TeamSoFar(t, k, key)
             ELSE Register(TeamSoFar(t, k, key), Id(ch, key), info)
<1>1. CASE NoneYet(t, TeamChannels, k)
  <2>1. ch = noChannel /\ Begun(t, TeamChannels, k) = Closed(t, TeamChannels, k)
    BY <1>1, BegunIs DEF AtHand
  <2>2. Register(TeamSoFar(t, k, key), Id(ch, key), info) = TeamSoFar(t, k, key)
    BY <2>1, NoIds DEF Id
  <2> QED
    BY <2>1, <2>2 DEF TeamSoFar
<1>2. ASSUME NEW j \in Named(t, TeamChannels), Latest(t, TeamChannels, j, k)
      PROVE  (IF SlugOf(t) = Blank THEN {} ELSE Listed(t, k, Begun(t, TeamChannels, k), key))
               = IF sl = Blank THEN TeamSoFar(t, k, key)
                 ELSE Register(TeamSoFar(t, k, key), Id(ch, key), info)
  <2>1. sl = SlugOf(t)
    BY <1>2, TeamSettled DEF Latest, TeamValue, SlugOf
  <2>2. ASSUME NEW h \in Named(t, TeamChannels), Latest(t, TeamChannels, h, k)
        PROVE  info = InfoOf(t, k, h)
    <3>1. Owner(t, h) = Named(t, {"team"}) /\ ch = SaidIn(t, k, {h})
      BY <2>2, TeamTablesAre DEF AtHand
    <3> QED
      BY <3>1 DEF InfoOf, TeamValue
  <2>3. Register(Listed(t, k, Closed(t, TeamChannels, k), key), Id(ch, key), info)
          = Listed(t, k, Begun(t, TeamChannels, k), key)
    BY <2>2, Flush
  <2> QED
    BY <2>1, <2>3 DEF TeamSoFar
<1> QED
  BY <1>1, <1>2 DEF AtHand, Placed

(* Lines that are read in a team file.                                      *)
LEMMA TeamHead ==
  ASSUME NEW t \in Seq(FileLine), NEW k \in Nat, k < Len(t), k + 1 \in Heads(t)
  PROVE  /\ \A key \in {"slug", "name"} : TeamValue(t, k + 1, key) = TeamValue(t, k, key)
         /\ Members(t, k + 1) = Members(t, k)
         /\ \A C : \A key \in {"slack", "discord"} : Listed(t, k + 1, C, key) = Listed(t, k, C, key)
         /\ \A j : SaidIn(t, k + 1, {j}) = SaidIn(t, k, {j})
<1>1. t[k + 1] \in FileLine /\ k + 1 \in 1..Len(t)
  OBVIOUS
<1>2. t[k + 1].key = ""
  <2>1. PICK l \in FileLine : l = t[k + 1]
    BY <1>1
  <2>2. l.table # ""
    BY <2>1 DEF Heads
  <2> QED
    BY <2>1, <2>2, LineType
<1>3. t[k + 1].key \notin PairKeys /\ t[k + 1].key \notin UserKeys /\ t[k + 1].key \notin {"slug", "name"}
  BY <1>2 DEF PairKeys, UserKeys
<1>4. ASSUME NEW key \in {"slug", "name"}
      PROVE  TeamValue(t, k + 1, key) = TeamValue(t, k, key)
  <2>1. Keyed(t, k + 1, Named(t, {"team"}), key) = Keyed(t, k, Named(t, {"team"}), key)
    BY <1>3, KeyedStep
  <2> QED
    BY <2>1, ValueSame DEF TeamValue
<1>5. Members(t, k + 1) = Members(t, k)
  BY <1>3, MembersSame
<1>6. ASSUME NEW C, NEW key \in {"slack", "discord"}
      PROVE  Listed(t, k + 1, C, key) = Listed(t, k, C, key)
  BY <1>3, ListedSame
<1>7. ASSUME NEW j
      PROVE  SaidIn(t, k + 1, {j}) = SaidIn(t, k, {j})
  BY <1>3, SaidSame
<1> QED
  BY <1>4, <1>5, <1>6, <1>7

LEMMA TeamTable ==
  ASSUME NEW t \in Seq(FileLine), NEW k \in Nat, k < Len(t), NEW team, NEW project, NEW chans, NEW ch,
         TeamFlags(t, k, team, project, chans), AtHand(t, TeamChannels, k, ch),
         t[k + 1].table \in {"team", "team.projects", "team.repos"}
  PROVE  /\ TeamFlags(t, k + 1, t[k + 1].table = "team", t[k + 1].table = "team.projects", FALSE)
         /\ AtHand(t, TeamChannels, k + 1, ch)
         /\ \A key \in {"slack", "discord"} : TeamSoFar(t, k + 1, key) = TeamSoFar(t, k, key)
<1>1. k + 1 \in 1..Len(t) /\ k + 1 \in Heads(t)
  <2>1. k + 1 \in 1..Len(t)
    BY Positions
  <2>2. "" \notin {"team", "team.projects", "team.repos"}
    OBVIOUS
  <2> QED
    BY <2>1, <2>2, HeadIs
<1>2. k + 1 \in Named(t, TeamTables) /\ k + 1 \notin Named(t, TeamChannels) /\ t[k + 1].table \notin TeamChannels
  <2>1. /\ "" \notin TeamTables /\ "" \notin TeamChannels
        /\ t[k + 1].table \in TeamTables /\ t[k + 1].table \notin TeamChannels
    BY DEF TeamTables, TeamChannels
  <2> QED
    BY <1>1, <2>1, NamedIs
<1>3. TeamFlags(t, k + 1, t[k + 1].table = "team", t[k + 1].table = "team.projects", FALSE)
  BY <1>2, HeadStep DEF TeamFlags, Placed
<1>4. AtHand(t, TeamChannels, k + 1, ch)
  BY <1>1, <1>2, TeamHead, OtherStep DEF AtHand, Placed
<1>5. ASSUME NEW key \in {"slack", "discord"}
      PROVE  TeamSoFar(t, k + 1, key) = TeamSoFar(t, k, key)
  BY <1>1, <1>2, TeamHead, OtherStep DEF TeamSoFar
<1> QED
  BY <1>3, <1>4, <1>5

TeamFlushed(t, k, key, sl, ch, info) ==
  TeamSoFar(t, k + 1, key) = IF sl = Blank THEN TeamSoFar(t, k, key)
                             ELSE Register(TeamSoFar(t, k, key), Id(ch, key), info)
LEMMA TeamChannelHead ==
  ASSUME NEW t \in Seq(FileLine), TidyTeam(t), NEW k \in Nat, k < Len(t), NEW team, NEW project, NEW chans,
         NEW ch, TeamFlags(t, k, team, project, chans), AtHand(t, TeamChannels, k, ch),
         t[k + 1].table \in TeamChannels, NEW sl, sl = TeamValue(t, k, "slug"),
         NEW nm, nm = TeamValue(t, k, "name"), NEW info, info = TeamInfo(sl, nm, ch),
         NEW key \in {"slack", "discord"}
  PROVE  /\ TeamFlags(t, k + 1, team, project, TRUE) /\ AtHand(t, TeamChannels, k + 1, noChannel)
         /\ TeamFlushed(t, k, key, sl, ch, info)
<1>1. k + 1 \in 1..Len(t) /\ k + 1 \in Heads(t)
  <2>1. k + 1 \in 1..Len(t)
    BY Positions
  <2>2. "" \notin TeamChannels
    BY DEF TeamChannels
  <2> QED
    BY <2>1, <2>2, HeadIs
<1>2. k + 1 \in Named(t, TeamTables) /\ k + 1 \in Named(t, TeamChannels)
  BY <1>1, NamedIs DEF TeamTables, TeamChannels
<1>3. TeamFlags(t, k + 1, team, project, TRUE)
  BY <1>2, HeadStep DEF TeamFlags, Placed
<1>4. AtHand(t, TeamChannels, k + 1, noChannel)
  BY <1>2, HeadStep, SaidNothing DEF AtHand, Placed
<1>5. TeamFlushed(t, k, key, sl, ch, info)
  <2>1. k <= Len(t)
    BY Positions
  <2>2. (IF SlugOf(t) = Blank THEN {} ELSE Listed(t, k, Begun(t, TeamChannels, k), key))
           = IF sl = Blank THEN TeamSoFar(t, k, key)
             ELSE Register(TeamSoFar(t, k, key), Id(ch, key), info)
    BY <2>1, TeamFlush
  <2>3. Listed(t, k + 1, Begun(t, TeamChannels, k), key) = Listed(t, k, Begun(t, TeamChannels, k), key)
    BY <1>1, TeamHead
  <2>4. Closed(t, TeamChannels, k + 1) = Begun(t, TeamChannels, k)
    BY <1>2, HeadStep
  <2>5. TeamSoFar(t, k + 1, key)
          = IF SlugOf(t) = Blank THEN {} ELSE Listed(t, k, Begun(t, TeamChannels, k), key)
    BY <2>3, <2>4 DEF TeamSoFar
  <2> QED
    BY <2>2, <2>5 DEF TeamFlushed
<1> QED
  BY <1>3, <1>4, <1>5

TeamKeyRead(t, k, l, team, project, chans, ch) ==
  /\ TeamFlags(t, k + 1, team, project, chans)
  /\ AtHand(t, TeamChannels, k + 1, IF chans THEN Parsed(ch, l) ELSE ch)
  /\ \A key \in {"slug", "name"} :
       TeamValue(t, k + 1, key)
         = IF ~chans /\ team /\ l.key = key THEN l.value ELSE TeamValue(t, k, key)
  /\ Members(t, k + 1)
       = IF ~chans /\ (team \/ project) /\ l.key \in UserKeys
         THEN Members(t, k) \cup l.value ELSE Members(t, k)
  /\ \A key \in {"slack", "discord"} : TeamSoFar(t, k + 1, key) = TeamSoFar(t, k, key)
LEMMA TeamKeyLine ==
  ASSUME NEW t \in Seq(FileLine), TidyTeam(t), NEW k \in Nat, k < Len(t), NEW team, NEW project, NEW chans,
         NEW ch, TeamFlags(t, k, team, project, chans), AtHand(t, TeamChannels, k, ch),
         t[k + 1].table \notin TeamTables
  PROVE  TeamKeyRead(t, k, t[k + 1], team, project, chans, ch)
<1>1. t[k + 1] \in FileLine /\ k + 1 \in 1..Len(t)
  OBVIOUS
<1>2. k + 1 \notin Named(t, TeamTables) /\ k + 1 \notin Named(t, TeamChannels)
  <2>1. /\ "" \notin TeamTables /\ "" \notin TeamChannels /\ t[k + 1].table \notin TeamChannels
    BY DEF TeamTables, TeamChannels
  <2> QED
    BY <1>1, <2>1, NamedIs
<1>3. TeamFlags(t, k + 1, team, project, chans)
  BY <1>2, OtherStep DEF TeamFlags, Placed
<1>4. \A j \in Named(t, TeamTables) : In(t, j, k + 1) => Latest(t, TeamTables, j, k)
  BY InIsLatest
<1>5. ASSUME NEW j \in Named(t, TeamTables), Latest(t, TeamTables, j, k),
             t[k + 1].key \in ReadIn(t[j].table) \cap (PairKeys \cup UserKeys)
      PROVE  In(t, j, k + 1)
  BY <1>1, <1>2, <1>5, AfterLatest DEF TidyTeam, NoStrays
<1>6. AtHand(t, TeamChannels, k + 1, IF chans THEN Parsed(ch, t[k + 1]) ELSE ch)
  <2>1. CASE chans
    <3>1. PICK h \in Named(t, TeamTables) : Latest(t, TeamTables, h, k)
      BY <2>1 DEF TeamFlags, Placed
    <3>2. h \in Named(t, TeamChannels) /\ t[h].table \in TeamChannels
      BY <2>1, <3>1, TeamTablesAre DEF TeamFlags
    <3>3. Latest(t, TeamChannels, h, k)
      BY <3>1, <3>2, LatestIn, TeamTablesAre
    <3>4. ~NoneYet(t, TeamChannels, k + 1) /\ Placed(t, TeamChannels, k + 1)
      BY <1>2, <3>2, <3>3, OtherStep, Positions DEF AtHand, Placed, NoneYet, Latest
    <3>5. ch = SaidIn(t, k, {h})
      BY <3>2, <3>3 DEF AtHand
    <3>6. Parsed(ch, t[k + 1]) = SaidIn(t, k + 1, {h})
      <4>1. CASE t[k + 1].key \in PairKeys
        <5>1. ReadIn(t[h].table) = PairKeys
          BY <3>2 DEF ReadIn, OrgChannels, TeamChannels
        <5>2. In(t, h, k + 1)
          BY <1>5, <3>1, <4>1, <5>1
        <5> QED
          BY <3>2, <3>5, <4>1, <5>2, SaidNew, Positions DEF Parsed, TidyTeam
      <4>2. CASE t[k + 1].key \notin PairKeys
        BY <3>5, <4>2, SaidSame DEF Parsed
      <4> QED
        BY <4>1, <4>2
    <3>7. \A j \in Named(t, TeamChannels) : Latest(t, TeamChannels, j, k + 1) => j = h
      BY <1>2, <3>2, <3>3, OtherStep, LatestOne
    <3> QED
      BY <2>1, <3>4, <3>6, <3>7 DEF AtHand
  <2>2. CASE ~chans
    <3>1. \A j \in Named(t, TeamChannels) : ~In(t, j, k + 1)
      BY <1>4, <2>2, TeamTablesAre DEF TeamFlags
    <3>2. \A j \in Named(t, TeamChannels) : SaidIn(t, k + 1, {j}) = SaidIn(t, k, {j})
      BY <3>1, SaidSame
    <3> QED
      BY <1>2, <2>2, <3>2, OtherStep DEF AtHand, Placed
  <2> QED
    BY <2>1, <2>2
<1>7. ASSUME NEW key \in {"slug", "name"}
      PROVE  TeamValue(t, k + 1, key)
               = IF ~chans /\ team /\ t[k + 1].key = key THEN t[k + 1].value ELSE TeamValue(t, k, key)
  <2>1. CASE ~chans /\ team /\ t[k + 1].key = key
    <3>1. PICK h \in Named(t, TeamTables) : Latest(t, TeamTables, h, k)
      BY <2>1 DEF TeamFlags, Placed
    <3>2. t[h].table = "team" /\ h \in Named(t, {"team"})
      <4>1. t[h].table = "team"
        BY <2>1, <3>1 DEF TeamFlags
      <4> QED
        BY <4>1 DEF Named
    <3>3. key \in ReadIn(t[h].table) \cap (PairKeys \cup UserKeys)
      BY <3>2 DEF ReadIn, PairKeys
    <3>4. In(t, h, k + 1)
      BY <1>5, <2>1, <3>1, <3>3
    <3>5. \A i, l \in Keyed(t, Len(t), Named(t, {"team"}), key) : i = l
      BY OneRow DEF TidyTeam, Single
    <3>6. TeamValue(t, k + 1, key) = t[k + 1].value
      BY <2>1, <3>2, <3>4, <3>5, ValueNew DEF TeamValue
    <3> QED
      BY <2>1, <3>6
  <2>2. CASE ~(~chans /\ team /\ t[k + 1].key = key)
    <3>1. ASSUME NEW j \in Named(t, {"team"}), In(t, j, k + 1)
          PROVE  ~chans /\ team
      <4>1. j \in Named(t, TeamTables) /\ t[j].table = "team" /\ t[j].table \notin TeamChannels
        BY TeamTablesAre
      <4>2. Latest(t, TeamTables, j, k)
        BY <1>4, <3>1, <4>1
      <4> QED
        BY <4>1, <4>2 DEF TeamFlags
    <3>2. Keyed(t, k + 1, Named(t, {"team"}), key) = Keyed(t, k, Named(t, {"team"}), key)
      BY <2>2, <3>1, KeyedStep
    <3> QED
      BY <2>2, <3>2, ValueSame DEF TeamValue
  <2> QED
    BY <2>1, <2>2
<1>8. Members(t, k + 1)
        = IF ~chans /\ (team \/ project) /\ t[k + 1].key \in UserKeys
          THEN Members(t, k) \cup t[k + 1].value ELSE Members(t, k)
  <2>1. CASE ~chans /\ (team \/ project) /\ t[k + 1].key \in UserKeys
    <3>1. PICK h \in Named(t, TeamTables) : Latest(t, TeamTables, h, k)
      BY <2>1 DEF TeamFlags, Placed
    <3>2. t[h].table \in {"team", "team.projects"} /\ h \in Named(t, {"team", "team.projects"})
      <4>1. t[h].table \in {"team", "team.projects"}
        BY <2>1, <3>1 DEF TeamFlags
      <4> QED
        BY <4>1 DEF Named
    <3>3. t[k + 1].key \in ReadIn(t[h].table) \cap (PairKeys \cup UserKeys)
      <4>1. ASSUME NEW x \in {"team", "team.projects"}
            PROVE  UserKeys \subseteq ReadIn(x)
        <5>1. CASE x = "team"
          BY <5>1 DEF ReadIn, TeamChannels, OrgChannels
        <5>2. CASE x = "team.projects"
          BY <5>2 DEF ReadIn, TeamChannels, OrgChannels
        <5> QED
          BY <5>1, <5>2
      <4> QED
        BY <2>1, <3>2, <4>1
    <3>4. In(t, h, k + 1)
      BY <1>5, <3>1, <3>3
    <3> QED
      BY <2>1, <3>2, <3>4, MembersNew
  <2>2. CASE ~(~chans /\ (team \/ project) /\ t[k + 1].key \in UserKeys)
    <3>1. ASSUME NEW j \in Named(t, {"team", "team.projects"}), In(t, j, k + 1)
          PROVE  ~chans /\ (team \/ project)
      <4>1. /\ j \in Named(t, TeamTables) /\ t[j].table \in {"team", "team.projects"}
            /\ t[j].table \notin TeamChannels
        BY TeamTablesAre
      <4>2. Latest(t, TeamTables, j, k)
        BY <1>4, <3>1, <4>1
      <4> QED
        BY <4>1, <4>2 DEF TeamFlags
    <3> QED
      BY <2>2, <3>1, MembersSame
  <2> QED
    BY <2>1, <2>2
<1>9. ASSUME NEW key \in {"slack", "discord"}
      PROVE  TeamSoFar(t, k + 1, key) = TeamSoFar(t, k, key)
  <2>1. ASSUME NEW j \in Closed(t, TeamChannels, k), NEW x \in Owner(t, j) \cup {j}
        PROVE  ~In(t, x, k + 1)
    <3>1. PICK h \in Named(t, TeamChannels) : j < h /\ h <= k
      BY DEF Closed
    <3>2. j \in Named(t, TeamChannels) /\ j \in Nat /\ h \in Nat /\ h \in Heads(t)
      BY Positions DEF Closed
    <3>3. CASE x = j
      BY <3>1, <3>2, <3>3, Passed
    <3>4. CASE x \in Owner(t, j)
      <4>1. x \in Named(t, {"team"})
        BY <3>2, <3>4, TeamTablesAre
      <4>2. j <= k /\ k <= Len(t) /\ k < k + 1
        BY <3>1, <3>2, Positions
      <4> QED
        BY <1>1, <3>2, <4>1, <4>2, TeamSettled
    <3> QED
      BY <3>3, <3>4
  <2>2. Listed(t, k + 1, Closed(t, TeamChannels, k), key) = Listed(t, k, Closed(t, TeamChannels, k), key)
    BY <2>1, ListedSame
  <2> QED
    BY <1>2, <2>2, OtherStep DEF TeamSoFar
<1> QED
  BY <1>3, <1>6, <1>7, <1>8, <1>9 DEF TeamKeyRead

LEMMA TeamLineKeeps ==
  ASSUME Types, TeamLine, TidyTeam(text), TeamLines
  PROVE  TeamLines'
<1>1. /\ at \in Nat /\ at - 1 \in Nat /\ at - 1 < Len(text) /\ (at - 1) + 1 = at
      /\ text \in Seq(FileLine) /\ d \in Data /\ line \in FileLine
  BY LineIsOne DEF TeamLine, Types, FileTypes, DataTypes
<1>2. /\ at' = at + 1 /\ text' = text /\ Before' = Before
      /\ OtherTable \/ ChannelTable \/ TeamKey
  BY DEF TeamLine, history, Before
<1>3. PICK k \in Nat : k = at - 1 /\ k < Len(text) /\ k + 1 = at /\ at' - 1 = k + 1
  <2>1. at' - 1 = (at - 1) + 1
    BY <1>1, <1>2
  <2> QED
    BY <1>1, <2>1
<1>4. line = text[k + 1]
  BY <1>3 DEF line
<1>5. /\ TeamFlags(text, k, inTeamHeader, inProject, inChannelTable)
      /\ AtHand(text, TeamChannels, k, channel)
      /\ slug = TeamValue(text, k, "slug") /\ name = TeamValue(text, k, "name")
      /\ localMembers = Members(text, k)
      /\ d.slackToTeam = Over(TeamMap(Before, "slack"), TeamSoFar(text, k, "slack"))
      /\ d.discordToTeam = Over(TeamMap(Before, "discord"), TeamSoFar(text, k, "discord"))
      /\ d.members = AllMembers(Before) \cup Members(text, k)
      /\ d.teamMembers = AllTeamMembers(Before)
  BY <1>3 DEF TeamLines, Done
<1>6. SUFFICES /\ TeamFlags(text, k + 1, inTeamHeader', inProject', inChannelTable')
               /\ AtHand(text, TeamChannels, k + 1, channel')
               /\ slug' = TeamValue(text, k + 1, "slug") /\ name' = TeamValue(text, k + 1, "name")
               /\ localMembers' = Members(text, k + 1)
               /\ d'.slackToTeam = Over(TeamMap(Before, "slack"), TeamSoFar(text, k + 1, "slack"))
               /\ d'.discordToTeam = Over(TeamMap(Before, "discord"), TeamSoFar(text, k + 1, "discord"))
               /\ d'.members = AllMembers(Before) \cup Members(text, k + 1)
               /\ d'.teamMembers = AllTeamMembers(Before)
  BY <1>2, <1>3 DEF TeamLines, Done
<1>7. CASE line.table \in {"team", "team.projects", "team.repos"}
  <2>1. /\ inTeamHeader' = (line.table = "team") /\ inProject' = (line.table = "team.projects")
        /\ inChannelTable' = FALSE
        /\ d' = d /\ channel' = channel /\ slug' = slug /\ name' = name /\ localMembers' = localMembers
    BY <1>7 DEF TeamLine, OtherTable, TeamChannels, result
  <2>2. k + 1 \in Heads(text)
    <3>1. k + 1 \in 1..Len(text) /\ "" \notin {"team", "team.projects", "team.repos"}
      BY <1>1, <1>3, Positions
    <3> QED
      BY <1>1, <1>4, <1>7, <3>1, HeadIs
  <2>3. /\ TeamFlags(text, k + 1, line.table = "team", line.table = "team.projects", FALSE)
        /\ AtHand(text, TeamChannels, k + 1, channel)
        /\ \A key \in {"slack", "discord"} : TeamSoFar(text, k + 1, key) = TeamSoFar(text, k, key)
    BY <1>1, <1>3, <1>4, <1>5, <1>7, TeamTable
  <2>4. /\ \A key \in {"slug", "name"} : TeamValue(text, k + 1, key) = TeamValue(text, k, key)
        /\ Members(text, k + 1) = Members(text, k)
    BY <1>1, <1>3, <2>2, TeamHead
  <2> QED
    BY <1>5, <2>1, <2>3, <2>4
<1>8. CASE line.table \in TeamChannels
  <2>1. /\ inTeamHeader' = inTeamHeader /\ inProject' = inProject /\ inChannelTable' = TRUE
        /\ d' = flushTeamChannel /\ channel' = noChannel
        /\ slug' = slug /\ name' = name /\ localMembers' = localMembers
    <3>1. line.table \notin {"team", "team.projects", "team.repos"}
      BY <1>8 DEF TeamChannels
    <3> QED
      BY <1>8, <3>1 DEF TeamLine, ChannelTable
  <2>2. k + 1 \in Heads(text)
    <3>1. k + 1 \in 1..Len(text) /\ "" \notin TeamChannels
      BY <1>1, <1>3, Positions DEF TeamChannels
    <3> QED
      BY <1>1, <1>4, <1>8, <3>1, HeadIs
  <2>3. PICK info : info = TeamInfo(slug, name, channel)
    OBVIOUS
  <2>4. ASSUME NEW key \in {"slack", "discord"}
        PROVE  /\ TeamFlags(text, k + 1, inTeamHeader, inProject, TRUE)
               /\ AtHand(text, TeamChannels, k + 1, noChannel)
               /\ TeamFlushed(text, k, key, slug, channel, info)
    <3>1. text[k + 1].table \in TeamChannels
      BY <1>4, <1>8
    <3>2. /\ TeamFlags(text, k, inTeamHeader, inProject, inChannelTable)
          /\ AtHand(text, TeamChannels, k, channel)
          /\ slug = TeamValue(text, k, "slug") /\ name = TeamValue(text, k, "name")
          /\ text \in Seq(FileLine) /\ k < Len(text)
      BY <1>1, <1>3, <1>5
    <3> QED
      BY <2>3, <3>1, <3>2, TeamChannelHead
  <2>5. /\ \A key \in {"slug", "name"} : TeamValue(text, k + 1, key) = TeamValue(text, k, key)
        /\ Members(text, k + 1) = Members(text, k)
    BY <1>1, <1>3, <2>2, TeamHead
  <2>6. /\ d'.slackToTeam = Over(TeamMap(Before, "slack"), TeamSoFar(text, k + 1, "slack"))
        /\ d'.discordToTeam = Over(TeamMap(Before, "discord"), TeamSoFar(text, k + 1, "discord"))
    <3>1. ASSUME NEW key \in {"slack", "discord"}
          PROVE  TeamSoFar(text, k + 1, key)
                   = IF slug = Blank THEN TeamSoFar(text, k, key)
                     ELSE Register(TeamSoFar(text, k, key), Id(channel, key), info)
      BY <2>4 DEF TeamFlushed
    <3>2. CASE slug = Blank
      BY <1>1, <1>5, <2>1, <3>1, <3>2, FlushFields
    <3>3. CASE slug # Blank
      <4>1. /\ d'.slackToTeam = Register(d.slackToTeam, Id(channel, "slack"), info)
            /\ d'.discordToTeam = Register(d.discordToTeam, Id(channel, "discord"), info)
        BY <1>1, <2>1, <2>3, <3>3, FlushFields
      <4> QED
        BY <1>5, <3>1, <3>3, <4>1, RegisterOver
    <3> QED
      BY <3>2, <3>3
  <2>7. d'.members = d.members /\ d'.teamMembers = d.teamMembers
    BY <1>1, <2>1, FlushFields
  <2> QED
    BY <1>5, <2>1, <2>4, <2>5, <2>6, <2>7
<1>9. CASE line.table \notin TeamTables
  <2>1. /\ inTeamHeader' = inTeamHeader /\ inProject' = inProject /\ inChannelTable' = inChannelTable
        /\ channel' = IF inChannelTable THEN Parsed(channel, line) ELSE channel
        /\ slug' = IF ~inChannelTable /\ inTeamHeader /\ line.key = "slug" THEN line.value ELSE slug
        /\ name' = IF ~inChannelTable /\ inTeamHeader /\ line.key = "name" THEN line.value ELSE name
        /\ IF ~inChannelTable /\ (inTeamHeader \/ inProject) /\ line.key \in UserKeys
           THEN /\ localMembers' = localMembers \cup line.value
                /\ d' = [d EXCEPT !.members = @ \cup line.value]
           ELSE localMembers' = localMembers /\ d' = d
    <3>1. line.table \notin {"team", "team.projects", "team.repos"} /\ line.table \notin TeamChannels
      BY <1>9 DEF TeamTables, TeamChannels
    <3>2. TeamKey
      BY <3>1 DEF TeamLine
    <3> QED
      BY <3>2 DEF TeamKey, parseChannelPair, Parsed
  <2>2. /\ TeamFlags(text, k + 1, inTeamHeader, inProject, inChannelTable)
        /\ AtHand(text, TeamChannels, k + 1, IF inChannelTable THEN Parsed(channel, line) ELSE channel)
        /\ \A key \in {"slug", "name"} :
             TeamValue(text, k + 1, key)
                = IF ~inChannelTable /\ inTeamHeader /\ line.key = key THEN line.value ELSE TeamValue(text, k, key)
        /\ Members(text, k + 1)
             = IF ~inChannelTable /\ (inTeamHeader \/ inProject) /\ line.key \in UserKeys
               THEN Members(text, k) \cup line.value ELSE Members(text, k)
        /\ \A key \in {"slack", "discord"} : TeamSoFar(text, k + 1, key) = TeamSoFar(text, k, key)
    <3>1. text[k + 1].table \notin TeamTables
      BY <1>4, <1>9
    <3>2. TeamKeyRead(text, k, text[k + 1], inTeamHeader, inProject, inChannelTable, channel)
      BY <1>1, <1>3, <1>5, <3>1, TeamKeyLine
    <3> QED
      BY <1>4, <3>2 DEF TeamKeyRead
  <2>3. /\ localMembers' = Members(text, k + 1)
        /\ d'.members = AllMembers(Before) \cup Members(text, k + 1)
    <3>1. CASE ~inChannelTable /\ (inTeamHeader \/ inProject) /\ line.key \in UserKeys
      BY <1>1, <1>5, <2>1, <2>2, <3>1 DEF Data
    <3>2. CASE ~(~inChannelTable /\ (inTeamHeader \/ inProject) /\ line.key \in UserKeys)
      BY <1>5, <2>1, <2>2, <3>2
    <3> QED
      BY <3>1, <3>2
  <2>4. /\ d'.slackToTeam = d.slackToTeam /\ d'.discordToTeam = d.discordToTeam
        /\ d'.teamMembers = d.teamMembers
    BY <1>1, <2>1 DEF Data
  <2> QED
    BY <1>5, <2>1, <2>2, <2>3, <2>4
<1> QED
  BY <1>7, <1>8, <1>9 DEF TeamTables, TeamChannels

(* What the files before say, and what the last one that was read adds.     *)
LEMMA EmptyFile ==
  /\ \A key : TeamEntries(<<>>, key) = {}
  /\ MembersOf(<<>>) = {} /\ SlugOf(<<>>) = Blank
<1>1. \A J, key : Keyed(<<>>, 0, J, key) = {}
  BY DEF Keyed
<1>2. Len(<<>>) = 0
  BY EmptyText
<1>3. MembersOf(<<>>) = {}
  BY <1>1, <1>2 DEF MembersOf, Members
<1>4. SlugOf(<<>>) = Blank
  BY <1>1, <1>2 DEF SlugOf, Value
<1> QED
  BY <1>3, <1>4 DEF TeamEntries

LEMMA TeamMapIs ==
  ASSUME NEW texts, NEW key, NEW p
  PROVE  p \in TeamMap(texts, key) <=>
           \E f \in Files :
             /\ p \in TeamEntries(texts[f], key)
             /\ \A g \in Files : g > f => \A q \in TeamEntries(texts[g], key) : q[1] # p[1]
  BY DEF TeamMap

LEMMA TeamMapLast ==
  ASSUME NEW texts, DOMAIN texts = Files, NEW f \in Files, \A g \in Files : g > f => texts[g] = <<>>,
         NEW key
  PROVE  TeamMap(texts, key) = Over(TeamMap([texts EXCEPT ![f] = <<>>], key), TeamEntries(texts[f], key))
<1>0. PICK before : before = [texts EXCEPT ![f] = <<>>]
  OBVIOUS
<1> DEFINE E(g) == TeamEntries(texts[g], key)
           B(g) == TeamEntries(before[g], key)
<1>1. \A g \in Files : g \in Nat
  BY TextAssumption
<1>2. \A g \in Files : g > f => E(g) = {}
  BY EmptyFile
<1>3. B(f) = {} /\ \A g \in Files : g # f => B(g) = E(g)
  <2>1. before[f] = <<>> /\ \A g \in Files : g # f => before[g] = texts[g]
    BY <1>0
  <2> QED
    BY <2>1, EmptyFile
<1>4. ASSUME NEW p
      PROVE  p \in TeamMap(texts, key) <=>
               \E h \in Files : p \in E(h) /\ \A g \in Files : g > h => \A q \in E(g) : q[1] # p[1]
  BY TeamMapIs
<1>5. ASSUME NEW p
      PROVE  p \in TeamMap(before, key) <=>
               \E h \in Files : p \in B(h) /\ \A g \in Files : g > h => \A q \in B(g) : q[1] # p[1]
  BY TeamMapIs
<1> HIDE DEF E, B
<1>6. ASSUME NEW p
      PROVE  p \in TeamMap(texts, key) <=> p \in Over(TeamMap(before, key), E(f))
  <2>1. p \in Over(TeamMap(before, key), E(f)) <=>
          p \in E(f) \/ (p \in TeamMap(before, key) /\ \A q \in E(f) : q[1] # p[1])
    <3>1. ASSUME NEW P, NEW Q
          PROVE  p \in Over(P, Q) <=> p \in Q \/ (p \in P /\ \A q \in Q : q[1] # p[1])
      BY DEF Over
    <3> QED
      BY <3>1
  <2>2. ASSUME p \in TeamMap(texts, key), p \notin E(f)
        PROVE  p \in TeamMap(before, key) /\ \A q \in E(f) : q[1] # p[1]
    <3>1. PICK h \in Files : p \in E(h) /\ \A g \in Files : g > h => \A q \in E(g) : q[1] # p[1]
      BY <1>4, <2>2
    <3>2. h < f
      BY <1>1, <1>2, <2>2, <3>1
    <3>3. \A q \in E(f) : q[1] # p[1]
      BY <1>1, <3>1, <3>2
    <3>4. p \in B(h) /\ \A g \in Files : g > h => \A q \in B(g) : q[1] # p[1]
      BY <1>1, <1>3, <3>1, <3>2
    <3> QED
      BY <1>5, <3>3, <3>4
  <2>3. ASSUME p \in E(f)
        PROVE  p \in TeamMap(texts, key)
    BY <1>2, <1>4, <2>3
  <2>4. ASSUME p \in TeamMap(before, key), \A q \in E(f) : q[1] # p[1]
        PROVE  p \in TeamMap(texts, key)
    <3>1. PICK h \in Files : p \in B(h) /\ \A g \in Files : g > h => \A q \in B(g) : q[1] # p[1]
      BY <1>5, <2>4
    <3>2. h # f /\ p \in E(h)
      BY <1>3, <3>1
    <3>3. \A g \in Files : g > h => \A q \in E(g) : q[1] # p[1]
      BY <1>3, <2>4, <3>1
    <3> QED
      BY <1>4, <3>2, <3>3
  <2> QED
    BY <2>1, <2>2, <2>3, <2>4
<1> QED
  BY <1>0, <1>6 DEF E

LEMMA AllMembersLast ==
  ASSUME NEW texts, DOMAIN texts = Files, NEW f \in Files
  PROVE  /\ AllMembers(texts) = AllMembers([texts EXCEPT ![f] = <<>>]) \cup MembersOf(texts[f])
         /\ AllTeamMembers(texts)
              = AllTeamMembers([texts EXCEPT ![f] = <<>>])
                  \cup IF SlugOf(texts[f]) = Blank THEN {} ELSE {SlugOf(texts[f])} \X MembersOf(texts[f])
<1> DEFINE before == [texts EXCEPT ![f] = <<>>]
           Own(t) == IF SlugOf(t) = Blank THEN {} ELSE {SlugOf(t)} \X MembersOf(t)
<1>1. before[f] = <<>> /\ \A g \in Files : g # f => before[g] = texts[g]
  OBVIOUS
<1>2. AllMembers(texts) = AllMembers(before) \cup MembersOf(texts[f])
  BY <1>1, EmptyFile DEF AllMembers
<1>3. \A files : AllTeamMembers(files) = UNION {Own(files[g]) : g \in Files}
  BY DEF AllTeamMembers
<1>4. Own(<<>>) = {}
  BY EmptyFile
<1> HIDE DEF Own
<1>5. AllTeamMembers(texts) = AllTeamMembers(before) \cup Own(texts[f])
  BY <1>1, <1>3, <1>4
<1> QED
  BY <1>2, <1>5 DEF Own

LEMMA NoFiles ==
  /\ \A key : TeamMap(nothingSeen.teams, key) = {}
  /\ AllMembers(nothingSeen.teams) = {} /\ AllTeamMembers(nothingSeen.teams) = {}
<1>1. \A f \in Files : nothingSeen.teams[f] = <<>>
  BY DEF nothingSeen
<1> QED
  BY <1>1, EmptyFile DEF TeamMap, AllMembers, AllTeamMembers

LEMMA TeamEnds ==
  ASSUME NEW t \in Seq(FileLine), TidyTeam(t), NEW k, k = Len(t), NEW ch, AtHand(t, TeamChannels, k, ch),
         NEW sl, sl = TeamValue(t, k, "slug"), NEW nm, nm = TeamValue(t, k, "name"),
         NEW info, info = TeamInfo(sl, nm, ch), NEW key \in {"slack", "discord"}
  PROVE  (IF sl = Blank THEN TeamSoFar(t, k, key) ELSE Register(TeamSoFar(t, k, key), Id(ch, key), info))
           = TeamEntries(t, key)
<1>1. k \in Nat /\ k <= Len(t)
  <2>1. Len(t) \in Nat
    BY Positions
  <2> QED
    BY <2>1
<1>2. Begun(t, TeamChannels, k) = Named(t, TeamChannels)
  BY <1>1, BegunIs
<1>3. (IF SlugOf(t) = Blank THEN {} ELSE Listed(t, k, Begun(t, TeamChannels, k), key))
        = IF sl = Blank THEN TeamSoFar(t, k, key) ELSE Register(TeamSoFar(t, k, key), Id(ch, key), info)
  BY <1>1, TeamFlush
<1> QED
  BY <1>2, <1>3 DEF TeamEntries

LEMMA FileEnds ==
  ASSUME Types, Reading, TeamEnd, TidyTeams, TeamLines
  PROVE  /\ d'.slackToTeam = TeamMap(seen.teams, "slack")
         /\ d'.discordToTeam = TeamMap(seen.teams, "discord")
         /\ d'.members = AllMembers(seen.teams)
         /\ d'.teamMembers = AllTeamMembers(seen.teams)
<1>1. /\ text = seen.teams[file] /\ file \in Files /\ text \in Seq(FileLine) /\ d \in Data
      /\ DOMAIN seen.teams = Files /\ \A f \in Files : f > file => seen.teams[f] = <<>>
  <2>1. ASSUME NEW f \in Files, f > file
        PROVE  seen.teams[f] = <<>>
    <3>1. f \in Nat /\ file \in Nat
      BY FileFacts
    <3>2. seen.teams[f] # <<>> => f <= file
      BY DEF TeamEnd, Reading
    <3> QED
      BY <2>1, <3>1, <3>2
  <2> QED
    BY <2>1, FileFacts DEF TeamEnd, Reading, Types, DataTypes
<1>2. PICK k : k = at - 1 /\ k = Len(text)
  <2>1. Len(text) \in Nat
    BY <1>1
  <2>2. at \in 1..Len(text) + 1 /\ ~(at <= Len(text))
    BY DEF TeamEnd, More, Types, DataTypes
  <2> QED
    BY <2>1, <2>2
<1>3. /\ AtHand(text, TeamChannels, k, channel)
      /\ slug = TeamValue(text, k, "slug") /\ name = TeamValue(text, k, "name")
      /\ localMembers = Members(text, k)
      /\ d.slackToTeam = Over(TeamMap(Before, "slack"), TeamSoFar(text, k, "slack"))
      /\ d.discordToTeam = Over(TeamMap(Before, "discord"), TeamSoFar(text, k, "discord"))
      /\ d.members = AllMembers(Before) \cup Members(text, k)
      /\ d.teamMembers = AllTeamMembers(Before)
  BY <1>2 DEF TeamLines, Done
<1>4. localMembers = MembersOf(text) /\ slug = SlugOf(text)
  BY <1>2, <1>3 DEF MembersOf, SlugOf, TeamValue
<1>5. TidyTeam(text)
  BY <1>1 DEF TidyTeams
<1>6. PICK info : info = TeamInfo(slug, name, channel)
  OBVIOUS
<1>7. ASSUME NEW key \in {"slack", "discord"}
      PROVE  (IF slug = Blank THEN TeamSoFar(text, k, key)
              ELSE Register(TeamSoFar(text, k, key), Id(channel, key), info))
               = TeamEntries(text, key)
  BY <1>1, <1>2, <1>3, <1>5, <1>6, TeamEnds
<1>8. ASSUME NEW key \in {"slack", "discord"}
      PROVE  TeamMap(seen.teams, key) = Over(TeamMap(Before, key), TeamEntries(text, key))
  BY <1>1, TeamMapLast DEF Before
<1>9. /\ AllMembers(seen.teams) = AllMembers(Before) \cup MembersOf(text)
      /\ AllTeamMembers(seen.teams)
           = AllTeamMembers(Before)
               \cup IF SlugOf(text) = Blank THEN {} ELSE {SlugOf(text)} \X MembersOf(text)
  BY <1>1, AllMembersLast DEF Before
<1>10. Members(text, k) = MembersOf(text)
  BY <1>2 DEF MembersOf
<1>11. CASE slug = Blank
  <2>1. d' = d
    BY <1>11 DEF TeamEnd
  <2>2. \A key \in {"slack", "discord"} : TeamSoFar(text, k, key) = TeamEntries(text, key)
    BY <1>7, <1>11
  <2> QED
    BY <1>3, <1>4, <1>8, <1>9, <1>10, <1>11, <2>1, <2>2
<1>12. CASE slug # Blank
  <2>1. /\ d' = [flushTeamChannel EXCEPT !.teamMembers = @ \cup ({slug} \X localMembers)]
        /\ flushTeamChannel \in Data
    BY <1>12, FlushTypes DEF TeamEnd, Types
  <2>2. /\ flushTeamChannel.slackToTeam = Register(d.slackToTeam, Id(channel, "slack"), info)
        /\ flushTeamChannel.discordToTeam = Register(d.discordToTeam, Id(channel, "discord"), info)
        /\ flushTeamChannel.members = d.members /\ flushTeamChannel.teamMembers = d.teamMembers
    BY <1>1, <1>6, <1>12, FlushFields
  <2>3. /\ d'.slackToTeam = flushTeamChannel.slackToTeam
        /\ d'.discordToTeam = flushTeamChannel.discordToTeam
        /\ d'.members = flushTeamChannel.members
        /\ d'.teamMembers = flushTeamChannel.teamMembers \cup ({slug} \X localMembers)
    BY <2>1 DEF Data
  <2>4. \A key \in {"slack", "discord"} :
          Register(TeamSoFar(text, k, key), Id(channel, key), info) = TeamEntries(text, key)
    BY <1>7, <1>12
  <2>5. /\ d'.slackToTeam = TeamMap(seen.teams, "slack")
        /\ d'.discordToTeam = TeamMap(seen.teams, "discord")
    BY <1>3, <1>8, <2>2, <2>3, <2>4, RegisterOver
  <2>6. d'.members = AllMembers(seen.teams)
    BY <1>3, <1>9, <1>10, <2>2, <2>3
  <2>7. d'.teamMembers = AllTeamMembers(seen.teams)
    BY <1>3, <1>4, <1>9, <1>12, <2>2, <2>3
  <2> QED
    BY <2>5, <2>6, <2>7
<1> QED
  BY <1>11, <1>12

LEMMA FileBegins ==
  ASSUME Types, Reading, TeamInv, ReadTeam, TidyTeams'
  PROVE  TeamLines'
<1>1. PICK f \in entries :
         /\ file' = f /\ text' = Content(teams[f])
         /\ seen' = [seen EXCEPT !.teams[f] = Content(teams[f])]
  BY DEF ReadTeam
<1>2. f \in Files /\ f \in Nat
  BY FileFacts
<1>3. /\ seen'.teams = [seen.teams EXCEPT ![f] = Content(teams[f])]
      /\ seen.teams \in [Files -> Seq(FileLine)]
  BY <1>1, FileFacts
<1>4. seen.teams[f] = <<>>
  <2>1. seen.teams[f] # <<>> => f < f
    BY <1>2 DEF ReadTeam, Reading
  <2> QED
    BY <1>2, <2>1
<1>5. Before' = seen.teams
  BY <1>1, <1>2, <1>3, <1>4 DEF Before
<1>6. TidyTeams
  <2>1. ASSUME NEW g \in Files
        PROVE  TidyTeam(seen.teams[g])
    <3>1. CASE g = f
      BY <1>4, <3>1, EmptyText
    <3>2. CASE g # f
      <4>1. seen'.teams[g] = seen.teams[g]
        BY <1>3, <3>2
      <4> QED
        BY <4>1 DEF TidyTeams
    <3> QED
      BY <3>1, <3>2
  <2> QED
    BY <2>1 DEF TidyTeams
<1>7. /\ d' = d /\ inTeamHeader' = FALSE /\ inProject' = FALSE /\ inChannelTable' = FALSE
      /\ channel' = noChannel /\ slug' = Blank /\ name' = Blank /\ localMembers' = {}
  BY DEF ReadTeam
<1>8. /\ d.slackToTeam = TeamMap(seen.teams, "slack")
      /\ d.discordToTeam = TeamMap(seen.teams, "discord")
      /\ d.members = AllMembers(seen.teams) /\ d.teamMembers = AllTeamMembers(seen.teams)
  BY <1>6 DEF ReadTeam, TeamInv
<1>9. Done' = 0
  <2>1. at' = 1
    BY DEF ReadTeam
  <2>2. at' - 1 = 0
    BY <2>1
  <2> QED
    BY <2>2 DEF Done
<1>10. text' \in Seq(FileLine)
  BY <1>1, <1>2, ContentType DEF Types
<1>11. /\ TeamFlags(text', 0, FALSE, FALSE, FALSE) /\ AtHand(text', TeamChannels, 0, noChannel)
       /\ TeamValue(text', 0, "slug") = Blank /\ TeamValue(text', 0, "name") = Blank
       /\ Members(text', 0) = {}
       /\ \A key \in {"slack", "discord"} : TeamSoFar(text', 0, key) = {}
  BY <1>10, TeamBegins
<1> QED
  BY <1>5, <1>7, <1>8, <1>9, <1>11, OverNothing DEF TeamLines

LEMMA TeamStart == DataInit => TeamInv
  BY DEF DataInit, NothingLoaded, TeamInv

(* The lines of org.toml change no map of the teams.                        *)
LEMMA OrgPartKeeps ==
  ASSUME TeamInv, pc \notin {"idle", "team lines"}, pc' \notin {"idle", "team lines"},
         seen'.teams = seen.teams,
         /\ d'.slackToTeam = d.slackToTeam /\ d'.discordToTeam = d.discordToTeam
         /\ d'.members = d.members /\ d'.teamMembers = d.teamMembers
  PROVE  TeamInv'
  BY DEF TeamInv, TidyTeams

LEMMA TeamStep == Types /\ Reading /\ TeamInv /\ [DataNext]_dataVars => TeamInv'
<1> SUFFICES ASSUME Types, Reading, TeamInv, [DataNext]_dataVars PROVE TeamInv'
  OBVIOUS
<1>1. CASE \E c \in Callers : Miss(c) \/ Recheck(c)
  BY <1>1 DEF Miss, Recheck, TeamInv, TidyTeams, TeamLines, Before, Done, directory, package, flags, result, reading, history
<1>2. CASE \E c \in Callers : Load(c)
  <2>1. pc' = "org" /\ d' = emptyData /\ seen' = nothingSeen
    BY <1>2 DEF Load
  <2>2. seen'.teams = nothingSeen.teams
    BY <2>1
  <2> QED
    BY <2>1, <2>2, NoFiles DEF TeamInv, emptyData
<1>3. CASE Finish
  BY <1>3 DEF Finish, TeamInv
<1>4. CASE ReadOrg
  BY <1>4, FileFacts, OrgPartKeeps DEF ReadOrg
<1>5. CASE OrgLine
  <2>1. d \in Data /\ d' \in {d, flushOrgChannel, parseOrgCommKey(line)}
    BY <1>5 DEF OrgLine, Types, DataTypes
  <2>2. /\ d'.slackToTeam = d.slackToTeam /\ d'.discordToTeam = d.discordToTeam
        /\ d'.members = d.members /\ d'.teamMembers = d.teamMembers
    <3>1. CASE d' = d
      BY <3>1
    <3>2. CASE d' = flushOrgChannel
      BY <2>1, <3>2, FlushFields
    <3>3. CASE d' = parseOrgCommKey(line)
      BY <2>1, <3>3, OrgCommFields
    <3> QED
      BY <2>1, <3>1, <3>2, <3>3
  <2>3. pc = "org lines" /\ pc' = "org lines" /\ seen' = seen
    BY <1>5 DEF OrgLine, history
  <2> QED
    BY <2>2, <2>3, OrgPartKeeps
<1>6. CASE OrgEnd
  <2>1. d \in Data /\ pc = "org lines" /\ pc' = "forgejo" /\ seen' = seen /\ d' = flushOrgChannel
    BY <1>6 DEF OrgEnd, history, Types, DataTypes
  <2> QED
    BY <2>1, FlushFields, OrgPartKeeps
<1>7. CASE ReadForgejo
  BY <1>7, FileFacts, OrgPartKeeps DEF ReadForgejo, result
<1>8. CASE ForgejoLine
  <2>1. /\ d \in Data /\ pc = "forgejo lines" /\ pc' = "forgejo lines" /\ seen' = seen
        /\ d' = IF inForgejo /\ line.key = "url" THEN [d EXCEPT !.forgejoURL = line.value] ELSE d
    BY <1>8 DEF ForgejoLine, history, Types, DataTypes
  <2>2. /\ d'.slackToTeam = d.slackToTeam /\ d'.discordToTeam = d.discordToTeam
        /\ d'.members = d.members /\ d'.teamMembers = d.teamMembers
    BY <2>1 DEF Data
  <2> QED
    BY <2>1, <2>2, OrgPartKeeps
<1>9. CASE ForgejoEnd
  BY <1>9, OrgPartKeeps DEF ForgejoEnd, result
<1>10. CASE ReadTeam
  <2>1. pc' = "team lines"
    BY <1>10 DEF ReadTeam
  <2> QED
    BY <1>10, <2>1, FileBegins DEF TeamInv
<1>11. CASE TeamLine
  <2>1. pc = "team lines" /\ pc' = pc /\ text' = text /\ seen' = seen
    BY <1>11 DEF TeamLine, history
  <2>2. TidyTeams' => TidyTeams /\ TidyTeam(text)
    BY <2>1, FileFacts DEF TidyTeams, Reading
  <2> QED
    BY <1>11, <2>1, <2>2, TeamLineKeeps DEF TeamInv
<1>12. CASE TeamEnd
  <2>1. pc = "team lines" /\ pc' = "files" /\ seen' = seen
    BY <1>12 DEF TeamEnd, history
  <2>2. TidyTeams' => TidyTeams
    BY <2>1 DEF TidyTeams
  <2> QED
    BY <1>12, <2>1, <2>2, FileEnds DEF TeamInv
<1>13. CASE Expire
  BY <1>13 DEF Expire, TeamInv, TidyTeams, TeamLines, Before, Done, directory, package, flags, result, reading, history
<1>14. CASE \E o \in OrgTexts \cup {Absent}, f \in Files, t \in TeamTexts \cup {Absent} : Edit(o, f, t)
  BY <1>14 DEF Edit, TeamInv, TidyTeams, TeamLines, Before, Done, directory, package, flags, result, reading, history
<1>15. CASE UNCHANGED dataVars
  BY <1>15 DEF dataVars, TeamInv, TidyTeams, TeamLines, Before, Done, directory, package, flags, result, reading, history
<1> QED
  BY <1>1, <1>2, <1>3, <1>4, <1>5, <1>6, <1>7, <1>8, <1>9, <1>10, <1>11, <1>12, <1>13, <1>14, <1>15
  DEF DataNext, Get, LoadOrg, LoadTeam

-----------------------------------------------------------------------------
(* What is handed out. *)

LEMMA TruthStart == DataInit => Truth
  BY DEF DataInit, NothingLoaded, Truth

LEMMA Loaded ==
  ASSUME Types, LoadInv, Finish, Readable(seen)
  PROVE  d = Meaning(seen)
<1>1. /\ TidyOrg(seen.org) /\ TidyForgejo(seen.forgejo) /\ TidyTeams
      /\ pc = "files" /\ d \in Data
  BY DEF Finish, Readable, TidyTeams, Types, DataTypes
<1>2. d.orgSlack = OrgMap(seen.org, "slack") /\ d.orgDiscord = OrgMap(seen.org, "discord")
  BY <1>1 DEF LoadInv, OrgInv, OrgRead
<1>3. d.forgejoURL = Url(seen.forgejo, Len(seen.forgejo))
  BY <1>1 DEF LoadInv, ForgejoInv, ForgejoRead
<1>4. /\ d.slackToTeam = TeamMap(seen.teams, "slack")
      /\ d.discordToTeam = TeamMap(seen.teams, "discord")
      /\ d.members = AllMembers(seen.teams) /\ d.teamMembers = AllTeamMembers(seen.teams)
  BY <1>1 DEF LoadInv, TeamInv
<1>5. d = [slackToTeam |-> d.slackToTeam, discordToTeam |-> d.discordToTeam,
           orgSlack |-> d.orgSlack, orgDiscord |-> d.orgDiscord, members |-> d.members,
           teamMembers |-> d.teamMembers, forgejoURL |-> d.forgejoURL]
  BY <1>1 DEF Data
<1> QED
  BY <1>2, <1>3, <1>4, <1>5 DEF Meaning, AllMembers, AllTeamMembers

LEMMA TruthStep == Types /\ LoadInv /\ Truth /\ [DataNext]_dataVars => Truth'
<1> SUFFICES ASSUME Types, LoadInv, Truth, [DataNext]_dataVars PROVE Truth'
  OBVIOUS
<1>1. CASE Finish
  BY <1>1, Loaded DEF Finish, Truth
<1>2. ASSUME globalData' = globalData, shown' = shown
      PROVE  Truth'
  BY <1>2 DEF Truth
<1>3. CASE \E c \in Callers : Miss(c) \/ Recheck(c)
  BY <1>2, <1>3 DEF Miss, Recheck, package, history
<1>4. CASE \E c \in Callers : Load(c)
  BY <1>2, <1>4 DEF Load, package, history
<1>5. CASE ReadOrg
  BY <1>2, <1>5 DEF ReadOrg, package, history
<1>6. CASE OrgLine
  BY <1>2, <1>6 DEF OrgLine, package, history
<1>7. CASE OrgEnd
  BY <1>2, <1>7 DEF OrgEnd, package, history
<1>8. CASE ReadForgejo
  BY <1>2, <1>8 DEF ReadForgejo, package, history
<1>9. CASE ForgejoLine
  BY <1>2, <1>9 DEF ForgejoLine, package, history
<1>10. CASE ForgejoEnd
  BY <1>2, <1>10 DEF ForgejoEnd, package, history
<1>11. CASE ReadTeam
  BY <1>2, <1>11 DEF ReadTeam, package, history
<1>12. CASE TeamLine
  BY <1>2, <1>12 DEF TeamLine, package, history
<1>13. CASE TeamEnd
  BY <1>2, <1>13 DEF TeamEnd, package, history
<1>14. CASE Expire
  BY <1>2, <1>14 DEF Expire, package, history
<1>15. CASE \E o \in OrgTexts \cup {Absent}, f \in Files, t \in TeamTexts \cup {Absent} : Edit(o, f, t)
  BY <1>2, <1>15 DEF Edit, package, history
<1>16. CASE UNCHANGED dataVars
  BY <1>2, <1>16 DEF dataVars, package, history
<1> QED
  BY <1>1, <1>3, <1>4, <1>5, <1>6, <1>7, <1>8, <1>9, <1>10, <1>11, <1>12, <1>13, <1>14, <1>15, <1>16
  DEF DataNext, Get, LoadOrg, LoadTeam

(* The maps that Get hands out are what the tables of the files say that    *)
(* were read, at every result, however the lines are ordered (loader.go:    *)
(* 160-389): a pending channel is flushed before the next one begins, with  *)
(* the team that the file has, and the flags are of the table that a key    *)
(* is in.                                                                   *)
THEOREM GovernanceIsAsWritten == DataSpec => []AsWritten
<1>1. DataInit => OrgInv /\ ForgejoInv /\ TeamInv /\ Truth
  BY OrgStart, ForgejoStart, TeamStart, TruthStart
<1>2. /\ Types /\ Reading /\ Current
      /\ OrgInv /\ ForgejoInv /\ TeamInv /\ Truth
      /\ [DataNext]_dataVars
      => OrgInv' /\ ForgejoInv' /\ TeamInv' /\ Truth'
  BY OrgStep, ForgejoStep, TeamStep, TruthStep DEF LoadInv
<1>3. Types /\ Truth => AsWritten
  BY DEF Types, Truth, AsWritten
<1> QED
  BY <1>1, <1>2, <1>3, Recorded, PTL DEF DataSpec

=============================================================================
