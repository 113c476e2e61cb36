--------------------------- MODULE GovernanceData ---------------------------
(***************************************************************************)
(* pkg/governancedata/loader.go: who owns which channel, from TOML files.  *)
(*                                                                         *)
(* Get hands out one loaded result until it is old or the directory looks  *)
(* changed; then one caller reads all files under the lock.  There is no   *)
(* TOML parser: the files are read line by line, the lines that the code   *)
(* knows switch flags, and a channel is kept until the next one begins.    *)
(* So a step is a line here, and what the files say is defined beside it   *)
(* by the tables that their lines belong to.                               *)
(*                                                                         *)
(* A line is the head of a table, a key with its value, or none of those   *)
(* that the code knows.  Files are edited, replaced, added and removed at  *)
(* any time; org.toml is read twice, team files one after the other.       *)
(***************************************************************************)
EXTENDS Naturals, Sequences

CONSTANTS
  Word,        \* channel IDs, slugs, names, roles, URLs
  Blank,       \* the empty string
  Upper,       \* strings.ToUpper of words
  Users,       \* Codeberg usernames
  Files,       \* team files, numbered as ReadDir sorts them
  OrgTexts,    \* what may be in org.toml
  TeamTexts,   \* what may be in a team file
  Absent,      \* no file
  NoData,      \* nil
  Callers,     \* goroutines that call Get
  NoCaller,
  MaxEdits     \* bound on the changes of files

TeamTables == {"team", "team.projects", "team.repos", "team.channels", "team.projects.channels"}
OrgTables == {"org.communication", "org.communication.channels"}
ForgejoTables == {"org.forgejo", "org", "org.github", "org.keycloak", "org.communication"}
TeamChannels == {"team.channels", "team.projects.channels"}
OrgChannels == {"org.communication.channels"}
Tables == TeamTables \cup OrgTables \cup ForgejoTables \cup {"other"}

PairKeys == {"name", "slug", "slack", "discord", "mirror_role", "mirror_everyone"}
SlackKeys == {"slack_hub_channel_id", "slack_leads_channel_id"}
DiscordKeys == {"discord_hub_channel_id", "discord_leads_channel_id"}
UserKeys == {"leads", "members"}
WordKeys == (PairKeys \ {"mirror_everyone"}) \cup SlackKeys \cup DiscordKeys \cup {"url"}

String == Word \cup {Blank}
TableLine == [table : Tables, key : {""}, value : {Blank}]
KeyLine == [table : {""}, key : WordKeys, value : String]
       \cup [table : {""}, key : {"mirror_everyone"}, value : BOOLEAN]
       \cup [table : {""}, key : UserKeys, value : SUBSET Users]
FileLine == TableLine \cup KeyLine \cup {[table |-> "", key |-> "", value |-> Blank]}

ASSUME WordAssumption == /\ Blank \notin Word
                         /\ Upper \in [String -> String]
                         /\ \A w \in String : Upper[w] = Blank <=> w = Blank
ASSUME TextAssumption == /\ OrgTexts \subseteq Seq(FileLine) /\ TeamTexts \subseteq Seq(FileLine)
                         /\ Absent \notin OrgTexts \cup TeamTexts
                         /\ Files \subseteq Nat
ASSUME BoundAssumption == MaxEdits \in Nat /\ NoCaller \notin Callers

VARIABLES
  \* the directory
  org, teams,   \* the text of org.toml, and of each team file
  dirMod,       \* modification time of the directory itself
  \* the package's variables
  globalData, young,  \* time.Since(loadedAt) < interval
  loadedMod,
  holder,       \* the caller that has the write lock
  waiting,      \* callers between Get's two critical sections
  \* locals of load, loadOrg, loadOrgForgejo and loadTeam
  pc, d, entries, file, text, at,
  inOrgComm, inOrgChannels, inForgejo, inTeamHeader, inProject, inChannelTable,
  channel, slug, name, localMembers,
  \* bounds and history
  edits,
  seen,         \* the texts that the load under way has read
  shown,        \* those behind globalData
  overlooked    \* files that changed since, with nothing for Get to notice it by

directory == <<org, teams, dirMod>>
package == <<globalData, young, loadedMod, holder, waiting>>
flags == <<inOrgComm, inOrgChannels, inForgejo, inTeamHeader, inProject, inChannelTable>>
result == <<d, channel, slug, name, localMembers>>
reading == <<pc, entries, file, text, at>>
history == <<edits, seen, shown, overlooked>>
dataVars == <<directory, package, flags, result, reading, history>>

noChannel == [k \in PairKeys |-> IF k = "mirror_everyone" THEN FALSE ELSE Blank]
TeamInfo(sl, nm, ch) ==
  [TeamSlug |-> sl, TeamName |-> nm, SlackChannelID |-> Upper[ch["slack"]],
   DiscordChannelID |-> ch["discord"], MirrorRole |-> ch["mirror_role"],
   MirrorEveryone |-> ch["mirror_everyone"]]
noInfo == TeamInfo(Blank, Blank, noChannel)
emptyData == [slackToTeam |-> {}, discordToTeam |-> {}, orgSlack |-> {}, orgDiscord |-> {},
              members |-> {}, teamMembers |-> {}, forgejoURL |-> Blank]
allSeen == [org |-> FALSE, teams |-> {}]
nothingSeen == [org |-> <<>>, forgejo |-> <<>>, teams |-> [f \in Files |-> <<>>]]

NothingLoaded ==
  /\ dirMod = 0 /\ loadedMod = 0
  /\ globalData = NoData /\ young = FALSE
  /\ holder = NoCaller /\ waiting = {}
  /\ pc = "idle" /\ d = emptyData /\ entries = {} /\ file \in Files
  /\ text = <<>> /\ at = 1
  /\ inOrgComm = FALSE /\ inOrgChannels = FALSE /\ inForgejo = FALSE
  /\ inTeamHeader = FALSE /\ inProject = FALSE /\ inChannelTable = FALSE
  /\ channel = noChannel /\ slug = Blank /\ name = Blank /\ localMembers = {}
  /\ edits \in 0..MaxEdits /\ seen = nothingSeen /\ shown = nothingSeen /\ overlooked = allSeen
DataInit ==
  /\ org \in OrgTexts \cup {Absent}
  /\ teams \in [Files -> TeamTexts \cup {Absent}]
  /\ NothingLoaded

-----------------------------------------------------------------------------
(* Get. *)

(* Fault for a mutant: only the age of a result counts.                     *)
HitByAge == globalData # NoData /\ young

(* A recent result is used unless something in the directory was replaced,  *)
(* which changes the directory's time; the text of its files does not.      *)
Hit == globalData # NoData /\ young /\ dirMod <= loadedMod

(* The first look, under the read lock; a hit changes nothing.              *)
Miss(c) ==
  /\ c \notin waiting /\ holder = NoCaller /\ ~Hit
  /\ waiting' = waiting \cup {c}
  /\ UNCHANGED <<directory, globalData, young, loadedMod, holder, flags, result, reading, history>>

(* Another caller has loaded meanwhile.                                     *)
Recheck(c) ==
  /\ c \in waiting /\ holder = NoCaller /\ Hit
  /\ waiting' = waiting \ {c}
  /\ UNCHANGED <<directory, globalData, young, loadedMod, holder, flags, result, reading, history>>

Load(c) ==
  /\ c \in waiting /\ holder = NoCaller /\ ~Hit
  /\ holder' = c
  /\ d' = emptyData /\ pc' = "org"
  /\ seen' = nothingSeen
  /\ UNCHANGED <<directory, globalData, young, loadedMod, waiting, flags, channel, slug, name,
                 localMembers, entries, file, text, at, edits, shown, overlooked>>

(* loadedAt and the directory's time are taken after the files are read.    *)
Finish ==
  /\ pc = "files" /\ entries = {}
  /\ globalData' = d /\ young' = TRUE /\ loadedMod' = dirMod
  /\ holder' = NoCaller /\ waiting' = waiting \ {holder}
  /\ pc' = "idle"
  /\ shown' = seen
  /\ UNCHANGED <<directory, flags, result, entries, file, text, at, edits, seen, overlooked>>

Get == \/ \E c \in Callers : Miss(c) \/ Recheck(c) \/ Load(c)
       \/ Finish

-----------------------------------------------------------------------------
(* The maps. *)

(* A map has one value for a key, the last that was put.                    *)
Put(map, id, info) == {p \in map : p[1] # id} \cup {<<id, info>>}
Register(map, id, info) == IF id = Blank THEN map ELSE Put(map, id, info)

(* A channel without IDs, or of a team without a slug, is dropped.          *)
flushTeamChannel ==
  IF slug = Blank THEN d
  ELSE LET info == TeamInfo(slug, name, channel)
       IN  [d EXCEPT !.slackToTeam = Register(@, Upper[channel["slack"]], info),
                     !.discordToTeam = Register(@, channel["discord"], info)]

(* A channel of the organisation has its own name and slug in their place.  *)
flushOrgChannel ==
  LET info == TeamInfo(channel["slug"], channel["name"], channel)
  IN  [d EXCEPT !.orgSlack = Register(@, Upper[channel["slack"]], info),
                !.orgDiscord = Register(@, channel["discord"], info)]

parseChannelPair(line) ==
  IF line.key \in PairKeys THEN [channel EXCEPT ![line.key] = line.value] ELSE channel

parseOrgCommKey(line) ==
  CASE line.key \in SlackKeys -> [d EXCEPT !.orgSlack = Put(@, Upper[line.value], noInfo)]
    [] line.key \in DiscordKeys -> [d EXCEPT !.orgDiscord = Put(@, line.value, noInfo)]
    [] OTHER -> d

-----------------------------------------------------------------------------
(* org.toml. *)

(* A file that is not there is read as one without lines.                   *)
Content(t) == IF t = Absent THEN <<>> ELSE t

More == at <= Len(text)
line == text[at]

ReadOrg ==
  /\ pc = "org"
  /\ text' = Content(org) /\ at' = 1 /\ pc' = "org lines"
  /\ inOrgComm' = FALSE /\ inOrgChannels' = FALSE /\ channel' = noChannel
  /\ seen' = [seen EXCEPT !.org = Content(org)]
  /\ overlooked' = [overlooked EXCEPT !.org = FALSE]
  /\ UNCHANGED <<directory, package, inForgejo, inTeamHeader, inProject, inChannelTable,
                 d, slug, name, localMembers, entries, file, edits, shown>>

OrgLine ==
  /\ pc = "org lines" /\ More
  /\ at' = at + 1
  /\ CASE line.table = "org.communication" ->
            /\ inOrgComm' = TRUE /\ inOrgChannels' = FALSE
            /\ UNCHANGED <<d, channel>>
       [] line.table = "org.communication.channels" ->
            /\ inOrgComm' = TRUE /\ inOrgChannels' = TRUE
            /\ d' = flushOrgChannel /\ channel' = noChannel
       [] OTHER ->
            /\ UNCHANGED <<inOrgComm, inOrgChannels>>
            /\ channel' = IF inOrgComm /\ inOrgChannels THEN parseChannelPair(line) ELSE channel
            /\ d' = IF inOrgComm /\ ~inOrgChannels THEN parseOrgCommKey(line) ELSE d
  /\ UNCHANGED <<directory, package, inForgejo, inTeamHeader, inProject, inChannelTable,
                 slug, name, localMembers, pc, entries, file, text, history>>

OrgEnd ==
  /\ pc = "org lines" /\ ~More
  /\ d' = flushOrgChannel /\ channel' = noChannel /\ pc' = "forgejo"
  /\ UNCHANGED <<directory, package, flags, slug, name, localMembers, entries, file, text, at,
                 history>>

ReadForgejo ==
  /\ pc = "forgejo"
  /\ text' = Content(org) /\ at' = 1 /\ pc' = "forgejo lines"
  /\ inForgejo' = FALSE
  /\ seen' = [seen EXCEPT !.forgejo = Content(org)]
  /\ UNCHANGED <<directory, package, inOrgComm, inOrgChannels, inTeamHeader, inProject,
                 inChannelTable, result, entries, file, edits, shown, overlooked>>

ForgejoLine ==
  /\ pc = "forgejo lines" /\ More
  /\ at' = at + 1
  /\ inForgejo' = IF line.table \in ForgejoTables THEN line.table = "org.forgejo" ELSE inForgejo
  /\ d' = IF inForgejo /\ line.key = "url" THEN [d EXCEPT !.forgejoURL = line.value] ELSE d
  /\ UNCHANGED <<directory, package, inOrgComm, inOrgChannels, inTeamHeader, inProject,
                 inChannelTable, channel, slug, name, localMembers, pc, entries, file, text, history>>

(* ReadDir sees the files that are there now.                               *)
ForgejoEnd ==
  /\ pc = "forgejo lines" /\ ~More
  /\ entries' = {f \in Files : teams[f] # Absent} /\ pc' = "files"
  /\ overlooked' = [overlooked EXCEPT !.teams = @ \cap entries']
  /\ UNCHANGED <<directory, package, flags, result, file, text, at, edits, seen, shown>>

LoadOrg == ReadOrg \/ OrgLine \/ OrgEnd \/ ReadForgejo \/ ForgejoLine \/ ForgejoEnd

-----------------------------------------------------------------------------
(* The team files. *)

(* One that was removed meanwhile is skipped, as an empty one is.           *)
ReadTeam ==
  /\ pc = "files"
  /\ \E f \in entries :
       /\ \A g \in entries : f <= g
       /\ entries' = entries \ {f} /\ file' = f
       /\ text' = Content(teams[f])
       /\ seen' = [seen EXCEPT !.teams[f] = Content(teams[f])]
       /\ overlooked' = [overlooked EXCEPT !.teams = @ \ {f}]
  /\ at' = 1 /\ pc' = "team lines"
  /\ inTeamHeader' = FALSE /\ inProject' = FALSE /\ inChannelTable' = FALSE
  /\ channel' = noChannel /\ slug' = Blank /\ name' = Blank /\ localMembers' = {}
  /\ UNCHANGED <<directory, package, inOrgComm, inOrgChannels, inForgejo, d, edits, shown>>

(* A table that is not one of channels; the channel at hand stays.          *)
OtherTable ==
  /\ inTeamHeader' = (line.table = "team") /\ inProject' = (line.table = "team.projects")
  /\ inChannelTable' = FALSE
  /\ UNCHANGED result

(* Fault for a mutant: the next channel starts with what the last one said. *)
ChannelTableKept ==
  /\ d' = flushTeamChannel /\ channel' = channel
  /\ inChannelTable' = TRUE
  /\ UNCHANGED <<inTeamHeader, inProject, slug, name, localMembers>>

ChannelTable ==
  /\ d' = flushTeamChannel /\ channel' = noChannel
  /\ inChannelTable' = TRUE
  /\ UNCHANGED <<inTeamHeader, inProject, slug, name, localMembers>>

TeamKey ==
  /\ UNCHANGED <<inTeamHeader, inProject, inChannelTable>>
  /\ channel' = IF inChannelTable THEN parseChannelPair(line) ELSE channel
  /\ slug' = IF ~inChannelTable /\ inTeamHeader /\ line.key = "slug" THEN line.value ELSE slug
  /\ name' = IF ~inChannelTable /\ inTeamHeader /\ line.key = "name" THEN line.value ELSE name
  /\ IF ~inChannelTable /\ (inTeamHeader \/ inProject) /\ line.key \in UserKeys
     THEN /\ localMembers' = localMembers \cup line.value
          /\ d' = [d EXCEPT !.members = @ \cup line.value]
     ELSE UNCHANGED <<localMembers, d>>

TeamLine ==
  /\ pc = "team lines" /\ More
  /\ at' = at + 1
  /\ CASE line.table \in {"team", "team.projects", "team.repos"} -> OtherTable
       [] line.table \in TeamChannels -> ChannelTable
       [] OTHER -> TeamKey
  /\ UNCHANGED <<directory, package, inOrgComm, inOrgChannels, inForgejo, pc, entries, file,
                 text, history>>

TeamEnd ==
  /\ pc = "team lines" /\ ~More
  /\ d' = IF slug = Blank THEN d
          ELSE [flushTeamChannel EXCEPT !.teamMembers = @ \cup ({slug} \X localMembers)]
  /\ channel' = noChannel /\ pc' = "files"
  /\ UNCHANGED <<directory, package, flags, slug, name, localMembers, entries, file, text, at,
                 history>>

LoadTeam == ReadTeam \/ TeamLine \/ TeamEnd

-----------------------------------------------------------------------------
(* Who maintains the files, and the clock. *)

Expire ==
  /\ young /\ young' = FALSE
  /\ UNCHANGED <<directory, globalData, loadedMod, holder, waiting, flags, result, reading, history>>

EditOrg(o) ==
  /\ org # Absent /\ o # Absent
  /\ org' = o
  /\ overlooked' = [overlooked EXCEPT !.org = TRUE]
  /\ UNCHANGED <<teams, dirMod>>

(* A file put in the place of another, a new or a removed one shows in the  *)
(* time of the directory; during a load that time is not taken yet.         *)
ReplaceOrg(o) ==
  /\ org' = o
  /\ dirMod' = dirMod + 1
  /\ overlooked' = [overlooked EXCEPT !.org = @ \/ holder # NoCaller]
  /\ UNCHANGED teams

(* The team files are in a directory of their own.                          *)
EditTeam(f, t) ==
  /\ teams' = [teams EXCEPT ![f] = t]
  /\ overlooked' = [overlooked EXCEPT !.teams = @ \cup {f}]
  /\ UNCHANGED <<org, dirMod>>

Edit(o, f, t) ==
  /\ edits < MaxEdits /\ edits' = edits + 1
  /\ EditOrg(o) \/ ReplaceOrg(o) \/ EditTeam(f, t)
  /\ UNCHANGED <<package, flags, result, reading, seen, shown>>

DataNext ==
  \/ Get \/ LoadOrg \/ LoadTeam \/ Expire
  \/ \E o \in OrgTexts \cup {Absent}, f \in Files, t \in TeamTexts \cup {Absent} : Edit(o, f, t)

DataSpec == DataInit /\ [][DataNext]_dataVars

-----------------------------------------------------------------------------
(* What the files say. *)

(* Line i is in the table that begins at line j, before any other.          *)
Heads(t) == {j \in 1..Len(t) : t[j].table # ""}
Named(t, tables) == {j \in Heads(t) : t[j].table \in tables}
In(t, j, i) == j < i /\ \A h \in Heads(t) : h <= j \/ i < h

(* The lines, of the first k, that give the key in a table that begins in J. *)
Keyed(t, k, J, key) == {i \in 1..k : t[i].key = key /\ \E j \in J : In(t, j, i)}
Value(t, k, J, key) ==
  IF Keyed(t, k, J, key) = {} THEN IF key = "mirror_everyone" THEN FALSE ELSE Blank
  ELSE t[CHOOSE i \in Keyed(t, k, J, key) : TRUE].value
SaidIn(t, k, J) == [key \in PairKeys |-> Value(t, k, J, key)]

(* A channel of a team has the team's slug and name, one of the             *)
(* organisation its own.                                                    *)
Owner(t, j) == IF t[j].table \in OrgTables THEN {j} ELSE Named(t, {"team"})
InfoOf(t, k, j) == TeamInfo(Value(t, k, Owner(t, j), "slug"), Value(t, k, Owner(t, j), "name"),
                            SaidIn(t, k, {j}))
IdOf(t, k, j, key) == IF key = "slack" THEN Upper[Value(t, k, {j}, key)] ELSE Value(t, k, {j}, key)

(* Each ID belongs to the last of the channels C that has it.               *)
LastOf(t, k, C, key) ==
  {j \in C : IdOf(t, k, j, key) # Blank
             /\ \A l \in C : l > j => IdOf(t, k, l, key) # IdOf(t, k, j, key)}
Listed(t, k, C, key) == {<<IdOf(t, k, j, key), InfoOf(t, k, j)>> : j \in LastOf(t, k, C, key)}
Over(P, Q) == {p \in P : \A q \in Q : q[1] # p[1]} \cup Q

SlugOf(t) == Value(t, Len(t), Named(t, {"team"}), "slug")
TeamEntries(t, key) ==
  IF SlugOf(t) = Blank THEN {} ELSE Listed(t, Len(t), Named(t, TeamChannels), key)

(* A later file goes before an earlier one.                                 *)
TeamMap(texts, key) ==
  UNION {{p \in TeamEntries(texts[f], key) :
            \A g \in Files : g > f => \A q \in TeamEntries(texts[g], key) : q[1] # p[1]} :
         f \in Files}

(* The hubs are known, and have no more than that unless a table names them. *)
Hubs(t, k, key) ==
  UNION {{<<IF key = "slack" THEN Upper[t[i].value] ELSE t[i].value, noInfo>> :
            i \in Keyed(t, k, Named(t, {"org.communication"}), hub)} :
         hub \in IF key = "slack" THEN SlackKeys ELSE DiscordKeys}
OrgMap(t, key) ==
  Over(Hubs(t, Len(t), key), Listed(t, Len(t), Named(t, OrgChannels), key))

(* Members of a project are members of the team.                            *)
Members(t, k) ==
  UNION {t[i].value : i \in UNION {Keyed(t, k, Named(t, {"team", "team.projects"}), key) :
                                     key \in UserKeys}}
MembersOf(t) == Members(t, Len(t))
Url(t, k) == Value(t, k, Named(t, {"org.forgejo"}), "url")

Meaning(texts) ==
  [slackToTeam |-> TeamMap(texts.teams, "slack"),
   discordToTeam |-> TeamMap(texts.teams, "discord"),
   orgSlack |-> OrgMap(texts.org, "slack"),
   orgDiscord |-> OrgMap(texts.org, "discord"),
   members |-> UNION {MembersOf(texts.teams[f]) : f \in Files},
   teamMembers |-> UNION {{SlugOf(texts.teams[f])} \X MembersOf(texts.teams[f]) :
                          f \in {g \in Files : SlugOf(texts.teams[g]) # Blank}},
   forgejoURL |-> Url(texts.forgejo, Len(texts.forgejo))]

(* What the code relies on: a table has a key once, and there is one [team] *)
(* and one [org.communication], before the channels; and a table that a     *)
(* parser does not know has none of the keys that it reads in the table     *)
(* before, as it takes them for that one's.                                 *)
ReadIn(table) ==
  CASE table = "team" -> {"slug", "name"} \cup UserKeys
    [] table = "team.projects" -> UserKeys
    [] table \in TeamChannels \cup OrgChannels -> PairKeys
    [] table = "org.communication" -> SlackKeys \cup DiscordKeys
    [] table = "org.forgejo" -> {"url"}
    [] OTHER -> {}
Single == {"team", "org.communication", "org.forgejo"}
After(t, known, j, i) == j < i /\ \A h \in Named(t, known) : h <= j \/ i < h
NoStrays(t, known, keys) ==
  \A j \in Named(t, known), i \in 1..Len(t) :
    After(t, known, j, i) /\ t[i].key \in ReadIn(t[j].table) \cap keys => In(t, j, i)

Tidy(t) ==
  /\ \A j \in Heads(t), i, l \in 1..Len(t) :
       In(t, j, i) /\ In(t, j, l) /\ t[i].key = t[l].key /\ t[i].key # "" => i = l
  /\ \A j, l \in Heads(t) : t[j].table = t[l].table /\ t[j].table \in Single => j = l
  /\ \A j \in Named(t, {"team", "org.communication"}), c \in Named(t, TeamChannels \cup OrgChannels) : j < c
TidyOrg(t) == Tidy(t) /\ NoStrays(t, OrgTables, PairKeys \cup SlackKeys \cup DiscordKeys)
TidyForgejo(t) == Tidy(t) /\ NoStrays(t, ForgejoTables, {"url"})
TidyTeam(t) == Tidy(t) /\ NoStrays(t, TeamTables, PairKeys \cup UserKeys)

Readable(texts) ==
  /\ TidyOrg(texts.org) /\ TidyForgejo(texts.forgejo)
  /\ \A f \in Files : TidyTeam(texts.teams[f])

-----------------------------------------------------------------------------
(***************************************************************************)
(* Properties.                                                             *)
(***************************************************************************)

Info == [TeamSlug : String, TeamName : String, SlackChannelID : String, DiscordChannelID : String,
         MirrorRole : String, MirrorEveryone : BOOLEAN]
Data == [slackToTeam : SUBSET (String \X Info), discordToTeam : SUBSET (String \X Info),
         orgSlack : SUBSET (String \X Info), orgDiscord : SUBSET (String \X Info),
         members : SUBSET Users, teamMembers : SUBSET (String \X Users), forgejoURL : String]
DataTypes ==
  /\ dirMod \in Nat /\ loadedMod \in Nat
  /\ globalData \in Data \cup {NoData} /\ young \in BOOLEAN
  /\ holder \in Callers \cup {NoCaller} /\ waiting \subseteq Callers
  /\ pc \in {"idle", "org", "org lines", "forgejo", "forgejo lines", "files", "team lines"}
  /\ d \in Data /\ entries \subseteq Files /\ file \in Files
  /\ at \in 1..Len(text) + 1
  /\ \A flag \in {inOrgComm, inOrgChannels, inForgejo, inTeamHeader, inProject, inChannelTable} :
       flag \in BOOLEAN
  /\ channel = [k \in PairKeys |-> channel[k]]
  /\ \A k \in PairKeys \cap WordKeys : channel[k] \in String
  /\ channel["mirror_everyone"] \in BOOLEAN
  /\ slug \in String /\ name \in String /\ localMembers \subseteq Users
  /\ edits \in 0..MaxEdits
  /\ overlooked \in [org : BOOLEAN, teams : SUBSET Files]

(* The maps that Get hands out are what the tables of the files that were   *)
(* read say, however the tables, their keys and other lines are ordered     *)
(* (loader.go:181-389): no channel is lost, none has an ID or a role of     *)
(* another, each is the team's that the file is about.                      *)
AsWritten ==
  /\ DataTypes
  /\ pc = "idle" /\ globalData # NoData /\ Readable(shown) => globalData = Meaning(shown)

(* A result that Get hands out again is that of the files as they are now,  *)
(* but for those of which nothing told Get that they changed: the interval  *)
(* of loader.go:114-120 is all that bounds how long these are overlooked.   *)
UpToDate ==
  pc = "idle" /\ Hit =>
    /\ ~overlooked.org => shown.org = Content(org) /\ shown.forgejo = Content(org)
    /\ \A f \in Files \ overlooked.teams : shown.teams[f] = Content(teams[f])

=============================================================================
