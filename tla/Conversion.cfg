SPECIFICATION ConversionSpec
CONSTANTS
  Messages <- MCMessages
  Documents <- MCDocuments
  Mentions <- MCMentions
  Teams <- MCTeams
  GhostOf <- MCGhostOf
  SlackUserOf <- MCSlackUserOf
  LoginOf <- MCLoginOf
  RoomOf <- MCRoomOf
  ChannelOf <- MCChannelOf
  MaxFiles = 2
  Images = {1, 2}
  MaxChanges = 3
  Word <- MCWord
  Blank = ""
  Upper <- MCUpper
  Users = {"ann", "lee"}
  Files = {1, 2}
  OrgTexts <- MCOrgTexts
  TeamTexts <- MCTeamTexts
  Absent = Absent
  NoData = NoData
  k1 = k1
  k2 = k2
  Callers = {k1, k2}
  NoCaller = NoCaller
  MaxEdits = 2
SYMMETRY Symmetry
INVARIANTS
  Nested
  RoundTrip
  RoomPing
  PartsFollow
  AsWritten
  UpToDate
CHECK_DEADLOCK FALSE
