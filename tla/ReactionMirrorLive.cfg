CONSTANTS
  r1 = r1
  r2 = r2
  e1 = e1
  e2 = e2
  discord1 = discord1
  discord2 = discord2
  slack = slack
  Refreshers = {r1, r2}
  Reactions <- MCReactions
  Discord <- MCDiscord
  Emoji = {e1, e2}
  EmojiOf <- MCEmojiOf
  NoEmoji = NoEmoji
  Free = Free
  Parts = 2
  Attempts = 2
  MaxChanges = 2
  MaxFaults = 1
SPECIFICATION FairSpec
PROPERTY RefreshEnds
CHECK_DEADLOCK FALSE
