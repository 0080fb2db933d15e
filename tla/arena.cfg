\* Three groups; windows of three around a rating, widened twice by one.
SPECIFICATION FairSpec

CONSTANTS
  low = low  mid = mid  high = high
  Groups = {low, mid, high}
  Rating <- MCRating
  Faction <- MCFaction
  MaxDifference = 3
  Step = 1
  Levels = 2
  Discard = 2
  Word = 64

PROPERTIES
  CompatibleMeetSoon
  OpponentsWithinWindow
  NobodyWaitsForEver
