\* Groups of three and solo players for an instance of two to four a side, new
\* or running, whatever OTeam of a short queue reads as.
SPECIFICATION MCSpec

CONSTANTS
  MaxGroups = 7
  FewGroups = 3
  Sizes = {1, 3}
  Calls = {"none", "wait_join", "in_progress"}
  MinPlayersPerTeam = 2
  MaxPlayersPerTeam = 4
  NoBalance = TRUE
  OTeamMatches = TRUE
  PeopleRange = 256
  Bg = Bg
  NoBg = NoBg
  NoGroup = NoGroup

INVARIANTS
  SidesDifferByOneGroup
  PoolsFit
  SolosStart
  SelectionMatches

\* The function returns.
CHECK_DEADLOCK FALSE
