CONSTANTS
  a1 = a1
  a2 = a2
  h1 = h1
  Players <- MCPlayers
  Team <- MCTeam
  Nobody = nobody
  CapturesToWin = 2
  Nodes = {n1, n2}
  NoBanner = noBanner
  Ticks <- MCTicks
  Points = {p1, p2}
  FelReaver = p1
  Away = away
  Low = 1
  High = 3
  Full = 4
  Capturers = 1
  TickPoints <- MCTickPoints
  FlagPoints <- MCFlagPoints
  Resources = 2
SPECIFICATION MapSpec
INVARIANTS
  NoFlagLost
  AssaultOnCarriersOnly
  NodesAgree
  OwnersFollowBars
  
\* A match ends.
CHECK_DEADLOCK FALSE
