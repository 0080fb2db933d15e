\* Two players, one queue: fairness and no symmetry.
SPECIFICATION FairSpec

CONSTANTS
  p1 = p1  p2 = p2  p3 = p3
  b1 = b1  b2 = b2  q1 = q1  q2 = q2
  Players = {p1, p2}
  Bgs = {b1}
  NoBg = NoBg
  MinPlayersPerTeam = 1
  MaxPlayersPerTeam = 1
  NoBalance = TRUE
  Queues = {q1}
  QueueOf <- OneQueue
  Groups = {g1, g2}
  NoGroup = NoGroup
  Stamps = {s1, s2}
  NoStamp = NoStamp
  OTeamMatches = FALSE
  Faction <- AllAlliance
  NoSlot = NoSlot
  MaxQueues = 2
  MaxPartySize = 2
  TeleportFails = {}
  MaxOfflineQueue = 1

PROPERTIES
  OnlyOwnTimerExpires
  InvitationsResolve
  EndedIsDeleted
