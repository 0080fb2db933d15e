\* Three players, one queue, one instance of two a side; TeleportTo may
\* refuse the first player.
SPECIFICATION Spec

CONSTANTS
  p1 = p1  p2 = p2  p3 = p3
  b1 = b1  b2 = b2  q1 = q1  q2 = q2
  Players = {p1, p2, p3}
  Bgs = {b1}
  NoBg = NoBg
  MinPlayersPerTeam = 1
  MaxPlayersPerTeam = 2
  NoBalance = TRUE
  Queues = {q1}
  QueueOf <- OneQueue
  Groups = {g1, g2, g3}
  NoGroup = NoGroup
  Stamps = {s1}
  NoStamp = NoStamp
  OTeamMatches = FALSE
  Faction <- AllAlliance
  NoSlot = NoSlot
  MaxQueues = 2
  MaxPartySize = 2
  TeleportFails = {p1}
  MaxOfflineQueue = 1

INVARIANTS
  CapacityRespected
  NoPlaceForgotten

PROPERTIES
  InvitesKeepBalance
  FreedPlaceIsOffered

SYMMETRY SymmetryButFirst
