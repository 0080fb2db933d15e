\* Two queues with one instance each: a player inside one instance is pulled
\* into the other queue by a party and jumps.
SPECIFICATION Spec

CONSTANTS
  p1 = p1  p2 = p2  p3 = p3
  b1 = b1  b2 = b2  q1 = q1  q2 = q2
  Players = {p1, p2}
  Bgs = {b1, b2}
  NoBg = NoBg
  MinPlayersPerTeam = 1
  MaxPlayersPerTeam = 1
  NoBalance = TRUE
  Queues = {q1, q2}
  QueueOf <- TwoQueues
  Groups = {g1, g2, g3}
  NoGroup = NoGroup
  Stamps = {s1}
  NoStamp = NoStamp
  OTeamMatches = FALSE
  Faction <- AllAlliance
  NoSlot = NoSlot
  MaxQueues = 2
  MaxPartySize = 2
  TeleportFails = {}
  MaxOfflineQueue = 1

INVARIANTS
  PlacesCounted
  NoDanglingInstance
  SlotsAgree
  InsideWhereInvited

PROPERTIES
  ReservationSpec

SYMMETRY SymmetryOfTwo
