\* Four players, the first two in a party, groups of three, one invitation by
\* hand and one group more than the party.
SPECIFICATION Spec

CONSTANTS
  p1 = p1
  p2 = p2
  p3 = p3
  p4 = p4
  Players = {p1, p2, p3, p4}
  Groups = {1, 2}
  GroupSize = 3
  Needed <- MCNeeded
  RolesOf <- MCRolesOf
  Ignoring <- MCIgnoring
  NoGroup = NoGroup
  NoInvite = NoInvite
  Party <- MCParty
  MaxInvites = 1
  Patient = TRUE


  
  

PROPERTIES
  TogetherAfterwards
  AgreeingKeepTheirPlace

\* All may have left when no invitation is left.
CHECK_DEADLOCK FALSE
