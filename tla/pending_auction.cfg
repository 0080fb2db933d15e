\* An auction may be bought or cancelled while its deposit is pending.
SPECIFICATION Spec

CONSTANTS
  seller = seller  buyer = buyer  rival = rival
  sword = sword  shield = shield
  Players = {seller, buyer, rival}
  Items = {sword, shield}
  Nothing = Nothing  NoPlayer = NoPlayer
  Fee = 1  Gifts = {0}  CODs = {0, 1}  MaxMails = 1  MaxMoney = 4
  StartGold <- MCStartGold  StartBags <- MCStartBags
  Deposit <- MCDeposit
  StartBids = {1}  Buyouts = {0, 2}  Prices = {1, 2}
  CutPercent = 50  OutBidPercent = 5
  MaxAuctions = 2
  MaxDisturbances = 2
  Patient = FALSE

INVARIANTS
  NotReferencedAnyMore

CHECK_DEADLOCK FALSE
