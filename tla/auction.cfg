\* A seller of two items and two bidders who outbid each other.
SPECIFICATION Spec

CONSTANTS
  seller = seller  buyer = buyer  rival = rival
  sword = sword  shield = shield
  Players = {seller, buyer, rival}
  Items = {sword, shield}
  Nothing = Nothing  NoPlayer = NoPlayer
  Fee = 1  Gifts = {0}  CODs = {0, 1}  MaxMails = 1  MaxMoney = 4
  StartGold <- MCStartGold  StartBags <- MCStartBags
  Deposit <- MCDeposit
  StartBids = {1}  Buyouts = {0, 2}  Prices = {1, 2}
  CutPercent = 50  OutBidPercent = 5
  MaxAuctions = 2
  MaxDisturbances = 2
  Patient = TRUE

INVARIANTS
  ItemInOnePlace
  MoneyBalances
  CrashGivesBackDeposits

PROPERTIES
  BidsComeBack

SYMMETRY Bidders

CHECK_DEADLOCK FALSE
