--------------------------- MODULE MCAuctionHouse ---------------------------
EXTENDS AuctionHouse, TLC

CONSTANTS seller, buyer, rival, sword, shield

MCStartGold == [p \in Players |-> IF p = seller THEN 1 ELSE 2]
MCStartBags == [p \in Players |-> IF p = seller THEN {sword, shield} ELSE {}]
MCDeposit == [i \in Items |-> IF i = sword THEN 1 ELSE 0]
Bidders == Permutations({buyer, rival})
=============================================================================
