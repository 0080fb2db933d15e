---------------------------- MODULE AuctionHouse ----------------------------
(***************************************************************************)
(* The auction house (AuctionHouseHandler.cpp, AuctionHouseMgr.cpp).  A    *)
(* deposit is not paid when an auction is created: the auction waits in    *)
(* pendingAuctionMap until its owner has stopped creating others, and the  *)
(* money of every end of an auction travels by mail.                       *)
(***************************************************************************)
EXTENDS Mailbox

CONSTANTS
  Deposit,                 \* the deposit for one of each item
  StartBids, Buyouts, Prices,
  CutPercent, OutBidPercent,
  MaxAuctions,             \* auctions created (bound of the model)
  Patient                  \* nobody buys or cancels while the deposit is pending

VARIABLES
  auctions,                \* auction identifiers to entries
  nextId,                  \* GenerateAuctionID
  pending,                 \* each player's entries in pendingAuctionMap
  counted                  \* how many of them the last update saw

auctionVars == <<auctions, nextId, pending, counted>>
vars == <<mailVars, auctionVars>>

ASSUME AuctionAssumption ==
  /\ MaxAuctions \in Nat /\ Patient \in BOOLEAN
  /\ \A i \in Items : Deposit[i] \in Nat
  /\ StartBids \cup Prices \subseteq Nat \ {0} /\ Buyouts \subseteq Nat
  /\ CutPercent \in 0 .. 100 /\ OutBidPercent \in Nat

Init ==
  /\ MailInit
  /\ auctions = <<>> /\ nextId = 1
  /\ pending = [p \in Players |-> <<>>]
  /\ counted = [p \in Players |-> 0]

GetAuctionDeposit(item, count) == Deposit[item] * count
GetAuctionCut(a) == (a.bid * CutPercent) \div 100
GetAuctionOutBid(a) == LET outbid == (a.bid * OutBidPercent) \div 100
                       IN IF outbid = 0 THEN 1 ELSE outbid

Pending(id) == \E p \in Players : id \in Range(pending[p])
MayEnd(id) == Patient => ~Pending(id)
RemoveAuction(id) == auctions' = Restrict(auctions, DOMAIN auctions \ {id})

AuctionLetter(to, item, money) == Letter(to, NoPlayer, "auction", "", item, money, 0)

(* SendAuctionOutbiddedMail, SendAuctionCancelledToBidderMail *)
MailBack(box, a) == SendMailTo(box, AuctionLetter(a.bidder, Nothing, a.bid))
(* SendAuctionSuccessfulMail and SendAuctionWonMail *)
Profit(a) == a.bid + a.deposit - GetAuctionCut(a)
MailSold(box, a) ==
  SendMailTo(SendMailTo(box, AuctionLetter(a.owner, Nothing, Profit(a))),
             AuctionLetter(a.bidder, a.item, 0))
(* SendAuctionExpiredMail, and the letter of a cancelled auction *)
MailUnsold(box, a) == SendMailTo(box, AuctionLetter(a.owner, a.item, 0))

---------------------------------------------------------------------------
(* HandleAuctionSellItem, for a whole stack *)
SellItem(p, item, startbid, buyout) ==
  /\ p \in online /\ item \in bags[p]
  /\ gold[p] >= GetAuctionDeposit(item, 1)
  /\ nextId <= MaxAuctions
  /\ auctions' = [id \in DOMAIN auctions \cup {nextId} |->
       IF id = nextId
         THEN [item |-> item, owner |-> p, bidder |-> NoPlayer, bid |-> 0, startbid |-> startbid,
               buyout |-> buyout, deposit |-> GetAuctionDeposit(item, 1)]
         ELSE auctions[id]]
  /\ nextId' = nextId + 1
  /\ pending' = [pending EXCEPT ![p] = Append(@, nextId)]
  /\ bags' = [bags EXCEPT ![p] = @ \ {item}]
  /\ gold' = gold
  /\ SaveGoldToDB(p)
  /\ UNCHANGED <<online, mail, gone, kept, disturbed, counted>>

(* HandleAuctionPlaceBid: its checks, then a bid or a buyout. *)
Bought(a, price) == price >= a.buyout /\ a.buyout # 0
Acceptable(p, a, price) ==
  /\ a.owner # p
  /\ price > a.bid /\ price >= a.startbid
  /\ Bought(a, price) \/ price >= a.bid + GetAuctionOutBid(a)
  /\ gold[p] >= price

\* Slip: the whole price is taken from a player who raises his own bid.
ChargeWhole(p, a, price) ==
  /\ gold' = [gold EXCEPT ![p] = @ - price]
  /\ mail' = IF a.bidder \in {NoPlayer, p} THEN mail ELSE MailBack(mail, a)

\* Slip: the bid is overwritten before the last bidder is written to.
ChargeOverwritten(p, a, price) ==
  /\ gold' = [gold EXCEPT ![p] = @ - (IF a.bidder = p THEN price - a.bid ELSE price)]
  /\ mail' = IF a.bidder \in {NoPlayer, p} THEN mail
             ELSE MailBack(mail, [a EXCEPT !.bidder = p])

(* The bidder pays; the last bidder gets his money back. *)
Charge(p, a, price) ==
  /\ gold' = [gold EXCEPT ![p] = @ - (IF a.bidder = p THEN price - a.bid ELSE price)]
  /\ mail' = IF a.bidder \in {NoPlayer, p} THEN mail ELSE MailBack(mail, a)

PlaceBid(p, id, price) ==
  /\ p \in online
  /\ Acceptable(p, auctions[id], price) /\ ~Bought(auctions[id], price)
  /\ Charge(p, auctions[id], price)
  /\ auctions' = [auctions EXCEPT ![id].bidder = p, ![id].bid = price]
  /\ SaveGoldToDB(p)
  /\ UNCHANGED <<online, bags, gone, kept, disturbed, nextId, pending, counted>>

\* Slip: the auction that was bought stays in the house.
BuyoutStays(p, id, price) ==
  LET a == auctions[id]
      sold == [a EXCEPT !.bidder = p, !.bid = a.buyout]
      paid == IF a.bidder = p THEN a.buyout - a.bid ELSE a.buyout
  IN
  /\ p \in online /\ MayEnd(id)
  /\ Acceptable(p, a, price) /\ Bought(a, price)
  /\ gold' = [gold EXCEPT ![p] = @ - paid]
  /\ mail' = MailSold(IF a.bidder \in {NoPlayer, p} THEN mail ELSE MailBack(mail, a), sold)
  /\ kept' = kept + GetAuctionCut(sold) - sold.deposit
  /\ SaveGoldToDB(p)
  /\ UNCHANGED <<auctions, online, bags, gone, disturbed, nextId, pending, counted>>

Buyout(p, id, price) ==
  LET a == auctions[id]
      sold == [a EXCEPT !.bidder = p, !.bid = a.buyout]
      paid == IF a.bidder = p THEN a.buyout - a.bid ELSE a.buyout
  IN
  /\ p \in online /\ MayEnd(id)
  /\ Acceptable(p, a, price) /\ Bought(a, price)
  /\ gold' = [gold EXCEPT ![p] = @ - paid]
  /\ mail' = MailSold(IF a.bidder \in {NoPlayer, p} THEN mail ELSE MailBack(mail, a), sold)
  /\ kept' = kept + GetAuctionCut(sold) - sold.deposit
  /\ RemoveAuction(id)
  /\ SaveGoldToDB(p)
  /\ UNCHANGED <<online, bags, gone, disturbed, nextId, pending, counted>>

(* HandleAuctionRemoveItem: the owner pays the cut, the bidder gets his bid back. *)
CancelAuction(p, id) ==
  LET a == auctions[id]
      cut == IF a.bidder = NoPlayer THEN 0 ELSE GetAuctionCut(a)
  IN
  /\ p \in online /\ a.owner = p /\ MayEnd(id)
  /\ gold[p] >= cut
  /\ gold' = [gold EXCEPT ![p] = @ - cut]
  /\ mail' = MailUnsold(IF a.bidder = NoPlayer THEN mail ELSE MailBack(mail, a), a)
  /\ kept' = kept + cut
  /\ RemoveAuction(id)
  /\ SaveGoldToDB(p)
  /\ UNCHANGED <<online, bags, gone, disturbed, nextId, pending, counted>>

(* AuctionHouseObject::Update, for an auction whose time is over: it lasts *)
(* for hours, its deposit is pending for two updates.                      *)
ExpireAuction(id) ==
  LET a == auctions[id] IN
  /\ ~Pending(id)
  /\ IF a.bidder = NoPlayer
       THEN mail' = MailUnsold(mail, a) /\ kept' = kept
       ELSE mail' = MailSold(mail, a) /\ kept' = kept + GetAuctionCut(a) - a.deposit
  /\ RemoveAuction(id)
  /\ UNCHANGED <<online, gold, bags, saved, gone, unsaved, disturbed, nextId, pending, counted>>

---------------------------------------------------------------------------
(* PendingAuctionProcess: one deposit for the batch, computed from the item *)
(* of its first auction, and shared out among its auctions.                 *)
Total(batch) == GetAuctionDeposit(auctions[batch[1]].item, Len(batch))
Share(batch, k) ==
  LET share == Total(batch) \div Len(batch)
  IN IF k = Len(batch) THEN Total(batch) - (Len(batch) - 1) * share ELSE share
(* ModifyMoney stops at zero. *)
Payment(p) == IF gold[p] > Total(pending[p]) THEN Total(pending[p]) ELSE gold[p]

(* UpdatePendingAuctions: a batch is charged when it has stopped growing; a *)
(* player who has left is not charged.                                      *)
UpdatePendingAuctions ==
  LET waiting == {p \in Players : pending[p] # <<>>}
      charged == {p \in waiting \cap online : Len(pending[p]) = counted[p]}
      over == charged \cup (waiting \ online)
      Place(p, id) == CHOOSE k \in DOMAIN pending[p] : pending[p][k] = id
      paid == [p \in Players |-> IF p \in charged THEN Payment(p) ELSE 0]
  IN
  /\ waiting # {}
  /\ pending' = [p \in Players |-> IF p \in over THEN <<>> ELSE pending[p]]
  /\ counted' = [p \in Players |-> IF p \in over THEN 0 ELSE Len(pending[p])]
  /\ gold' = [p \in Players |-> gold[p] - paid[p]]
  /\ kept' = kept + SumFunction(paid)
  /\ unsaved' = [p \in Players |-> unsaved[p] + paid[p]]
  /\ auctions' = [id \in DOMAIN auctions |->
       LET p == auctions[id].owner IN
       IF p \in charged /\ id \in Range(pending[p])
         THEN [auctions[id] EXCEPT !.deposit = Share(pending[p], Place(p, id))]
         ELSE auctions[id]]
  /\ UNCHANGED <<online, bags, saved, mail, gone, disturbed, nextId>>

Restart ==
  /\ Crash
  /\ pending' = [p \in Players |-> <<>>]
  /\ counted' = [p \in Players |-> 0]
  /\ UNCHANGED <<auctions, nextId>>

Next ==
  \/ \E p \in Players, item \in Items, startbid \in StartBids, buyout \in Buyouts :
       SellItem(p, item, startbid, buyout)
  \/ \E p \in Players, id \in DOMAIN auctions :
       \/ \E price \in Prices : PlaceBid(p, id, price) \/ Buyout(p, id, price)
       \/ CancelAuction(p, id)
  \/ \E id \in DOMAIN auctions : ExpireAuction(id)
  \/ UpdatePendingAuctions
  \/ Restart
  \/ MailNext /\ UNCHANGED auctionVars

Spec == Init /\ [][Next]_vars

---------------------------------------------------------------------------
(***************************************************************************)
(* Every item is carried by one player, offered in one auction, in one     *)
(* letter, or destroyed: no sale, return, expiry or crash loses or doubles *)
(* one.                                                                    *)
(***************************************************************************)
Places(i) ==
  Cardinality({p \in Players : i \in bags[p]})
    + Cardinality({id \in DOMAIN auctions : auctions[id].item = i})
    + SumFunctionOnSet(mail, {l \in DOMAIN mail : l.item = i})
    + (IF i \in gone THEN 1 ELSE 0)
ItemInOnePlace == \A i \in Items : Places(i) = 1

(***************************************************************************)
(* Money is neither made nor lost by the handlers together: what players   *)
(* carry, what is in letters, what is bid and what the auctioneers and the *)
(* post have kept is what the players began with.  What a refunded deposit *)
(* brings in that was never charged is counted in kept.                    *)
(***************************************************************************)
InLetters == SumFunction([l \in DOMAIN mail |-> mail[l] * l.money])
InBids == SumFunction([id \in DOMAIN auctions |-> auctions[id].bid])
Carried(purse) == SumFunction(purse)
MoneyBalances == Carried(gold) + InLetters + InBids + kept = Carried(StartGold)

(***************************************************************************)
(* Every handler that moves money saves the player's gold in the same      *)
(* transaction, so that a crash gives back or takes nothing but a deposit: *)
(* PendingAuctionProcess charges it without saving the gold.               *)
(***************************************************************************)
CrashGivesBackDeposits == \A p \in Players : saved[p] = gold[p] + unsaved[p]

(***************************************************************************)
(* The money of a bidder comes back: when a player's standing bids fall,   *)
(* by being outbid, bought over or cancelled, a letter to him holds the    *)
(* difference, unless a letter with the item is on its way to him.         *)
(***************************************************************************)
Bids(p) == SumFunction([id \in {k \in DOMAIN auctions : auctions[k].bidder = p} |->
                         auctions[id].bid])
LettersTo(p) == {l \in DOMAIN mail : l.to = p}
MoneyTo(p) == SumFunction([l \in LettersTo(p) |-> mail[l] * l.money])
ItemsTo(p) == {l.item : l \in LettersTo(p)} \ {Nothing}
BidsComeBack ==
  [][\A p \in Players : Bids(p)' < Bids(p) =>
       \/ ItemsTo(p)' \ ItemsTo(p) # {}
       \/ MoneyTo(p)' - MoneyTo(p) = Bids(p) - Bids(p)']_vars

(***************************************************************************)
(* RemoveAuction deletes the entry: "it is not referenced any more"        *)
(* (AuctionHouseMgr.cpp).                                                  *)
(***************************************************************************)
NotReferencedAnyMore == \A p \in Players : Range(pending[p]) \subseteq DOMAIN auctions
=============================================================================
