------------------------------ MODULE Mailbox ------------------------------
(***************************************************************************)
(* Mail between players (MailHandler.cpp, Mail.cpp): items and money       *)
(* travel in letters that are rows of the database.  A transaction is one  *)
(* step here: DatabaseWorkerPool says how it is carried out.               *)
(***************************************************************************)
EXTENDS Integers, Sequences, FiniteSets, Functions

CONSTANTS
  Players, Items,
  Nothing,                 \* a letter without an item
  NoPlayer,                \* no bidder; the sender of the auctioneer's letters
  Fee,                     \* the price of a letter
  Gifts, CODs,             \* the money and the COD players put on letters
  MaxMails,                \* letters a player may have before new ones are refused
  MaxMoney,                \* MAX_MONEY_AMOUNT
  StartGold, StartBags,
  MaxDisturbances          \* letters written or thrown away, logouts, crashes (bound of the model)

VARIABLES
  online,                  \* players in the world
  gold, bags,              \* what each player carries in memory
  saved,                   \* characters.money
  mail,                    \* the letters, each with how many there are of it
  gone,                    \* items destroyed with the letter they were in
  kept,                    \* money taken out of play, less money brought into it
  unsaved,                 \* deposits charged since the gold was last saved
  disturbed                \* how many of these there were

mailVars == <<online, gold, bags, saved, mail, gone, kept, unsaved, disturbed>>

ASSUME MailAssumption ==
  /\ NoPlayer \notin Players /\ Nothing \notin Items
  /\ Gifts \cup CODs \subseteq Nat
  /\ {Fee, MaxMails, MaxMoney, MaxDisturbances} \subseteq Nat
  /\ IsFiniteSet(Players) /\ StartGold \in [Players -> Nat]
  /\ StartBags \in [Players -> SUBSET Items]
  /\ \A i \in Items : \E p \in Players : i \in StartBags[p]
  /\ \A i \in Items, p, q \in Players : i \in StartBags[p] \cap StartBags[q] => p = q

MailInit ==
  /\ online = Players
  /\ gold = StartGold /\ saved = StartGold
  /\ bags = StartBags
  /\ mail = <<>> /\ gone = {}
  /\ kept = 0 /\ unsaved = [p \in Players |-> 0]
  /\ disturbed = 0

Disturb == disturbed < MaxDisturbances /\ disturbed' = disturbed + 1

Letter(to, from, kind, checked, item, money, cod) ==
  [to |-> to, from |-> from, kind |-> kind, checked |-> checked,
   item |-> item, money |-> money, cod |-> cod, deleted |-> FALSE]

(* Letters that are alike are counted: a row more, a row less. *)
Copies(box, l) == IF l \in DOMAIN box THEN box[l] ELSE 0
Put(box, letter) ==
  [l \in DOMAIN box \cup {letter} |-> Copies(box, l) + (IF l = letter THEN 1 ELSE 0)]
Take(box, letter) ==
  IF box[letter] = 1 THEN Restrict(box, DOMAIN box \ {letter})
  ELSE [box EXCEPT ![letter] = @ - 1]

(* SendMailTo; a letter that holds nothing is not followed further. *)
SendMailTo(box, letter) ==
  IF letter.item = Nothing /\ letter.money = 0 THEN box ELSE Put(box, letter)

GetMail(p) == {l \in DOMAIN mail : l.to = p /\ ~l.deleted}
GetMailSize(p) == SumFunctionOnSet(mail, {l \in DOMAIN mail : l.to = p})

SaveGoldToDB(p) == /\ saved' = [saved EXCEPT ![p] = gold'[p]]
                   /\ unsaved' = [unsaved EXCEPT ![p] = 0]

(* The letters p threw away leave the database with the next save of his mail. *)
Discarded(p) == {l \in DOMAIN mail : l.to = p /\ l.deleted}
SaveMail(p, box) == Restrict(box, DOMAIN box \ Discarded(p))
Destroyed(letters) == {l.item : l \in letters} \ {Nothing}
Lost(letters) == SumFunction([l \in letters |-> mail[l] * l.money])

---------------------------------------------------------------------------
(* HandleSendMail *)
SendMail(p, q, item, money, cod) ==
  /\ p \in online /\ q # p
  /\ item \in bags[p] \cup {Nothing}
  /\ gold[p] >= Fee + money
  /\ GetMailSize(q) <= MaxMails
  /\ gold' = [gold EXCEPT ![p] = @ - Fee - money]
  /\ bags' = [bags EXCEPT ![p] = @ \ {item}]
  /\ mail' = SendMailTo(mail, Letter(q, p, "normal", "", item, money,
                                     IF item = Nothing THEN 0 ELSE cod))
  /\ kept' = kept + Fee
  /\ Disturb
  /\ SaveGoldToDB(p)
  /\ UNCHANGED <<online, gone>>

\* Slip: the money is taken and the character is saved later.
TakeMoneyUnsaved(p, l) ==
  /\ p \in online /\ l \in GetMail(p) /\ l.money > 0
  /\ gold[p] + l.money < MaxMoney
  /\ gold' = [gold EXCEPT ![p] = @ + l.money]
  /\ mail' = SaveMail(p, SendMailTo(Take(mail, l), [l EXCEPT !.money = 0]))
  /\ gone' = gone \cup Destroyed(Discarded(p))
  /\ kept' = kept + Lost(Discarded(p))
  /\ UNCHANGED <<online, bags, saved, unsaved, disturbed>>

(* HandleMailTakeMoney *)
TakeMoney(p, l) ==
  /\ p \in online /\ l \in GetMail(p) /\ l.money > 0
  /\ gold[p] + l.money < MaxMoney
  /\ gold' = [gold EXCEPT ![p] = @ + l.money]
  /\ mail' = SaveMail(p, SendMailTo(Take(mail, l), [l EXCEPT !.money = 0]))
  /\ gone' = gone \cup Destroyed(Discarded(p))
  /\ kept' = kept + Lost(Discarded(p))
  /\ SaveGoldToDB(p)
  /\ UNCHANGED <<online, bags, disturbed>>

(* HandleMailTakeItem: the price of a COD letter travels back to its sender. *)
TakeItem(p, l) ==
  /\ p \in online /\ l \in GetMail(p) /\ l.item # Nothing
  /\ gold[p] >= l.cod
  /\ gold' = [gold EXCEPT ![p] = @ - l.cod]
  /\ bags' = [bags EXCEPT ![p] = @ \cup {l.item}]
  /\ LET rest == SendMailTo(Take(mail, l), [l EXCEPT !.item = Nothing, !.cod = 0])
     IN mail' = SaveMail(p, SendMailTo(rest,
                  Letter(l.from, p, "normal", "cod", Nothing, l.cod, 0)))
  /\ gone' = gone \cup Destroyed(Discarded(p))
  /\ kept' = kept + Lost(Discarded(p))
  /\ SaveGoldToDB(p)
  /\ UNCHANGED <<online, disturbed>>

(* HandleMailReturnToSender: only a letter a player wrote goes back. *)
ReturnToSender(p, l) ==
  /\ p \in online /\ l \in GetMail(p)
  /\ LET rest == Take(mail, l) IN
     IF l.kind = "normal"
       THEN /\ mail' = SendMailTo(rest,
                         Letter(l.from, p, "normal", "returned", l.item, l.money, 0))
            /\ UNCHANGED <<gone, kept>>
       ELSE /\ mail' = rest
            /\ gone' = gone \cup Destroyed({l})
            /\ kept' = kept + l.money
  /\ UNCHANGED <<online, gold, bags, saved, unsaved, disturbed>>

(* HandleMailDelete: a mark in memory until the mail is saved. *)
Delete(p, l) ==
  /\ p \in online /\ l \in GetMail(p) /\ l.cod = 0
  /\ Disturb
  /\ mail' = Put(Take(mail, l), [l EXCEPT !.deleted = TRUE])
  /\ UNCHANGED <<online, gold, bags, saved, gone, kept, unsaved>>

(* ReturnOrDeleteOldMails, for a letter whose time is over. *)
Expire(l) ==
  /\ l \in DOMAIN mail /\ l.to \notin online
  /\ LET rest == Take(mail, l) IN
     IF l.item # Nothing /\ l.kind = "normal" /\ l.checked = ""
       THEN /\ mail' = Put(rest, [l EXCEPT !.to = l.from, !.from = l.to,
                                              !.cod = 0, !.checked = "returned"])
            /\ UNCHANGED <<gone, kept>>
       ELSE /\ mail' = rest
            /\ gone' = gone \cup Destroyed({l})
            /\ kept' = kept + l.money
  /\ UNCHANGED <<online, gold, bags, saved, unsaved, disturbed>>

---------------------------------------------------------------------------
(* Player::SaveToDB, from the timer of the player or at logout. *)
Saved(p) ==
  /\ gold' = gold
  /\ SaveGoldToDB(p)
  /\ mail' = SaveMail(p, mail)
  /\ gone' = gone \cup Destroyed(Discarded(p))
  /\ kept' = kept + Lost(Discarded(p))
  /\ UNCHANGED bags

SaveToDB(p) == p \in online /\ Saved(p) /\ UNCHANGED <<online, disturbed>>
LogoutPlayer(p) == p \in online /\ Saved(p) /\ Disturb /\ online' = online \ {p}

LoadFromDB(p) ==
  /\ p \notin online
  /\ online' = online \cup {p}
  /\ UNCHANGED <<gold, bags, saved, mail, gone, kept, unsaved, disturbed>>

(* The server stops at once: what is in the database is read at the next start. *)
Crash ==
  /\ Disturb
  /\ online' = {}
  /\ gold' = saved
  /\ kept' = kept - SumFunction(unsaved)
  /\ unsaved' = [p \in Players |-> 0]
  /\ LET Kept(l) == [l EXCEPT !.deleted = FALSE]
         Twin(l) == [l EXCEPT !.deleted = TRUE]
     IN mail' = [l \in {Kept(k) : k \in DOMAIN mail} |->
                   Copies(mail, l) + Copies(mail, Twin(l))]
  /\ UNCHANGED <<bags, saved, gone>>

MailNext ==
  \/ \E p, q \in Players, item \in Items \cup {Nothing}, money \in Gifts, cod \in CODs :
       SendMail(p, q, item, money, cod)
  \/ \E p \in Players, l \in DOMAIN mail :
       \/ TakeMoney(p, l) \/ TakeItem(p, l) \/ ReturnToSender(p, l) \/ Delete(p, l)
  \/ \E l \in DOMAIN mail : Expire(l)
  \/ \E p \in Players : SaveToDB(p) \/ LogoutPlayer(p) \/ LoadFromDB(p)
============================================================================
