---------------------------- MODULE AuctionHouse ----------------------------
(***************************************************************************)
(* What an auction house promises, without clocks, messages, coins or      *)
(* margins: lots on which bidders have stakes, and the custody of the      *)
(* pieces.  A lot has a price that only rises; the bidder who leads it is  *)
(* bound once the reserve price is reached, everybody else may leave with  *)
(* the whole stake; a closed lot changes no more except by leaving and by  *)
(* being settled; and settling, once per lot, hands the piece to the bound *)
(* leader or back to its seller.                                           *)
(***************************************************************************)
EXTENDS Integers

CONSTANTS
  Bidders,
  House,       \* holds the pieces of the lots that are not settled
  Pieces,
  Nobody,      \* the leader of a lot that has none
  Prices

VARIABLES
  size,        \* how many lots there have been
  lots,        \* the lots, numbered from 0
  closed,      \* the lots that take no more bids
  settled,     \* the lots whose piece has been handed out
  owner        \* of each piece

houseVars == << size, lots, closed, settled, owner >>

Lots == 0 .. size - 1

HouseInit ==
  /\ size = 0 /\ lots = << >> /\ closed = {} /\ settled = {}
  /\ owner \in [Pieces -> Bidders]

Bound(lot) == lot.leader # Nobody /\ lot.price >= lot.reserve

NewLot(u, n, reserve) ==
  [piece |-> n, seller |-> u, reserve |-> reserve, price |-> 0, leader |-> Nobody,
   stake |-> [v \in Bidders |-> 0]]

\* The lot at another price, with another leader and other stakes.
Updated(lot, price, leader, stake) ==
  [piece |-> lot.piece, seller |-> lot.seller, reserve |-> lot.reserve,
   price |-> price, leader |-> leader, stake |-> stake]

\* The seller hands over the piece for a new lot.
Enlist(u, n, reserve) ==
  /\ owner[n] = u
  /\ owner' = [owner EXCEPT ![n] = House]
  /\ size' = size + 1
  /\ lots' = [i \in 0 .. size |-> IF i < size THEN lots[i] ELSE NewLot(u, n, reserve)]
  /\ UNCHANGED << closed, settled >>

\* u leads at a price that is the whole stake of u; a bid may close the lot.
Raise(i, u, price, last) ==
  /\ i \notin closed
  /\ lots[i].seller # u
  /\ price >= lots[i].price /\ price > lots[i].stake[u]
  /\ lots' = [lots EXCEPT ![i] =
                Updated(lots[i], price, u, [lots[i].stake EXCEPT ![u] = price])]
  /\ closed' = IF last THEN closed \cup {i} ELSE closed
  /\ UNCHANGED << size, settled, owner >>

Leave(i, u) ==
  /\ lots[i].stake[u] > 0
  /\ ~(lots[i].leader = u /\ Bound(lots[i]))
  /\ lots' = [lots EXCEPT ![i] =
                Updated(lots[i], lots[i].price, lots[i].leader,
                        [lots[i].stake EXCEPT ![u] = 0])]
  /\ UNCHANGED << size, closed, settled, owner >>

\* The seller gives up, and the leader is free.
Abandon(i) ==
  /\ i \notin closed
  /\ lots' = [lots EXCEPT ![i] = Updated(lots[i], lots[i].price, Nobody, lots[i].stake)]
  /\ closed' = closed \cup {i}
  /\ UNCHANGED << size, settled, owner >>

Settle(i) ==
  /\ i \notin settled
  /\ owner[lots[i].piece] = House
  /\ settled' = settled \cup {i}
  /\ owner' = [owner EXCEPT ![lots[i].piece] =
                 IF Bound(lots[i]) THEN lots[i].leader ELSE lots[i].seller]
  /\ UNCHANGED << size, lots, closed >>

\* Time closes some of the lots.
Close(S) == closed' = closed \cup S /\ UNCHANGED << size, lots, settled, owner >>

HouseNext ==
  \/ \E u \in Bidders, n \in Pieces, reserve \in Prices : Enlist(u, n, reserve)
  \/ \E i \in Lots, u \in Bidders, price \in Prices, last \in BOOLEAN :
       Raise(i, u, price, last)
  \/ \E i \in Lots, u \in Bidders : Leave(i, u)
  \/ \E i \in Lots : Abandon(i)
  \/ \E i \in Lots : Settle(i)
  \/ \E S \in SUBSET Lots : Close(S)

HouseSpec == HouseInit /\ [][HouseNext]_houseVars
=============================================================================
