------------------------------- MODULE Paging -------------------------------
(***************************************************************************)
(* The queries of contract.rs, and a client that reads the marketplace     *)
(* with them while it is in use: it asks for page after page of auctions,  *)
(* each time starting after the last auction it was shown.  A response is  *)
(* what the storage holds; the names of addresses, denominations and the   *)
(* configuration never change and are left out.                            *)
(***************************************************************************)
EXTENDS MarketplaceProperties, SequencesExt

CONSTANTS
  DEFAULT_LIMIT,
  MAX_LIMIT,
  Limits,        \* the limits that the client asks for, None for no limit
  BYTE,          \* values of a byte of a storage key: 256
  KEY_BYTES      \* length of a storage key: 8

ASSUME PagingAssumption ==
  /\ DEFAULT_LIMIT \in Nat \ {0} /\ MAX_LIMIT \in Nat \ {0}
  /\ Limits \subseteq Option(Nat)
  /\ BYTE \in Nat \ {0, 1} /\ KEY_BYTES \in Nat

VARIABLES
  seen           \* the auctions of all pages so far, and when each was read

pagingVars == << vars, seen >>

-----------------------------------------------------------------------------
(* The queries. *)

\* How many numbers n bytes can tell apart.
Weight ==
  LET power[n \in 0 .. KEY_BYTES] == IF n = 0 THEN 1 ELSE BYTE * power[n - 1]
  IN  [n \in 0 .. KEY_BYTES |-> power[n]]

\* The keys suffice for all auctions.
ASSUME KeyAssumption == MaxAuctions <= Weight[KEY_BYTES]

\* Mutant: the least significant byte comes first.
KeyLittleEndian(a) == [i \in 1 .. KEY_BYTES |-> (a \div Weight[i - 1]) % BYTE]

\* u64::to_be_bytes
Key(a) == [i \in 1 .. KEY_BYTES |-> (a \div Weight[KEY_BYTES - i]) % BYTE]

\* u64::from_be_bytes
AuctionOf(key) == CHOOSE a \in 0 .. Weight[KEY_BYTES] - 1 : Key(a) = key

\* The order of keys in the storage: by the first byte that differs.
Before(k, m) ==
  \E i \in 1 .. KEY_BYTES : k[i] < m[i] /\ \A j \in 1 .. i - 1 : k[j] = m[j]

\* The keys of a range, in ascending order.
Ascending(keys) ==
  CHOOSE s \in [1 .. Cardinality(keys) -> keys] :
    \A i, j \in DOMAIN s : i < j => Before(s[i], s[j])

\* An auction that is not there is an error.
Auction(a) == IF a \in Auctions THEN items[a] ELSE None

\* The response does not tell whether the bid was resolved.
Bidder(a, u) ==
  IF a \notin Auctions \/ bids[a][u] = None
  THEN [bid_counter |-> 0, total_bid |-> 0, sity_used |-> None]
  ELSE [bid_counter |-> bids[a][u].bid_counter, total_bid |-> bids[a][u].total_bid,
        sity_used |-> bids[a][u].sity_used]

\* Mutant: the latest bid first.
HistoryBidsReversed(a) == IF a \in Auctions THEN Reverse(histories[a]) ELSE << >>
HistoryBids(a) == IF a \in Auctions THEN histories[a] ELSE << >>

HistoryBidderBids(a, u) == IF a \in Auctions THEN histories_bidder[a][u] ELSE << >>

\* A minter who never asked for a fee is shown DEFAULT_ROYALTY_FEE, which is zero.
RoyaltyOffered(u) ==
  IF royalty[u] = None THEN [fee |-> 0, recipient |-> None] ELSE royalty[u]

PageSize(limit) == Min({IF limit = None THEN DEFAULT_LIMIT ELSE limit, MAX_LIMIT})

\* Mutant: the bound is inclusive.
InRangeInclusive(key, start_after) ==
  start_after = None \/ ~Before(key, Key(start_after))

\* Bound::Exclusive
InRange(key, start_after) == start_after = None \/ Before(Key(start_after), key)

AllAuctions(start_after, limit) ==
  LET found == {key \in {Key(a) : a \in Auctions} : InRange(key, start_after)}
      ordered == Ascending(found)
      page == SubSeq(ordered, 1, Min({PageSize(limit), Len(ordered)}))
  IN  [i \in DOMAIN page |-> << AuctionOf(page[i]), Auction(AuctionOf(page[i])) >>]

-----------------------------------------------------------------------------
(* The client. *)

Cursor == IF seen = << >> THEN None ELSE seen[Len(seen)].auction

ReadPage(limit) ==
  LET page == AllAuctions(Cursor, limit)
  IN  /\ seen' = seen \o [i \in DOMAIN page |->
                            [auction |-> page[i][1], item |-> page[i][2], time |-> now]]
      /\ UNCHANGED vars

InitReader == Init /\ seen = << >>

NextReader ==
  \/ Next /\ UNCHANGED seen
  \/ \E limit \in Limits : ReadPage(limit)

\* The client does not stop reading.
SpecReader ==
  InitReader /\ [][NextReader]_pagingVars /\ WF_pagingVars(\E limit \in Limits : ReadPage(limit))

-----------------------------------------------------------------------------
(* What a client can rely on. *)

\* The pages put together list the auctions in the order they were created,
\* each of them once, whatever is created between two pages: the order of the
\* keys is the order of the numbers, and the bound excludes the last one shown.
SeenInOrder == \A i \in DOMAIN seen : seen[i].auction = i - 1

\* Where a page is out of date it is behind, not wrong: the terms still hold,
\* total_bids tells whether the price has changed, a price has only risen, and
\* an auction that was shown as over is over.
SeenIsPast ==
  \A i \in DOMAIN seen :
    LET old == seen[i].item
        new == Auction(seen[i].auction)
    IN  /\ new.creator = old.creator /\ new.nft = old.nft
        /\ new.reserve_price = old.reserve_price /\ new.instant_buy = old.instant_buy
        /\ old.total_bids <= new.total_bids
        /\ OrZero(old.highest_bid) <= OrZero(new.highest_bid)
        /\ old.total_bids = new.total_bids =>
             /\ new.highest_bid = old.highest_bid
             /\ new.highest_bidder \in {old.highest_bidder, None}
        /\ old.end_time < seen[i].time =>
             new \in {old, [old EXCEPT !.resolved = TRUE]}

\* The history of an auction, whenever it is read, tells how the auction came
\* to be what an earlier page showed, and the bidder's own history agrees.
HistoryTellsWhatWasSeen ==
  \A i \in DOMAIN seen :
    LET a == seen[i].auction
        old == seen[i].item
        entry == HistoryBids(a)[old.total_bids]
    IN  old.total_bids > 0 =>
          /\ entry.amount = old.highest_bid
          /\ entry.bidder = old.highest_bidder \/ old.highest_bidder = None
          /\ Contains(HistoryBidderBids(a, entry.bidder), entry)
          /\ \A e \in ToSet(HistoryBidderBids(a, entry.bidder)) : e.bidder = entry.bidder

\* Although query_bidder answers with zeros for who has no entry, a client
\* can tell from it who still has to register and who has never bid, through
\* any number of bids and retractions; and query_royalty announces the fee
\* that withdraw_nft will take.
AnswersAreEnough ==
  /\ \A a \in Auctions, u \in Users :
       LET bid == Bidder(a, u)
       IN  IF items[a].private_sale
           THEN bid.sity_used = None <=> bids[a][u] = None
           ELSE bid.bid_counter = 0 <=> bids[a][u] = None
  /\ \A n \in Nfts : MinterOf(n) # None => RoyaltyOffered(MinterOf(n)).fee = RoyaltyOf(n)

\* A client that keeps reading is shown every auction.
EveryAuctionIsListed ==
  \A a \in 0 .. MaxAuctions - 1 :
    (a \in Auctions) ~> (\E i \in DOMAIN seen : seen[i].auction = a)
=============================================================================
