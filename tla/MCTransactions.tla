--------------------------- MODULE MCTransactions ---------------------------
(* The instance of Transactions that TLC checks. *)
EXTENDS Transactions, MCMarketplace

\* A private sale of whose price everybody gets a share.
SharedListings == {[PrivateListing EXCEPT !.charity = 7, !.instant_buy = 40]}

\* Enough for ann to register before or after the first bid, for cat only before.
UnequalSity == [u \in Users |-> IF u = ann THEN 6 ELSE IF u = cat THEN 1 ELSE 0]
=============================================================================
