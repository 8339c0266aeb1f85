------------------------------ MODULE MCPaging ------------------------------
(* The instances of Paging that TLC checks.  With keys of two bytes of two
   values each, the third auction is the first with another first byte, so
   that a page can cross from one to the next. *)
EXTENDS Paging, MCMarketplace

\* Both bidders can pay for one registration.
EvenSity == [u \in Users |-> IF u = seller THEN 0 ELSE 2]

ReaderLimits == {None, 0, 3}

OneListing == {PlainListing}

\* Short sales, a public one and a private one.
ShortListings ==
  {PlainListing, [PlainListing EXCEPT !.private_sale = TRUE, !.instant_buy = 6]}
=============================================================================
