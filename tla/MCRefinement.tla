---------------------------- MODULE MCRefinement ----------------------------
(* The instances of Refinement that TLC checks. *)
EXTENDS Refinement, MCMarketplace

\* All that four bids can add up to.
SmallPrices == 0 .. 24
=============================================================================
