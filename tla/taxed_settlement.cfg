SPECIFICATION Spec
CONSTANTS
  None = None
  Market = Market
  seller = seller
  ann = ann
  bob = bob
  cat = cat
  nft1 = nft1
  nft2 = nft2
  Users = {seller, ann, cat}
  Nfts = {nft1}
  NftOwner <- AllSellers
  Cw721Minter <- NoAnswer
  TalisMinter <- CatMints
  SityEndowment <- SomeSity
  Listings <- TaxedListings
  Config <- CoarseConfig
  Amounts = {20, 33}
  Extras = {0, 1}
  RoyaltyFees = {2, 3}
  SCALE = 20
  TaxRate = 3
  TaxCap = 2
  MIN_TIME_AUCTION = 1
  MAX_TIME_AUCTION = 10
  LAST_MINUTE_BID_EXTRA_TIME = 1
  ROYALTY_MAX_FEE = 2
  Genesis = 1
  MaxTime = 4
  MaxAuctions = 1
  MaxBids = 2
  MaxStray = 1

CHECK_DEADLOCK FALSE
INVARIANTS
  Solvent
  OnlyDustBlocks
