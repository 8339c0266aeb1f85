SPECIFICATION Spec
CONSTANTS
  None = None
  Market = Market
  seller = seller
  ann = ann
  bob = bob
  cat = cat
  nft1 = nft1
  nft2 = nft2
  Users = {seller, ann, bob}
  Nfts = {nft1}
  NftOwner <- AllSellers
  Cw721Minter <- NoAnswer
  TalisMinter <- NoAnswer
  SityEndowment <- SomeSity
  Listings <- PrivateListings
  Config <- CoarseConfig
  Amounts = {2, 4}
  Extras = {0}
  RoyaltyFees = {}
  SCALE = 20
  TaxRate = 0
  TaxCap = 0
  MIN_TIME_AUCTION = 1
  MAX_TIME_AUCTION = 10
  LAST_MINUTE_BID_EXTRA_TIME = 1
  ROYALTY_MAX_FEE = 2
  Genesis = 2
  MaxTime = 6
  MaxAuctions = 1
  MaxBids = 4
  MaxStray = 0
  Prices <- SmallPrices

CHECK_DEADLOCK FALSE
INVARIANTS
  PrivateBiddersRegistered
  RewardsBounded
PROPERTIES
  ImplementsAuctionHouse
