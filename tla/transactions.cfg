SPECIFICATION SpecTx
CONSTANTS
  None = None
  Market = Market
  Sity = Sity
  ForeignCw20 = ForeignCw20
  seller = seller
  ann = ann
  bob = bob
  cat = cat
  nft1 = nft1
  nft2 = nft2
  Users = {seller, ann, cat}
  Nfts = {nft1}
  NftOwner <- AllSellers
  Cw721Minter <- CatMints
  TalisMinter <- NoAnswer
  SityEndowment <- UnequalSity
  Listings <- SharedListings
  Config <- CoarseConfig
  Amounts = {20, 40}
  Extras = {0}
  Cw20Amounts = {1, 6}
  RoyaltyFees = {2}
  SCALE = 20
  TaxRate = 3
  TaxCap = 2
  MIN_TIME_AUCTION = 1
  MAX_TIME_AUCTION = 10
  LAST_MINUTE_BID_EXTRA_TIME = 1
  ROYALTY_MAX_FEE = 2
  Genesis = 1
  MaxTime = 3
  MaxAuctions = 1
  MaxBids = 2
  MaxStray = 0

CHECK_DEADLOCK FALSE
INVARIANTS
  WiredToSity
  NoSityKept
  AcceptedIsCarriedOut
PROPERTIES
  AtomicMarketplace
