SPECIFICATION SpecReader
CONSTANTS
  None = None
  Market = Market
  seller = seller
  ann = ann
  bob = bob
  cat = cat
  nft1 = nft1
  nft2 = nft2
  Users = {seller}
  Nfts = {nft1, nft2}
  NftOwner <- AllSellers
  Cw721Minter <- NoAnswer
  TalisMinter <- NoAnswer
  SityEndowment <- NoSity
  Listings <- OneListing
  Config <- WideMarginConfig
  Amounts = {}
  Extras = {0}
  RoyaltyFees = {}
  SCALE = 20
  TaxRate = 0
  TaxCap = 0
  MIN_TIME_AUCTION = 1
  MAX_TIME_AUCTION = 10
  LAST_MINUTE_BID_EXTRA_TIME = 1
  ROYALTY_MAX_FEE = 2
  Genesis = 2
  MaxTime = 3
  MaxAuctions = 3
  MaxBids = 1
  MaxStray = 0
  DEFAULT_LIMIT = 1
  MAX_LIMIT = 2
  Limits <- ReaderLimits
  BYTE = 2
  KEY_BYTES = 2
CHECK_DEADLOCK FALSE
INVARIANTS
  SeenInOrder
PROPERTIES
  EveryAuctionIsListed
