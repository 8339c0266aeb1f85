SPECIFICATION SpecReader
CONSTANTS
  None = None
  Market = Market
  seller = seller
  ann = ann
  bob = bob
  cat = cat
  nft1 = nft1
  nft2 = nft2
  Users = {seller, ann, bob}
  Nfts = {nft1}
  NftOwner <- AllSellers
  Cw721Minter <- AllSellers
  TalisMinter <- NoAnswer
  SityEndowment <- EvenSity
  Listings <- ShortListings
  Config <- WideMarginConfig
  Amounts = {3, 6}
  Extras = {0}
  RoyaltyFees = {1}
  SCALE = 20
  TaxRate = 0
  TaxCap = 0
  MIN_TIME_AUCTION = 1
  MAX_TIME_AUCTION = 10
  LAST_MINUTE_BID_EXTRA_TIME = 1
  ROYALTY_MAX_FEE = 2
  Genesis = 2
  MaxTime = 5
  MaxAuctions = 1
  MaxBids = 2
  MaxStray = 0
  DEFAULT_LIMIT = 1
  MAX_LIMIT = 2
  Limits <- ReaderLimits
  BYTE = 2
  KEY_BYTES = 1
SYMMETRY AnnBob
CHECK_DEADLOCK FALSE
INVARIANTS
  SeenIsPast
  HistoryTellsWhatWasSeen
  AnswersAreEnough
