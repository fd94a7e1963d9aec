SPECIFICATION Spec
CONSTANTS
  None = None
  Garbled = Garbled
  MaxU128 = 200
  MaxU64 = 100
  NsPerMs = 10
  DefaultCertificateTime = 30
  Now = 30
  Offset = 5
  Times = {24, 25, 36, 131}
  TimesJs = {3}
  CustomTrees <- MCCustomTrees
  Subnets <- MCSubnets
  Underscored = {}
  Hyphened = {"x-a"}
  LowerCase <- MCLowerCase
  PercentDecoded <- MCPercentDecoded
  LookupAsset <- MCLookupAsset
  AssetDigest <- MCAssetDigest
  EmptyAssets <- MCEmptyAssets
  Inflate <- MCInflate
  Cases <- MCCases
  Uncertified <- MCUncertified
  Bodies <- MCBodies
  BodyEncodings <- MCBodyEncodings
  AssetTree <- MCAssetTree
  Witnesses <- MCWitnesses
  Requests <- MCRequests
  OtherCodes = {304, 1000}
  OtherBodies = {"", "page", "page.gz"}
  OtherHeaders <- MCOtherHeaders
  Spellings = {"ETag", "etag", "X-A", "ic-certificate"}
  MaxEdits = 2
INVARIANTS
  UntrustedIsNamed
  AcceptedExactly
  ReturnedIsCertified
  CertifiedVerifies
CHECK_DEADLOCK FALSE
