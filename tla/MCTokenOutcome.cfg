\* The token endpoint with login providers and trusted issuers of one issuer.
SPECIFICATION InputsSpec
CONSTANTS
  Patterns <- MCPatterns
  Texts <- MCTexts
  ClaimObjects <- MCClaimObjects
  Paths <- MCPaths
  ObjectsWithin <- MCObjectsWithin
  MaxClaimPathParts = 3
  Tokens <- MCTokens
  Providers <- MCProviders
  Issuers <- MCIssuers
  ProxyConfigs <- MCProxyConfigs
  SentValues <- MCSentValues
  ClientIps <- MCClientIps
  ProxyIps <- MCProxyIps
  Whitelists <- MCWhitelists
  ClientHops = 2
  Systems <- MCSystems
  Environment <- MCEnvironment
  Streams <- MCStreams
  PrefaceLen = 2
  FrameHeaderLen = 2
  HeaderWait = 2
  LastSecond = 4
INVARIANTS UnaskedIsTemporary
CHECK_DEADLOCK FALSE
