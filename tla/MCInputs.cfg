\* Patterns and texts of up to four parts; a token with every sort of fault,
\* two candidates of each kind; two hops; four paths; connections of a few
\* bytes in every split.
SPECIFICATION InputsSpec
CONSTANTS
  Patterns <- MCPatterns
  Texts <- MCTexts
  ClaimObjects <- MCClaimObjects
  Paths <- MCPaths
  ObjectsWithin <- MCObjectsWithin
  MaxClaimPathParts = 3
  Tokens <- MCTokens
  Providers <- MCProviders
  Issuers <- MCIssuers
  ProxyConfigs <- MCProxyConfigs
  SentValues <- MCSentValues
  ClientIps <- MCClientIps
  ProxyIps <- MCProxyIps
  Whitelists <- MCWhitelists
  ClientHops = 2
  Systems <- MCSystems
  Environment <- MCEnvironment
  Streams <- MCStreams
  PrefaceLen = 2
  FrameHeaderLen = 2
  HeaderWait = 2
  LastSecond = 4
INVARIANTS ConditionsMeanPatterns ExchangeAnswers ClientIpIsTheirs OrderOfPathsDecides SecretsNeverRun DeadlineFollowsBytes
CHECK_DEADLOCK FALSE
