SPECIFICATION CommandsSpec
CONSTANTS
  MaxRuns = 2
  MaxConcurrency = 2
  Presented <- MCPresented
  Hosts <- MCHosts
  Requests <- MCRequests
  Connections <- MCConnections
  Answering <- MCAnswering
  Lookups <- MCLookups
  IPv6 <- MCIPv6
  Answers <- MCAnswers
  r1 = r1
  r2 = r2
  Resolvers <- MCResolvers
  Replies <- MCReplies
  NoReply = NoReply
  Captures <- MCCaptures
  Sessions <- MCSessions
  Unreadable = Unreadable
  Routes <- MCRoutes
  NoAddr = NoAddr
  Continued = Continued
  MaxJumps = 8
  Messages <- MCMessages
  Scrapers = {1, 2}
  MaxConnections = 1
  DefaultTimeout = 2
  Margin = 1
  Modules <- MCModules
  Statuses = {0, 200, 301}
  NoTimeout = NoTimeout
  NotADuration = NotADuration
  RingCap = 2
  Scale = 12
  ApdexT = 2
  WarnTotal = 12
  CertWarn = 14
  u1 = u1
  u2 = u2
  Urls <- MCUrls
  Lines <- MCLines
  Services <- MCServices
  Timings <- MCTimings
INVARIANTS OneRowEach CertExitTrue OutliersAreFew NoSilentDrift StatsFaithful ResponsesRead AnsweredUnlessSlow
CHECK_DEADLOCK FALSE
