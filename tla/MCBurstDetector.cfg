CONSTANTS
  MaxPosts = 6
  MaxTime = 5
  MaxSpread = 5
  Timelines <- AllTimelines
  Batches <- AllBatches
  window = 20
  burst_min_posts = 3
  Hour = 20
  Now = 2010
  None = None
  Junk = Junk
  Inf = Inf
  Zones <- MCZones
  UrlsIn <- MCUrlsIn
  TagsIn <- MCTagsIn
  Lower <- MCLower
  DomainOf <- MCDomainOf
  Normalized <- MCNormalized
  Compound <- MCCompound
  DetectedLang <- MCDetectedLang
SPECIFICATION PipelineSpec
CHECK_DEADLOCK FALSE
INVARIANTS
  BurstsSeparate
  NoneMissed
  Accounted
  EnginesAgree
  OrderFree
  RatioNearCalendar
  ScoreIsSum
  ContradictionsConfined
  ForeignPostsIgnored
  CountersMean
  BotsAreRegular
PROPERTIES
  Finishes
