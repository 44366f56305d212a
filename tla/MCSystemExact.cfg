CONSTANTS
  j1 = j1
  j2 = j2
  w1 = w1
  t1 = t1
  t2 = t2
  coffee_lover = coffee_lover
  nasa = nasa
  Jobs <- TwoJobs
  Usernames <- OneName
  DemoUsernames <- OneName
  ProviderErrors <- OneError
  ForeignKeys = TRUE
  Workers <- OneWorker
  Tasks <- OneTask
  Executors <- WorkerAndTask
  Provider = "mock"
  AllowArbitrary = FALSE
  MaxDups = 0
  MaxLost = 1
  MaxSignals = 1
SPECIFICATION FairSpec
PROPERTIES
  ImplementsLifecycle
  EventuallySettled
