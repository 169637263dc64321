SPECIFICATION FairSamplerSpec
CONSTANTS
    h1 = h1
    h2 = h2
    Junk = Junk
    Handler <- OneHandler
    MaxSamples = 2
    Tick <- Ticks
    Size <- Sizes
INVARIANTS SamplerTypeOK FreshAnswer NameUnlessFailed NothingLeaks FreedOnceWhileServing
PROPERTIES FailureIsShown UsageIsShare PanicOnlyIfBack
CHECK_DEADLOCK FALSE
