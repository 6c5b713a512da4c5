\* Three changes of mode or flip, which spawn at most three bridges.  parec's
\* exit is treated like pacat's and is left out.
CONSTANTS
  Child = {"pacat", "dream"}
  ConfigFlip = FALSE
  MaxChanges = 3
  MaxBridges = 3
SPECIFICATION FairSpec
INVARIANTS OneBridge StatusFromHeldBridge SinksReleased FollowsAtRest
PROPERTIES FollowsMode TeardownEnds
CHECK_DEADLOCK FALSE
