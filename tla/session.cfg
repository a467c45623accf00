\* Two logins, each session set three times; time passes and callbacks run.
CONSTANTS
  MaxSids = 2
  MaxCalls = 3
CHECK_DEADLOCK FALSE
SPECIFICATION FairSmSpec
INVARIANT SmTypeOK
INVARIANT ForeverIsAlive
INVARIANT TimedHasTimer
PROPERTY ImplementsLease
