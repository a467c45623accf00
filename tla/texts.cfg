\* Cookies, formats and paths of a few characters, all of them.
CONSTANTS
  Cookies <- TwoKinds
  Key <- SID
  Formats <- Parts
  Info <- Message
  Files <- Paths
  Disks <- TwoDisks
  Cwd <- Work
CHECK_DEADLOCK FALSE
SPECIFICATION TextSpec
INVARIANT CookieIsFound
INVARIANT FormatsAsDocumented
INVARIANT SinksOpen
