SPECIFICATION ShellSpec
CONSTANTS
  Size = 6
  MaxArgs = 4
  MaxMatches = 2
  NOFILE = 5
  Listings <- ListingsDef
CHECK_DEADLOCK FALSE
INVARIANTS ConsoleAtPrompt
