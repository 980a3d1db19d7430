CONSTANTS
  alice = alice
  bob = bob
  Filters <- MCFilters
  NoFilter = ""
  MaxFetches = 3
SPECIFICATION Spec
INVARIANT DebounceOncePerBurst
