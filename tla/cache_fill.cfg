\* Three changes: an entry may be stale, corrected and stale again.
SPECIFICATION FairSpec
CONSTANTS
  Keys = {k1}
  Searches = {s1, s2}
  NoKey = NoKey
  MaxChanges = 3
INVARIANT StaleOnlyIfOvertaken
PROPERTY StaleDiesOut
