SPECIFICATION Spec
CONSTANTS
  Ads = Ads
  Seen = Seen
  banner = banner
  tracker = tracker
  bad = bad
  adder = adder
  reader = reader
  Lines = {banner, tracker, bad, LogMark}
  Lists = {Ads, Seen}
  Virtual = {Seen}
  Matchers = {adder, reader}
  Filters <- MCFilters
  Contents <- MCContents
  Invalid = {bad, LogMark}
  LogMark = LogMark
  MaxAdds = 1
  MaxEdits = 1
  Watcher = Watcher
  Nobody = Nobody
INVARIANTS AddedStays
CHECK_DEADLOCK FALSE
