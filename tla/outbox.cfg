SPECIFICATION TrafficSpec
CONSTANTS
  Threads = {t1, t2}
  LastEvent = 3
  EarlyStamped = {1}
  Limit = 2
  Deduplicate = TRUE
  MaxCrashes = 1
  MaxFaults = 1
INVARIANTS TypeOK DeliveredWasPublished PublishedIsCommitted FirstSightInOrder
  RowsInHand BatchesSkipNothing
PROPERTIES EventsAreDelivered
