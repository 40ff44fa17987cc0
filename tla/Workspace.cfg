SPECIFICATION Spec
CONSTANTS
  Datasets <- Both
  Feeds = {"f", "g"}
  Calls = {1, 2, 3, 4}
  Scenarios <- Meeting
  Selected <- BothFeeds
  MaxCrashes = 1
\* The calls are finite: the system rests once all have ended.
CHECK_DEADLOCK FALSE
INVARIANTS SerialJobsAgree StartSucceeds MetricMatchesTopology
PROPERTY CallsSettle
