SPECIFICATION FairSpec
CONSTANTS
    kafka_lag = kafka_lag  db_size = db_size
    Checks = {kafka_lag, db_size}
    Order <- TwoChecks
    Possible <- CheckPossible
    Faults = {"crash", "redis", "rejected", "timeout"}
    MaxFaults = 2
INVARIANTS TypeOK SilenceIsEarned AlertsThrottled StateMatchesHealth
PROPERTIES ProblemReported ServedWhileAlive
