SPECIFICATION FairSpec
CONSTANTS
    DaysAhead = 2
    Retention = 2
    MaxLag = 1
    Faults = {"airflow", "failure"}
    MaxFaults = 4
INVARIANTS TypeOK Covered SurvivesOutage
PROPERTIES KeepsWindow RetentionWorks
