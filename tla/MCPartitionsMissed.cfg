SPECIFICATION FairSpec
CONSTANTS
    DaysAhead = 2
    Retention = 2
    MaxLag = 1
    Faults = {"airflow"}
    MaxFaults = 2
PROPERTIES MaintenanceResumes
