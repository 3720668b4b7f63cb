SPECIFICATION DashboardSpec
CONSTANTS
    Instances = {s1, s2}
    Nobody = Nobody
PROPERTIES CleanupKeepsOthers
CHECK_DEADLOCK FALSE
