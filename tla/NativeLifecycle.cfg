SPECIFICATION MCFairSpec
CONSTANTS
    Calls = {c1, c2}
    Maintenance = Maintenance
    Dropper = Dropper
    None = None
    Instances = {s1, s2}
    Nobody = Nobody
INVARIANTS InterruptionTells DroppedLeavesNothing FilesFollowInstances
PROPERTIES RefsExpireWithTheirPage CancelledCallEnds DeathIsNoticed DropEnds AbruptExitIsCleaned
CHECK_DEADLOCK FALSE
