CONSTANTS
    MaxChanges = 4
SPECIFICATION Spec
CHECK_DEADLOCK FALSE
PROPERTY CrashedIsRestarted
