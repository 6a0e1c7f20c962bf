SPECIFICATION Spec
CONSTANTS
    Blocks = {"internal"}
    QueueLength = 3
    MaxSets = 2
    Blank = Blank
    Zero = Zero
    Torn = Torn
    None = None
INVARIANTS SavedOrPending FactorySavedOrPending
CHECK_DEADLOCK FALSE
