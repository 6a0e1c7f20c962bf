SPECIFICATION Spec
CONSTANTS
    Blocks = {"parts", "common"}
    QueueLength = 3
    MaxSets = 1
    Blank = Blank
    Zero = Zero
    Torn = Torn
    None = None
INVARIANTS PartsKept
CHECK_DEADLOCK FALSE
