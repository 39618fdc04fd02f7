SPECIFICATION QueueSpec
CONSTANTS
    Capacity = 3
    MaxItems = 7
PROPERTY DiscardsOnlyWhenFull
CHECK_DEADLOCK FALSE
