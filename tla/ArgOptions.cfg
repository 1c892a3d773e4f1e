SPECIFICATION Spec
CONSTANTS
    Numbers <- SomeNumbers
    MaxOpts = 4
CHECK_DEADLOCK FALSE
INVARIANT LastOptionCounts
