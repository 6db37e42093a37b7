SPECIFICATION MCSpec
INVARIANT RowsShowInstructions
CHECK_DEADLOCK FALSE
