SPECIFICATION MCSpec
INVARIANTS ExpanderExact OracleExact TextMeansWord
CHECK_DEADLOCK FALSE
