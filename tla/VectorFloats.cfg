SPECIFICATION VectorSpec
CONSTANTS
    Precision = 3
    MaxExp = 5
    Dimension = 2
    Components <- FloatComponents
INVARIANTS DenominatorSound ResultsDefined CosineBounded ManhattanSeparates
CHECK_DEADLOCK FALSE
