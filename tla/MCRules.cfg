SPECIFICATION Spec
CONSTANTS
    Null = Null
    NoNode = NoNode
    NotCached = NotCached
    Nil = Nil
CHECK_DEADLOCK FALSE
INVARIANTS
    LedgerSound
    DeploymentsExact
    QueriesExact
    CheckpointsKept
    AlgorithmsExact
    StoreExact
    EstimatesExact
PROPERTIES
    ShallowCatchUp
