SPECIFICATION Spec
CONSTANT None = None
CHECK_DEADLOCK FALSE
INVARIANTS
    MiningSound
    TemplatesSound
PROPERTIES
    MinersServed
