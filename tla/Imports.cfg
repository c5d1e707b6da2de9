SPECIFICATION ImportsSpec
CONSTANTS
    leads = leads
    blocks = blocks
    a1 = a1
    a2 = a2
    l1 = l1
    NONE = NONE
    BAD = BAD
    Files = {leads, blocks}
    People = {a1, a2}
    Lists = {l1}
    Importers = {w1, w2}
    RowsOf <- MCRows
    KindOf <- MCKind
    TargetOf <- MCTarget
    BatchSize = 1
    MaxDispatch = 2
    MaxEdits = 1
    MaxMishaps = 2
INVARIANTS NoRowSkipped CountersMatchRows
PROPERTIES NothingComesBack EveryImportEnds
CHECK_DEADLOCK FALSE
