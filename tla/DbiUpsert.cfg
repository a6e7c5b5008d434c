SPECIFICATION UpsertSpec
CONSTANTS
    Procs = {p1, p2}
    Keys = {k1, k2}
    Vals = {v1, v2}
    Ids = {i1, i2, i3}
    None = None
SYMMETRY Symmetry
INVARIANTS
    OneRow
PROPERTIES
    AnswerTells
    ImplementsUpsert
