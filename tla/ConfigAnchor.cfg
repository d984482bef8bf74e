SPECIFICATION Spec
CONSTANTS
    Editors = {e1, e2}
    Documents <- MCDocuments
    Updates <- MCUpdates
    MaxEdits = 1
    None = None
SYMMETRY Interchangeable
INVARIANTS EditCannotDisturb
CHECK_DEADLOCK FALSE
