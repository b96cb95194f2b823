SPECIFICATION Spec
CONSTANTS
    q1 = q1
    q2 = q2
    NoQuery = NoQuery
    Page <- MCPages
    Queries = {q1, q2}
    s1 = s1
    s2 = s2
    s3 = s3
    Slots = {s1, s2, s3}
    NoSlot = NoSlot
    MaxWrites = 1
    MaxSignIns = 1
SYMMETRY Alike
INVARIANTS
    ConsoleTypeOK
    SpinnerHasLoad
    ShownIsAsked
    MixedOnlyByLateAnswer
    RefusedIsTheImport
CONSTRAINT
    PanelBounds
CHECK_DEADLOCK FALSE
