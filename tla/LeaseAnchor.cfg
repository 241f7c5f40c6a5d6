SPECIFICATION Spec
SYMMETRY Symmetry
CONSTANTS
    w1 = w1
    w2 = w2
    Writers = {w1, w2}
    Nobody = Nobody
    NoRequest = NoRequest
    MaxCommits = 2
    MaxVersion = 3
    MaxAdrift = 2
INVARIANTS
    Inductive
    FailedNeverAnchored
    AcceptedIsAnchored
    HolderIsCurrent
PROPERTIES
    AnchorExtends
    StaleWriterFenced
