\* A walk ends, and nothing follows one that had something to do.
SPECIFICATION MCSpec
CONSTANTS
    Uids = {u1, u2, u3}
    None = None
SYMMETRY Symmetry
INVARIANTS Acyclic ListenersKnow AffectedAreLive FindsCycles FindsDependents
CHECK_DEADLOCK FALSE
