\* Two questions, one of them an authorization with a card, two answers at a time.
SPECIFICATION Spec
CONSTANTS
    Requests = {r1, r2}
    Notices = {}
    Urgent = {r1}
    Cards = {r1}
    None = None
    Calls = {c1, c2}
    MaxTimers = 1
SYMMETRY Symmetry
INVARIANTS ListIsKnown HiddenIsPassing
PROPERTIES KeepsPromise KeepsWaiting
