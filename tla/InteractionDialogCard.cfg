\* Two questions, one of them an authorization with a card, two answers at a time.
SPECIFICATION Spec
CONSTANTS
    Requests = {r1, n1}
    Notices = {n1}
    Urgent = {r1}
    Cards = {r1}
    None = None
    Calls = {c1}
    MaxTimers = 1
PROPERTIES CardAnswersItsRequest
