\* One attempt to reconnect, two calls of connect, two opens or disconnects, two sessions.
SPECIFICATION LiveSpec
CONSTANTS
    Sessions = {a, b}
    None = None
    MaxAttempts = 1
    AutoReconnect = TRUE
    MaxSockets = 4
    MaxConnects = 2
    MaxResets = 2
INVARIANTS ConnectedIsReal CurrentSession PollersBounded
PROPERTIES AttemptsEnd
