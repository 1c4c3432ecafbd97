\* A reconnection that fails after the session was opened.
SPECIFICATION Spec
CONSTANT MaxFaults = 1
PROPERTY HandlesReconnection
