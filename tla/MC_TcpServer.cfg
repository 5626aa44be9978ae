CONSTANTS
    MaxConns = 3
    MaxItems = 1

SPECIFICATION Spec
INVARIANT TypeOK

\* The listener waits in accept() for ever; the model stops accepting after
\* MaxConns connections, and then every session ends and nothing is enabled.
CHECK_DEADLOCK FALSE
