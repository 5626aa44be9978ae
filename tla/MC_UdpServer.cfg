CONSTANTS
    d = d
    o = o
    None = None
    Hosts = {d, o}
    Dev = d
    MaxPort = 2
    MaxDatagrams = 2
    MaxSessions = 2
    MaxItems = 1
    Empty = TRUE

SPECIFICATION Spec
INVARIANT TypeOK
PROPERTY SessionFollowsDevice

\* The listener peeks for ever; the model stops after MaxDatagrams datagrams
\* and MaxSessions sessions, and then nothing is enabled.
CHECK_DEADLOCK FALSE
