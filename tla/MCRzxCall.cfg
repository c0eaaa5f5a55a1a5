\* One envelope of any kind, against a server that may send a message of the
\* wrong type or fail, a caller that may cancel or abort, and a hangup.
CONSTANTS
    e1 = e1
    Envs <- One
    Ops <- AllOps
    PutModes <- AllModes
    NChunks = 2
    MaxReply = 3
    BadServer = TRUE
    CallerCancels = TRUE
SPECIFICATION Spec
INVARIANT TypeOK ResultIsFaithful
PROPERTY RepliedResultCloses
