\* One envelope of any kind; the mux may hang up before the request is sent.
CONSTANTS
    e1 = e1
    Envs <- One
    Ops <- AllOps
    PutModes <- AllModes
    NChunks = 1
    MaxReply = 1
    BadServer = FALSE
    CallerCancels = FALSE
SPECIFICATION Spec
PROPERTY ResultCloses
