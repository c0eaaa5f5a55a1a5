\* Contexts made by New, forked, exited and closed: main and one more.
CONSTANTS
    m = m  c1 = c1
    NoCtx = NoCtx
    Ctxs <- TwoCtxs
    Main = m
    Vals <- TwoVals
SPECIFICATION Spec
INVARIANT TypeOK WaitSeesStatus OwnIO
PROPERTY NewReturns EndedIsClosed ImplementsCtxLife
