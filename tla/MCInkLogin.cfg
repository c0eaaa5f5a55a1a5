\* Two login requests served at the same time, each naming a destination
\* or none.
CONSTANTS
    r1 = r1  r2 = r2  d1 = d1  d2 = d2
    Default = Default  NoDst = NoDst
    Reqs <- TwoReqs
    Dsts <- TwoDsts
SPECIFICATION Spec
INVARIANT LoginProceedsToDst
