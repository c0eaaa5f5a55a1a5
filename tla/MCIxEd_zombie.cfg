\* One command window, one command.
CONSTANTS
    c1 = c1  c2 = c2  w1 = w1  k1 = k1  k2 = k2
    NoEd = NoEd  NoCmd = NoCmd
    Eds <- OneCmdWin
    CmdEds <- OneCmdWin
    Cmds <- OneCmd
SPECIFICATION Spec
INVARIANT EdsHaveLoop
