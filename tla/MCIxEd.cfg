\* Two command windows and a file window, two commands.
CONSTANTS
    c1 = c1  c2 = c2  w1 = w1  k1 = k1  k2 = k2
    NoEd = NoEd  NoCmd = NoCmd
    Eds <- AllEds
    CmdEds <- TwoCmdWins
    Cmds <- TwoCmds
SPECIFICATION Spec
INVARIANT TypeOK WindowsConsistent
PROPERTY PrintCompletes
