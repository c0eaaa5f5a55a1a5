------------------------------- MODULE RzxAddr -------------------------------
(***************************************************************************)
(* Address completion of the remote zx client (package rzx,              *)
(* src/unnamed/part_000, lines 60-80): FillAddr completes a user's        *)
(* address to network!host!port!tree, and splitaddr splits the tree off   *)
(* at the last '!'.  Dial keys its cache by the filled address and then   *)
(* splits it.  An address is a sequence of runes; the words FillAddr     *)
(* adds ("tcp", "zx", "main") are one rune each.                          *)
(***************************************************************************)
EXTENDS Naturals, Sequences

LOCAL Z == INSTANCE ZxPath
LOCAL SX == INSTANCE SequencesExt

Bang == "!"
Tcp == <<"tcp">>
Zx == <<"zx">>
Main == <<"main">>

\* FillAddr appending the tree to four tokens as well as to three.
FillAddrFourToo(addr) ==
    LET toks == Z!Split(addr, Bang) IN
    CASE Len(toks) = 1 -> Z!Join(<<Tcp, toks[1], Zx, Main>>, Bang)
      [] Len(toks) = 2 -> Z!Join(<<Tcp, toks[1], toks[2], Main>>, Bang)
      [] OTHER         -> addr \o <<Bang>> \o Main

\* FillAddr: strings.Split(addr, "!"), then by the number of tokens
\* tcp!h!zx!main, tcp!h!p!main, addr!main, or addr as it is.
FillAddr(addr) ==
    LET toks == Z!Split(addr, Bang) IN
    CASE Len(toks) = 1 -> Z!Join(<<Tcp, toks[1], Zx, Main>>, Bang)
      [] Len(toks) = 2 -> Z!Join(<<Tcp, toks[1], toks[2], Main>>, Bang)
      [] Len(toks) = 3 -> addr \o <<Bang>> \o Main
      [] OTHER         -> addr

\* splitaddr: the address and the tree around the last '!'; with no '!'
\* it panics ("bad address").
SplitAddr(addr) ==
    LET n == SX!SelectLastInSeq(addr, LAMBDA r : r = Bang) IN
    IF n = 0 THEN [panic |-> TRUE, addr |-> addr, fsys |-> <<>>]
    ELSE [panic |-> FALSE, addr |-> SubSeq(addr, 1, n - 1),
          fsys |-> SubSeq(addr, n + 1, Len(addr))]

=============================================================================
