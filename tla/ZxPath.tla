------------------------------- MODULE ZxPath -------------------------------
(***************************************************************************)
(* The zx path helpers (src/unnamed/part_001, lines 1-148): UseAbsPath,    *)
(* Elems, HasPrefix, Path, Suffix, PathCmp and PathPrefixMatch.  A string  *)
(* is a sequence of one-character strings.  The library calls they make    *)
(* are modelled by what they do: strings.Split and strings.Join on "/",    *)
(* strings.HasPrefix, Go's byte-wise string order, path.Clean (lexical:    *)
(* collapse slashes, drop ".", cancel ".." against the element before     *)
(* it, drop ".." at the root, "." for an empty result) and filepath.Match  *)
(* for patterns whose only special character is '*'.                      *)
(***************************************************************************)
EXTENDS Naturals, Integers, Sequences

LOCAL SeqX == INSTANCE SequencesExt

Slash == "/"
Dot == <<".">>
DotDot == <<".", ".">>
Root == <<"/">>

\* Byte values, for Go's string comparison.
Byte(c) == CASE c = "*" -> 42 [] c = "." -> 46 [] c = "/" -> 47
             [] c = "a" -> 97 [] c = "b" -> 98

\* s < t as Go compares strings: byte by byte, a proper prefix first.
RECURSIVE StrLess(_, _)
StrLess(s, t) ==
    IF s = <<>> \/ t = <<>> THEN s = <<>> /\ t # <<>>
    ELSE IF s[1] = t[1] THEN StrLess(Tail(s), Tail(t))
    ELSE Byte(s[1]) < Byte(t[1])

\* strings.Split(s, sep) for a one-character sep.
RECURSIVE Split(_, _)
Split(s, sep) ==
    LET i == SeqX!SelectInSeq(s, LAMBDA c : c = sep) IN
    IF i = 0 THEN <<s>>
    ELSE <<SubSeq(s, 1, i - 1)>> \o Split(SubSeq(s, i + 1, Len(s)), sep)

\* strings.Join(els, sep).
RECURSIVE Join(_, _)
Join(els, sep) ==
    IF els = <<>> THEN <<>>
    ELSE IF Len(els) = 1 THEN els[1]
    ELSE els[1] \o <<sep>> \o Join(Tail(els), sep)

\* path.Clean's element stack: "" and "." vanish, ".." pops a name, and a
\* ".." that cannot pop is kept in a relative path and dropped at the root.
CleanElems(els, rooted) ==
    LET step(out, e) ==
          IF e = <<>> \/ e = Dot THEN out
          ELSE IF e = DotDot
               THEN IF out # <<>> /\ SeqX!Last(out) # DotDot THEN SeqX!Front(out)
                    ELSE IF rooted THEN out ELSE Append(out, DotDot)
          ELSE Append(out, e)
    IN SeqX!FoldLeft(step, <<>>, els)

\* path.Clean(s).
Clean(s) ==
    IF s = <<>> THEN Dot
    ELSE LET rooted == s[1] = Slash
             j == Join(CleanElems(Split(s, Slash), rooted), Slash)
         IN IF rooted THEN Root \o j ELSE IF j = <<>> THEN Dot ELSE j

-----------------------------------------------------------------------------
(* The helpers                                                             *)

\* UseAbsPath returning s as given.
UseAbsPathNoClean(s) ==
    IF Len(s) = 0 \/ s[1] # Slash THEN [err |-> TRUE, p |-> <<>>]
    ELSE [err |-> FALSE, p |-> s]

\* UseAbsPath: an error unless s starts with '/', else path.Clean(s).
UseAbsPath(s) ==
    IF Len(s) = 0 \/ s[1] # Slash THEN [err |-> TRUE, p |-> <<>>]
    ELSE [err |-> FALSE, p |-> Clean(s)]

\* Elems: no elements for "/" and "", else split what follows a leading '/'.
Elems(p) ==
    IF p = Root \/ p = <<>> THEN <<>>
    ELSE Split(IF p[1] = Slash THEN Tail(p) ELSE p, Slash)

\* HasPrefix without the test that pref ends at an element boundary.
HasPrefixNoSep(p0, pref0) ==
    \/ pref0 = <<>>
    \/ LET p == Clean(p0)
           pref == Clean(pref0)
       IN Len(pref) <= Len(p) /\ SeqX!IsPrefix(pref, p)

\* HasPrefix(p, pref), on the cleaned paths.
HasPrefix(p0, pref0) ==
    \/ pref0 = <<>>
    \/ LET p == Clean(p0)
           pref == Clean(pref0)
       IN /\ Len(pref) <= Len(p)
          /\ SeqX!IsPrefix(pref, p)
          /\ pref = Root \/ Len(p) = Len(pref) \/ p[Len(pref) + 1] = Slash

\* Path(elems...): "/" joined with the elements, cleaned.
Path(els) == Clean(Root \o Join(els, Slash))

\* Suffix that slices one byte too far and loses the leading '/'.
SuffixPastSep(p0, pref0) ==
    IF p0 = <<>> THEN <<>>
    ELSE LET p == Clean(p0) IN
    IF pref0 = <<>> THEN p
    ELSE LET pref == Clean(pref0) IN
    CASE (pref[1] = Slash) # (p[1] = Slash)  -> <<>>
      [] pref = Dot \/ pref = Root           -> p
      [] Len(p) < Len(pref)                  -> <<>>
      [] ~SeqX!IsPrefix(pref, p)             -> <<>>
      [] Len(p) = Len(pref)                  -> Root
      [] p[Len(pref) + 1] # Slash            -> <<>>
      [] OTHER                               -> SubSeq(p, Len(pref) + 2, Len(p))

\* Suffix(p, pref): what follows pref in p, starting with '/', or "".
Suffix(p0, pref0) ==
    IF p0 = <<>> THEN <<>>
    ELSE LET p == Clean(p0) IN
    IF pref0 = <<>> THEN p
    ELSE LET pref == Clean(pref0) IN
    CASE (pref[1] = Slash) # (p[1] = Slash)  -> <<>>
      [] pref = Dot \/ pref = Root           -> p
      [] Len(p) < Len(pref)                  -> <<>>
      [] ~SeqX!IsPrefix(pref, p)             -> <<>>
      [] Len(p) = Len(pref)                  -> Root
      [] p[Len(pref) + 1] # Slash            -> <<>>
      [] OTHER                               -> SubSeq(p, Len(pref) + 1, Len(p))

\* PathCmp with the length results swapped.
PathCmpLongFirst(a, b) ==
    LET e0 == Elems(a)
        e1 == Elems(b)
        diff == {i \in 1..SeqX!Min({Len(e0), Len(e1)}) : e0[i] # e1[i]}
    IN IF diff # {}
       THEN LET i == SeqX!Min(diff) IN IF StrLess(e0[i], e1[i]) THEN -1 ELSE 1
       ELSE IF Len(e0) < Len(e1) THEN 1
       ELSE IF Len(e0) > Len(e1) THEN -1 ELSE 0

\* PathCmp: -1, 0 or 1, comparing Elems one by one, then their number.
PathCmp(a, b) ==
    LET e0 == Elems(a)
        e1 == Elems(b)
        diff == {i \in 1..SeqX!Min({Len(e0), Len(e1)}) : e0[i] # e1[i]}
    IN IF diff # {}
       THEN LET i == SeqX!Min(diff) IN IF StrLess(e0[i], e1[i]) THEN -1 ELSE 1
       ELSE IF Len(e0) < Len(e1) THEN -1
       ELSE IF Len(e0) > Len(e1) THEN 1 ELSE 0

\* filepath.Match(pattern, name) for patterns with '*' as the only
\* special character: '*' matches any run of non-'/' characters.
RECURSIVE Match(_, _)
Match(pt, nm) ==
    IF pt = <<>> THEN nm = <<>>
    ELSE IF pt[1] = "*"
         THEN \E k \in 0..Len(nm) :
                 /\ \A j \in 1..k : nm[j] # Slash
                 /\ Match(Tail(pt), SubSeq(nm, k + 1, Len(nm)))
         ELSE nm # <<>> /\ pt[1] = nm[1] /\ Match(Tail(pt), Tail(nm))

\* PathPrefixMatch whose relative case gives up after the first element.
PathPrefixMatchFirst(p, exp) ==
    LET els == Elems(exp)
        pels == Elems(p)
    IN IF els = <<>> THEN TRUE
       ELSE IF Len(pels) < Len(els) THEN FALSE
       ELSE IF exp[1] = Slash
            THEN \A i \in 1..Len(els) : Match(els[i], pels[i])
            ELSE Match(exp, pels[1])

\* PathPrefixMatch: an absolute exp matches element by element a prefix
\* of p's elements; a relative exp matches any one element of p.
PathPrefixMatch(p, exp) ==
    LET els == Elems(exp)
        pels == Elems(p)
    IN IF els = <<>> THEN TRUE
       ELSE IF Len(pels) < Len(els) THEN FALSE
       ELSE IF exp[1] = Slash
            THEN \A i \in 1..Len(els) : Match(els[i], pels[i])
            ELSE \E i \in 1..Len(pels) : Match(exp, pels[i])

=============================================================================
