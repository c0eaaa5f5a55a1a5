-------------------------------- MODULE WrDoc --------------------------------
(***************************************************************************)
(* The document the wr writers render (package main of src/cmd/wr), as    *)
(* far as the structure of their output depends on it.  The parser that   *)
(* builds it is not in the repository.  An element is a record: its kind, *)
(* whether its Data is "abstract" (headings), and its children (lists,    *)
(* indented blocks, named items).  A text is its leading title elements,  *)
(* its other elements and whether it has bibliography entries.  Output is *)
(* a sequence of tokens: the opening and closing of an environment,        *)
(* display or brace, and Txt for anything else.                            *)
(***************************************************************************)
EXTENDS Integers, Sequences

LOCAL SX == INSTANCE SequencesExt

Hdrs == {"chap", "hdr1", "hdr2", "hdr3"}
Lists == {"itemize", "enumeration", "description"}
Figs == {"fig", "pic", "grap", "eqn", "code"}
FontKinds == {"it", "bf", "tt", "itend", "bfend", "ttend"}
TextKinds == {"text", "url", "bib", "cref", "eref", "tref", "fref", "nref", "sref", "cite"}

Open(n) == <<"open", n>>
Close(n) == <<"close", n>>
Txt == <<"txt", "">>

IsAbstract(e) == e.k \in Hdrs /\ e.abs

\* The tokens nest: every Close ends the innermost Open, with its name,
\* and nothing is left open.
RECURSIVE NestsFrom(_, _)
NestsFrom(toks, stack) ==
    IF toks = <<>> THEN stack = <<>>
    ELSE LET t == Head(toks) IN
         CASE t[1] = "open"  -> NestsFrom(Tail(toks), <<t[2]>> \o stack)
           [] t[1] = "close" -> stack # <<>> /\ Head(stack) = t[2]
                                /\ NestsFrom(Tail(toks), Tail(stack))
           [] OTHER          -> NestsFrom(Tail(toks), stack)

Nests(toks) == NestsFrom(toks, <<>>)

\* Some element of els[from..to] is a chapter.
ChapIn(els, from, to) == \E j \in from..to : els[j].k = "chap"

\* The index of the first heading or paragraph break after i, or 0.
NextBreak(els, i) ==
    LET J == {j \in i + 1..Len(els) : els[j].k \in Hdrs \cup {"par"}}
    IN IF J = {} THEN 0 ELSE CHOOSE j \in J : \A x \in J : j <= x

-----------------------------------------------------------------------------
(* Inline text.  An inline element is a record: its kind, its Data and Nb  *)
(* as sequences of runes, whether it is inline (fonts), and its text       *)
(* children.  Printed text is a sequence of runes and of the strings the   *)
(* writers print whole (commands, separators).                             *)

DigitSeq == <<"0", "1", "2", "3", "4", "5", "6", "7", "8", "9">>
Digits == SX!ToSet(DigitSeq)
DigitVal(r) == SX!SelectInSeq(DigitSeq, LAMBDA x : x = r) - 1

\* The newline rune.
Nl == "\\n"

\* A superscript digit (the digits table of roff.go): not an ASCII digit.
Sup(r) == "^" \o r

\* footRef(d): every ASCII digit becomes its superscript.
FootRef(d) == [i \in DOMAIN d |-> IF d[i] \in Digits THEN Sup(d[i]) ELSE d[i]]

\* strings.SplitN(d, "|", 2): d, or what is before and after the first '|'.
SplitBar(d) ==
    LET i == SX!SelectInSeq(d, LAMBDA r : r = "|")
    IN IF i = 0 THEN <<d>> ELSE <<SubSeq(d, 1, i - 1), SubSeq(d, i + 1, Len(d))>>

\* n, _ := strconv.Atoi(d): an optional sign and decimal digits; anything
\* else is an error, and n is 0.
Atoi(d) ==
    LET sgn == IF d # <<>> /\ d[1] \in {"+", "-"} THEN 1 ELSE 0
        ds == SubSeq(d, sgn + 1, Len(d))
        n == SX!FoldLeft(LAMBDA a, r : 10 * a + DigitVal(r), 0, ds)
    IN IF ds = <<>> \/ \E i \in DOMAIN ds : ds[i] \notin Digits THEN 0
       ELSE IF sgn = 1 /\ d[1] = "-" THEN -n ELSE n

=============================================================================
