------------------------------- MODULE WrRoff -------------------------------
(***************************************************************************)
(* The troff (ms) writer of wr (src/cmd/wr/roff.go): escRoff and the      *)
(* structure of what wrroff prints.  Output is kept as the WrDoc       *)
(* tokens for the ms requests that open and close a block: .RS/.RE,        *)
(* .DS/.DE, .KF/.KE, .FS/.FE, .XS/.XE, .EQ/.EN, .PS/.PE, .G1/.G2, .TS/.TE *)
(* and .AB/.AE (Open and Close of "RS", "DS", ...); every other request    *)
(* and all text are Txt.  The paragraph filler is taken to write in order. *)
(* Font elements and the copyright line do not open blocks and are Txt;   *)
(* an item's mark is IP(n) for .IP n. and IP("bu") for a bullet.          *)
(***************************************************************************)
EXTENDS WrDoc

LOCAL SX == INSTANCE SequencesExt

\* cmdEsc and cmdNoEsc (their first rune), and three runes
\* escRoff rewrites: '\\', the macron (a raw backslash) and non-ASCII.
REsc == "\\1"
RNoEsc == "\\2"
Backslash == "\\"
Macron == "macron"
Wide == "wide"

\* escRoff's line-start test with a newline not starting a line.
AtLineStartNoNl(atnl, r) == IF r \in {" ", "\t"} THEN atnl ELSE FALSE

\* Whether escRoff is at the start of a line after writing rune r: after
\* a newline, and still after the spaces and tabs that follow it.
AtLineStart(atnl, r) ==
    IF r = Nl THEN TRUE ELSE IF r \in {" ", "\t"} THEN atnl ELSE FALSE

\* escRoff: in a raw run (between cmdEsc and cmdNoEsc) runes pass as they
\* are; elsewhere a '.' or '\'' at the start of a line gets \&, '\\'
\* becomes \e, a macron or cedilla a raw '\\', a wide rune \[uXXXX].
\* The runes that "continue" leave the line-start state as it was.
EscRoff(s) ==
    LET put(st, r) == [st EXCEPT !.ns = @ \o <<r>>, !.atnl = AtLineStart(@, r)]
        step(st, r) ==
          CASE r = REsc   -> [st EXCEPT !.noesc = TRUE]
            [] r = RNoEsc -> [st EXCEPT !.noesc = FALSE]
            [] st.noesc   -> put(st, r)
            [] st.atnl /\ r \in {".", "'"} ->
                 [st EXCEPT !.ns = @ \o <<"\\&", r>>, !.atnl = FALSE]
            [] r = Backslash -> [st EXCEPT !.ns = @ \o <<"\\e">>]
            [] r = Macron    -> put(st, Backslash)
            [] r = Wide      -> [st EXCEPT !.ns = @ \o <<"\\[u]">>]
            [] OTHER         -> put(st, r)
    IN SX!FoldLeft(step, [ns |-> <<>>, noesc |-> FALSE, atnl |-> TRUE], s).ns

\* wrCaption: .RS, the caption, .RE.
WrCaption == <<Open("RS"), Txt, Close("RS")>>

\* wrTbl: nothing for a table without two rows of two cells.
WrTbl(big) == IF big THEN <<Open("TS"), Txt, Close("TS")>> ELSE <<>>

\* The display a figure kind prints between .KF and its caption.
FigBody(k) ==
    CASE k = "grap" -> <<Open("G1"), Txt, Close("G1")>>
      [] k = "fig"  -> <<Txt>>
      [] OTHER      -> <<Open("PS"), Txt, Close("PS")>>

\* A verbatim, shell or code block: .DS, .CW, the text, .R, .DE.
Display == <<Open("DS"), Txt, Close("DS")>>

\* A figure, table or equation floats: .KF, its display, its caption, .KE.
Float(e) ==
    LET body == CASE e.k = "tbl" -> WrTbl(e.big)
                  [] e.k = "eqn" -> <<Open("EQ"), Txt, Close("EQ")>>
                  [] OTHER       -> FigBody(e.k)
    IN <<Open("KF")>> \o body \o WrCaption \o <<Close("KF")>>

\* A heading's entry in the table of contents: .XS ... .XE.
TocEntry == <<Open("XS"), Txt, Close("XS"), Txt>>

\* wrElems closing the abstract without .AE.
EndAbsNone(inabs) == <<>>

\* if inabs { .AE; inabs = false }
EndAbs(inabs) == IF inabs THEN <<Close("AB")>> ELSE <<>>

\* .IP n. for an enumerated item, .IP \(bu for a bulleted one.
IP(n) == <<"ip", n>>

\* An item that prints the next number without counting it.
ItemMarkNoCount(k, nb) ==
    IF k = "enum" THEN [ts |-> <<IP(nb + 1), Txt>>, nb |-> nb]
    ELSE [ts |-> <<IP("bu"), Txt>>, nb |-> nb]

\* An item of a list: a bullet, or nb++ and its number; then its text.
ItemMark(k, nb) ==
    IF k = "enum" THEN [ts |-> <<IP(nb + 1), Txt>>, nb |-> nb + 1]
    ELSE [ts |-> <<IP("bu"), Txt>>, nb |-> nb]

\* wrElems(els...): nb, inabs, firstnh and firstchap are local to the
\* call.  An abstract is opened only before the first chapter of the
\* call; a chapter named "abstract" is dropped.  A list or indented
\* block sets nb, the number of the last enumerated item, back to 0.
RECURSIVE WrElems(_)
WrElems(els) ==
    LET step(st, e) ==
          LET firstchap == st.firstchap /\ e.k # "chap"
              endAbs == EndAbs(st.inabs)
              emitNb(ts, abs, nb) ==
                  [out |-> st.out \o ts, inabs |-> abs, firstchap |-> firstchap, nb |-> nb]
              emit(ts, abs) == emitNb(ts, abs, st.nb)
          IN CASE e.k \in Hdrs /\ e.abs ->
                    IF firstchap THEN emit(endAbs \o <<Open("AB")>>, TRUE)
                    ELSE emit(endAbs, FALSE)
               [] e.k \in Hdrs -> emit(endAbs \o <<Txt>> \o TocEntry, FALSE)
               [] e.k = "par" -> emit(<<Txt>> \o endAbs, FALSE)
               [] e.k \in Lists \cup {"indent"} ->
                    emitNb(<<Open("RS")>> \o WrElems(e.ch) \o <<Close("RS")>>, st.inabs, 0)
               [] e.k \in {"item", "enum"} ->
                    LET m == ItemMark(e.k, st.nb) IN emitNb(m.ts, st.inabs, m.nb)
               [] e.k = "name" ->
                    emit(<<Txt, Open("RS")>> \o WrElems(e.ch) \o <<Close("RS")>>, st.inabs)
               [] e.k \in {"verb", "sh", "code"} -> emit(Display, st.inabs)
               [] e.k = "foot" -> emit(<<Open("FS"), Txt, Close("FS")>>, st.inabs)
               [] e.k \in {"fig", "pic", "grap", "tbl", "eqn"} -> emit(Float(e), st.inabs)
               [] OTHER -> emit(<<Txt>>, st.inabs)
    IN SX!FoldLeft(step, [out |-> <<>>, inabs |-> FALSE, firstchap |-> TRUE, nb |-> 0],
                   els).out

\* wrBib: the references section, when there are references.
WrBib(bib) == IF bib THEN <<Txt>> ELSE <<>>

\* run: .TL, .AU and .br lines for the titles, the elements, the
\* references, and the table of contents of a text with chapters.
RoffRun(t) ==
    <<Txt>> \o [n \in 1..t.titles |-> Txt] \o WrElems(t.els) \o WrBib(t.bib)

-----------------------------------------------------------------------------
(* Inline text: wrText and wrFnt.  printPar's escaping (par.fn) is not in  *)
(* the repository and is left out.                                        *)


\* fnts and ifnts: the font of a kind on a line of its own, and inline.
Fnt(k) == CASE k = "it" -> "I" [] k = "bf" -> "B" [] k = "tt" -> "CW" [] OTHER -> "R"
IFnt(k) == CASE k = "it" -> "I" [] k = "bf" -> "B" [] k = "tt" -> "(CW" [] OTHER -> "P"

\* wrFnt: \f<font> inside a paragraph, else the .<font> request.
RWrFnt(e) == IF e.inl THEN <<"\\f", IFnt(e.k)>> ELSE <<".", Fnt(e.k), Nl>>

\* What wrText prints before an element's text: "<label> Nb: " for a
\* chapter, nothing for other headings, "Nb. " for a footnote, "Nb ".
RoffNb(e) ==
    CASE e.k = "chap"                    -> <<"label", " ">> \o e.nb \o <<": ">>
      [] e.k \in Hdrs                    -> <<>>
      [] e.nb = <<>>                     -> <<>>
      [] e.k = "foot"                    -> e.nb \o <<". ">>
      [] OTHER                           -> e.nb \o <<" ">>

\* mrexp is not in the repository: it is taken to match a manual page
\* reference, name(section), which the model writes with a "(".
MrMatch(d) == \E i \in DOMAIN d : d[i] = "("

Brack(d) == <<"[">> \o d \o <<"]">>

\* The Data rewrite of a citation that brackets a manual page reference.
RoffDataCiteAlways(e) ==
    CASE e.k = "url" ->
           LET t == SplitBar(e.d)
           IN IF Len(t) = 1 THEN Brack(e.d) ELSE t[1] \o <<" ">> \o Brack(t[2])
      [] e.k \in {"cite", "bib"} -> Brack(e.d)
      [] e.k = "nref"            -> FootRef(e.d)
      [] OTHER                   -> e.d

\* The second switch of wrText, writing e.Data in place: a url becomes
\* [url] or "text [url]", a citation (not a manual page reference) or a
\* bibliography reference [d], a note reference its superscript digits.
RoffData(e) ==
    CASE e.k = "url" ->
           LET t == SplitBar(e.d)
           IN IF Len(t) = 1 THEN Brack(e.d) ELSE t[1] \o <<" ">> \o Brack(t[2])
      [] e.k = "cite" /\ MrMatch(e.d) -> e.d
      [] e.k \in {"cite", "bib"} -> Brack(e.d)
      [] e.k = "nref"            -> FootRef(e.d)
      [] OTHER                   -> e.d

\* wrText(e): the printed text and e as it leaves it.  Fonts print their
\* request and a font size its .ps line; then every element prints its
\* (rewritten) Data and its text children.
RECURSIVE RoffText(_)
RoffText(e) ==
    LET cmd == CASE e.k \in FontKinds -> RWrFnt(e)
                 [] e.k = "font"      -> <<".ps ">> \o e.d \o <<Nl>>
                 [] OTHER             -> <<>>
        d == RoffData(e)
        step(a, c) == LET r == RoffText(c) IN [out |-> a.out \o r.out, ch |-> Append(a.ch, r.e)]
        kids == SX!FoldLeft(step, [out |-> <<>>, ch |-> <<>>], e.ch)
    IN [out |-> RoffNb(e) \o cmd \o d \o kids.out, e |-> [e EXCEPT !.d = d, !.ch = kids.ch]]

\* A heading in wrElems: its line, then its .XS entry, both by wrText of
\* the same element; the entry's Nb and indentation are left out.
RoffHeading(e) ==
    LET first == RoffText(e)
    IN [line |-> first.out, toc |-> RoffText(first.e).out]

=============================================================================
