-------------------------------- MODULE WrTex --------------------------------
(***************************************************************************)
(* The (la)tex writer of wr (src/cmd/wr/tex.go, lines 1-438): escTex and   *)
(* the structure of what wrtex prints.  Output is kept as the WrDoc        *)
(* tokens for \begin{X} and \end{X} (Open and Close of X) and for the      *)
(* braces an element opens in one print and closes in a later one          *)
(* (Open("{") and Close("{")); a print whose braces pair within it, text,  *)
(* labels and indentation are Txt or left out.  The paragraph filler       *)
(* (par: printPar, printParCmd, printCmd, closePar) is not in the          *)
(* repository and is taken to write in order.  Font elements are paired    *)
(* by the parser and are left out.  A code figure begins with             *)
(* \begin[h]{figure}, which LaTeX reads as the environment "[".           *)
(***************************************************************************)
EXTENDS WrDoc

LOCAL SX == INSTANCE SequencesExt

\* The characters escTex marks; \1 and \2 start and end a raw run.
LSpecial == {"&", "_", "$", "\\", "%", "{", "}", "#", "^"}
Esc == "\\1"
NoEsc == "\\2"

\* escTex: a backslash before every special character outside a raw run;
\* the \1 and \2 marks are dropped.
EscTex(s) ==
    LET step(st, r) ==
          CASE r = Esc   -> [st EXCEPT !.noesc = TRUE]
            [] r = NoEsc -> [st EXCEPT !.noesc = FALSE]
            [] ~st.noesc /\ r \in LSpecial -> [st EXCEPT !.ns = @ \o <<"\\", r>>]
            [] OTHER     -> [st EXCEPT !.ns = Append(@, r)]
    IN SX!FoldLeft(step, [ns |-> <<>>, noesc |-> FALSE], s).ns

\* wrCaption without its closing brace.
WrCaptionOpen == <<Open("{"), Txt>>

\* wrCaption: \caption{ ... \label{...} }.
WrCaption == <<Open("{"), Txt, Close("{")>>

\* wrTbl: nothing for a table without two rows of two cells.
WrTbl(big) == IF big THEN <<Open("tabular"), Txt, Close("tabular")>> ELSE <<>>

\* The list environment of a kind (llst).
Llst(k) ==
    CASE k \in {"indent", "itemize"} -> "itemize"
      [] k = "enumeration"          -> "enumerate"
      [] k = "description"          -> "description"

\* An indented block that holds just a figure, picture, equation, table
\* or code block (and maybe a paragraph break): wrElems skips its level.
JustFig(e) ==
    /\ \/ Len(e.ch) = 1
       \/ Len(e.ch) = 2 /\ e.ch[2].k = "par"
    /\ e.ch[1].k \in Figs \cup {"tbl"}

\* The abstract's environment: quote once a chapter was seen at this level.
AbsEnv(inchap) == IF inchap THEN "quote" ELSE "abstract"

\* wrElems(els...): inabs and inchap are local to the call.
RECURSIVE WrElems(_)
WrElems(els) ==
    LET step(st, e) ==
          LET inchap == st.inchap \/ e.k = "chap"
              endAbs == IF st.inabs THEN <<Close(AbsEnv(inchap))>> ELSE <<>>
              emit(ts, abs) == [out |-> st.out \o ts, inabs |-> abs, inchap |-> inchap]
          IN CASE e.k \in Hdrs /\ e.abs ->
                    emit(endAbs \o <<Open(AbsEnv(inchap))>>, TRUE)
               [] e.k \in Hdrs ->
                    emit(endAbs \o <<Open("{"), Txt, Close("{"), Txt>>, FALSE)
               [] e.k = "par" -> emit(<<Txt>> \o endAbs, FALSE)
               [] e.k = "indent" /\ JustFig(e) -> emit(WrElems(e.ch), st.inabs)
               [] e.k \in Lists \cup {"indent"} ->
                    emit(<<Open(Llst(e.k))>> \o WrElems(e.ch) \o <<Close(Llst(e.k))>>, st.inabs)
               [] e.k = "name" -> emit(<<Txt>> \o WrElems(e.ch), st.inabs)
               [] e.k \in {"verb", "sh"} ->
                    emit(<<Open("verbatim"), Txt, Close("verbatim")>>, st.inabs)
               [] e.k = "foot" -> emit(<<Open("{"), Txt, Close("{")>>, st.inabs)
               [] e.k = "code" ->
                    emit(<<Open("["), Txt, Open("verbatim"), Txt, Close("verbatim")>>
                         \o WrCaption \o <<Close("figure")>>, st.inabs)
               [] e.k \in Figs ->
                    emit(<<Open("figure"), Txt>> \o WrCaption \o <<Close("figure")>>, st.inabs)
               [] e.k = "tbl" ->
                    emit(<<Open("table")>> \o WrTbl(e.big) \o WrCaption \o <<Close("table")>>,
                         st.inabs)
               [] OTHER -> emit(<<Txt>>, st.inabs)
    IN SX!FoldLeft(step, [out |-> <<>>, inabs |-> FALSE, inchap |-> FALSE], els).out

\* wrBib: a bibliography environment when there are references.
WrBib(bib) == IF bib THEN <<Open("thebibliography"), Txt, Close("thebibliography")>> ELSE <<>>

\* run: \title{...}, then \author{... with further title lines after \\,
\* a closing brace when there were titles, and the document.
TexRun(t) ==
    LET titles == [n \in 1..t.titles |->
                     CASE n = 1 -> <<Open("{"), Txt, Close("{")>>
                       [] n = 2 -> <<Open("{"), Txt>>
                       [] OTHER -> <<Txt>>]
    IN  SX!FoldLeft(LAMBDA a, b : a \o b, <<>>, titles)
        \o (IF t.titles > 0 THEN <<Close("{")>> ELSE <<>>)
        \o <<Open("document")>> \o WrElems(t.els) \o WrBib(t.bib) \o <<Close("document")>>

-----------------------------------------------------------------------------
(* Inline text: wrText, wrFnt and fntSz.  printPar's escaping (par.fn) is  *)
(* not in the repository and is left out.  f.ps is the writer's font size, *)
(* kept over the whole text; each operator takes it and gives it back.    *)

RefKinds == {"cref", "eref", "tref", "fref", "sref"}

\* ilfnts; lfnts is the same with a '%' after it.
IlFnt(k) ==
    CASE k = "it" -> "\\textit{"
      [] k = "bf" -> "\\textbf{"
      [] k = "tt" -> "\\texttt{"
      [] OTHER    -> "}"

\* wrFnt: the inline form inside a paragraph, else a line of its own.
WrFnt(e) == IF e.inl THEN <<IlFnt(e.k)>> ELSE <<IlFnt(e.k) \o "%", Nl>>

\* lszs, from -5 to 5.
Lszs == [n \in -5..5 |-> <<"tiny", "tiny", "scriptsize", "footnotesize", "small",
                           "normalsize", "large", "Large", "LARGE", "huge",
                           "Huge">>[n + 6]]

\* lszs[f.ps], or lszs[0] when f.ps has no entry.
SizeName(ps) == IF ps \in DOMAIN Lszs THEN Lszs[ps] ELSE Lszs[0]

\* fntSz setting the size to the request instead of adding it.
FntSzSet(d, ps) ==
    IF d = <<>> THEN [out |-> <<>>, ps |-> ps]
    ELSE [out |-> <<"\\" \o SizeName(Atoi(d)) \o " ">>, ps |-> Atoi(d)]

\* fntSz(d): nothing for no data; else f.ps += n and \<size> of f.ps.
FntSz(d, ps) ==
    IF d = <<>> THEN [out |-> <<>>, ps |-> ps]
    ELSE LET p == ps + Atoi(d)
         IN [out |-> <<"\\" \o SizeName(p) \o " ">>, ps |-> p]

\* The \cite of a bib element: every comma-separated entry gets "bib".
BibCite(d) ==
    <<"\\cite{bib">> \o SX!FoldLeft(LAMBDA a, r : IF r = "," THEN a \o <<",bib">>
                                                  ELSE Append(a, r), <<>>, d)
    \o <<"}">>

RefTag(k) ==
    CASE k = "cref" -> "lst" [] k = "eref" -> "eqn" [] k = "tref" -> "tbl"
      [] k = "fref" -> "fig" [] k = "sref" -> "sec"

\* wrText(e) at font size ps: the printed text, the size after it, and e
\* as wrText leaves it (bib, cite and nref rewrite e.Data in place).
RECURSIVE TexText(_, _)
TexText(e, ps) ==
    LET nb == IF e.k \in Hdrs \cup {"foot"} \/ e.nb = <<>> THEN <<>> ELSE e.nb \o <<" ">>
        verb(d) == <<"\\verb|">> \o d \o <<"|">>
        res(o, p, d) == [out |-> nb \o o, ps |-> p, e |-> [e EXCEPT !.d = d]]
    IN CASE e.k \in FontKinds -> res(WrFnt(e), ps, e.d)
         [] e.k = "font" -> LET r == FntSz(e.d, ps) IN res(r.out, r.ps, e.d)
         [] e.k = "url" ->
              LET t == SplitBar(e.d)
              IN res(IF Len(t) = 1 THEN verb(e.d) ELSE t[1] \o <<" ">> \o verb(t[2]),
                     ps, e.d)
         [] e.k = "bib" -> res(BibCite(e.d), ps, BibCite(e.d))
         [] e.k \in RefKinds ->
              LET d == IF e.k = "sref" THEN SX!ReplaceAll(e.d, ".", "x") ELSE e.d
              IN res(<<"\\ref{" \o RefTag(e.k)>> \o d \o <<"}">>, ps, e.d)
         [] e.k = "cite" -> LET d == <<"[">> \o e.d \o <<"]">> IN res(d, ps, d)
         [] OTHER ->
              LET d == IF e.k = "nref" THEN FootRef(e.d) ELSE e.d
                  step(a, c) == LET r == TexText(c, a.ps)
                                IN [out |-> a.out \o r.out, ps |-> r.ps, ch |-> Append(a.ch, r.e)]
                  kids == SX!FoldLeft(step, [out |-> <<>>, ps |-> ps, ch |-> <<>>], e.ch)
              IN [out |-> nb \o d \o kids.out, ps |-> kids.ps,
                  e |-> [e EXCEPT !.d = d, !.ch = kids.ch]]

\* wrElems on a run of inline elements: Kfont calls fntSz, the text
\* kinds wrText, and fonts wrFnt; f.ps goes from one to the next.
TexTexts(els, ps) ==
    LET step(a, e) == LET r == CASE e.k = "font"       -> FntSz(e.d, a.ps)
                                   [] e.k \in FontKinds -> [out |-> WrFnt(e), ps |-> a.ps]
                                   [] OTHER             -> TexText(e, a.ps)
                      IN [out |-> a.out \o r.out, ps |-> r.ps]
    IN SX!FoldLeft(step, [out |-> <<>>, ps |-> ps], els)

=============================================================================
