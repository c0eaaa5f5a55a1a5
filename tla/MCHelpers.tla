------------------------------ MODULE MCHelpers ------------------------------
(***************************************************************************)
(* Checks the pure helpers of the repository over bounded inputs, each    *)
(* against a reference definition or a property of its result: the zx    *)
(* path helpers (ZxPath), rzx's address completion (RzxAddr), cmd's       *)
(* environment encodings of lists and maps and its command search path   *)
(* (CmdEnv), the cookie checks and the logged-out page of ink's handlers  *)
(* over a browser's steps                                                 *)
(* (InkAuth), and the tex and troff writers of wr, block structure and    *)
(* inline text (WrTex, WrRoff).  The input, a case record tagged by its   *)
(* kind, is chosen in the initial state and never changes; each property  *)
(* is about the cases of one kind.                                        *)
(***************************************************************************)
EXTENDS ZxPath, FiniteSets, TLC

LOCAL SX == INSTANCE SequencesExt

CONSTANTS Chars, MaxLen, NoCookie

Env == INSTANCE CmdEnv

\* An environment holding one variable "v", unset (GetEnv returns "").
NoEnv == [x \in {"v"} |-> <<>>]

Doc == INSTANCE WrDoc
Tex == INSTANCE WrTex
Roff == INSTANCE WrRoff
Addr == INSTANCE RzxAddr

\* The token pairs the auth package accepts, one part each.
TotpPairs == {<<<<"c">>, <<"t">>>>}
CRPairs == {<<<<"x">>, <<"c">>>>}
Ink == INSTANCE InkAuth WITH TotpGood <- TotpPairs, CRGood <- CRPairs

-----------------------------------------------------------------------------
(* The inputs                                                              *)

\* zx: every pair of strings of up to MaxLen characters of Chars.
Strs == SX!BoundedSeq(Chars, MaxLen)
ZxCases == {[kind |-> "zx", p |-> a, q |-> b] : a \in Strs, b \in Strs}

\* env lists: up to three strings without separators, "" among them.
EnvStrs == {<<>>, <<"x">>, <<"y">>}
ListCases == {[kind |-> "list", lst |-> l] : l \in SX!BoundedSeq(EnvStrs, 3)}

\* env maps: keys "" and "k", lists of up to two strings, every order
\* Go's map iteration may take.
EnvKeys == {<<>>, <<"k">>}
EnvLists == SX!BoundedSeq({<<>>, <<"x">>}, 2)
Orders(D) == {o \in [1..Cardinality(D) -> D] : SX!ToSet(o) = D}
MapCases ==
    UNION {{[kind |-> "map", m |-> mp, order |-> o] : o \in Orders(DOMAIN mp)} :
              mp \in UNION {[D -> EnvLists] : D \in SUBSET EnvKeys}}

\* ink: every setting, Origin header and cookie of up to four parts.
Cookies == SX!BoundedSeq({"totp", "c", "t", "x"}, 4) \ {<<>>}
InkCases ==
    {[kind |-> "ink", cfg |-> g, cookie |-> ck, origin |-> o] :
        g \in Ink!Configs, ck \in Cookies \cup {NoCookie}, o \in Ink!Origins}

\* wr: documents of up to two elements: headings, "Abstract" headings,
\* paragraph breaks, figures, code, a table, text, and indented blocks
\* and lists of up to two elements, with up to two titles and
\* references; and documents of three, whose blocks hold one element.
Leaf(k, a, b) == [k |-> k, abs |-> a, ch |-> <<>>, big |-> b]
Leaves ==
    {Leaf("chap", FALSE, FALSE), Leaf("chap", TRUE, FALSE), Leaf("hdr1", TRUE, FALSE),
     Leaf("par", FALSE, FALSE), Leaf("code", FALSE, FALSE), Leaf("fig", FALSE, FALSE),
     Leaf("tbl", FALSE, TRUE), Leaf("text", FALSE, FALSE)}
Inner == {Leaf("hdr1", TRUE, FALSE), Leaf("par", FALSE, FALSE),
          Leaf("fig", FALSE, FALSE), Leaf("text", FALSE, FALSE)}
Blocks == {[k |-> k, abs |-> FALSE, ch |-> cs, big |-> FALSE] :
              k \in {"indent", "itemize"}, cs \in SX!BoundedSeq(Inner, 2) \ {<<>>}}
DocElems == Leaves \cup Blocks
DocCases ==
    {[kind |-> "doc", titles |-> n, els |-> e, bib |-> b] :
        n \in 0..2, e \in SX!BoundedSeq(DocElems, 2), b \in BOOLEAN}
    \cup {[kind |-> "doc", titles |-> 0, els |-> e, bib |-> FALSE] :
            e \in [1..3 -> Leaves \cup {b \in Blocks : Len(b.ch) = 1}]}

\* escRoff: strings of up to four runes.
EscCases ==
    {[kind |-> "esc", s |-> r] :
        r \in SX!BoundedSeq({".", "'", Roff!Nl, " ", Roff!Backslash, Roff!Macron,
                             Roff!Wide, "a"}, 4)}

\* Inline text: an element of kind k with Data d, Nb nb and children ch.
IL(k, d, nb, inl, ch) == [k |-> k, d |-> d, nb |-> nb, inl |-> inl, ch |-> ch]

\* wrtex: runs of up to three inline elements: font sizes (none, +4, -2
\* and one Atoi rejects), text holding a font size, a font, and the kinds
\* that do not recurse; up to three +4 leave lszs's range.
FontData == {<<>>, <<"+", "4">>, <<"-", "2">>, <<"4", "x">>}
FontEl(d) == IL("font", d, <<>>, FALSE, <<>>)
TexInline ==
    {FontEl(d) : d \in FontData}
    \cup {IL("text", <<"1">>, nb, FALSE, <<FontEl(d)>>) : d \in FontData, nb \in {<<>>, <<"2">>}}
    \cup {IL("it", <<>>, <<>>, TRUE, <<>>), IL("cite", <<"1">>, <<>>, FALSE, <<>>),
          IL("url", <<"a", "|", "b">>, <<>>, FALSE, <<>>), IL("nref", <<"1">>, <<>>, FALSE, <<>>),
          IL("bib", <<"1", ",", "2">>, <<>>, FALSE, <<>>),
          IL("sref", <<"1", ".", "2">>, <<>>, FALSE, <<>>)}
TexTextCases == {[kind |-> "ttext", els |-> e] : e \in SX!BoundedSeq(TexInline, 3)}

\* wrroff: a chapter or section heading, with or without Nb, whose text
\* is up to two inline elements, text among them holding one more: every
\* kind wrText rewrites or prints, with Data that has a digit, a '|' and
\* a "(" or not, inline or not.
RoffLeaves ==
    {IL(k, d, <<>>, i, <<>>) : k \in {"text", "nref", "cite", "url", "bib", "it", "itend", "font"},
                               d \in {<<"1">>, <<"(", "|", "1">>}, i \in BOOLEAN}
RoffInline == RoffLeaves \cup {IL("text", <<"1">>, <<>>, FALSE, <<x>>) : x \in RoffLeaves}
RoffHdrCases ==
    {[kind |-> "rhdr", h |-> IL(k, <<"h">>, nb, FALSE, ch)] :
        k \in {"chap", "hdr1"}, nb \in {<<>>, <<"2">>}, ch \in SX!BoundedSeq(RoffInline, 2)}

\* ink sessions: a browser's steps, up to four: the two login forms with
\* an accepted pair or a refused one, /logout, and a page.
Steps == ({"totp", "cr"} \X {<<<<"c">>, <<"t">>>>, <<<<"x">>, <<"c">>>>}) \cup {<<"logout", <<>>>>, <<"page", <<>>>>}
SessionCases ==
    {[kind |-> "session", cfg |-> g, steps |-> st] :
        g \in Ink!Configs, st \in SX!BoundedSeq(Steps, 4)}

\* rzx: every address of up to six runes of "h", "main" and '!', from one
\* to seven '!'-separated tokens, empty ones among them.
AddrCases == {[kind |-> "addr", a |-> x] : x \in SX!BoundedSeq({"h", "main", Addr!Bang}, 6)}

\* cmd's search path: a $path list of up to two of /b and ".", a $PATH
\* of none, one or two entries, a bare, ./ or rooted command name, the
\* context's dot at the process's working directory / or elsewhere, and
\* every way /b/a, /u/a and /a can be missing, executable or a directory.
LookFs == UNION {[D -> {"exec", "dir"}] : D \in SUBSET {<<"/", "b", "/", "a">>,
                                                      <<"/", "u", "/", "a">>, <<"/", "a">>}}
LookCases ==
    {[kind |-> "look", dirs |-> ds, osdirs |-> od, cmd |-> cm, dot |-> dt,
      os |-> [pwd |-> <<"/">>, fs |-> f]] :
        ds \in SX!BoundedSeq({Env!Bin, Dot}, 2),
        od \in {<<>>, <<Env!UsrBin>>, <<Env!Bin, Env!UsrBin>>, <<Dot, Env!Bin>>},
        cm \in {<<"a">>, <<".", "/", "a">>, <<"/", "u", "/", "a">>},
        dt \in {<<"/">>, Env!Bin}, f \in LookFs}

\* troff lists: up to four elements out of an enumerated item, a bulleted
\* one, a paragraph break, a bulleted list and an enumerated list of two.
ItemEls ==
    {Leaf("enum", FALSE, FALSE), Leaf("item", FALSE, FALSE), Leaf("par", FALSE, FALSE),
     [k |-> "itemize", abs |-> FALSE, ch |-> <<Leaf("item", FALSE, FALSE)>>, big |-> FALSE],
     [k |-> "enumeration", abs |-> FALSE, big |-> FALSE,
      ch |-> <<Leaf("enum", FALSE, FALSE), Leaf("enum", FALSE, FALSE)>>]}
ItemCases == {[kind |-> "items", els |-> e] : e \in SX!BoundedSeq(ItemEls, 4)}

VARIABLE c

Init ==
    \/ c \in ZxCases
    \/ c \in ListCases \/ c \in MapCases
    \/ c \in InkCases
    \/ c \in DocCases
    \/ c \in EscCases
    \/ c \in TexTextCases
    \/ c \in RoffHdrCases
    \/ c \in SessionCases
    \/ c \in AddrCases
    \/ c \in LookCases
    \/ c \in ItemCases
Spec == Init /\ [][UNCHANGED c]_c

-----------------------------------------------------------------------------
(* Reference definitions                                                   *)

\* A path is rooted or not, and names the list of elements that lexical
\* cleaning leaves.
Rooted(s) == s # <<>> /\ s[1] = Slash
Names(s) == CleanElems(Split(s, Slash), Rooted(s))

\* Element lists compared one element at a time, a proper prefix first.
RECURSIVE ElemOrder(_, _)
ElemOrder(a, b) ==
    IF a = <<>> \/ b = <<>> THEN (IF a = b THEN 0 ELSE IF a = <<>> THEN -1 ELSE 1)
    ELSE IF Head(a) = Head(b) THEN ElemOrder(Tail(a), Tail(b))
    ELSE IF StrLess(Head(a), Head(b)) THEN -1 ELSE 1

\* What Suffix's comment promises: the elements of p after those of pref,
\* starting with '/' and "/" for the same path, or "" when pref is not a
\* prefix of p.  An empty pref is the empty prefix.
DocSuffix(a, b) ==
    IF SX!IsPrefix(Names(b), Names(a))
    THEN Root \o Join(SubSeq(Names(a), Len(Names(b)) + 1, Len(Names(a))), Slash)
    ELSE <<>>

\* Every "Abstract" heading of els, at every level, is followed at its
\* level by a heading or a paragraph break.
RECURSIVE AbstractsEnd(_)
AbstractsEnd(els) ==
    \A i \in DOMAIN els : /\ Doc!IsAbstract(els[i]) => Doc!NextBreak(els, i) # 0
                          /\ AbstractsEnd(els[i].ch)

\* No abstract begun before the first chapter of its level is ended by a
\* chapter (wrtex would end it as a quote).
RECURSIVE AbsEnvsMatch(_)
AbsEnvsMatch(els) ==
    \A i \in DOMAIN els :
        /\ Doc!IsAbstract(els[i]) /\ Doc!NextBreak(els, i) # 0 =>
              Doc!ChapIn(els, 1, i) \/ ~Doc!ChapIn(els, i + 1, Doc!NextBreak(els, i))
        /\ AbsEnvsMatch(els[i].ch)

\* No code block at any level (wrtex begins its figure as "[").
RECURSIVE NoCode(_)
NoCode(els) == \A i \in DOMAIN els : els[i].k # "code" /\ NoCode(els[i].ch)

\* The font size requests of inline text in the order wrText meets them.
RECURSIVE FontsIn(_)
FontsIn(e) ==
    IF e.k = "font" THEN (IF e.d = <<>> THEN <<>> ELSE <<e.d>>)
    ELSE SX!FlattenSeq([i \in DOMAIN e.ch |-> FontsIn(e.ch[i])])

\* The \<size> commands among printed text.
SizeCmds(out) == SelectSeq(out, LAMBDA t : t \in {"\\" \o n \o " " : n \in {Tex!Lszs[x] : x \in DOMAIN Tex!Lszs}})

\* Some element of the text is one whose Data wrroff's wrText rewrites
\* so that a second write differs: a url, a bibliography reference, a
\* citation that is not a manual page reference.
RECURSIVE Rewrites(_)
Rewrites(e) ==
    \/ e.k \in {"url", "bib"}
    \/ e.k = "cite" /\ ~Roff!MrMatch(e.d)
    \/ \E i \in DOMAIN e.ch : Rewrites(e.ch[i])

-----------------------------------------------------------------------------
(* Properties                                                              *)

\* HasPrefix(p, q) holds exactly when q is empty, or p and q are both
\* rooted or both relative and q's cleaned elements begin p's; except
\* that a q cleaning to "." is a prefix of "." alone, although Suffix
\* treats it as a prefix of every relative path.
HasPrefixByElems ==
    c.kind = "zx" =>
        LET p == c.p  q == c.q IN
        HasPrefix(p, q) <=>
            IF q # <<>> /\ Clean(q) = Dot THEN Clean(p) = Dot
            ELSE q = <<>> \/ (Rooted(p) = Rooted(q) /\ SX!IsPrefix(Names(q), Names(p)))

\* For an absolute p and an absolute or empty pref, Suffix, computed on
\* bytes with length tests and a '/' check, is what its comment promises:
\* the rest of p after pref's elements, starting with '/' (Suffix, zx).
\* Relative paths break the promise and are a hazard of their own.
SuffixAsDocumented ==
    c.kind = "zx" /\ Rooted(c.p) /\ (c.q = <<>> \/ Rooted(c.q)) =>
        Suffix(c.p, c.q) = DocSuffix(c.p, c.q)

\* PathCmp orders paths as their element lists, element by element and
\* then by length; so it is antisymmetric and 0 only for equal Elems.
PathCmpByElems == c.kind = "zx" => PathCmp(c.p, c.q) = ElemOrder(Elems(c.p), Elems(c.q))

\* Every path UseAbsPath accepts comes back from Elems and Path unchanged,
\* and none of its elements is empty, "." or "..".
AbsPathRoundTrip ==
    c.kind = "zx" =>
        LET r == UseAbsPath(c.p) IN
        ~r.err => /\ Path(Elems(r.p)) = r.p
                  /\ \A i \in DOMAIN Elems(r.p) : Elems(r.p)[i] \notin {<<>>, Dot, DotDot}

\* A pattern without '*' matches as PathPrefixMatch documents: an empty
\* one always; an absolute one when its elements begin p's; a relative one
\* when it is one of p's elements.
LiteralPrefixMatch ==
    c.kind = "zx" =>
        LET p == c.p  q == c.q IN
        ~("*" \in SX!ToSet(q)) =>
            (PathPrefixMatch(p, q) <=>
                IF Elems(q) = <<>> THEN TRUE
                ELSE IF Rooted(q) THEN SX!IsPrefix(Elems(q), Elems(p))
                ELSE q \in SX!ToSet(Elems(p)))

\* A list SetEnvList stores comes back from GetEnvList as it was, except
\* the list of one empty string, whose encoding "" reads as the empty
\* list (ListEnv and EnvList, cmd).
EnvListRoundTrip ==
    c.kind = "list" =>
        Env!GetEnvList(Env!SetEnvList(NoEnv, "v", c.lst), "v") = IF c.lst = <<<<>>>> THEN <<>> ELSE c.lst

\* A map SetEnvMap stores comes back from GetEnvMap as it was, whatever
\* order Go iterates the map in, except for a key "" with no values, and
\* its encoding is recognised by IsEnvMap exactly when the map is not
\* empty (MapEnv, EnvMap and IsEnvMap, cmd).
EnvMapRoundTrip ==
    c.kind = "map" =>
        LET set == Env!SetEnvMap(NoEnv, "v", c.m, c.order)
            kept == {k \in DOMAIN c.m : k # <<>> \/ c.m[k] # <<>>}
        IN /\ Env!GetEnvMap(set, "v") = [k \in kept |-> c.m[k]]
           /\ Env!IsEnvMap(set["v"]) <=> DOMAIN c.m # {}

\* With auth on, AuthHandler calls the page's handler exactly for the
\* cookies the login page's two forms build from a pair the auth package
\* accepts; with auth off, always (AuthHandler and serveLoginFor, ink).
CookieDecision ==
    c.kind = "ink" =>
        (Ink!AuthHandler(c.cfg, c.cookie) = "fn" <=>
            \/ ~(c.cfg.tls /\ c.cfg.enabled)
            \/ \E pr \in TotpPairs : c.cookie = Ink!TotpCookie(pr[1], pr[2])
            \/ \E pr \in CRPairs : c.cookie = Ink!CRCookie(pr[1], pr[2]))

\* The websocket handler's copy of the cookie test agrees with the page
\* handler's: it answers 403 exactly when a page would get the logged-out
\* page, and serves exactly when a page would be served and the Origin
\* header is good (AuthWebSocketHandler and AuthHandler, ink).
HandlersAgree ==
    c.kind = "ink" =>
        LET ws == Ink!AuthWebSocketHandler(c.cfg, c.cookie, c.origin)
            pg == Ink!AuthHandler(c.cfg, c.cookie)
        IN /\ ws = "403" <=> pg = "loggedout"
           /\ ws = "serve" <=> pg = "fn" /\ Ink!CheckOrigin(c.origin)

\* wrtex's environments, braces and figures nest and are all closed, for
\* every text without the three shapes it gets wrong: one title line, a
\* code block, and an abstract that no break ends or that a chapter ends
\* (wrElems, wrCaption, wrTbl, wrBib and run, tex.go).
TexNests ==
    c.kind = "doc" /\ c.titles # 1 /\ NoCode(c.els)
    /\ AbstractsEnd(c.els) /\ AbsEnvsMatch(c.els) => Doc!Nests(Tex!TexRun(c))

\* wrroff's displays, keeps, footnotes, tables, contents entries and
\* abstracts nest and are all closed, for every text whose abstracts are
\* each ended by a heading or a paragraph break (wrElems, wrCaption,
\* wrTbl and run, roff.go).
RoffNests == c.kind = "doc" /\ AbstractsEnd(c.els) => Doc!Nests(Roff!RoffRun(c))

\* escRoff never lets a line of text begin with '.' or '\'', which troff
\* would read as a request (escRoff, roff.go).
EscRoffNoRequests ==
    c.kind = "esc" =>
        LET out == Roff!EscRoff(c.s) IN
        \A i \in DOMAIN out : out[i] \in {".", "'"} => i > 1 /\ out[i - 1] # Roff!Nl


\* wrtex's font size is kept over the whole text: the size every request
\* prints, in a text element's children as at the top level, is lszs's
\* name for the sum of all requests so far (an unparsable one adds 0),
\* normalsize outside -5..5, so requests that cancel out restore
\* normalsize (fntSz, wrText and wrElems, tex.go).
TexSizeNet ==
    c.kind = "ttext" =>
        LET fs == SX!FlattenSeq([i \in DOMAIN c.els |-> FontsIn(c.els[i])])
            net(i) == SX!FoldLeft(LAMBDA a, d : a + Doc!Atoi(d), 0, SubSeq(fs, 1, i))
            r == Tex!TexTexts(c.els, 0)
        IN /\ SizeCmds(r.out) = [i \in DOMAIN fs |-> "\\" \o Tex!SizeName(net(i)) \o " "]
           /\ r.ps = net(Len(fs))
           /\ \A i \in DOMAIN fs : net(i) = 0 => SizeCmds(r.out)[i] = "\\normalsize "

\* The contents entry (.XS) wrroff writes for a heading prints the same
\* text as the heading line, although both are wrText of one element
\* and wrText rewrites Data in place; except for text holding a url, a
\* bibliography reference or a citation other than a manual page
\* reference, whose entry is bracketed twice (wrText and wrElems, roff.go).
RoffTocRepeatsHeading ==
    c.kind = "rhdr" /\ ~Rewrites(c.h) =>
        LET r == Roff!RoffHeading(c.h) IN r.toc = r.line


\* With auth on, a browser that visits /logout, or whose page request is
\* refused, is refused every page until it submits a login form again; a
\* page is served exactly when the last login before it used a pair the
\* auth package accepts and no logout or refusal came between (authFailed,
\* AuthHandler and serveLoginFor, ink).
SessionEndsAtLogout ==
    c.kind = "session" /\ c.cfg.tls /\ c.cfg.enabled =>
        LET run == SX!FoldLeft(LAMBDA a, st : LET r == Ink!BrowserStep(c.cfg, a.cookie, st)
                                               IN [cookie |-> r.cookie, pages |-> Append(a.pages, r.page)],
                               [cookie |-> NoCookie, pages |-> <<>>], c.steps)
            goodLogin(j) == c.steps[j][1] \in {"totp", "cr"} /\
                            (IF c.steps[j][1] = "totp" THEN c.steps[j][2] \in TotpPairs
                             ELSE c.steps[j][2] \in CRPairs)
            ends(j) == \/ c.steps[j][1] = "logout"
                       \/ c.steps[j][1] \in {"totp", "cr"} /\ ~goodLogin(j)
        IN \A i \in DOMAIN c.steps : c.steps[i][1] = "page" =>
              (run.pages[i] = "fn" <=>
                  \E j \in 1..i - 1 : goodLogin(j) /\ \A k \in j + 1..i - 1 : ~ends(k))


\* Dial's address handling: FillAddr leaves a filled address as it is, so
\* a short address and its filled form share one cache entry; splitaddr
\* never panics on a filled address; the tree is "main" unless the user
\* gave four or more tokens, then the last one; and the connection address
\* is the user's other tokens, in order, with the network "tcp" and the
\* port "zx" filled in where missing: network!host!port unless the user
\* gave more (FillAddr, splitaddr and Dial, rzx).
AddrCompletion ==
    c.kind = "addr" =>
        LET f == Addr!FillAddr(c.a)
            toks == Split(c.a, Addr!Bang)
            s == Addr!SplitAddr(f)
            given == Len(toks) >= 4
            conn == IF given THEN SubSeq(toks, 1, Len(toks) - 1) ELSE toks
        IN /\ Addr!FillAddr(f) = f
           /\ ~s.panic
           /\ s.fsys = IF given THEN toks[Len(toks)] ELSE Addr!Main
           /\ \E pre \in {<<>>, <<Addr!Tcp>>}, post \in {<<>>, <<Addr!Zx>>} :
                 Split(s.addr, Addr!Bang) = pre \o conn \o post
           /\ given \/ Len(Split(s.addr, Addr!Bang)) = 3

\* The file a path names for os.Stat: a relative one is taken from the
\* process's working directory, whatever the context's dot is.
StatPath(os, p) == IF p[1] = "/" THEN p ELSE Clean(os.pwd \o <<"/">> \o p)

\* LookPath of a bare name returns the first join, in order, of a
\* directory SetEnvList stored in $path (else of an entry of $PATH, an
\* empty $PATH being one empty entry, the working directory) with the
\* name that is an executable file and not a directory, and "" if none
\* is; a name starting with / or ./ only ever comes back as the
\* executable file it names relative to the context's dot (Path,
\* LookPath, SetEnvList, cmd).
LookPathFirst ==
    c.kind = "look" =>
        LET r == Env!LookPath(c.cmd, Env!ListEnv(c.dirs), Join(c.osdirs, Env!Colon),
                              c.dot, c.os)
            ds == CASE c.dirs # <<>>   -> c.dirs
                    [] c.osdirs # <<>> -> c.osdirs
                    [] OTHER           -> <<<<>>>>
            cand(j) == Clean(IF ds[j] = <<>> THEN c.cmd ELSE ds[j] \o <<"/">> \o c.cmd)
            runs(p) == StatPath(c.os, p) \in DOMAIN c.os.fs /\ c.os.fs[StatPath(c.os, p)] = "exec"
            named == Clean(IF c.cmd[1] = "/" THEN c.cmd ELSE c.dot \o <<"/">> \o c.cmd)
        IN IF c.cmd[1] \in {"/", "."}
           THEN r = IF runs(named) THEN named ELSE <<>>
           ELSE \/ r = <<>> /\ \A j \in DOMAIN ds : ~runs(cand(j))
                \/ \E j \in DOMAIN ds : /\ r = cand(j) /\ runs(r)
                                        /\ \A k \in 1..j - 1 : ~runs(cand(k))

\* The marks a list's items should get, as LaTeX's enumerate numbers them
\* (wrtex's \item): the n-th enumerated item of a level is n, a bulleted
\* one a bullet, and a nested list or block numbers its own from 1.
RECURSIVE EnumMarks(_)
EnumMarks(els) ==
    LET mark(i) ==
          CASE els[i].k = "enum" ->
                 <<Roff!IP(Cardinality({j \in 1..i : els[j].k = "enum"}))>>
            [] els[i].k = "item" -> <<Roff!IP("bu")>>
            [] OTHER             -> EnumMarks(els[i].ch)
    IN SX!FoldLeft(LAMBDA a, i : a \o mark(i), <<>>, [i \in 1..Len(els) |-> i])

\* No list or block comes between two enumerated items of one level.
RECURSIVE NoRestart(_)
NoRestart(els) ==
    /\ \A i, j, l \in DOMAIN els :
          i < j /\ j < l /\ els[i].k = "enum" /\ els[l].k = "enum"
              => els[j].k \notin Doc!Lists \cup {"indent"}
    /\ \A i \in DOMAIN els : NoRestart(els[i].ch)

\* wrroff numbers the enumerated items of every list 1, 2, 3... in order,
\* through nested lists that count on their own, as LaTeX numbers wrtex's
\* items, as long as no nested list or block comes between two items of
\* one level (wrElems's nb, roffFmt).
RoffEnumNumbers ==
    c.kind = "items" /\ NoRestart(c.els) =>
        SX!SelectSeq(Roff!WrElems(c.els), LAMBDA t : t[1] = "ip") = EnumMarks(c.els)


====
