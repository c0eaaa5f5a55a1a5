------------------------------- MODULE CmdEnv -------------------------------
(***************************************************************************)
(* How package cmd keeps lists and maps in environment variables          *)
(* (src/cmd/wr/tex.go, lines 734-829).  A list is its elements joined by  *)
(* '\b' (rc's '\001' is read as '\b'); a map is, for each key in Go's map *)
(* iteration order, '\a' followed by the list of the key and its values.  *)
(* GetEnvList, SetEnvList, GetEnvMap and SetEnvMap pass these encodings   *)
(* through GetEnv and SetEnv (modelled in CmdCtx).                        *)
(*                                                                         *)
(* A string is a sequence of characters; Bel, Bs and Soh stand for '\a',  *)
(* '\b' and '\001'.  A map is a function from its keys to their lists.    *)
(***************************************************************************)
EXTENDS Naturals, Sequences, TLC

LOCAL Str == INSTANCE ZxPath
LOCAL SX == INSTANCE SequencesExt

Bel == "\\a"
Bs == "\\b"
Soh == "\\001"

\* strings.Replace(s, "\001", "\b", -1).
SohToBs(s) == [i \in DOMAIN s |-> IF s[i] = Soh THEN Bs ELSE s[i]]

\* EnvList without the test for "".
EnvListSplitAll(val) == Str!Split(SohToBs(val), Bs)

\* EnvList: "" is the empty list, else the '\b'-separated elements.
EnvList(val) ==
    IF val = <<>> THEN <<>> ELSE Str!Split(SohToBs(val), Bs)

\* ListEnv: strings.Join(lst, "\b").
ListEnv(lst) == Str!Join(lst, Bs)

\* IsEnvMap: the value holds a '\a'.
IsEnvMap(value) == Bel \in SX!ToSet(value)

\* MapEnv joining the entries with '\a' instead of starting each with it.
MapEnvJoined(m, order) ==
    Str!Join([i \in DOMAIN order |-> ListEnv(<<order[i]>> \o m[order[i]])], Bel)

\* MapEnv, for one iteration order of the map (a sequence of its keys).
MapEnv(m, order) ==
    SX!FoldLeft(LAMBDA s, k : s \o <<Bel>> \o ListEnv(<<k>> \o m[k]), <<>>, order)

\* EnvMap: the '\a'-separated tokens after the first, each a list whose
\* head is the key; empty lists are skipped, a later key wins.
EnvMap(env) ==
    IF env = <<>> THEN <<>>
    ELSE LET toks == Tail(Str!Split(env, Bel))
             add(m, t) == LET lst == EnvList(t) IN
                          IF lst = <<>> THEN m ELSE (lst[1] :> Tail(lst)) @@ m
         IN SX!FoldLeft(add, <<>>, toks)

\* The list and map accessors, on an environment env, a function from
\* variable names to values: GetEnv(v) is env[v], SetEnv(v, x) sets it.
GetEnvList(env, v) == EnvList(env[v])
GetEnvMap(env, v) == EnvMap(env[v])
SetEnvList(env, v, val) == [env EXCEPT ![v] = ListEnv(val)]
SetEnvMap(env, v, m, order) == [env EXCEPT ![v] = MapEnv(m, order)]


-----------------------------------------------------------------------------
(* The command search path (Path and LookPath, lines 761-796).  A         *)
(* directory or command name is a string of the characters of ZxPath.     *)
(* The file system is os, a record of the process's working directory pwd *)
(* and fs, a function from absolute clean paths to "exec" (an executable  *)
(* file), "file" (one without execute bits) or "dir"; a path not in its    *)
(* domain does not exist.                                                 *)

Colon == ":"

\* /bin and /usr/bin, written "/b" and "/u".
Bin == <<"/", "b">>
UsrBin == <<"/", "u">>

\* Path: the list in $path, else $PATH split at ':', else the default.
Path(pathv, ospath) ==
    LET pval == EnvList(pathv)
        osp == Str!Split(ospath, Colon)
    IN CASE pval # <<>> -> pval
         [] osp # <<>>  -> osp
         [] OTHER       -> <<Bin, UsrBin, Str!Dot>>

\* path.Join(d, cmd): the non-empty elements joined by '/', cleaned.
PathJoin(d, cmd) == IF d = <<>> THEN Str!Clean(cmd) ELSE Str!Clean(d \o <<"/">> \o cmd)

\* AbsPath is not in the repository: it is taken to clean a rooted path
\* and to join any other to the context's dot.
AbsPath(cmd, dot) == IF cmd[1] = "/" THEN Str!Clean(cmd) ELSE PathJoin(dot, cmd)

\* The mode test that also accepts a directory with execute bits.
IsExecDir(os, p) ==
    LET a == IF p[1] = "/" THEN p ELSE PathJoin(os.pwd, p)
    IN a \in DOMAIN os.fs /\ os.fs[a] \in {"exec", "dir"}

\* os.Stat(p) succeeds, the file is not a directory and has an execute
\* bit; os resolves a relative p against the process's working directory.
IsExec(os, p) ==
    LET a == IF p[1] = "/" THEN p ELSE PathJoin(os.pwd, p)
    IN a \in DOMAIN os.fs /\ os.fs[a] = "exec"

\* LookPath: a name starting with /, ./ or ../ is its AbsPath if that is
\* executable; any other is joined to each directory of Path in turn,
\* and the first executable join is returned; "" if there is none.
LookPath(cmd, pathv, ospath, dot, os) ==
    IF \E pre \in {<<"/">>, <<".", "/">>, <<".", ".", "/">>} : SX!IsPrefix(pre, cmd)
    THEN IF IsExec(os, AbsPath(cmd, dot)) THEN AbsPath(cmd, dot) ELSE <<>>
    ELSE LET dirs == Path(pathv, ospath)
             cands == [i \in DOMAIN dirs |-> PathJoin(dirs[i], cmd)]
             i == SX!SelectInSeq(cands, LAMBDA p : IsExec(os, p))
         IN IF i = 0 THEN <<>> ELSE cands[i]

=============================================================================
