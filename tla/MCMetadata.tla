----------------------------- MODULE MCMetadata -----------------------------
(* Instances of Configuration for TLC: a triggering repository and two       *)
(* others, which may depend on each other in every direction; and the files  *)
(* of two operations with two charts, one of them with a directory, a link   *)
(* in it and a vars file.                                                    *)
EXTENDS Configuration, TLC

CONSTANTS lib, sub

RepoDep(repo, requires, match, default) ==
    [kind |-> "repo", repo |-> repo, name |-> <<repo>>, requires |-> requires,
     match |-> match, default |-> default,
     ref |-> None, branch |-> None, parent |-> None]

Plain(repo) == RepoDep(repo, <<>>, TRUE, None)

PathDep(name, requires) ==
    [Plain(None) EXCEPT !.kind = "path", !.name = <<name>>, !.requires = requires]

ChartDep(name, ref) ==
    [Plain(None) EXCEPT !.kind = "repoPath", !.name = <<name>>, !.ref = ref]

x == PathDep("x", <<>>)

\* The ways to depend on lib
LibDeps == {RepoDep(lib, <<>>, m, b) : m \in BOOLEAN, b \in {None, "dev"}}

AppDirect ==
    {<<>>, <<x>>, <<Plain(sub), ChartDep("y", "tag")>>, <<ChartDep("y", None)>>,
     <<PathDep(App, <<>>)>>, <<PathDep("w", <<<<"x">>>>), PathDep("x", <<<<"w">>>>)>>,
     <<[x EXCEPT !.match = FALSE]>>, <<[x EXCEPT !.kind = "bad"]>>}
    \cup {<<d>> : d \in LibDeps}
    \cup {<<PathDep("x", <<<<lib>>>>), d>> : d \in LibDeps}
    \cup {<<d, PathDep("w", <<<<lib>>>>)>> : d \in LibDeps}
    \cup {<<d, Plain(sub)>> : d \in LibDeps}

AppEnv == {<<>>, <<Plain(sub)>>, <<PathDep("w", <<<<lib>>>>)>>}

LibDirect ==
    {<<>>, <<x, PathDep("z", <<<<"x">>>>)>>, <<PathDep("z", <<<<sub>>>>), Plain(sub)>>,
     <<PathDep("z", <<<<"w">>>>)>>, <<Plain(App)>>}

SubDirect == {<<>>, <<x>>, <<Plain(lib)>>}

Yaml(direct, env) == [direct |-> direct, env |-> env]

SmallWorlds ==
    [yaml : {App :> a @@ lib :> l @@ sub :> s :
                a \in {Yaml(ds, es) : ds \in AppDirect, es \in AppEnv},
                l \in {Yaml(ds, <<>>) : ds \in LibDirect} \cup {None},
                s \in {Yaml(ds, <<x>>) : ds \in SubDirect}},
     branches : {App :> {Source, Base} @@ lib :> l @@ sub :> s :
                    l \in SUBSET {Source, Base, "dev"},
                    s \in {{Base}, {Source, Base}}},
     overrides : {{}, {lib}}]
TwoCharts == {"0", "1"}
Small ==
    "0" :> (<<"chart">> :> <<>>)
    @@ "1" :> (<<"dir", "x">> :> <<>> @@ <<"dir", "link">> :> <<"x">>)
=============================================================================
