------------------------------ MODULE MCServer ------------------------------
(* Server with two environments and two events, two revisions of one pull     *)
(* request and a second pull request; two tabs, of which one shows a status   *)
(* page; two webhooks, a destruction and a rebuild; every event of GitHub     *)
(* with at most two things wrong; an environment of the user with a row and   *)
(* one of somebody else, destroyed; every search by at most three parameters. *)
EXTENDS Server, TLC

CONSTANTS n1, n2, e1, e2, t1, t2, w1, w2, b1, k1

Data(repo, pr, sha, user) ==
    [repo |-> repo, pull_request |-> pr, source_sha |-> sha, source_branch |-> sha,
     username |-> user, source_ref |-> repo]

MCRepoData == {Data("r1", 1, "a", "u"), Data("r1", 1, "b", "v"), Data("r2", 1, "a", "v")}
MCNames == {n1, n2}
MCEventIDs == {e1, e2}
MCTimes == {2, 4}
MCNow == 3
MCSlices ==
    {<<[release |-> "x", revision_sha |-> "a"], [release |-> "y", revision_sha |-> "a"]>>}
MCTrees == {("x" :> [image |-> "none", chart |-> "waiting"])}

\* At most three parameters are given; the interval never ends at a time of creation.
MCSearches ==
    {o \in [Pr : {NULL, 1}, Repo : {NULL, "r1"}, Repos : {{}, {"r1", "r2"}},
            SourceSHA : {NULL, "a"}, SourceBranch : {NULL, "b"}, User : {NULL, "v"},
            Status : {NULL, "Success"}, Statuses : {{}, {"Spawned", "Failure"}},
            CreatedSince : {NULL, 0}, TrackingRef : {NULL, "r1"}] :
        LET given == {f \in DOMAIN o \ {"Repos", "Statuses"} : o[f] # NULL}
                        \cup {f \in {"Repos", "Statuses"} : o[f] # {}}
        IN  Cardinality(given) <= 3}

Wrong(e) ==
    {f \in {"signed", "json", "targeted", "sha", "branch"} :
        ~e[f] /\ (e.type = "pull_request" \/ f \notin {"sha", "branch"})}
    \cup {f \in {"fork"} : e.fork} \cup {f \in {"delivery"} : e.delivery = "bad"}
    \cup {f \in {"acyl"} : e.acyl # "found"}

\* An event that is not one of a pull request has neither commit nor branch nor fork.
MCEvents ==
    {e \in [type : {"pull_request", "check", "other", NULL},
            action : {"opened", "reopened", "synchronize", "closed", "labeled"},
            signed : BOOLEAN, json : BOOLEAN, delivery : {"id", "bad"}, fork : BOOLEAN,
            targeted : BOOLEAN, sha : BOOLEAN, branch : BOOLEAN,
            acyl : {"found", "missing", "malformed"}] :
        /\ Cardinality(Wrong(e)) <= 2
        /\ e.type # "pull_request" => ~e.sha /\ ~e.branch /\ ~e.fork}

Record(repo, user, status_, created_) ==
    [status |-> status_, created |-> created_, raw_events |-> {}, marks |-> {}, event_ids |-> {},
     data |-> Data(repo, 1, "a", user)]
EventLog(name, document) ==
    [env_name |-> name, delivery |-> NULL, repo |-> "r1", pull_request |-> 1, log |-> <<>>,
     status |-> document]
Done == [status |-> "done", tree |-> ("x" :> [image |-> "none", chart |-> "done"])]

\* Of half an hour and of eight days ago.
MCDatabases ==
    {[qa_environments |-> (a :> Record("r1", "u", "Success", c))
                             @@ (b :> Record("r2", "v", "Destroyed", 399)),
      kubernetes_environments |-> (a :> [namespace |-> "ns"]),
      event_logs |-> (e :> EventLog(a, Done)) @@ (f :> EventLog(b, NULL))] :
        a \in {n1}, b \in {n2}, e \in {e1}, f \in {e2}, c \in {399, 20}}

Parameters ==
    [repo |-> {<<"">>, <<"r1">>, <<"r1", "r2">>}, pr |-> {<<"1">>, <<"x">>},
     status |-> {<<"destroyed">>, <<"Destroyed">>, <<"success">>, <<"x">>},
     user |-> {<<"">>, <<"u">>}, tracking_ref |-> {<<"">>, <<"r1">>}, other |-> {<<"x">>},
     source_sha |-> {<<"a">>}]
MCQueries ==
    UNION {{q \in [P -> UNION {Parameters[p] : p \in P}] : \A p \in P : q[p] \in Parameters[p]} :
              P \in {S \in SUBSET DOMAIN Parameters : Cardinality(S) <= 3}}
MCHistories == {NULL, 0, 1, 400}

Symmetric == Permutations(MCNames) \cup Permutations(MCEventIDs) \cup Permutations({w1, w2})
=============================================================================
