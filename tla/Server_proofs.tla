---------------------------- MODULE Server_proofs ----------------------------
(***************************************************************************)
(* The parts of Server, each from the inductive invariant of its own        *)
(* variables: whatever another part does leaves them alone.                 *)
(***************************************************************************)
EXTENDS Server, FiniteSetTheorems, TLAPS

----------------------------------------------------------------------------
(* That the two data layers give the same answers, for any environments,    *)
(* logs, values and searches: each table is the map of the other layer, up  *)
(* to the columns that only Postgres has and to the status that a log has   *)
(* in memory before it has one in Postgres.                                 *)

\* Two functions, of which it does not matter how they were written.
Same(table, map) == DOMAIN table = DOMAIN map /\ \A k \in DOMAIN map : table[k] = map[k]

Columns == {"status", "data", "created", "ref_map", "commit_sha_map", "amino_service_to_port",
            "amino_kubernetes_namespace", "amino_environment_id", "raw_events"}

LogColumns == {"env_name", "delivery", "repo", "pull_request", "log"}

\* An environment has the same columns in both layers.
RecordMatches(r, e) ==
    /\ DOMAIN e = Columns /\ Columns \cup {"event_ids"} \subseteq DOMAIN r
    /\ \A c \in Columns : e[c] = r[c]
    /\ e.data \in RepoData /\ e.created \in Times

RecordsMatch ==
    /\ DOMAIN qa_environments = DOMAIN d /\ DOMAIN d \subseteq Names /\ IsFiniteSet(DOMAIN d)
    /\ \A n \in DOMAIN d : RecordMatches(qa_environments[n], d[n])

RowsMatch ==
    /\ Same(kubernetes_environments, k8s) /\ Same(helm_releases, helm)
    /\ \A n \in DOMAIN helm : helm[n] = [i \in DOMAIN helm[n] |-> helm[n][i]]
    /\ DOMAIN k8s \subseteq DOMAIN d /\ DOMAIN helm \subseteq DOMAIN d

\* A log has the same columns, and the same status once Postgres has one.
LogMatches(r, e) ==
    /\ DOMAIN e = LogColumns \cup {"status"} /\ LogColumns \cup {"status"} \subseteq DOMAIN r
    /\ \A c \in LogColumns : e[c] = r[c]
    /\ r.status # NULL => e.status = r.status

LogsMatch ==
    /\ DOMAIN event_logs = DOMAIN elogs
    /\ \A id \in DOMAIN elogs : LogMatches(event_logs[id], elogs[id])

\* An environment knows the logs that have its name.
LogsNamed ==
    /\ group \notin {"logs", "status", "tree"} => DOMAIN elogs = {}
    /\ \A id \in DOMAIN elogs :
          elogs[id].env_name # NULL =>
              /\ elogs[id].env_name \in DOMAIN d
              /\ id \in qa_environments[elogs[id].env_name].event_ids

SessionsMatch == sequence \in Nat /\ Same(ui_sessions, uisessions)

\* Of two files that can be read, the one of the rows is not younger than the one of the
\* records, and no record has gone since they were saved.
FilesMatch ==
    /\ DOMAIN files = 1..4
    /\ DOMAIN k8s \cup DOMAIN helm \subseteq DOMAIN d
    /\ \A i \in 1..3 : files[i] \notin {NULL, Torn} =>
          /\ DOMAIN files[i] \subseteq DOMAIN d
          /\ files[1] \notin {NULL, Torn} => DOMAIN files[i] \subseteq DOMAIN files[1]
    /\ DOMAIN kubernetes_environments \cup DOMAIN helm_releases \subseteq DOMAIN qa_environments

LayersInv ==
    /\ group \in Groups
    /\ group # "local" => RecordsMatch /\ RowsMatch /\ LogsMatch /\ LogsNamed /\ SessionsMatch
    /\ group = "local" => FilesMatch

----------------------------------------------------------------------------
(* Tables and maps.                                                         *)

LEMMA SameInsert ==
    ASSUME NEW table, NEW map, Same(table, map), NEW key, key \notin DOMAIN map, NEW value
    PROVE  Same(PG!Insert(table, key, value), Fake!Put(map, key, value))
BY DEF Same, PG!Insert, Fake!Put

LEMMA SameUpdate ==
    ASSUME NEW table, NEW map, Same(table, map), NEW key, NEW column, NEW value
    PROVE  Same(PG!Update(table, key, column, value), Fake!PutField(map, key, column, value))
BY DEF Same, PG!Update, Fake!PutField

LEMMA SameDelete ==
    ASSUME NEW table, NEW map, Same(table, map), NEW keys
    PROVE  Same(PG!Delete(table, keys), Fake!Drop(map, keys))
BY DEF Same, PG!Delete, Fake!Drop

\* What remains of records that match.
LEMMA DeleteMatches ==
    ASSUME NEW table, NEW map, DOMAIN table = DOMAIN map, NEW keys
    PROVE  /\ DOMAIN PG!Delete(table, keys) = DOMAIN map \ keys
           /\ DOMAIN Fake!Drop(map, keys) = DOMAIN map \ keys
           /\ \A k \in DOMAIN map \ keys : /\ PG!Delete(table, keys)[k] = table[k]
                                          /\ Fake!Drop(map, keys)[k] = map[k]
BY DEF PG!Delete, Fake!Drop

\* An assignment to one column of one key.
LEMMA UpdateMatches ==
    ASSUME NEW table, NEW map, DOMAIN table = DOMAIN map, NEW key, NEW column, NEW value
    PROVE  /\ DOMAIN PG!Update(table, key, column, value) = DOMAIN map
           /\ DOMAIN Fake!PutField(map, key, column, value) = DOMAIN map
           /\ \A k \in DOMAIN map :
                 /\ PG!Update(table, key, column, value)[k] =
                       IF k = key THEN [table[k] EXCEPT ![column] = value] ELSE table[k]
                 /\ Fake!PutField(map, key, column, value)[k] =
                       IF k = key THEN [map[k] EXCEPT ![column] = value] ELSE map[k]
BY DEF PG!Update, Fake!PutField

\* A sequence is a function, and nothing comes before it.
LEMMA Slice ==
    ASSUME NEW s \in Slices
    PROVE  /\ s # <<>> /\ <<>> \o s = s
           /\ s = [i \in DOMAIN s |-> s[i]]
<1> DEFINE S == {s[i] : i \in DOMAIN s}
<1>1. s \in Seq(S) /\ s # <<>>
    BY LayersAssumption
<1> HIDE DEF S
<1> QED BY <1>1

\* The operator that each layer has from its own FiniteSets.
LEMMA SameCardinality ==
    ASSUME NEW S
    PROVE  Fake!Cardinality(S) = Cardinality(S) /\ PG!Cardinality(S) = Cardinality(S)
BY DEF Fake!Cardinality, PG!Cardinality, Cardinality

----------------------------------------------------------------------------
(* Records.                                                                 *)

LEMMA RecordsKept ==
    ASSUME RecordsMatch, NEW name,
           DOMAIN qa_environments' = DOMAIN d, DOMAIN d' = DOMAIN d,
           \A n \in DOMAIN d \ {name} : qa_environments'[n] = qa_environments[n] /\ d'[n] = d[n],
           name \in DOMAIN d => RecordMatches(qa_environments'[name], d'[name])
    PROVE  RecordsMatch'
<1>1. ASSUME NEW n \in DOMAIN d PROVE RecordMatches(qa_environments'[n], d'[n])
    BY <1>1 DEF RecordsMatch
<1> QED BY <1>1 DEF RecordsMatch

LEMMA ColumnMatches ==
    ASSUME NEW r, NEW e, RecordMatches(r, e), NEW column \in Columns, NEW value,
           column = "data" => value \in RepoData, column = "created" => value \in Times
    PROVE  RecordMatches([r EXCEPT ![column] = value], [e EXCEPT ![column] = value])
BY DEF RecordMatches, Columns

LEMMA SetColumnMatches ==
    ASSUME RecordsMatch, NEW name, NEW column \in Columns, NEW value,
           column = "data" => value \in RepoData, column = "created" => value \in Times,
           PG!SetColumn(name, column, value), Fake!SetField(name, column, value)
    PROVE  RecordsMatch'
<1>1. DOMAIN qa_environments = DOMAIN d
    BY DEF RecordsMatch
<1>2. /\ DOMAIN qa_environments' = DOMAIN d /\ DOMAIN d' = DOMAIN d
      /\ \A n \in DOMAIN d :
            /\ qa_environments'[n] = IF n = name THEN [qa_environments[n] EXCEPT ![column] = value]
                                     ELSE qa_environments[n]
            /\ d'[n] = IF n = name THEN [d[n] EXCEPT ![column] = value] ELSE d[n]
    BY <1>1, UpdateMatches DEF PG!SetColumn, Fake!SetField
<1>3. ASSUME name \in DOMAIN d PROVE RecordMatches(qa_environments'[name], d'[name])
    <2>1. RecordMatches(qa_environments[name], d[name])
        BY <1>3 DEF RecordsMatch
    <2>2. RecordMatches([qa_environments[name] EXCEPT ![column] = value],
                        [d[name] EXCEPT ![column] = value])
        BY <2>1, ColumnMatches
    <2> QED BY <1>2, <1>3, <2>2
<1> QED BY <1>2, <1>3, RecordsKept

LEMMA CreateMatches ==
    ASSUME RecordsMatch, NEW n \in Names, NEW r \in RepoData, NEW t \in Times, n \notin DOMAIN d,
           PG!CreateQAEnvironment(n, r, t), Fake!CreateQAEnvironment(n, r, t)
    PROVE  /\ RecordsMatch' /\ DOMAIN d' = DOMAIN d \cup {n}
           /\ \A m \in DOMAIN d : qa_environments'[m] = qa_environments[m]
<1>1. DOMAIN qa_environments = DOMAIN d
    BY DEF RecordsMatch
<1>2. /\ DOMAIN qa_environments' = DOMAIN d \cup {n} /\ DOMAIN d' = DOMAIN d \cup {n}
      /\ \A m \in DOMAIN d : qa_environments'[m] = qa_environments[m] /\ d'[m] = d[m]
    BY <1>1 DEF PG!CreateQAEnvironment, PG!Insert, Fake!CreateQAEnvironment, Fake!Put
<1>3. RecordMatches(qa_environments'[n], d'[n])
    <2> DEFINE e == [status |-> "Spawned", data |-> r, created |-> t,
                     ref_map |-> NULL, commit_sha_map |-> NULL, amino_service_to_port |-> NULL,
                     amino_kubernetes_namespace |-> NULL, amino_environment_id |-> NULL,
                     raw_events |-> {}]
               newRow == [status |-> "Spawned", data |-> r, created |-> t,
                       ref_map |-> NULL, commit_sha_map |-> NULL, amino_service_to_port |-> NULL,
                       amino_kubernetes_namespace |-> NULL, amino_environment_id |-> NULL,
                       raw_events |-> {}, marks |-> {"spawned"}, event_ids |-> {}]
    <2>1. d'[n] = e
        BY <1>2 DEF Fake!CreateQAEnvironment, Fake!Put
    <2>2. qa_environments'[n] = newRow
        BY <1>1, <1>2 DEF PG!CreateQAEnvironment, PG!Insert
    <2>3. RecordMatches(newRow, e)
        BY DEF RecordMatches, Columns
    <2> QED BY <2>1, <2>2, <2>3
<1>4. IsFiniteSet(DOMAIN d \cup {n})
    BY FS_AddElement DEF RecordsMatch
<1>5. ASSUME NEW m \in DOMAIN d' PROVE RecordMatches(qa_environments'[m], d'[m])
    BY <1>2, <1>3 DEF RecordsMatch
<1> QED BY <1>2, <1>4, <1>5 DEF RecordsMatch

LEMMA StatusMatches ==
    ASSUME RecordsMatch, NEW name, NEW s,
           PG!SetQAEnvironmentStatus(name, s), Fake!SetQAEnvironmentStatus(name, s)
    PROVE  RecordsMatch' /\ DOMAIN d' = DOMAIN d
<1>1. DOMAIN qa_environments = DOMAIN d
    BY DEF RecordsMatch
<1>2. /\ DOMAIN d' = DOMAIN d
      /\ \A n \in DOMAIN d : d'[n] = IF n = name THEN [d[n] EXCEPT !["status"] = s] ELSE d[n]
    BY <1>1, UpdateMatches DEF Fake!SetQAEnvironmentStatus, Fake!SetField
<1>3. /\ DOMAIN qa_environments' = DOMAIN d
      /\ \A n \in DOMAIN d :
            qa_environments'[n] =
                IF n = name THEN [qa_environments[n] EXCEPT !.status = s, !.marks = @ \cup {s}]
                ELSE qa_environments[n]
    BY <1>1 DEF PG!SetQAEnvironmentStatus
<1>4. ASSUME name \in DOMAIN d PROVE RecordMatches(qa_environments'[name], d'[name])
    <2> DEFINE r == qa_environments[name]
               e == d[name]
    <2>1. RecordMatches(r, e)
        BY <1>4 DEF RecordsMatch
    <2>2. d'[name] = [e EXCEPT !["status"] = s]
        BY <1>2, <1>4
    <2>3. qa_environments'[name] = [r EXCEPT !.status = s, !.marks = r.marks \cup {s}]
        BY <1>3, <1>4
    <2> HIDE DEF r, e
    <2> QED BY <2>1, <2>2, <2>3 DEF RecordMatches, Columns
<1> QED BY <1>2, <1>3, <1>4, RecordsKept

\* The source_ref of a pull request does not change.
LEMMA RepoDataMatches ==
    ASSUME RecordsMatch, NEW name, NEW r \in RepoData,
           name \in DOMAIN d => d[name].data.source_ref = r.source_ref,
           PG!SetQAEnvironmentRepoData(name, r), Fake!SetQAEnvironmentRepoData(name, r)
    PROVE  RecordsMatch' /\ DOMAIN d' = DOMAIN d
<1>1. DOMAIN qa_environments = DOMAIN d
    BY DEF RecordsMatch
<1>2. /\ DOMAIN d' = DOMAIN d
      /\ \A n \in DOMAIN d : d'[n] = IF n = name THEN [d[n] EXCEPT !["data"] = r] ELSE d[n]
    BY DEF Fake!SetQAEnvironmentRepoData, Fake!SetField, Fake!PutField
<1>3. /\ DOMAIN qa_environments' = DOMAIN d
      /\ \A n \in DOMAIN d :
            qa_environments'[n] =
                IF n = name
                THEN [qa_environments[n] EXCEPT
                        !.data = [r EXCEPT !.source_ref = qa_environments[n].data.source_ref]]
                ELSE qa_environments[n]
    BY <1>1 DEF PG!SetQAEnvironmentRepoData
<1>4. [r EXCEPT !.source_ref = r.source_ref] = r
    BY LayersAssumption
<1>5. ASSUME name \in DOMAIN d PROVE RecordMatches(qa_environments'[name], d'[name])
    <2>1. RecordMatches(qa_environments[name], d[name])
        BY <1>5 DEF RecordsMatch
    <2>2. qa_environments[name].data.source_ref = r.source_ref
        BY <1>5, <2>1 DEF RecordMatches, Columns
    <2>3. qa_environments'[name] = [qa_environments[name] EXCEPT !["data"] = r]
        BY <1>3, <1>4, <1>5, <2>2
    <2>4. RecordMatches([qa_environments[name] EXCEPT !["data"] = r], [d[name] EXCEPT !["data"] = r])
        BY <2>1, ColumnMatches DEF Columns
    <2> QED BY <1>2, <1>5, <2>3, <2>4
<1> QED BY <1>2, <1>3, <1>5, RecordsKept

LEMMA EventMatches ==
    ASSUME RecordsMatch, NEW name, NEW message,
           PG!AddEvent(name, message), Fake!AddEvent(name, message)
    PROVE  RecordsMatch' /\ DOMAIN d' = DOMAIN d
<1>1. DOMAIN qa_environments = DOMAIN d
    BY DEF RecordsMatch
<1>2. /\ DOMAIN qa_environments' = DOMAIN d
      /\ \A n \in DOMAIN d :
            qa_environments'[n] =
                IF n = name
                THEN [qa_environments[n] EXCEPT !.raw_events = qa_environments[n].raw_events
                                                                   \cup {message}]
                ELSE qa_environments[n]
    BY <1>1 DEF PG!AddEvent
<1>3. CASE name \notin DOMAIN d
    BY <1>2, <1>3, RecordsKept DEF Fake!AddEvent
<1>4. CASE name \in DOMAIN d
    <2> DEFINE value == d[name].raw_events \cup {message}
    <2>0. d' = Fake!PutField(d, name, "raw_events", value)
        BY <1>4 DEF Fake!AddEvent
    <2> HIDE DEF value
    <2>1. /\ DOMAIN d' = DOMAIN d
          /\ \A n \in DOMAIN d :
                d'[n] = IF n = name THEN [d[n] EXCEPT !["raw_events"] = value] ELSE d[n]
        BY <1>1, <2>0, UpdateMatches
    <2>2. RecordMatches(qa_environments[name], d[name])
        BY <1>4 DEF RecordsMatch
    <2>3. qa_environments[name].raw_events \cup {message} = value
        BY <2>2 DEF RecordMatches, Columns, value
    <2>4. qa_environments'[name] = [qa_environments[name] EXCEPT !["raw_events"] = value]
        BY <1>2, <1>4, <2>3
    <2>5. RecordMatches([qa_environments[name] EXCEPT !["raw_events"] = value],
                        [d[name] EXCEPT !["raw_events"] = value])
        BY <2>2, ColumnMatches DEF Columns
    <2>6. RecordMatches(qa_environments'[name], d'[name])
        BY <1>4, <2>1, <2>4, <2>5
    <2> QED BY <1>2, <2>1, <2>6, RecordsKept
<1> QED BY <1>3, <1>4

LEMMA NameMatches ==
    ASSUME RecordsMatch, NEW id, NEW name, PG!SetEventLogEnvName(id, name), d' = d
    PROVE  /\ RecordsMatch'
           /\ \A n \in DOMAIN d : qa_environments[n].event_ids \subseteq qa_environments'[n].event_ids
           /\ name \in DOMAIN d => id \in qa_environments'[name].event_ids
<1>1. DOMAIN qa_environments = DOMAIN d
    BY DEF RecordsMatch
<1>2. /\ DOMAIN qa_environments' = DOMAIN d
      /\ \A n \in DOMAIN d :
            qa_environments'[n] =
                IF n = name
                THEN [qa_environments[n] EXCEPT !.event_ids = qa_environments[n].event_ids \cup {id}]
                ELSE qa_environments[n]
    BY <1>1 DEF PG!SetEventLogEnvName
<1>3. ASSUME NEW n \in DOMAIN d
      PROVE  /\ RecordMatches(qa_environments'[n], d[n])
             /\ qa_environments[n].event_ids \subseteq qa_environments'[n].event_ids
             /\ n = name => id \in qa_environments'[n].event_ids
    <2> DEFINE r == qa_environments[n]
               e == d[n]
    <2>1. RecordMatches(r, e)
        BY DEF RecordsMatch
    <2>2. qa_environments'[n] = IF n = name THEN [r EXCEPT !.event_ids = r.event_ids \cup {id}]
                                ELSE r
        BY <1>2
    <2> HIDE DEF r, e
    <2>3. RecordMatches([r EXCEPT !.event_ids = r.event_ids \cup {id}], e)
          /\ [r EXCEPT !.event_ids = r.event_ids \cup {id}].event_ids = r.event_ids \cup {id}
        BY <2>1 DEF RecordMatches, Columns
    <2> QED BY <2>1, <2>2, <2>3 DEF r, e
<1> QED BY <1>2, <1>3 DEF RecordsMatch

\* The rows and releases of an environment go with its record, in both layers.
LEMMA DeleteRecordMatches ==
    ASSUME RecordsMatch, RowsMatch, NEW name,
           PG!DeleteQAEnvironment(name), Fake!DeleteQAEnvironment(name)
    PROVE  RecordsMatch' /\ RowsMatch'
<1>1. DOMAIN qa_environments = DOMAIN d
    BY DEF RecordsMatch
<1>2. PG!IsDestroyed(name) <=> name \in DOMAIN d /\ d[name].status = "Destroyed"
    BY DEF PG!IsDestroyed, RecordsMatch, RecordMatches, Columns
<1>3. CASE ~PG!IsDestroyed(name)
    <2>1. UNCHANGED <<d, k8s, helm, qa_environments, kubernetes_environments, helm_releases>>
        BY <1>2, <1>3 DEF PG!DeleteQAEnvironment, Fake!DeleteQAEnvironment
    <2> QED BY <2>1 DEF RecordsMatch, RowsMatch, Same
<1>4. CASE PG!IsDestroyed(name)
    <2>1. /\ qa_environments' = PG!Delete(qa_environments, {name}) /\ d' = Fake!Drop(d, {name})
          /\ kubernetes_environments' = PG!Delete(kubernetes_environments, {name})
          /\ k8s' = Fake!Drop(k8s, {name})
          /\ helm_releases' = PG!Delete(helm_releases, {name}) /\ helm' = Fake!Drop(helm, {name})
        BY <1>2, <1>4 DEF PG!DeleteQAEnvironment, Fake!DeleteQAEnvironment
    <2>2. /\ DOMAIN qa_environments' = DOMAIN d \ {name} /\ DOMAIN d' = DOMAIN d \ {name}
          /\ \A n \in DOMAIN d \ {name} : qa_environments'[n] = qa_environments[n] /\ d'[n] = d[n]
        BY <1>1, <2>1 DEF PG!Delete, Fake!Drop
    <2>3. IsFiniteSet(DOMAIN d \ {name})
        BY FS_RemoveElement DEF RecordsMatch
    <2>4. RecordsMatch'
        BY <2>2, <2>3 DEF RecordsMatch
    <2>5. Same(kubernetes_environments', k8s') /\ Same(helm_releases', helm')
        BY <2>1, SameDelete DEF RowsMatch
    <2>6. /\ DOMAIN k8s' = DOMAIN k8s \ {name} /\ DOMAIN helm' = DOMAIN helm \ {name}
          /\ \A n \in DOMAIN helm' : helm'[n] = helm[n]
        BY <2>1 DEF Fake!Drop
    <2>7. RowsMatch'
        BY <2>2, <2>5, <2>6 DEF RowsMatch
    <2> QED BY <2>4, <2>7
<1> QED BY <1>3, <1>4

\* The records may change or become more.
LEMMA RowsKept ==
    ASSUME RowsMatch, UNCHANGED <<k8s, helm, kubernetes_environments, helm_releases>>,
           DOMAIN d \subseteq DOMAIN d'
    PROVE  RowsMatch'
BY DEF RowsMatch, Same

----------------------------------------------------------------------------
(* Rows and releases.                                                       *)

LEMMA K8sMatches ==
    ASSUME RowsMatch, UNCHANGED <<d, helm, helm_releases>>,
           Same(kubernetes_environments', k8s'), DOMAIN k8s' \subseteq DOMAIN d
    PROVE  RowsMatch'
BY DEF RowsMatch

LEMMA ReleasesMatch ==
    ASSUME RowsMatch, UNCHANGED <<d, k8s, kubernetes_environments>>,
           Same(helm_releases', helm'), DOMAIN helm' \subseteq DOMAIN d,
           \A n \in DOMAIN helm' : helm'[n] = [i \in DOMAIN helm'[n] |-> helm'[n][i]]
    PROVE  RowsMatch'
BY DEF RowsMatch

LEMMA RowMatches ==
    ASSUME RecordsMatch, RowsMatch, Rows \/ DeleteRow
    PROVE  RowsMatch'
<1> SUFFICES ASSUME NEW n, NEW v,
                    \/ /\ n \notin DOMAIN k8s
                       /\ PG!CreateK8sEnv(n, RowOf(v)) /\ Fake!CreateK8sEnv(n, RowOf(v))
                    \/ PG!UpdateK8sEnvTillerAddr(n, v) /\ Fake!UpdateK8sEnvTillerAddr(n, v)
                    \/ /\ PG!UpdateK8sEnvConfigSignature(n, v)
                       /\ Fake!UpdateK8sEnvConfigSignature(n, v)
                    \/ PG!DeleteK8sEnv(n) /\ Fake!DeleteK8sEnv(n)
             PROVE  RowsMatch'
    BY DEF Rows, DeleteRow
<1>1. UNCHANGED <<d, helm, helm_releases>>
    BY DEF PG!CreateK8sEnv, PG!UpdateK8sEnvTillerAddr, PG!UpdateK8sEnvConfigSignature,
           PG!DeleteK8sEnv, PG!OnlyK8s, Fake!CreateK8sEnv, Fake!UpdateK8sEnvTillerAddr,
           Fake!UpdateK8sEnvConfigSignature, Fake!DeleteK8sEnv, Fake!OnlyK8s
<1>2. /\ DOMAIN qa_environments = DOMAIN d /\ DOMAIN k8s \subseteq DOMAIN d
      /\ Same(kubernetes_environments, k8s)
      /\ DOMAIN kubernetes_environments = DOMAIN k8s
    BY DEF RecordsMatch, RowsMatch, Same
<1>3. CASE n \notin DOMAIN k8s /\ PG!CreateK8sEnv(n, RowOf(v)) /\ Fake!CreateK8sEnv(n, RowOf(v))
    <2>1. CASE n \in DOMAIN d
        <3>1. /\ kubernetes_environments' = PG!Insert(kubernetes_environments, n, RowOf(v))
              /\ k8s' = Fake!Put(k8s, n, RowOf(v))
            BY <1>2, <1>3, <2>1 DEF PG!CreateK8sEnv, Fake!CreateK8sEnv
        <3>2. Same(kubernetes_environments', k8s')
            BY <1>2, <1>3, <3>1, SameInsert
        <3>3. DOMAIN k8s' = DOMAIN k8s \cup {n}
            BY <3>1 DEF Fake!Put
        <3> QED BY <1>1, <1>2, <2>1, <3>2, <3>3, K8sMatches
    <2>2. CASE n \notin DOMAIN d
        BY <1>1, <1>2, <1>3, <2>2, K8sMatches DEF PG!CreateK8sEnv, Fake!CreateK8sEnv
    <2> QED BY <2>1, <2>2
<1>4. ASSUME NEW c, kubernetes_environments' = PG!Update(kubernetes_environments, n, c, v),
             k8s' = Fake!PutField(k8s, n, c, v)
      PROVE  RowsMatch'
    <2>1. Same(kubernetes_environments', k8s')
        BY <1>2, <1>4, SameUpdate
    <2>2. DOMAIN k8s' = DOMAIN k8s
        BY <1>2, <1>4, UpdateMatches
    <2> QED BY <1>1, <1>2, <2>1, <2>2, K8sMatches
<1>5. CASE PG!DeleteK8sEnv(n) /\ Fake!DeleteK8sEnv(n)
    <2>1. Same(kubernetes_environments', k8s')
        BY <1>2, <1>5, SameDelete DEF PG!DeleteK8sEnv, Fake!DeleteK8sEnv
    <2>2. DOMAIN k8s' \subseteq DOMAIN k8s
        BY <1>5 DEF Fake!DeleteK8sEnv, Fake!Drop
    <2> QED BY <1>1, <1>2, <2>1, <2>2, K8sMatches
<1>6. CASE PG!UpdateK8sEnvTillerAddr(n, v) /\ Fake!UpdateK8sEnvTillerAddr(n, v)
    BY <1>4, <1>6 DEF PG!UpdateK8sEnvTillerAddr, Fake!UpdateK8sEnvTillerAddr
<1>7. CASE PG!UpdateK8sEnvConfigSignature(n, v) /\ Fake!UpdateK8sEnvConfigSignature(n, v)
    BY <1>4, <1>7 DEF PG!UpdateK8sEnvConfigSignature, Fake!UpdateK8sEnvConfigSignature
<1> QED BY <1>3, <1>5, <1>6, <1>7

LEMMA ReleaseMatches ==
    ASSUME RecordsMatch, RowsMatch, Releases
    PROVE  RowsMatch'
<1>1. /\ DOMAIN qa_environments = DOMAIN d /\ DOMAIN helm \subseteq DOMAIN d
      /\ Same(helm_releases, helm) /\ DOMAIN helm_releases = DOMAIN helm
      /\ \A n \in DOMAIN helm : helm[n] = [i \in DOMAIN helm[n] |-> helm[n][i]]
      /\ \A n \in DOMAIN helm : helm_releases[n] = helm[n]
    BY DEF RecordsMatch, RowsMatch, Same
<1>2. ASSUME NEW n, NEW s \in Slices, n \notin DOMAIN helm,
             PG!CreateHelmReleasesForEnv(n, s), Fake!CreateHelmReleasesForEnv(n, s)
      PROVE  RowsMatch'
    <2>1. UNCHANGED <<d, k8s, kubernetes_environments>>
        BY <1>2 DEF PG!CreateHelmReleasesForEnv, PG!OnlyReleases, Fake!CreateHelmReleasesForEnv,
                    Fake!OnlyHelm
    <2>2. CASE n \in DOMAIN d
        <3>1. helm' = Fake!Put(helm, n, s)
            BY <1>2, <2>2, Slice DEF Fake!CreateHelmReleasesForEnv
        <3>2. helm_releases' = [m \in DOMAIN helm \cup {n} |-> IF m = n THEN s ELSE helm_releases[m]]
            <4>1. PG!GetHelmReleasesForEnv(n) \o s = s
                BY <1>1, <1>2, Slice DEF PG!GetHelmReleasesForEnv
            <4> QED BY <1>1, <1>2, <2>2, <4>1 DEF PG!CreateHelmReleasesForEnv
        <3>3. /\ DOMAIN helm' = DOMAIN helm \cup {n} /\ helm'[n] = s
              /\ \A m \in DOMAIN helm : helm'[m] = helm[m]
            BY <1>2, <3>1 DEF Fake!Put
        <3>4. Same(helm_releases', helm')
            BY <1>1, <1>2, <3>2, <3>3 DEF Same
        <3>5. s = [i \in DOMAIN s |-> s[i]]
            BY Slice
        <3>6. ASSUME NEW m \in DOMAIN helm'
              PROVE  helm'[m] = [i \in DOMAIN helm'[m] |-> helm'[m][i]]
            <4>1. CASE m = n
                BY <3>3, <3>5, <4>1
            <4>2. CASE m \in DOMAIN helm
                BY <1>1, <3>3, <4>2
            <4> QED BY <3>3, <4>1, <4>2
        <3> QED BY <1>1, <2>1, <2>2, <3>3, <3>4, <3>6, ReleasesMatch
    <2>3. CASE n \notin DOMAIN d
        BY <1>1, <1>2, <2>1, <2>3, RowsKept DEF PG!CreateHelmReleasesForEnv,
                                                Fake!CreateHelmReleasesForEnv
    <2> QED BY <2>2, <2>3
<1>3. ASSUME NEW n, NEW r, NEW v,
             PG!UpdateHelmReleaseRevision(n, r, v), Fake!UpdateHelmReleaseRevision(n, r, v)
      PROVE  RowsMatch'
    <2>1. UNCHANGED <<d, k8s, kubernetes_environments>>
        BY <1>3 DEF PG!UpdateHelmReleaseRevision, PG!OnlyReleases, Fake!UpdateHelmReleaseRevision,
                    Fake!OnlyHelm
    <2> DEFINE Revised(s) == [i \in DOMAIN s |-> IF s[i].release = r
                                                 THEN [s[i] EXCEPT !.revision_sha = v] ELSE s[i]]
    <2>2. /\ DOMAIN helm_releases' = DOMAIN helm
          /\ \A m \in DOMAIN helm : m # n => helm_releases'[m] = helm[m]
          /\ n \in DOMAIN helm => helm_releases'[n] = Revised(helm[n])
        BY <1>1, <1>3 DEF PG!UpdateHelmReleaseRevision
    <2>3. /\ DOMAIN helm' = DOMAIN helm
          /\ \A m \in DOMAIN helm : m # n => helm'[m] = helm[m]
          /\ n \in DOMAIN helm => helm'[n] = Revised(helm[n])
        BY <1>3 DEF Fake!UpdateHelmReleaseRevision, Fake!Put
    <2>4. ASSUME NEW s PROVE Revised(s) = [i \in DOMAIN Revised(s) |-> Revised(s)[i]]
        OBVIOUS
    <2> HIDE DEF Revised
    <2>5. Same(helm_releases', helm')
        BY <2>2, <2>3 DEF Same
    <2>6. ASSUME NEW m \in DOMAIN helm'
          PROVE  helm'[m] = [i \in DOMAIN helm'[m] |-> helm'[m][i]]
        <3>1. CASE m = n
            BY <2>3, <2>4, <3>1
        <3>2. CASE m # n
            BY <1>1, <2>3, <3>2
        <3> QED BY <3>1, <3>2
    <2> QED BY <1>1, <2>1, <2>3, <2>5, <2>6, ReleasesMatch
<1>4. ASSUME NEW n, PG!DeleteHelmReleasesForEnv(n), Fake!DeleteHelmReleasesForEnv(n)
      PROVE  RowsMatch'
    <2>1. UNCHANGED <<d, k8s, kubernetes_environments>>
        BY <1>4 DEF PG!DeleteHelmReleasesForEnv, PG!OnlyReleases, Fake!DeleteHelmReleasesForEnv,
                    Fake!OnlyHelm
    <2>2. helm_releases' = PG!Delete(helm_releases, {n}) /\ helm' = Fake!Drop(helm, {n})
        BY <1>4 DEF PG!DeleteHelmReleasesForEnv, Fake!DeleteHelmReleasesForEnv
    <2>3. Same(helm_releases', helm')
        BY <1>1, <2>2, SameDelete
    <2>4. DOMAIN helm' = DOMAIN helm \ {n} /\ \A m \in DOMAIN helm' : helm'[m] = helm[m]
        BY <1>1, <2>2 DEF Fake!Drop
    <2> QED BY <1>1, <2>1, <2>3, <2>4, ReleasesMatch
<1> QED BY <1>2, <1>3, <1>4 DEF Releases

----------------------------------------------------------------------------
(* Logs.                                                                    *)

LEMMA LogsKept ==
    ASSUME LogsMatch, NEW id,
           DOMAIN event_logs' = DOMAIN elogs, DOMAIN elogs' = DOMAIN elogs,
           \A i \in DOMAIN elogs \ {id} : event_logs'[i] = event_logs[i] /\ elogs'[i] = elogs[i],
           id \in DOMAIN elogs => LogMatches(event_logs'[id], elogs'[id])
    PROVE  LogsMatch'
<1>1. ASSUME NEW i \in DOMAIN elogs PROVE LogMatches(event_logs'[i], elogs'[i])
    BY <1>1 DEF LogsMatch
<1> QED BY <1>1 DEF LogsMatch

\* A statement that makes one log of one layer another one.
LEMMA LogChanges ==
    ASSUME LogsMatch, NEW id, NEW r, NEW e,
           event_logs' = [i \in DOMAIN event_logs |-> IF i = id THEN r ELSE event_logs[i]],
           \/ elogs' = [i \in DOMAIN elogs |-> IF i = id THEN e ELSE elogs[i]]
           \/ elogs' = elogs /\ (id \in DOMAIN elogs => e = elogs[id]),
           id \in DOMAIN elogs => LogMatches(r, e) /\ e.env_name = elogs[id].env_name
    PROVE  /\ LogsMatch' /\ DOMAIN elogs' = DOMAIN elogs
           /\ \A i \in DOMAIN elogs : elogs'[i].env_name = elogs[i].env_name
<1>1. DOMAIN event_logs = DOMAIN elogs
    BY DEF LogsMatch
<1>2. /\ DOMAIN event_logs' = DOMAIN elogs /\ DOMAIN elogs' = DOMAIN elogs
      /\ \A i \in DOMAIN elogs \ {id} : event_logs'[i] = event_logs[i] /\ elogs'[i] = elogs[i]
      /\ id \in DOMAIN elogs => event_logs'[id] = r /\ elogs'[id] = e
    BY <1>1
<1> QED BY <1>2, LogsKept

LEMMA NewLogMatches ==
    ASSUME LogsMatch, NewLog
    PROVE  /\ LogsMatch' /\ d' = d /\ qa_environments' = qa_environments
           /\ \A id \in DOMAIN elogs' : /\ id \in DOMAIN elogs => elogs'[id] = elogs[id]
                                        /\ id \notin DOMAIN elogs => elogs'[id].env_name = NULL
<1> PICK id \in EventIDs, r \in RepoData :
        /\ id \notin DOMAIN elogs
        /\ PG!CreateEventLog(id, r.source_sha, r.repo, r.pull_request)
        /\ Fake!CreateEventLog(id, r.source_sha, r.repo, r.pull_request)
    BY DEF NewLog
<1> DEFINE e == [env_name |-> NULL, delivery |-> r.source_sha, repo |-> r.repo,
                 pull_request |-> r.pull_request, log |-> <<>>, status |-> Fake!EmptyStatus]
           newRow == [env_name |-> NULL, delivery |-> r.source_sha, repo |-> r.repo,
                   pull_request |-> r.pull_request, log |-> <<>>, status |-> NULL]
<1>1. DOMAIN event_logs = DOMAIN elogs
    BY DEF LogsMatch
<1>2. /\ DOMAIN elogs' = DOMAIN elogs \cup {id} /\ elogs'[id] = e
      /\ \A i \in DOMAIN elogs : elogs'[i] = elogs[i]
    BY DEF Fake!CreateEventLog, Fake!Put
<1>3. /\ DOMAIN event_logs' = DOMAIN elogs \cup {id} /\ event_logs'[id] = newRow
      /\ \A i \in DOMAIN elogs : event_logs'[i] = event_logs[i]
    BY <1>1 DEF PG!CreateEventLog, PG!Insert
<1>4. LogMatches(newRow, e) /\ e.env_name = NULL
    BY DEF LogMatches, LogColumns
<1>5. d' = d /\ qa_environments' = qa_environments
    BY DEF PG!CreateEventLog, PG!OnlyLogs, Fake!CreateEventLog, Fake!OnlyLogs
<1> HIDE DEF e, newRow
<1>6. ASSUME NEW i \in DOMAIN elogs' PROVE LogMatches(event_logs'[i], elogs'[i])
    BY <1>2, <1>3, <1>4 DEF LogsMatch
<1> QED BY <1>2, <1>3, <1>4, <1>5, <1>6 DEF LogsMatch

\* The logs that remain.
LEMMA LogsDeleted ==
    ASSUME LogsMatch, NEW ids,
           event_logs' = PG!Delete(event_logs, ids), elogs' = Fake!Drop(elogs, ids)
    PROVE  /\ LogsMatch'
           /\ \A id \in DOMAIN elogs' : id \in DOMAIN elogs /\ elogs'[id] = elogs[id]
<1>1. DOMAIN event_logs = DOMAIN elogs
    BY DEF LogsMatch
<1>2. /\ DOMAIN event_logs' = DOMAIN elogs \ ids /\ DOMAIN elogs' = DOMAIN elogs \ ids
      /\ \A k \in DOMAIN elogs \ ids : event_logs'[k] = event_logs[k] /\ elogs'[k] = elogs[k]
    BY <1>1 DEF PG!Delete, Fake!Drop
<1> QED BY <1>2 DEF LogsMatch

\* Both layers delete the same logs.
LEMMA SameLogsSelected ==
    ASSUME LogsMatch, NEW n, NEW repo, NEW pr
    PROVE  /\ PG!GetEventLogsWithStatusByEnvName(n) = Fake!GetEventLogsByEnvName(n)
           /\ PG!GetEventLogsByRepoAndPR(repo, pr) = Fake!GetEventLogsByRepoAndPR(repo, pr)
           /\ PG!GetEventLogByDeliveryID(n) = Fake!GetEventLogByDeliveryID(n)
<1>1. \A i \in DOMAIN elogs : /\ elogs[i].env_name = event_logs[i].env_name
                             /\ elogs[i].repo = event_logs[i].repo
                             /\ elogs[i].pull_request = event_logs[i].pull_request
                             /\ elogs[i].delivery = event_logs[i].delivery
    BY DEF LogsMatch, LogMatches, LogColumns
<1>2. DOMAIN event_logs = DOMAIN elogs
    BY DEF LogsMatch
<1> QED BY <1>1, <1>2 DEF PG!GetEventLogsWithStatusByEnvName, Fake!GetEventLogsByEnvName,
                PG!GetEventLogsByRepoAndPR, Fake!GetEventLogsByRepoAndPR, PG!LogsWhere,
                PG!GetEventLogByDeliveryID, Fake!GetEventLogByDeliveryID, Fake!LogsWith

LEMMA LogLinesMatch ==
    ASSUME LogsMatch, Logs
    PROVE  /\ LogsMatch' /\ d' = d /\ qa_environments' = qa_environments
           /\ \A id \in DOMAIN elogs' : /\ id \in DOMAIN elogs
                                        /\ elogs'[id].env_name = elogs[id].env_name
<1> PICK id \in EventIDs, r \in RepoData :
        \/ PG!AppendToEventLog(id, r.source_sha) /\ Fake!AppendToEventLog(id, r.source_sha)
        \/ PG!DeleteEventLog(id) /\ Fake!DeleteEventLog(id)
        \/ /\ PG!DeleteEventLogsByRepoAndPR(r.repo, r.pull_request)
           /\ Fake!DeleteEventLogsByRepoAndPR(r.repo, r.pull_request)
    BY DEF Logs
<1>1. d' = d /\ qa_environments' = qa_environments
    BY DEF PG!AppendToEventLog, Fake!AppendToEventLog, PG!DeleteEventLog, Fake!DeleteEventLog,
           PG!DeleteEventLogsByRepoAndPR, Fake!DeleteEventLogsByRepoAndPR, PG!OnlyLogs, Fake!OnlyLogs
<1>2. CASE PG!AppendToEventLog(id, r.source_sha) /\ Fake!AppendToEventLog(id, r.source_sha)
    <2> DEFINE line == r.source_sha
               newRow == event_logs[id]
               e == elogs[id]
               row2 == [newRow EXCEPT !.log = Append(newRow.log, line)]
               e2 == [e EXCEPT !["log"] = Append(e.log, line)]
    <2>1. event_logs' = [i \in DOMAIN event_logs |-> IF i = id THEN row2 ELSE event_logs[i]]
        BY <1>2 DEF PG!AppendToEventLog
    <2>2. \/ elogs' = [i \in DOMAIN elogs |-> IF i = id THEN e2 ELSE elogs[i]]
          \/ elogs' = elogs /\ id \notin DOMAIN elogs
        BY <1>2 DEF Fake!AppendToEventLog, Fake!PutField
    <2>3. ASSUME id \in DOMAIN elogs PROVE LogMatches(row2, e2) /\ e2.env_name = e.env_name
        <3>1. LogMatches(newRow, e)
            BY <2>3 DEF LogsMatch
        <3>2. newRow.log = e.log
            BY <3>1 DEF LogMatches, LogColumns
        <3> DEFINE lines == Append(e.log, line)
        <3>3. row2 = [newRow EXCEPT !.log = lines] /\ e2 = [e EXCEPT !["log"] = lines]
            BY <3>2
        <3> HIDE DEF newRow, e, row2, e2, lines
        <3> QED BY <3>1, <3>3 DEF LogMatches, LogColumns
    <2> HIDE DEF row2, e2
    <2> QED BY <1>1, <2>1, <2>2, <2>3, LogChanges
<1>3. CASE PG!DeleteEventLog(id) /\ Fake!DeleteEventLog(id)
    BY <1>1, <1>3, LogsDeleted DEF PG!DeleteEventLog, Fake!DeleteEventLog
<1>4. CASE /\ PG!DeleteEventLogsByRepoAndPR(r.repo, r.pull_request)
           /\ Fake!DeleteEventLogsByRepoAndPR(r.repo, r.pull_request)
    BY <1>1, <1>4, LogsDeleted, SameLogsSelected DEF PG!DeleteEventLogsByRepoAndPR,
                                                     Fake!DeleteEventLogsByRepoAndPR
<1> QED BY <1>2, <1>3, <1>4

LEMMA NameLogsMatches ==
    ASSUME RecordsMatch, LogsMatch, LogsNamed, NameLogs, group' = group, group = "logs"
    PROVE  LogsMatch' /\ LogsNamed' /\ RecordsMatch' /\ DOMAIN d' = DOMAIN d
<1> PICK n \in Names :
        \/ \E id \in EventIDs : /\ n \in DOMAIN d
                                /\ PG!SetEventLogEnvName(id, n)
                                /\ Fake!SetEventLogEnvName(id, n)
        \/ PG!DeleteEventLogsByEnvName(n) /\ Fake!DeleteEventLogsByEnvName(n)
    BY DEF NameLogs
<1>1. ASSUME NEW id \in EventIDs, n \in DOMAIN d,
             PG!SetEventLogEnvName(id, n), Fake!SetEventLogEnvName(id, n)
      PROVE  LogsMatch' /\ LogsNamed' /\ RecordsMatch' /\ DOMAIN d' = DOMAIN d
    <2>1. d' = d
        BY <1>1 DEF Fake!SetEventLogEnvName, Fake!OnlyLogs
    <2>2. /\ RecordsMatch'
          /\ \A m \in DOMAIN d : qa_environments[m].event_ids \subseteq qa_environments'[m].event_ids
          /\ id \in qa_environments'[n].event_ids
        BY <1>1, <2>1, NameMatches
    <2> DEFINE newRow == [event_logs[id] EXCEPT !["env_name"] = n]
               e == [elogs[id] EXCEPT !["env_name"] = n]
    <2>3. /\ DOMAIN event_logs' = DOMAIN elogs /\ DOMAIN elogs' = DOMAIN elogs
          /\ \A i \in DOMAIN elogs \ {id} : event_logs'[i] = event_logs[i] /\ elogs'[i] = elogs[i]
          /\ id \in DOMAIN elogs => event_logs'[id] = newRow /\ elogs'[id] = e
        BY <1>1 DEF PG!SetEventLogEnvName, Fake!SetEventLogEnvName, PG!Update, Fake!PutField,
                    LogsMatch
    <2>4. ASSUME id \in DOMAIN elogs PROVE LogMatches(newRow, e) /\ e.env_name = n
        <3>1. LogMatches(event_logs[id], elogs[id])
            BY <2>4 DEF LogsMatch
        <3> QED BY <3>1 DEF LogMatches, LogColumns
    <2> HIDE DEF newRow, e
    <2>5. LogsMatch'
        BY <2>3, <2>4, LogsKept
    <2>6. LogsNamed'
        <3>1. ASSUME NEW i \in DOMAIN elogs, elogs'[i].env_name # NULL
              PROVE  /\ elogs'[i].env_name \in DOMAIN d
                     /\ i \in qa_environments'[elogs'[i].env_name].event_ids
            <4>1. CASE i = id
                BY <1>1, <2>2, <2>3, <2>4, <4>1
            <4>2. CASE i # id
                BY <2>2, <2>3, <3>1, <4>2 DEF LogsNamed
            <4> QED BY <4>1, <4>2
        <3> QED BY <2>1, <2>3, <3>1 DEF LogsNamed
    <2> QED BY <2>1, <2>2, <2>5, <2>6
<1>2. CASE PG!DeleteEventLogsByEnvName(n) /\ Fake!DeleteEventLogsByEnvName(n)
    <2>1. d' = d /\ qa_environments' = qa_environments
        BY <1>2 DEF Fake!DeleteEventLogsByEnvName, PG!DeleteEventLogsByEnvName, Fake!OnlyLogs,
                    PG!OnlyLogs
    <2>2. /\ LogsMatch'
          /\ \A id \in DOMAIN elogs' : id \in DOMAIN elogs /\ elogs'[id] = elogs[id]
        BY <1>2, LogsDeleted, SameLogsSelected DEF PG!DeleteEventLogsByEnvName,
                                                   Fake!DeleteEventLogsByEnvName
    <2> QED BY <2>1, <2>2 DEF RecordsMatch, LogsNamed
<1> QED BY <1>1, <1>2

\* What changes no name and no record.
LEMMA NamesKept ==
    ASSUME LogsNamed, group' = group, DOMAIN d \subseteq DOMAIN d',
           \A n \in DOMAIN d : qa_environments'[n] = qa_environments[n],
           \A id \in DOMAIN elogs' :
              \/ id \in DOMAIN elogs /\ elogs'[id].env_name = elogs[id].env_name
              \/ group \in {"logs", "status", "tree"} /\ elogs'[id].env_name = NULL
    PROVE  LogsNamed'
BY DEF LogsNamed

LEMMA ConfigMatches ==
    ASSUME LogsMatch, NEW id, NEW member, NEW value,
           PG!SetConfig(id, member, value), Fake!SetStatusField(id, member, value)
    PROVE  /\ LogsMatch' /\ DOMAIN elogs' = DOMAIN elogs
           /\ \A i \in DOMAIN elogs : elogs'[i].env_name = elogs[i].env_name
<1> DEFINE r == event_logs[id]
           e == elogs[id]
           r2 == IF r.status # NULL
                 THEN [r EXCEPT !.status = [r.status EXCEPT ![member] = value]] ELSE r
           e2 == [e EXCEPT !["status"] = [e.status EXCEPT ![member] = value]]
<1>1. event_logs' = [i \in DOMAIN event_logs |-> IF i = id THEN r2 ELSE event_logs[i]]
    BY DEF PG!SetConfig
<1>2. \/ elogs' = [i \in DOMAIN elogs |-> IF i = id THEN e2 ELSE elogs[i]]
      \/ elogs' = elogs /\ id \notin DOMAIN elogs
    BY DEF Fake!SetStatusField, Fake!PutField
<1>3. ASSUME id \in DOMAIN elogs PROVE LogMatches(r2, e2) /\ e2.env_name = e.env_name
    <2>1. LogMatches(r, e)
        BY <1>3 DEF LogsMatch
    <2> HIDE DEF r, e
    <2>2. CASE r.status = NULL
        BY <2>1, <2>2 DEF LogMatches, LogColumns
    <2>3. CASE r.status # NULL
        <3> DEFINE document == [e.status EXCEPT ![member] = value]
        <3>1. r.status = e.status
            BY <2>1, <2>3 DEF LogMatches
        <3>2. r2 = [r EXCEPT !.status = document] /\ e2 = [e EXCEPT !["status"] = document]
            BY <2>3, <3>1
        <3> HIDE DEF document, r2, e2
        <3> QED BY <2>1, <3>2 DEF LogMatches, LogColumns
    <2> QED BY <2>2, <2>3
<1> HIDE DEF r2, e2
<1> QED BY <1>1, <1>2, <1>3, LogChanges

LEMMA DocumentMatches ==
    ASSUME LogsMatch, NEW id, NEW document,
           PG!SetEventStatus(id, document), Fake!SetEventStatus(id, document)
    PROVE  /\ LogsMatch' /\ DOMAIN elogs' = DOMAIN elogs
           /\ \A i \in DOMAIN elogs : elogs'[i].env_name = elogs[i].env_name
<1> DEFINE r == event_logs[id]
           e == elogs[id]
           r2 == [r EXCEPT !["status"] = document]
           e2 == [e EXCEPT !["status"] = document]
<1>1. event_logs' = [i \in DOMAIN event_logs |-> IF i = id THEN r2 ELSE event_logs[i]]
    BY DEF PG!SetEventStatus, PG!Update
<1>2. \/ elogs' = [i \in DOMAIN elogs |-> IF i = id THEN e2 ELSE elogs[i]]
      \/ elogs' = elogs /\ id \notin DOMAIN elogs
    BY DEF Fake!SetEventStatus, Fake!PutField
<1>3. ASSUME id \in DOMAIN elogs PROVE LogMatches(r2, e2) /\ e2.env_name = e.env_name
    <2>1. LogMatches(r, e)
        BY <1>3 DEF LogsMatch
    <2> HIDE DEF r, e
    <2> QED BY <2>1 DEF LogMatches, LogColumns
<1> HIDE DEF r2, e2
<1> QED BY <1>1, <1>2, <1>3, LogChanges

\* A node that the tree has: jsonb_set, and an assignment to a map of the map.
LEMMA NodeMatches ==
    ASSUME LogsMatch, NEW id, NEW node, NEW part, NEW value,
           id \in DOMAIN elogs => node \in DOMAIN elogs[id].status.tree,
           PG!SetNode(id, node, part, value), Fake!SetTreeNode(id, node, part, value)
    PROVE  /\ LogsMatch' /\ DOMAIN elogs' = DOMAIN elogs
           /\ \A i \in DOMAIN elogs : elogs'[i].env_name = elogs[i].env_name
<1> DEFINE r == event_logs[id]
           e == elogs[id]
           Set(tree) == [tree EXCEPT ![node] = [tree[node] EXCEPT ![part] = value]]
           r2 == IF r.status = NULL THEN r
                 ELSE [r EXCEPT !.status = IF node \in DOMAIN r.status.tree
                                           THEN [r.status EXCEPT !.tree = Set(r.status.tree)]
                                           ELSE NULL]
           e2 == [e EXCEPT !["status"] = [e.status EXCEPT !.tree = Set(e.status.tree)]]
<1>1. event_logs' = [i \in DOMAIN event_logs |-> IF i = id THEN r2 ELSE event_logs[i]]
    BY DEF PG!SetNode, PG!WithNode
<1>2. ASSUME NEW tree, node \in DOMAIN tree
      PROVE  Fake!PutField(tree, node, part, value) = Set(tree)
    BY <1>2 DEF Fake!PutField
<1>3. \/ elogs' = [i \in DOMAIN elogs |-> IF i = id THEN e2 ELSE elogs[i]]
      \/ elogs' = elogs /\ id \notin DOMAIN elogs
    <2>1. CASE id \in DOMAIN elogs
        <3> DEFINE document == [e.status EXCEPT !.tree = Fake!PutField(e.status.tree, node, part, value)]
        <3>1. elogs' = Fake!PutField(elogs, id, "status", document)
            BY <2>1 DEF Fake!SetTreeNode
        <3>2. document = [e.status EXCEPT !.tree = Set(e.status.tree)]
            BY <1>2, <2>1
        <3> HIDE DEF document, Set
        <3> QED BY <2>1, <3>1, <3>2 DEF Fake!PutField
    <2>2. CASE id \notin DOMAIN elogs
        BY <2>2 DEF Fake!SetTreeNode
    <2> QED BY <2>1, <2>2
<1> HIDE DEF Set
<1>4. ASSUME id \in DOMAIN elogs PROVE LogMatches(r2, e2) /\ e2.env_name = e.env_name
    <2>1. LogMatches(r, e) /\ node \in DOMAIN e.status.tree
        BY <1>4 DEF LogsMatch
    <2> HIDE DEF r, e
    <2>2. CASE r.status = NULL
        BY <2>1, <2>2 DEF LogMatches, LogColumns
    <2>3. CASE r.status # NULL
        <3> DEFINE document == [e.status EXCEPT !.tree = Set(e.status.tree)]
        <3>1. r.status = e.status
            BY <2>1, <2>3 DEF LogMatches
        <3>2. r2 = [r EXCEPT !.status = document] /\ e2 = [e EXCEPT !["status"] = document]
            BY <2>1, <2>3, <3>1
        <3> HIDE DEF document, r2, e2
        <3> QED BY <2>1, <3>2 DEF LogMatches, LogColumns
    <2> QED BY <2>2, <2>3
<1> HIDE DEF r2, e2
<1> QED BY <1>1, <1>3, <1>4, LogChanges

\* The other columns are of the other tables.
LEMMA OnlyLogsChange ==
    ASSUME NEW id, NEW x, NEW y, NEW z,
           \/ PG!SetEventStatus(id, x) \/ PG!SetConfig(id, x, y) \/ PG!SetNode(id, x, y, z),
           \/ Fake!SetEventStatus(id, x) \/ Fake!SetStatusField(id, x, y)
           \/ Fake!SetTreeNode(id, x, y, z)
    PROVE  UNCHANGED <<d, qa_environments, k8s, helm, kubernetes_environments, helm_releases,
                       ui_sessions, uisessions, sequence>>
BY DEF PG!SetEventStatus, PG!SetConfig, PG!SetNode, PG!OnlyLogs,
       Fake!SetEventStatus, Fake!SetStatusField, Fake!SetTreeNode, Fake!OnlyLogs

LEMMA StatusOfLogMatches ==
    ASSUME LogsMatch, Document \/ Status \/ Tree \/ NodeStatus
    PROVE  /\ LogsMatch' /\ DOMAIN elogs' = DOMAIN elogs
           /\ \A i \in DOMAIN elogs : elogs'[i].env_name = elogs[i].env_name
           /\ UNCHANGED <<d, qa_environments, k8s, helm, kubernetes_environments, helm_releases,
                          ui_sessions, uisessions, sequence>>
<1>1. CASE Document
    BY <1>1, DocumentMatches, OnlyLogsChange DEF Document
<1>2. ASSUME NEW id, NEW member, NEW value,
             PG!SetConfig(id, member, value), Fake!SetStatusField(id, member, value)
      PROVE  /\ LogsMatch' /\ DOMAIN elogs' = DOMAIN elogs
             /\ \A i \in DOMAIN elogs : elogs'[i].env_name = elogs[i].env_name
             /\ UNCHANGED <<d, qa_environments, k8s, helm, kubernetes_environments, helm_releases,
                            ui_sessions, uisessions, sequence>>
    BY <1>2, ConfigMatches, OnlyLogsChange
<1>3. ASSUME NEW id, NEW node, NEW part, NEW value,
             id \in DOMAIN elogs => node \in DOMAIN elogs[id].status.tree,
             PG!SetNode(id, node, part, value), Fake!SetTreeNode(id, node, part, value)
      PROVE  /\ LogsMatch' /\ DOMAIN elogs' = DOMAIN elogs
             /\ \A i \in DOMAIN elogs : elogs'[i].env_name = elogs[i].env_name
             /\ UNCHANGED <<d, qa_environments, k8s, helm, kubernetes_environments, helm_releases,
                            ui_sessions, uisessions, sequence>>
    BY <1>3, NodeMatches, OnlyLogsChange
<1>4. CASE Status
    BY <1>2, <1>4 DEF Status, PG!SetEventStatusConfig, Fake!SetEventStatusConfig,
       PG!SetEventStatusConfigK8sNS, Fake!SetEventStatusConfigK8sNS,
       PG!SetEventStatusRenderedStatus, Fake!SetEventStatusRenderedStatus,
       PG!SetEventStatusCompleted, Fake!SetEventStatusCompleted,
       PG!SetEventStatusFailed, Fake!SetEventStatusFailed
<1>5. CASE Tree
    BY <1>2, <1>5 DEF Tree, PG!SetEventStatusTree, Fake!SetEventStatusTree
<1>6. CASE NodeStatus
    BY <1>3, <1>6 DEF NodeStatus, PG!SetEventStatusImageStarted, Fake!SetEventStatusImageStarted,
       PG!SetEventStatusImageCompleted, Fake!SetEventStatusImageCompleted,
       PG!SetEventStatusChartStarted, Fake!SetEventStatusChartStarted,
       PG!SetEventStatusChartCompleted, Fake!SetEventStatusChartCompleted
<1> QED BY <1>1, <1>4, <1>5, <1>6

----------------------------------------------------------------------------
(* Sessions.                                                                *)

\* The next id is the number of sessions, as long as none was deleted.
LEMMA NextSession ==
    ASSUME sequence \in Nat, DOMAIN uisessions = 1..sequence
    PROVE  Cardinality(DOMAIN uisessions) + 1 = sequence + 1
<1>1. Cardinality(1..sequence) = sequence
    BY FS_Interval
<1> QED BY <1>1

LEMMA SessionMatches ==
    ASSUME SessionsMatch, Sessions
    PROVE  /\ SessionsMatch'
           /\ UNCHANGED <<d, qa_environments, k8s, helm, kubernetes_environments, helm_releases,
                          elogs, event_logs>>
<1>1. sequence \in Nat /\ Same(ui_sessions, uisessions) /\ DOMAIN ui_sessions = DOMAIN uisessions
      /\ \A i \in DOMAIN uisessions : ui_sessions[i] = uisessions[i]
    BY DEF SessionsMatch, Same
<1>2. ASSUME NEW v, NEW t, DOMAIN uisessions = 1..sequence,
             PG!CreateUISession(v, v, t), Fake!CreateUISession(v, v, t)
      PROVE  SessionsMatch'
    <2> DEFINE new == [target_route |-> v, state |-> v, expires |-> t,
                       github_user |-> NULL, authenticated |-> FALSE, token |-> NULL]
    <2>1. sequence' = sequence + 1 /\ ui_sessions' = PG!Insert(ui_sessions, sequence + 1, new)
        BY <1>2 DEF PG!CreateUISession
    <2>2. uisessions' = Fake!Put(uisessions, sequence + 1, new)
        <3>1. uisessions' = Fake!Put(uisessions, Fake!Cardinality(DOMAIN uisessions) + 1, new)
            BY <1>2 DEF Fake!CreateUISession
        <3>2. Fake!Cardinality(DOMAIN uisessions) + 1 = sequence + 1
            BY <1>1, <1>2, NextSession, SameCardinality
        <3> HIDE DEF new
        <3> QED BY <3>1, <3>2
    <2> HIDE DEF new
    <2>3. sequence + 1 \notin DOMAIN uisessions
        BY <1>1, <1>2
    <2>4. Same(ui_sessions', uisessions')
        BY <1>1, <2>1, <2>2, <2>3, SameInsert
    <2> QED BY <1>1, <2>1, <2>4 DEF SessionsMatch
<1>3. ASSUME NEW id, NEW v, NEW b, PG!UpdateUISession(id, v, v, b), Fake!UpdateUISession(id, v, v, b)
      PROVE  SessionsMatch'
    <2> DEFINE Updated(s) == [s EXCEPT !.github_user = v, !.token = v, !.authenticated = b]
    <2>1. /\ DOMAIN ui_sessions' = DOMAIN uisessions /\ sequence' = sequence
          /\ \A i \in DOMAIN uisessions :
                ui_sessions'[i] = IF i = id THEN Updated(uisessions[i]) ELSE uisessions[i]
        BY <1>1, <1>3 DEF PG!UpdateUISession
    <2>2. /\ DOMAIN uisessions' = DOMAIN uisessions
          /\ \A i \in DOMAIN uisessions :
                uisessions'[i] = IF i = id THEN Updated(uisessions[i]) ELSE uisessions[i]
        BY <1>3 DEF Fake!UpdateUISession, Fake!Put
    <2> HIDE DEF Updated
    <2> QED BY <1>1, <2>1, <2>2 DEF SessionsMatch, Same
<1>4. ASSUME NEW id, PG!DeleteUISession(id), Fake!DeleteUISession(id)
      PROVE  SessionsMatch'
    <2>1. Same(ui_sessions', uisessions')
        BY <1>1, <1>4, SameDelete DEF PG!DeleteUISession, Fake!DeleteUISession
    <2> QED BY <1>1, <1>4, <2>1 DEF PG!DeleteUISession, SessionsMatch
<1>5. ASSUME PG!DeleteExpiredUISessions(Now), Fake!DeleteExpiredUISessions(Now)
      PROVE  SessionsMatch'
    <2> DEFINE ids == {i \in DOMAIN uisessions : uisessions[i].expires < Now}
    <2>1. {i \in DOMAIN ui_sessions : ui_sessions[i].expires < Now} = ids
        BY <1>1
    <2>2. ui_sessions' = PG!Delete(ui_sessions, ids) /\ uisessions' = Fake!Drop(uisessions, ids)
        BY <1>5, <2>1 DEF PG!DeleteExpiredUISessions, Fake!DeleteExpiredUISessions
    <2> HIDE DEF ids
    <2>3. Same(ui_sessions', uisessions')
        BY <1>1, <2>2, SameDelete
    <2> QED BY <1>1, <1>5, <2>3 DEF PG!DeleteExpiredUISessions, SessionsMatch
<1>6. UNCHANGED <<d, qa_environments, k8s, helm, kubernetes_environments, helm_releases,
                  elogs, event_logs>>
    BY DEF Sessions, PG!CreateUISession, Fake!CreateUISession, PG!UpdateUISession,
           Fake!UpdateUISession, PG!DeleteUISession, Fake!DeleteUISession,
           PG!DeleteExpiredUISessions, Fake!DeleteExpiredUISessions, PG!OnlySessions,
           Fake!OnlySessions
<1> QED BY <1>2, <1>3, <1>4, <1>5, <1>6 DEF Sessions

----------------------------------------------------------------------------
(* Files of the local commands.                                             *)

LEMMA LocalMatches ==
    ASSUME FilesMatch, Local
    PROVE  FilesMatch'
<1> USE DEF FilesMatch
<1>1. UNCHANGED <<qa_environments, kubernetes_environments, helm_releases>>
    BY DEF Local, tables
<1>2. ASSUME NEW n, NEW r, NEW t, n \notin DOMAIN d, Fake!CreateQAEnvironment(n, r, t)
      PROVE  FilesMatch'
    <2>1. DOMAIN d \subseteq DOMAIN d' /\ UNCHANGED <<k8s, helm, files>>
        BY <1>2 DEF Fake!CreateQAEnvironment, Fake!Put, Fake!OnlyEnvs
    <2> QED BY <1>1, <2>1
<1>3. ASSUME UNCHANGED <<d, files>>, DOMAIN k8s' \cup DOMAIN helm' \subseteq DOMAIN d
      PROVE  FilesMatch'
    BY <1>1, <1>3
<1>4. ASSUME NEW n, NEW v, Fake!CreateK8sEnv(n, RowOf(v)) PROVE FilesMatch'
    <2>1. UNCHANGED <<d, helm, files>> /\ DOMAIN k8s' \subseteq DOMAIN d
        BY <1>4 DEF Fake!CreateK8sEnv, Fake!Put, Fake!OnlyK8s
    <2> QED BY <1>3, <2>1
<1>5. ASSUME NEW n, Fake!DeleteK8sEnv(n) \/ Fake!DeleteHelmReleasesForEnv(n) PROVE FilesMatch'
    <2>1. UNCHANGED <<d, files>> /\ DOMAIN k8s' \cup DOMAIN helm' \subseteq DOMAIN d
        BY <1>5 DEF Fake!DeleteK8sEnv, Fake!DeleteHelmReleasesForEnv, Fake!Drop, Fake!OnlyK8s,
                    Fake!OnlyHelm
    <2> QED BY <1>3, <2>1
<1>6. ASSUME NEW n, NEW s, Fake!CreateHelmReleasesForEnv(n, s) PROVE FilesMatch'
    <2>1. UNCHANGED <<d, k8s, files>> /\ DOMAIN helm' \subseteq DOMAIN d
        BY <1>6 DEF Fake!CreateHelmReleasesForEnv, Fake!Put, Fake!OnlyHelm
    <2> QED BY <1>3, <2>1
<1>7. ASSUME NEW written \in 0..4, NEW torn \in BOOLEAN, Fake!Save(written, torn)
      PROVE  FilesMatch'
    <2>1. UNCHANGED <<d, k8s, helm>> /\ DOMAIN files' = 1..4
        BY <1>7 DEF Fake!Save, Fake!data
    <2>2. /\ files'[1] \in {Torn, d, files[1]} /\ files'[2] \in {Torn, helm, files[2]}
          /\ files'[3] \in {Torn, k8s, files[3]}
          /\ files'[1] # d => files'[2] \in {Torn, files[2]} /\ files'[3] \in {Torn, files[3]}
        BY <1>7 DEF Fake!Save
    <2> QED BY <1>1, <2>1, <2>2
<1>8. ASSUME Fake!Load PROVE FilesMatch'
    <2>1. CASE /\ \A i \in 1..4 : files[i] = NULL
               /\ d' = <<>> /\ helm' = <<>> /\ k8s' = <<>>
        <3>1. files' = files /\ DOMAIN <<>> = {}
            BY <1>8 DEF Fake!Load
        <3> QED BY <1>1, <2>1, <3>1
    <2>2. CASE /\ \A i \in 1..4 : files[i] \notin {NULL, Torn}
               /\ d' = files[1] /\ helm' = files[2] /\ k8s' = files[3]
        <3>1. files' = files
            BY <1>8 DEF Fake!Load
        <3> QED BY <1>1, <2>2, <3>1
    <2> QED BY <1>8, <2>1, <2>2 DEF Fake!Load
<1> QED BY <1>2, <1>4, <1>5, <1>6, <1>7, <1>8 DEF Local

----------------------------------------------------------------------------
(* All the calls.                                                           *)

LEMMA LayersInvInit == LayersInit /\ group \in Groups => LayersInv
<1> SUFFICES ASSUME PG!Init, Fake!Init PROVE group \in Groups => LayersInv
    BY DEF LayersInit
<1>1. DOMAIN <<>> = {}
    OBVIOUS
<1>2. IsFiniteSet({})
    BY FS_EmptySet
<1>3. RecordsMatch /\ RowsMatch
    BY <1>1, <1>2 DEF RecordsMatch, RowsMatch, Same, PG!Init, Fake!Init
<1>4. LogsMatch /\ LogsNamed
    BY <1>1 DEF LogsMatch, LogsNamed, PG!Init, Fake!Init
<1>5. SessionsMatch
    BY <1>1 DEF SessionsMatch, Same, PG!Init, Fake!Init
<1>6. FilesMatch
    BY <1>1 DEF FilesMatch, PG!Init, Fake!Init
<1> QED BY <1>3, <1>4, <1>5, <1>6 DEF LayersInv

LEMMA LogsUnchanged ==
    ASSUME LogsMatch, UNCHANGED <<elogs, event_logs>>
    PROVE  LogsMatch'
BY DEF LogsMatch

LEMMA SessionsUnchanged ==
    ASSUME SessionsMatch, UNCHANGED <<sequence, ui_sessions, uisessions>>
    PROVE  SessionsMatch'
BY DEF SessionsMatch, Same

\* No log is there when records change.
LEMMA NoLogs ==
    ASSUME LogsNamed, group' = group, group \notin {"logs", "status", "tree"}, elogs' = elogs
    PROVE  LogsNamed'
BY DEF LogsNamed

\* What a write leaves alone, in the layer that it is of.
LEMMA OnlyTheirs ==
    /\ PG!OnlyEnvironments => UNCHANGED <<kubernetes_environments, helm_releases, event_logs,
                                          ui_sessions, sequence>>
    /\ Fake!OnlyEnvs => UNCHANGED <<helm, k8s, elogs, uisessions>>
BY DEF PG!OnlyEnvironments, Fake!OnlyEnvs

\* A write to one record of an environment, of either layer.
LEMMA RecordWrites ==
    ASSUME RecordsMatch, SetStatus \/ SetRepoData \/ SetCreated \/ SetColumns
    PROVE  /\ RecordsMatch' /\ DOMAIN d' = DOMAIN d
           /\ UNCHANGED <<k8s, helm, kubernetes_environments, helm_releases,
                          elogs, event_logs, uisessions, ui_sessions, sequence>>
<1>1. ASSUME NEW n, NEW c \in Columns, NEW v, c = "data" => v \in RepoData,
             c = "created" => v \in Times, PG!SetColumn(n, c, v), Fake!SetField(n, c, v)
      PROVE  /\ RecordsMatch' /\ DOMAIN d' = DOMAIN d
             /\ UNCHANGED <<k8s, helm, kubernetes_environments, helm_releases,
                            elogs, event_logs, uisessions, ui_sessions, sequence>>
    <2>1. RecordsMatch'
        BY <1>1, SetColumnMatches
    <2>2. DOMAIN d' = DOMAIN d
        BY <1>1 DEF Fake!SetField, Fake!PutField
    <2> QED BY <1>1, <2>1, <2>2, OnlyTheirs DEF PG!SetColumn, Fake!SetField
<1>2. CASE SetStatus
    <2> PICK n \in Names, s \in Statuses :
            PG!SetQAEnvironmentStatus(n, s) /\ Fake!SetQAEnvironmentStatus(n, s)
        BY <1>2 DEF SetStatus
    <2>1. RecordsMatch' /\ DOMAIN d' = DOMAIN d
        BY StatusMatches
    <2> QED BY <2>1, OnlyTheirs DEF PG!SetQAEnvironmentStatus, Fake!SetQAEnvironmentStatus,
                                    Fake!SetField
<1>3. CASE SetRepoData
    <2> PICK n \in Names, r \in RepoData :
            /\ n \in DOMAIN d => d[n].data.source_ref = r.source_ref
            /\ PG!SetQAEnvironmentRepoData(n, r) /\ Fake!SetQAEnvironmentRepoData(n, r)
        BY <1>3 DEF SetRepoData
    <2>1. RecordsMatch' /\ DOMAIN d' = DOMAIN d
        BY RepoDataMatches
    <2> QED BY <2>1, OnlyTheirs DEF PG!SetQAEnvironmentRepoData, Fake!SetQAEnvironmentRepoData,
                                    Fake!SetField
<1>4. CASE SetCreated
    <2> PICK n \in Names, t \in Times :
            PG!SetQAEnvironmentCreated(n, t) /\ Fake!SetQAEnvironmentCreated(n, t)
        BY <1>4 DEF SetCreated
    <2> QED BY <1>1 DEF PG!SetQAEnvironmentCreated, Fake!SetQAEnvironmentCreated, Columns
<1>5. CASE SetColumns
    <2> PICK n \in Names, v \in Values :
            \/ PG!SetQAEnvironmentRefMap(n, v) /\ Fake!SetQAEnvironmentRefMap(n, v)
            \/ PG!SetQAEnvironmentCommitSHAMap(n, v) /\ Fake!SetQAEnvironmentCommitSHAMap(n, v)
            \/ PG!SetAminoEnvironmentID(n, v) /\ Fake!SetAminoEnvironmentID(n, v)
            \/ PG!SetAminoServiceToPort(n, v) /\ Fake!SetAminoServiceToPort(n, v)
            \/ PG!SetAminoKubernetesNamespace(n, v) /\ Fake!SetAminoKubernetesNamespace(n, v)
            \/ PG!AddEvent(n, v) /\ Fake!AddEvent(n, v)
        BY <1>5 DEF SetColumns
    <2>1. CASE PG!AddEvent(n, v) /\ Fake!AddEvent(n, v)
        <3>1. RecordsMatch' /\ DOMAIN d' = DOMAIN d
            BY <2>1, EventMatches
        <3> QED BY <2>1, <3>1, OnlyTheirs DEF PG!AddEvent, Fake!AddEvent
    <2>2. CASE ~(PG!AddEvent(n, v) /\ Fake!AddEvent(n, v))
        <3>1. \E c \in Columns \ {"data", "created"} : PG!SetColumn(n, c, v) /\ Fake!SetField(n, c, v)
            BY <2>2 DEF Columns, PG!SetQAEnvironmentRefMap, Fake!SetQAEnvironmentRefMap,
               PG!SetQAEnvironmentCommitSHAMap, Fake!SetQAEnvironmentCommitSHAMap,
               PG!SetAminoEnvironmentID, Fake!SetAminoEnvironmentID,
               PG!SetAminoServiceToPort, Fake!SetAminoServiceToPort,
               PG!SetAminoKubernetesNamespace, Fake!SetAminoKubernetesNamespace
        <3> QED BY <1>1, <3>1
    <2> QED BY <2>1, <2>2
<1> QED BY <1>2, <1>3, <1>4, <1>5

LEMMA LayersInvNext == LayersInv /\ LayersNext => LayersInv'
<1> SUFFICES ASSUME LayersInv, LayersNext PROVE LayersInv'
    OBVIOUS
<1>1. group' = group /\ group \in Groups
    BY DEF LayersNext, LayersInv
<1>2. CASE group = "local"
    <2>1. FilesMatch /\ Local
        BY <1>2 DEF LayersNext, LayersInv
    <2> QED BY <1>1, <1>2, <2>1, LocalMatches DEF LayersInv
<1>3. CASE group # "local"
    <2>1. RecordsMatch /\ RowsMatch /\ LogsMatch /\ LogsNamed /\ SessionsMatch
        BY <1>3 DEF LayersInv
    <2> SUFFICES RecordsMatch' /\ RowsMatch' /\ LogsMatch' /\ LogsNamed' /\ SessionsMatch'
        BY <1>1, <1>3 DEF LayersInv
    <2>2. CASE Create /\ group \notin {"status", "tree", "sessions"}
        <3> PICK n \in Names, r \in RepoData, t \in Times :
                /\ n \notin DOMAIN d
                /\ PG!CreateQAEnvironment(n, r, t) /\ Fake!CreateQAEnvironment(n, r, t)
            BY <2>2 DEF Create
        <3>1. /\ RecordsMatch' /\ DOMAIN d' = DOMAIN d \cup {n}
              /\ \A m \in DOMAIN d : qa_environments'[m] = qa_environments[m]
            BY <2>1, CreateMatches
        <3>2. UNCHANGED <<k8s, helm, kubernetes_environments, helm_releases,
                          elogs, event_logs, uisessions, ui_sessions, sequence>>
            BY OnlyTheirs DEF PG!CreateQAEnvironment, Fake!CreateQAEnvironment
        <3>3. LogsNamed'
            BY <1>1, <2>1, <3>1, <3>2, NamesKept
        <3> QED BY <2>1, <3>1, <3>2, <3>3, RowsKept, LogsUnchanged, SessionsUnchanged
    <2>3. CASE /\ SetStatus \/ SetRepoData \/ SetCreated \/ SetColumns
               /\ group \in {"records", "rows", "columns"}
        <3>1. /\ RecordsMatch' /\ DOMAIN d' = DOMAIN d
              /\ UNCHANGED <<k8s, helm, kubernetes_environments, helm_releases,
                             elogs, event_logs, uisessions, ui_sessions, sequence>>
            BY <2>1, <2>3, RecordWrites
        <3>2. LogsNamed'
            BY <1>1, <2>1, <2>3, <3>1, NoLogs
        <3> QED BY <2>1, <3>1, <3>2, RowsKept, LogsUnchanged, SessionsUnchanged
    <2>4. CASE DeleteRecord /\ group \in {"records", "rows"}
        <3> PICK n \in Names : PG!DeleteQAEnvironment(n) /\ Fake!DeleteQAEnvironment(n)
            BY <2>4 DEF DeleteRecord
        <3>1. UNCHANGED <<elogs, event_logs, uisessions, ui_sessions, sequence>>
            BY DEF PG!DeleteQAEnvironment, Fake!DeleteQAEnvironment
        <3>2. LogsNamed'
            BY <1>1, <2>1, <2>4, <3>1, NoLogs
        <3> QED BY <2>1, <3>1, <3>2, DeleteRecordMatches, LogsUnchanged, SessionsUnchanged
    <2>5. CASE (Rows \/ DeleteRow \/ Releases) /\ group = "rows"
        <3>1. UNCHANGED <<d, qa_environments, elogs, event_logs, uisessions, ui_sessions, sequence>>
            BY <2>5 DEF Rows, DeleteRow, Releases, PG!OnlyK8s, PG!OnlyReleases, Fake!OnlyK8s,
               Fake!OnlyHelm, PG!CreateK8sEnv, Fake!CreateK8sEnv, PG!DeleteK8sEnv, Fake!DeleteK8sEnv,
               PG!UpdateK8sEnvTillerAddr, Fake!UpdateK8sEnvTillerAddr,
               PG!UpdateK8sEnvConfigSignature, Fake!UpdateK8sEnvConfigSignature,
               PG!CreateHelmReleasesForEnv, Fake!CreateHelmReleasesForEnv,
               PG!UpdateHelmReleaseRevision, Fake!UpdateHelmReleaseRevision,
               PG!DeleteHelmReleasesForEnv, Fake!DeleteHelmReleasesForEnv
        <3>2. RowsMatch'
            BY <2>1, <2>5, RowMatches, ReleaseMatches
        <3>3. LogsNamed'
            BY <1>1, <2>1, <2>5, <3>1, NoLogs
        <3>4. RecordsMatch'
            BY <2>1, <3>1 DEF RecordsMatch
        <3> QED BY <2>1, <3>1, <3>2, <3>3, <3>4, LogsUnchanged, SessionsUnchanged
    <2>6. CASE NewLog /\ group \in {"logs", "status", "tree"}
        <3>1. UNCHANGED <<k8s, helm, kubernetes_environments, helm_releases,
                          uisessions, ui_sessions, sequence>>
            BY <2>6 DEF NewLog, PG!CreateEventLog, Fake!CreateEventLog, PG!OnlyLogs, Fake!OnlyLogs
        <3>2. /\ LogsMatch' /\ d' = d /\ qa_environments' = qa_environments
              /\ \A id \in DOMAIN elogs' : /\ id \in DOMAIN elogs => elogs'[id] = elogs[id]
                                           /\ id \notin DOMAIN elogs => elogs'[id].env_name = NULL
            BY <2>1, <2>6, NewLogMatches
        <3>3. LogsNamed'
            BY <1>1, <2>1, <2>6, <3>2, NamesKept
        <3>4. RecordsMatch'
            BY <2>1, <3>2 DEF RecordsMatch
        <3> QED BY <2>1, <3>1, <3>2, <3>3, <3>4, RowsKept, SessionsUnchanged
    <2>7. CASE Logs /\ group = "logs"
        <3>1. UNCHANGED <<k8s, helm, kubernetes_environments, helm_releases,
                          uisessions, ui_sessions, sequence>>
            BY <2>7 DEF Logs, PG!OnlyLogs, Fake!OnlyLogs, PG!AppendToEventLog, Fake!AppendToEventLog,
               PG!DeleteEventLog, Fake!DeleteEventLog, PG!DeleteEventLogsByRepoAndPR,
               Fake!DeleteEventLogsByRepoAndPR
        <3>2. /\ LogsMatch' /\ d' = d /\ qa_environments' = qa_environments
              /\ \A id \in DOMAIN elogs' : /\ id \in DOMAIN elogs
                                           /\ elogs'[id].env_name = elogs[id].env_name
            BY <2>1, <2>7, LogLinesMatch
        <3>3. LogsNamed'
            BY <1>1, <2>1, <3>2, NamesKept
        <3>4. RecordsMatch'
            BY <2>1, <3>2 DEF RecordsMatch
        <3> QED BY <2>1, <3>1, <3>2, <3>3, <3>4, RowsKept, SessionsUnchanged
    <2>8. CASE NameLogs /\ group = "logs"
        <3>1. UNCHANGED <<k8s, helm, kubernetes_environments, helm_releases,
                          uisessions, ui_sessions, sequence>>
            BY <2>8 DEF NameLogs, PG!OnlyLogs, Fake!OnlyLogs, PG!SetEventLogEnvName,
               Fake!SetEventLogEnvName, PG!DeleteEventLogsByEnvName, Fake!DeleteEventLogsByEnvName
        <3>2. LogsMatch' /\ LogsNamed' /\ RecordsMatch' /\ DOMAIN d' = DOMAIN d
            BY <1>1, <2>1, <2>8, NameLogsMatches
        <3> QED BY <2>1, <3>1, <3>2, RowsKept, SessionsUnchanged
    <2>9. CASE (Document \/ Status \/ Tree \/ NodeStatus) /\ group \in {"status", "tree"}
        <3>1. /\ LogsMatch' /\ DOMAIN elogs' = DOMAIN elogs
              /\ \A i \in DOMAIN elogs : elogs'[i].env_name = elogs[i].env_name
              /\ UNCHANGED <<d, qa_environments, k8s, helm, kubernetes_environments, helm_releases,
                             ui_sessions, uisessions, sequence>>
            BY <2>1, <2>9, StatusOfLogMatches
        <3>2. LogsNamed'
            BY <1>1, <2>1, <3>1, NamesKept
        <3>3. RecordsMatch'
            BY <2>1, <3>1 DEF RecordsMatch
        <3> QED BY <2>1, <3>1, <3>2, <3>3, RowsKept, SessionsUnchanged
    <2>10. CASE Sessions /\ group = "sessions"
        <3>1. /\ SessionsMatch'
              /\ UNCHANGED <<d, qa_environments, k8s, helm, kubernetes_environments, helm_releases,
                             elogs, event_logs>>
            BY <2>1, <2>10, SessionMatches
        <3>2. RecordsMatch'
            BY <2>1, <3>1 DEF RecordsMatch
        <3>3. LogsNamed'
            BY <1>1, <2>1, <2>10, <3>1, NoLogs
        <3> QED BY <2>1, <3>1, <3>2, <3>3, RowsKept, LogsUnchanged
    <2> QED BY <1>3, <2>2, <2>3, <2>4, <2>5, <2>6, <2>7, <2>8, <2>9, <2>10 DEF LayersNext
<1> QED BY <1>2, <1>3

----------------------------------------------------------------------------
(* The answers.                                                             *)

LEMMA RecordsAgree == RecordsMatch => SameRecords
<1> SUFFICES ASSUME RecordsMatch PROVE SameRecords
    OBVIOUS
<1>1. DOMAIN qa_environments = DOMAIN d
      /\ \A n \in DOMAIN d : \A c \in DOMAIN d[n] : d[n][c] = qa_environments[n][c]
    BY DEF RecordsMatch, RecordMatches
<1>2. PG!GetQAEnvironments = DOMAIN d
    BY <1>1 DEF PG!GetQAEnvironments, PG!Select
<1>3. \A n \in Names : PG!GetQAEnvironment(n) = Fake!GetQAEnvironment(n)
    BY <1>1 DEF PG!GetQAEnvironment, PG!Select, Fake!GetQAEnvironment
<1> QED BY <1>1, <1>2, <1>3 DEF SameRecords, Fake!GetQAEnvironments

LEMMA RowsAgree == RowsMatch => SameRows
<1> SUFFICES ASSUME RowsMatch PROVE SameRows
    OBVIOUS
<1>1. /\ DOMAIN kubernetes_environments = DOMAIN k8s
      /\ \A n \in DOMAIN k8s : kubernetes_environments[n] = k8s[n]
      /\ DOMAIN helm_releases = DOMAIN helm /\ \A n \in DOMAIN helm : helm_releases[n] = helm[n]
    BY DEF RowsMatch, Same
<1> QED BY <1>1 DEF SameRows, PG!GetK8sEnv, Fake!GetK8sEnv, PG!GetHelmReleasesForEnv,
                    Fake!GetHelmReleasesForEnv, PG!GetK8sEnvsByNamespace,
                    Fake!GetK8sEnvsByNamespace

LEMMA LogsAgree == LogsMatch /\ LogsNamed /\ RecordsMatch => SameLogs
<1> SUFFICES ASSUME LogsMatch, LogsNamed, RecordsMatch PROVE SameLogs
    OBVIOUS
<1>1. /\ DOMAIN event_logs = DOMAIN elogs /\ DOMAIN qa_environments = DOMAIN d
      /\ \A id \in DOMAIN elogs : LogMatches(event_logs[id], elogs[id])
    BY DEF LogsMatch, RecordsMatch
<1>2. \A id \in EventIDs :
         /\ PG!GetEventLogByID(id) = Fake!GetEventLogByID(id)
         /\ PG!GetEventStatus(id) # NULL => PG!GetEventStatus(id) = Fake!GetEventStatus(id)
    BY <1>1 DEF LogMatches, PG!GetEventLogByID, PG!LogsWhere, Fake!GetEventLogByID,
                PG!GetEventStatus, Fake!GetEventStatus
<1>3. \A id \in DOMAIN elogs : \A c \in DOMAIN elogs[id] \ {"status"} :
         elogs[id][c] = event_logs[id][c]
    BY <1>1 DEF LogMatches
<1>4. \A r \in RepoData :
         /\ PG!GetEventLogByDeliveryID(r.source_sha) = Fake!GetEventLogByDeliveryID(r.source_sha)
         /\ PG!GetEventLogsByRepoAndPR(r.repo, r.pull_request)
               = Fake!GetEventLogsByRepoAndPR(r.repo, r.pull_request)
    BY SameLogsSelected
<1>5. ASSUME NEW n \in Names
      PROVE  /\ PG!GetEventLogsWithStatusByEnvName(n) = Fake!GetEventLogsWithStatusByEnvName(n)
             /\ n \in DOMAIN d => Fake!GetEventLogsByEnvName(n) \subseteq PG!GetEventLogsByEnvName(n)
    <2>1. PG!GetEventLogsWithStatusByEnvName(n) = Fake!GetEventLogsWithStatusByEnvName(n)
        BY SameLogsSelected DEF Fake!GetEventLogsWithStatusByEnvName
    <2>2. n # NULL
        BY LayersAssumption
    <2>3. n \in DOMAIN d => Fake!GetEventLogsByEnvName(n) \subseteq PG!GetEventLogsByEnvName(n)
        BY <1>1, <2>2 DEF LogsNamed, Fake!GetEventLogsByEnvName, Fake!LogsWith,
                          PG!GetEventLogsByEnvName
    <2> QED BY <2>1, <2>3
<1> QED BY <1>2, <1>3, <1>4, <1>5 DEF SameLogs

LEMMA SessionsAgree == SessionsMatch => SameSessions
BY DEF SessionsMatch, Same, SameSessions, PG!GetUISession, Fake!GetUISession


\* As many places as names: no name is there twice just when none is missing.
LEMMA Orders ==
    ASSUME NEW S, IsFiniteSet(S), NEW s \in [1..Cardinality(S) -> S]
    PROVE  (\A i, j \in 1..Cardinality(S) : i < j => s[i] # s[j])
               <=> (\A x \in S : \E i \in 1..Cardinality(S) : s[i] = x)
<1> DEFINE I == 1..Cardinality(S)
<1>1. Cardinality(S) \in Nat
    BY FS_CardinalityType
<1>2. IsFiniteSet(I) /\ Cardinality(I) = Cardinality(S)
    BY <1>1, FS_Interval
<1>3. (\A i, j \in I : i < j => s[i] # s[j]) <=> s \in Injection(I, S)
    <2>1. I \subseteq Nat
        BY <1>1
    <2>2. \A i, j \in I : i = j \/ i < j \/ j < i
        BY <2>1
    <2>3. \A i, j \in I : i < j => i # j
        BY <2>1
    <2>4. s \in [I -> S]
        OBVIOUS
    <2> HIDE DEF I
    <2> QED BY <2>2, <2>3, <2>4 DEF Injection, IsInjective
<1>4. (\A x \in S : \E i \in I : s[i] = x) <=> s \in Surjection(I, S)
    BY DEF Surjection
<1> HIDE DEF I
<1>5. s \in Injection(I, S) => s \in Surjection(I, S)
    BY <1>2, FS_Injection
<1>6. s \in Surjection(I, S) => s \in Injection(I, S)
    BY <1>2, FS_Surjection
<1> QED BY <1>3, <1>4, <1>5, <1>6 DEF I

LEMMA RunningAgree == RecordsMatch => PG!GetRunningQAEnvironments = Fake!GetRunningQAEnvironments
<1> SUFFICES ASSUME RecordsMatch PROVE PG!GetRunningQAEnvironments = Fake!GetRunningQAEnvironments
    OBVIOUS
<1> DEFINE S == {n \in DOMAIN d : d[n].status \in {"Spawned", "Success", "Updating"}}
<1>1. /\ DOMAIN qa_environments = DOMAIN d
      /\ \A n \in DOMAIN d : /\ qa_environments[n].status = d[n].status
                            /\ qa_environments[n].created = d[n].created
                            /\ d[n].created \in Nat
    BY LayersAssumption DEF RecordsMatch, RecordMatches, Columns
<1>2. PG!GetRunningQAEnvironments = PG!InOrderOfCreation(S)
    <2>1. S = {n \in DOMAIN qa_environments : \/ qa_environments[n].status = "Spawned"
                                              \/ qa_environments[n].status = "Success"
                                              \/ qa_environments[n].status = "Updating"}
        BY <1>1
    <2> HIDE DEF S
    <2> QED BY <2>1 DEF PG!GetRunningQAEnvironments, PG!Select
<1>3. Fake!GetRunningQAEnvironments = Fake!SortedByCreated(S)
    <2>1. Fake!GetQAEnvironmentsByStatus("Success") \cup Fake!GetQAEnvironmentsByStatus("Spawned")
              \cup Fake!GetQAEnvironmentsByStatus("Updating") = S
        BY DEF Fake!GetQAEnvironmentsByStatus, Fake!Filter
    <2> QED BY <2>1 DEF Fake!GetRunningQAEnvironments
<1>4. IsFiniteSet(S)
    BY FS_Subset DEF RecordsMatch
<1>5. \A n \in S : n \in DOMAIN d
    OBVIOUS
<1> HIDE DEF S
<1> DEFINE I == 1..Cardinality(S)
<1>6. PG!InOrderOfCreation(S) =
         {s \in [I -> S] : \A i, j \in I : i < j =>
             s[i] # s[j] /\ qa_environments[s[i]].created <= qa_environments[s[j]].created}
    BY SameCardinality DEF PG!InOrderOfCreation
<1>7. Fake!SortedByCreated(S) =
         {s \in [I -> S] : /\ \A n \in S : \E i \in I : s[i] = n
                           /\ \A i, j \in I : i < j => ~(d[s[j]].created < d[s[i]].created)}
    <2>1. Fake!SortedByCreated(S) =
             {s \in [I -> S] : /\ \A n \in S : \E i \in DOMAIN s : s[i] = n
                               /\ \A i, j \in DOMAIN s : i < j => ~(d[s[j]].created < d[s[i]].created)}
        BY SameCardinality DEF Fake!SortedByCreated
    <2> HIDE DEF I
    <2>2. \A s \in [I -> S] : DOMAIN s = I
        OBVIOUS
    <2> QED BY <2>1, <2>2
<1>8. ASSUME NEW s \in [I -> S]
      PROVE  (\A i, j \in I : i < j =>
                 s[i] # s[j] /\ qa_environments[s[i]].created <= qa_environments[s[j]].created)
              <=> /\ \A n \in S : \E i \in I : s[i] = n
                  /\ \A i, j \in I : i < j => ~(d[s[j]].created < d[s[i]].created)
    <2>1. (\A i, j \in I : i < j => s[i] # s[j]) <=> (\A n \in S : \E i \in I : s[i] = n)
        BY <1>4, Orders
    <2> HIDE DEF I
    <2>2. ASSUME NEW i \in I, NEW j \in I
          PROVE  qa_environments[s[i]].created <= qa_environments[s[j]].created
                     <=> ~(d[s[j]].created < d[s[i]].created)
        <3>1. s[i] \in DOMAIN d /\ s[j] \in DOMAIN d
            BY <1>5
        <3>2. d[s[i]].created \in Nat /\ d[s[j]].created \in Nat
            BY <1>1, <3>1
        <3> QED BY <1>1, <3>1, <3>2
    <2> QED BY <2>1, <2>2
<1> HIDE DEF I
<1> QED BY <1>2, <1>3, <1>6, <1>7, <1>8

\* A search filters by what is given, in one statement and one after the other.
LEMMA SearchAgrees ==
    ASSUME RecordsMatch, NEW o \in Searches
    PROVE  IF PG!NoCondition(o)
           THEN PG!Search(o, Now) = NULL /\ Fake!Search(o, Now) = DOMAIN d
           ELSE PG!Search(o, Now) = Fake!Search(o, Now)
<1>1. /\ DOMAIN qa_environments = DOMAIN d
      /\ \A n \in DOMAIN d : /\ qa_environments[n].status = d[n].status
                            /\ qa_environments[n].created = d[n].created
                            /\ qa_environments[n].data = d[n].data
                            /\ d[n].created \in Times
    BY DEF RecordsMatch, RecordMatches, Columns
<1>2. ASSUME NEW n \in DOMAIN d, o.CreatedSince # NULL
      PROVE  d[n].created >= Now - o.CreatedSince <=> d[n].created > Now - o.CreatedSince
    <2>1. /\ o.CreatedSince \in Nat /\ Now \in Nat /\ d[n].created \in Nat
          /\ Now - o.CreatedSince # d[n].created
        BY <1>1, <1>2, LayersAssumption
    <2> QED BY <2>1
<1>3. PG!SearchRefused(o) <=>
         \/ (o.Pr # NULL \/ o.TrackingRef # NULL) /\ o.Repo = NULL
         \/ o.Repo # NULL /\ o.Repos # {}
         \/ o.Status # NULL /\ o.Statuses # {}
    BY DEF PG!SearchRefused
<1>4. CASE PG!SearchRefused(o) /\ ~PG!NoCondition(o)
    BY <1>3, <1>4 DEF PG!Search, Fake!Search
<1>6. CASE PG!NoCondition(o)
    <2>1. /\ o.Pr = NULL /\ o.Repo = NULL /\ o.SourceSHA = NULL /\ o.SourceBranch = NULL
          /\ o.User = NULL /\ o.Status = NULL /\ o.CreatedSince = NULL /\ o.TrackingRef = NULL
          /\ o.Repos = {} /\ o.Statuses = {}
        BY <1>6 DEF PG!NoCondition
    <2> QED BY <1>6, <2>1 DEF PG!Search, Fake!Search
<1>5. CASE ~PG!SearchRefused(o) /\ ~PG!NoCondition(o)
    <2> DEFINE Found(e) ==
            /\ o.Pr = NULL \/ e.data.pull_request = o.Pr
            /\ o.Repo = NULL \/ e.data.repo = o.Repo
            /\ o.Repos = {} \/ e.data.repo \in o.Repos
            /\ o.SourceSHA = NULL \/ e.data.source_sha = o.SourceSHA
            /\ o.SourceBranch = NULL \/ e.data.source_branch = o.SourceBranch
            /\ o.User = NULL \/ e.data.username = o.User
            /\ o.Status = NULL \/ e.status = o.Status
            /\ o.Statuses = {} \/ e.status \in o.Statuses
            /\ o.CreatedSince = NULL \/ e.created >= Now - o.CreatedSince
            /\ o.TrackingRef = NULL \/ e.data.source_ref = o.TrackingRef
    <2>1. PG!Search(o, Now) = {n \in DOMAIN d : Found(d[n])}
        BY <1>1, <1>5 DEF PG!Search, PG!Select, PG!Given, PG!GivenSome
    <2>2. Fake!Search(o, Now) = {n \in DOMAIN d : Found(d[n])}
        <3>1. ~PG!SearchRefused(o)
            BY <1>5
        <3> QED BY <1>2, <1>3, <3>1, SMTT(30) DEF Fake!Search
    <2>3. PG!Search(o, Now) = Fake!Search(o, Now)
        BY <2>1, <2>2
    <2> QED BY <1>5, <2>3
<1> QED BY <1>4, <1>5, <1>6

\* The environments of the last n days are the youngest.
LEMMA RecentDiffers ==
    ASSUME RecordsMatch, NEW n \in DayCounts, NEW recent,
           recent = PG!GetMostRecent(n * DayLength, Now)
    PROVE  recent \in Fake!GetMostRecent(n) <=>
              \/ Cardinality(recent) = n
              \/ Cardinality(recent) < n /\ recent = DOMAIN d
<1>1. /\ DOMAIN qa_environments = DOMAIN d /\ IsFiniteSet(DOMAIN d)
      /\ \A m \in DOMAIN d : /\ qa_environments[m].created = d[m].created
                            /\ d[m].created \in Nat
    BY LayersAssumption DEF RecordsMatch, RecordMatches, Columns
<1>2. n \in Nat /\ n * DayLength \in Nat /\ Now \in Nat
    BY LayersAssumption
<1>3. recent = {m \in DOMAIN d : d[m].created >= Now - n * DayLength}
    BY <1>1 DEF PG!GetMostRecent, PG!Select
<1>4. \A a \in recent, b \in DOMAIN d \ recent : d[b].created <= d[a].created
    BY <1>1, <1>2, <1>3
<1>5. recent \in Fake!GetMostRecent(n) <=>
         Cardinality(recent) = IF n > Cardinality(DOMAIN d) THEN Cardinality(DOMAIN d) ELSE n
    <2>1. recent \in SUBSET DOMAIN d
        BY <1>3
    <2> DEFINE Youngest(S) == \A a \in S, b \in DOMAIN d \ S : d[b].created <= d[a].created
               Size == IF n > Cardinality(DOMAIN d) THEN Cardinality(DOMAIN d) ELSE n
    <2>2. Fake!GetMostRecent(n) = {S \in SUBSET DOMAIN d : Cardinality(S) = Size /\ Youngest(S)}
        BY SameCardinality DEF Fake!GetMostRecent
    <2>3. Youngest(recent)
        BY <1>4
    <2> HIDE DEF Youngest, Size
    <2>4. recent \in Fake!GetMostRecent(n) <=> Cardinality(recent) = Size
        BY <2>1, <2>2, <2>3
    <2> QED BY <2>4 DEF Size
<1>6. /\ recent \subseteq DOMAIN d
      /\ Cardinality(recent) \in Nat /\ Cardinality(DOMAIN d) \in Nat
      /\ Cardinality(recent) <= Cardinality(DOMAIN d)
      /\ Cardinality(recent) = Cardinality(DOMAIN d) => recent = DOMAIN d
    BY <1>1, <1>3, FS_Subset, FS_CardinalityType
<1> QED BY <1>2, <1>5, <1>6

LEMMA DifferencesKnown == RecordsMatch => KnownDifferences
BY SearchAgrees, RecentDiffers DEF KnownDifferences

LEMMA SelectionsAgree == RecordsMatch => SameSelections
<1> SUFFICES ASSUME RecordsMatch PROVE SameSelections
    OBVIOUS
<1>1. /\ DOMAIN qa_environments = DOMAIN d
      /\ \A n \in DOMAIN d : /\ qa_environments[n].status = d[n].status
                            /\ qa_environments[n].data = d[n].data
    BY DEF RecordsMatch, RecordMatches, Columns
<1>2. \A s \in Statuses : PG!GetQAEnvironmentsByStatus(s) = Fake!GetQAEnvironmentsByStatus(s)
    BY <1>1 DEF PG!GetQAEnvironmentsByStatus, PG!Select, Fake!GetQAEnvironmentsByStatus, Fake!Filter
<1>3. ASSUME NEW r \in RepoData
      PROVE  /\ PG!GetQAEnvironmentsByRepoAndPR(r.repo, r.pull_request)
                    = Fake!GetQAEnvironmentsByRepoAndPR(r.repo, r.pull_request)
             /\ PG!GetExtantQAEnvironments(r.repo, r.pull_request)
                    = Fake!GetExtantQAEnvironments(r.repo, r.pull_request)
             /\ PG!GetQAEnvironmentsByRepo(r.repo) = Fake!GetQAEnvironmentsByRepo(r.repo)
             /\ PG!GetQAEnvironmentBySourceSHA(r.source_sha)
                    = Fake!GetQAEnvironmentBySourceSHA(r.source_sha)
             /\ PG!GetQAEnvironmentsBySourceBranch(r.source_branch)
                    = Fake!GetQAEnvironmentsBySourceBranch(r.source_branch)
             /\ PG!GetQAEnvironmentsByUser(r.username)
                    = Fake!GetQAEnvironmentsByUser(r.username)
    BY <1>1 DEF PG!Select, Fake!Filter,
       PG!GetQAEnvironmentsByRepoAndPR, Fake!GetQAEnvironmentsByRepoAndPR,
       PG!GetExtantQAEnvironments, Fake!GetExtantQAEnvironments,
       PG!GetQAEnvironmentsByRepo, Fake!GetQAEnvironmentsByRepo,
       PG!GetQAEnvironmentBySourceSHA, Fake!GetQAEnvironmentBySourceSHA,
       PG!GetQAEnvironmentsBySourceBranch, Fake!GetQAEnvironmentsBySourceBranch,
       PG!GetQAEnvironmentsByUser, Fake!GetQAEnvironmentsByUser
<1> QED BY <1>2, <1>3, RunningAgree, SearchAgrees DEF SameSelections

LEMMA LayersInvSameAnswers == LayersInv => SameAnswers
<1> SUFFICES ASSUME LayersInv PROVE SameAnswers
    OBVIOUS
<1>1. CASE group = "local"
    BY <1>1 DEF LayersInv, FilesMatch, SameAnswers, AnswersAgree, RowsHaveRecords
<1>2. CASE group # "local"
    <2>1. RecordsMatch /\ RowsMatch /\ LogsMatch /\ LogsNamed /\ SessionsMatch
        BY <1>2 DEF LayersInv
    <2>2. RowsHaveRecords
        BY <2>1 DEF RecordsMatch, RowsMatch, Same, RowsHaveRecords
    <2> QED BY <2>1, <2>2, RecordsAgree, RowsAgree, LogsAgree, SessionsAgree, SelectionsAgree,
            DifferencesKnown DEF SameAnswers, AnswersAgree
<1> QED BY <1>1, <1>2

----------------------------------------------------------------------------
(* Shutdown, for any sets of requests.  OperationsFinish is not inductive:  *)
(* that no operation of a counted webhook runs after main has waited for v0 *)
(* depends on there being no handler any more that could start one, because *)
(* main has waited for the handlers before.                                 *)

Progress == {"client", "refused", "accepted", "handling", "started", "returned", "answered"}

\* The sets that the variables range over.
ServerTypeOK ==
    /\ req \in [Main!Requests -> Progress]
    /\ op \in [Main!Requests -> {"none", "running", "over"}]
    /\ stopped \in BOOLEAN
    /\ waited \in 0..4
    /\ counted \subseteq Main!Waited

\* A handler that main has waited for has returned.
HandlersReturned ==
    /\ \A r \in counted : req[r] \in {"handling", "started", "returned", "answered"}
    /\ waited >= 1 => \A r \in counted : req[r] \in {"returned", "answered"}

\* An operation that main has waited for is over.
OperationsOver == waited >= 2 => \A r \in counted \cap Webhooks : op[r] # "running"

ServerInv == ServerTypeOK /\ HandlersReturned /\ OperationsOver

LEMMA WaitGroupsLength ==
    Len(Main!WaitGroups) = 4 /\ Main!WaitGroups[1] = "handlers" /\ Main!WaitGroups[2] = "v0"
<1>1. Len(Main!WaitGroups) = 4
    BY DEF Main!WaitGroups
<1>2. Main!WaitGroups[1] = "handlers"
    BY DEF Main!WaitGroups
<1>3. Main!WaitGroups[2] = "v0"
    BY DEF Main!WaitGroups
<1> QED BY <1>1, <1>2, <1>3

LEMMA ServerInvInit == Main!ServerInit => ServerInv
<1> SUFFICES ASSUME Main!ServerInit PROVE ServerInv
    OBVIOUS
<1>1. ServerTypeOK
    <2>1. req \in [Main!Requests -> Progress]
        BY DEF Main!ServerInit, Progress
    <2>2. op \in [Main!Requests -> {"none", "running", "over"}]
        BY DEF Main!ServerInit
    <2>3. stopped \in BOOLEAN
        BY Zenon DEF Main!ServerInit
    <2>4. waited \in 0..4
        <3>1. waited = 0
            BY Zenon DEF Main!ServerInit
        <3> QED BY <3>1
    <2>5. counted \subseteq Main!Waited
        BY Zenon DEF Main!ServerInit
    <2> QED BY <2>1, <2>2, <2>3, <2>4, <2>5 DEF ServerTypeOK
<1>2. HandlersReturned /\ OperationsOver
    BY DEF Main!ServerInit, HandlersReturned, OperationsOver
<1> QED BY <1>1, <1>2 DEF ServerInv

LEMMA ServerInvNext == ServerInv /\ (Main!ServerNext \/ UNCHANGED Main!serverVars) => ServerInv'
<1> SUFFICES ASSUME ServerInv, Main!ServerNext \/ UNCHANGED Main!serverVars PROVE ServerInv'
    OBVIOUS
<1> USE DEF ServerInv, ServerTypeOK, HandlersReturned, OperationsOver, Progress, Main!Waited, Main!Requests
<1>1. ASSUME NEW r \in Main!Requests, Main!Connect(r) PROVE ServerInv'
    <2>1. req[r] = "client" /\ req' = [req EXCEPT ![r] = IF stopped THEN "refused" ELSE "accepted"]
        BY <1>1 DEF Main!Connect, Main!Go
    <2>2. r \notin counted
        BY <2>1
    <2>3. UNCHANGED <<op, stopped, waited, counted>>
        BY <1>1 DEF Main!Connect
    <2> QED BY <2>1, <2>2, <2>3
<1>2. ASSUME NEW r \in Main!Requests, Main!Handle(r) PROVE ServerInv'
    <2>1. req[r] = "accepted" /\ req' = [req EXCEPT ![r] = "handling"]
        BY <1>2 DEF Main!Handle, Main!Go
    <2>2. counted' = IF r \in Main!Waited /\ waited = 0 THEN counted \cup {r} ELSE counted
        BY <1>2 DEF Main!Handle
    <2>3. UNCHANGED <<op, stopped, waited>>
        BY <1>2 DEF Main!Handle
    <2>4. r \notin counted
        BY <2>1
    <2>5. ServerTypeOK'
        BY <2>1, <2>2, <2>3
    <2>6. HandlersReturned'
        BY <2>1, <2>2, <2>3, <2>4
    <2>7. OperationsOver'
        BY <2>2, <2>3
    <2> QED BY <2>5, <2>6, <2>7
<1>3. ASSUME NEW r \in Main!Requests, Main!Refuse(r) PROVE ServerInv'
    BY <1>3 DEF Main!Refuse, Main!Go
<1>4. ASSUME NEW r \in Main!Requests, Main!StartOperation(r) PROVE ServerInv'
    <2>1. /\ req[r] = "handling" /\ req' = [req EXCEPT ![r] = "started"]
          /\ op' = [op EXCEPT ![r] = "running"]
          /\ UNCHANGED <<stopped, waited, counted>>
        BY <1>4 DEF Main!StartOperation, Main!Go
    <2>2. waited >= 1 => r \notin counted
        BY <2>1
    <2>3. ServerTypeOK'
        BY <2>1
    <2>4. HandlersReturned'
        BY <2>1, <2>2
    <2>5. OperationsOver'
        BY <2>1, <2>2
    <2> QED BY <2>3, <2>4, <2>5
<1>5. ASSUME NEW r \in Main!Requests, Main!HandlerReturns(r) PROVE ServerInv'
    BY <1>5 DEF Main!HandlerReturns, Main!Go
<1>6. ASSUME NEW r \in Main!Requests, Main!Respond(r) PROVE ServerInv'
    BY <1>6 DEF Main!Respond, Main!Go
<1>7. ASSUME NEW r \in Main!Requests, Main!OperationEnds(r) PROVE ServerInv'
    BY <1>7 DEF Main!OperationEnds
<1>8. CASE Main!Sigterm
    BY <1>8 DEF Main!Sigterm
<1>9. CASE Main!Wait
    <2>1. /\ waited' = waited + 1 /\ waited # 4 /\ UNCHANGED <<req, op, stopped, counted>>
          /\ \A r \in Main!Requests : Main!WaitGroups[waited + 1] \notin Main!Holds(r)
        BY <1>9, WaitGroupsLength DEF Main!Wait, Main!Exited
    <2>2. ServerTypeOK'
        BY <2>1
    <2>3. HandlersReturned'
        <3>1. CASE waited = 0
            <4>1. \A r \in counted : "handlers" \notin Main!Holds(r)
                BY <2>1, <3>1, WaitGroupsLength
            <4> QED BY <4>1, <2>1 DEF Main!Holds
        <3>2. CASE waited >= 1
            BY <2>1, <3>2
        <3> QED BY <3>1, <3>2
    <2>4. OperationsOver'
        <3>1. CASE waited = 1
            <4>1. \A r \in counted \cap Webhooks : "v0" \notin Main!Holds(r)
                BY <2>1, <3>1, WaitGroupsLength
            <4> QED BY <4>1, <2>1 DEF Main!Holds
        <3>2. CASE waited # 1
            BY <2>1, <3>2
        <3> QED BY <3>1, <3>2
    <2> QED BY <2>2, <2>3, <2>4
<1>10. CASE UNCHANGED Main!serverVars
    BY <1>10 DEF Main!serverVars
<1> QED BY <1>1, <1>2, <1>3, <1>4, <1>5, <1>6, <1>7, <1>8, <1>9, <1>10 DEF Main!ServerNext

\* The process does not end under the operation of a webhook whose handler main has
\* waited for (cmd/server.go: WaitForHandlers, then WaitForAsync).
THEOREM OperationsFinished == Spec => []OperationsFinish
<1>1. Init => ServerInv
    BY ServerInvInit DEF Init
<1>2. ServerInv /\ [Next]_vars => ServerInv'
    <2> SUFFICES ASSUME ServerInv, [Next]_vars PROVE ServerInv'
        OBVIOUS
    <2>1. Main!ServerNext \/ UNCHANGED processVars
        BY DEF Next, vars
    <2> QED BY <2>1, ServerInvNext DEF processVars, Main!serverVars
<1>3. ServerInv => OperationsFinish
    BY WaitGroupsLength DEF ServerInv, ServerTypeOK, OperationsOver, OperationsFinish,
        Main!OperationsFinish, Main!Exited
<1> QED BY <1>1, <1>2, <1>3, PTL DEF Spec
----------------------------------------------------------------------------
(* Intake, for any events.  What a route has started depends on what its    *)
(* handler has checked at each step before.                                 *)

Outcomes == {"found", "missing", "malformed", "error"}

IntakeTypeOK ==
    /\ event \in Events
    /\ at \in [Hooks!Routes -> {"received", "relevant?", "process", "fetch", "answered"}]
    /\ log \in [Hooks!Routes ->
                   {NULL} \cup [delivery : {event.delivery, NULL}, stub : BOOLEAN]]
    /\ started \in [Hooks!Routes -> {NULL, "create", "update", "destroy"}]
    /\ answer \in [Hooks!Routes -> {NULL, 200, 202, 400, 403, 500}]
    /\ outages \in Nat

\* What a handler has seen of the event before it calls processWebhook.
Accepted(r) ==
    /\ event.signed /\ event.json /\ event.action \in Hooks!Supported
    /\ event.type = "pull_request"
    /\ log[r] # NULL

\* A route at each of its steps.
Progressing ==
    \A r \in Hooks!Routes :
        /\ at[r] \in {"relevant?", "process", "fetch"} => Accepted(r)
        /\ at[r] = "fetch" => log[r].stub
        /\ at[r] # "answered" => started[r] = NULL
        /\ started[r] # NULL =>
              /\ Accepted(r) /\ log[r].stub
              /\ started[r] = Hooks!OperationOf(event.action)
        /\ answer[r] \in {400, 403, 500} => started[r] = NULL
        /\ at[r] = "answered" <=> answer[r] # NULL

\* The events that both routes look at in the same way.
Plain ==
    /\ outages = 0 /\ ~event.fork /\ event.delivery # "bad" /\ event.targeted
    /\ event.sha /\ event.branch /\ event.acyl # "malformed"

\* What both start for them.
Asked ==
    IF /\ event.signed /\ event.json /\ event.action \in Hooks!Supported
       /\ event.acyl # "missing"
    THEN Hooks!OperationOf(event.action) ELSE NULL

PlainAnswer == \A r \in Hooks!Routes : Plain /\ at[r] = "answered" => started[r] = Asked

IntakeInv == IntakeTypeOK /\ Progressing /\ PlainAnswer


LEMMA OperationNamed ==
    \A action \in Hooks!Supported : Hooks!OperationOf(action) \in {"create", "update", "destroy"}
BY DEF Hooks!Supported, Hooks!OperationOf

\* A log is there once it has been created.
LEMMA LogIsThere ==
    ASSUME NEW e \in Events, NEW x \in [delivery : {e.delivery, NULL}, stub : BOOLEAN]
    PROVE  x # NULL
<1>1. {e.delivery, NULL} \subseteq {y.delivery : y \in Events} \cup {NULL}
    OBVIOUS
<1>2. x \in [delivery : {y.delivery : y \in Events} \cup {NULL}, stub : BOOLEAN]
    BY <1>1
<1> QED BY <1>2, IntakeAssumption

\* What the variable log becomes.
EventLogs == [Hooks!Routes -> {NULL} \cup [delivery : {event.delivery, NULL}, stub : BOOLEAN]]

LEMMA LogCreated ==
    ASSUME IntakeInv, NEW r \in Hooks!Routes, NEW n \in {event.delivery, NULL},
           Hooks!CreateLog(r, n), UNCHANGED event
    PROVE  /\ log' \in EventLogs /\ log'[r] # NULL
           /\ \A q \in Hooks!Routes \ {r} : log'[q] = log[q]
<1> DEFINE new == [delivery |-> n, stub |-> FALSE]
<1>1. log' = [log EXCEPT ![r] = new] /\ log \in EventLogs /\ event \in Events
    BY DEF Hooks!CreateLog, IntakeInv, IntakeTypeOK, EventLogs
<1>2. new \in [delivery : {event.delivery, NULL}, stub : BOOLEAN]
    OBVIOUS
<1>3. new # NULL
    BY <1>1, <1>2, LogIsThere
<1> HIDE DEF new
<1> QED BY <1>1, <1>2, <1>3 DEF EventLogs

LEMMA IntakeInvInit == Hooks!IntakeInit => IntakeInv
BY IntakeAssumption
   DEF Hooks!IntakeInit, IntakeInv, IntakeTypeOK, Progressing, PlainAnswer, Hooks!Routes

\* The last step of a route.
LEMMA RouteAnswers ==
    ASSUME IntakeInv, NEW r \in Hooks!Routes, NEW s \in {200, 202, 400, 403, 500},
           at[r] # "answered", Hooks!Answer(r, s), UNCHANGED <<event, started>>,
           outages' \in Nat, outages <= outages',
           log' = log \/ \E n \in {event.delivery, NULL} : Hooks!CreateLog(r, n),
           Plain' => Asked = NULL
    PROVE  IntakeInv'
<1> USE IntakeAssumption DEF Hooks!Answer, Hooks!CreateLog, Hooks!Routes
<1>0. log' \in EventLogs
    BY LogCreated DEF IntakeInv, IntakeTypeOK, EventLogs
<1>1. IntakeTypeOK'
    BY <1>0 DEF IntakeInv, IntakeTypeOK, EventLogs
<1>2. Progressing'
    <2> SUFFICES ASSUME NEW q \in Hooks!Routes PROVE Progressing!(q)'
        BY DEF Progressing
    <2>1. Progressing!(q)
        BY DEF IntakeInv, Progressing
    <2> QED BY <2>1 DEF IntakeInv, IntakeTypeOK, Accepted
<1>3. PlainAnswer'
    <2>1. Plain' => Plain
        BY DEF Plain, IntakeInv, IntakeTypeOK
    <2>2. Asked' = Asked
        BY DEF Asked
    <2> QED BY <2>1, <2>2 DEF IntakeInv, IntakeTypeOK, PlainAnswer, Progressing
<1> QED BY <1>1, <1>2, <1>3 DEF IntakeInv

\* A step of a route before its last.
LEMMA RouteProceeds ==
    ASSUME IntakeInv, NEW r \in Hooks!Routes, NEW s \in {"relevant?", "process", "fetch"},
           at[r] # "answered", Hooks!Goto(r, s), UNCHANGED <<event, started>>,
           outages' \in Nat, outages <= outages',
           log' \in EventLogs,
           \A q \in Hooks!Routes \ {r} : log'[q] = log[q],
           Accepted(r)', s = "fetch" => log'[r].stub
    PROVE  IntakeInv'
<1> USE IntakeAssumption DEF Hooks!Goto, Hooks!Routes
<1>1. IntakeTypeOK'
    BY DEF IntakeInv, IntakeTypeOK, EventLogs
<1>2. Progressing'
    BY DEF IntakeInv, IntakeTypeOK, Progressing, Accepted
<1>3. PlainAnswer'
    <2>1. Plain' => Plain
        BY DEF Plain, IntakeInv, IntakeTypeOK
    <2>2. Asked' = Asked
        BY DEF Asked
    <2> QED BY <2>1, <2>2 DEF IntakeInv, IntakeTypeOK, PlainAnswer
<1> QED BY <1>1, <1>2, <1>3 DEF IntakeInv

LEMMA IntakeInvNext == IntakeInv /\ (Hooks!IntakeNext \/ UNCHANGED Hooks!intakeVars) => IntakeInv'
<1> SUFFICES ASSUME IntakeInv, Hooks!IntakeNext \/ UNCHANGED Hooks!intakeVars PROVE IntakeInv'
    OBVIOUS
<1>0. /\ event \in Events /\ outages \in Nat
      /\ event.sha => event.type = "pull_request"
      /\ event.acyl \in {"found", "missing", "malformed"}
      /\ "legacy" \in Hooks!Routes /\ "app" \in Hooks!Routes
    BY IntakeAssumption DEF IntakeInv, IntakeTypeOK, Hooks!Routes
<1>f. ASSUME NEW outcome, Hooks!Fetch(outcome)
      PROVE  /\ outages' \in Nat /\ outages <= outages'
             /\ outages' = 0 => outcome = event.acyl
    BY <1>f, <1>0 DEF Hooks!Fetch
<1>1. CASE Hooks!LegacyReceive
    <2> DEFINE delivery == IF event.delivery = "bad" THEN NULL ELSE event.delivery
    <2>1. /\ at["legacy"] = "received" /\ UNCHANGED <<event, started, outages>>
        BY <1>1 DEF Hooks!LegacyReceive
    <2>2. CASE ~event.signed /\ Hooks!Answer("legacy", 403) /\ UNCHANGED log
        BY <2>1, <2>2, <1>0, RouteAnswers DEF Asked
    <2>3. CASE event.signed /\ ~event.json /\ Hooks!Answer("legacy", 400) /\ UNCHANGED log
        BY <2>1, <2>3, <1>0, RouteAnswers DEF Asked
    <2>4. CASE /\ event.signed /\ event.json /\ Hooks!CreateLog("legacy", delivery)
               /\ event.action \notin Hooks!Supported /\ Hooks!Answer("legacy", 202)
        BY <2>1, <2>4, <1>0, RouteAnswers DEF Asked
    <2>5. CASE /\ event.signed /\ event.json /\ Hooks!CreateLog("legacy", delivery)
               /\ ~event.sha /\ Hooks!Answer("legacy", 400)
        <3>1. ~Plain'
            BY <2>1, <2>5 DEF Plain
        <3> QED BY <2>1, <2>5, <3>1, <1>0, RouteAnswers
    <2>6. CASE /\ event.signed /\ event.json /\ Hooks!CreateLog("legacy", delivery)
               /\ event.action \in Hooks!Supported /\ event.sha
               /\ Hooks!Goto("legacy", "relevant?")
        <3>3. /\ log' \in EventLogs /\ log'["legacy"] # NULL
              /\ \A q \in Hooks!Routes \ {"legacy"} : log'[q] = log[q]
            BY <2>1, <2>6, <1>0, LogCreated
        <3>4. Accepted("legacy")'
            BY <2>1, <2>6, <3>3, <1>0 DEF Accepted
        <3> HIDE DEF delivery
        <3> QED BY <2>1, <2>6, <3>3, <3>4, <1>0, RouteProceeds
    <2> QED BY <1>1, <2>2, <2>3, <2>4, <2>5, <2>6 DEF Hooks!LegacyReceive
<1>2. CASE Hooks!CheckRelevancy
    <2>1. PICK outcome \in Outcomes :
             /\ Hooks!Fetch(outcome)
             /\ CASE outcome # "found" -> Hooks!Answer("legacy", 400)
                  [] outcome = "found" /\ ~event.targeted -> Hooks!Answer("legacy", 202)
                  [] outcome = "found" /\ event.targeted /\ ~event.branch ->
                        Hooks!Answer("legacy", 500)
                  [] OTHER -> Hooks!Goto("legacy", "process")
        BY <1>2 DEF Hooks!CheckRelevancy, Outcomes
    <2>2. at["legacy"] = "relevant?" /\ UNCHANGED <<event, log, started>>
        BY <1>2 DEF Hooks!CheckRelevancy
    <2>3. /\ outages' \in Nat /\ outages <= outages'
          /\ outages' = 0 => outcome = event.acyl
        BY <2>1, <1>f
    <2>4. CASE outcome # "found" /\ Hooks!Answer("legacy", 400)
        <3>1. Plain' => Asked = NULL
            BY <2>1, <2>2, <2>3, <2>4, <1>0 DEF Plain, Asked, Outcomes
        <3> QED BY <2>2, <2>3, <2>4, <3>1, <1>0, RouteAnswers
    <2>5. CASE ~event.targeted /\ Hooks!Answer("legacy", 202)
        <3>1. ~Plain'
            BY <2>2, <2>5 DEF Plain
        <3> QED BY <2>2, <2>3, <2>5, <3>1, <1>0, RouteAnswers
    <2>6. CASE ~event.branch /\ Hooks!Answer("legacy", 500)
        <3>1. ~Plain'
            BY <2>2, <2>6 DEF Plain
        <3> QED BY <2>2, <2>3, <2>6, <3>1, <1>0, RouteAnswers
    <2>7. CASE Hooks!Goto("legacy", "process")
        <3>1. Accepted("legacy")'
            BY <2>2, <1>0 DEF IntakeInv, Progressing, Accepted
        <3>2. log' \in EventLogs
            BY <2>2 DEF IntakeInv, IntakeTypeOK, EventLogs
        <3> QED BY <2>2, <2>3, <2>7, <3>1, <3>2, <1>0, RouteProceeds
    <2> QED BY <2>1, <2>4, <2>5, <2>6, <2>7
<1>3. CASE Hooks!AppReceive
    <2>1. at["app"] = "received" /\ UNCHANGED <<event, started, outages>>
        BY <1>3 DEF Hooks!AppReceive
    <2>2. CASE /\ \/ ~event.signed \/ event.type = NULL
                  \/ event.type = "pull_request" /\ ~event.json
               /\ Hooks!Answer("app", 500) /\ UNCHANGED log
        <3>1. Plain' => Asked = NULL
            BY <2>1, <2>2, <1>0, IntakeAssumption DEF Plain, Asked
        <3> QED BY <2>1, <2>2, <3>1, <1>0, RouteAnswers
    <2>3. CASE /\ event.type \in {"check", "other"} /\ UNCHANGED log
               /\ Hooks!Answer("app", 200) \/ Hooks!Answer("app", 202)
        <3>1. ~Plain'
            BY <2>1, <2>3, <1>0, IntakeAssumption DEF Plain, IntakeInv, IntakeTypeOK
        <3>2. CASE Hooks!Answer("app", 200)
            BY <2>1, <2>3, <3>1, <3>2, <1>0, RouteAnswers
        <3>3. CASE Hooks!Answer("app", 202)
            BY <2>1, <2>3, <3>1, <3>3, <1>0, RouteAnswers
        <3> QED BY <2>3, <3>2, <3>3
    <2>4. CASE event.delivery = "bad" /\ Hooks!Answer("app", 500) /\ UNCHANGED log
        <3>1. ~Plain'
            BY <2>1, <2>4 DEF Plain
        <3> QED BY <2>1, <2>4, <3>1, <1>0, RouteAnswers
    <2>5. CASE /\ event.fork \/ event.action \notin Hooks!Supported
               /\ Hooks!Answer("app", 200) /\ UNCHANGED log
        <3>1. Plain' => Asked = NULL
            BY <2>1, <2>5 DEF Plain, Asked
        <3> QED BY <2>1, <2>5, <3>1, <1>0, RouteAnswers
    <2>6. CASE /\ event.signed /\ event.json /\ event.type = "pull_request"
               /\ event.action \in Hooks!Supported
               /\ Hooks!CreateLog("app", event.delivery) /\ Hooks!Goto("app", "process")
        <3>3. /\ log' \in EventLogs /\ log'["app"] # NULL
              /\ \A q \in Hooks!Routes \ {"app"} : log'[q] = log[q]
            BY <2>1, <2>6, <1>0, LogCreated
        <3>4. Accepted("app")'
            BY <2>1, <2>6, <3>3 DEF Accepted
        <3> QED BY <2>1, <2>6, <3>3, <3>4, <1>0, RouteProceeds
    <2> QED BY <1>3, <2>2, <2>3, <2>4, <2>5, <2>6 DEF Hooks!AppReceive
<1>4. ASSUME NEW r \in Hooks!Routes, Hooks!SetStub(r) PROVE IntakeInv'
    <2>1. /\ at[r] = "process" /\ Hooks!Goto(r, "fetch")
          /\ log' = [log EXCEPT ![r].stub = TRUE]
          /\ UNCHANGED <<event, started, outages>>
        BY <1>4 DEF Hooks!SetStub
    <2>2. Accepted(r)
        BY <2>1 DEF IntakeInv, Progressing
    <2>3. log[r] \in [delivery : {event.delivery, NULL}, stub : BOOLEAN]
        BY <2>2 DEF Accepted, IntakeInv, IntakeTypeOK
    <2> DEFINE new == [log[r] EXCEPT !.stub = TRUE]
    <2>4. /\ log' = [log EXCEPT ![r] = new] /\ new.stub
          /\ new \in [delivery : {event.delivery, NULL}, stub : BOOLEAN]
        BY <2>1, <2>3
    <2>5. new # NULL
        BY <2>4, <1>0, LogIsThere
    <2> HIDE DEF new
    <2>7. /\ log' \in EventLogs /\ log'[r] = new
          /\ \A q \in Hooks!Routes \ {r} : log'[q] = log[q]
        BY <2>4, <2>5 DEF IntakeInv, IntakeTypeOK, EventLogs
    <2>6. Accepted(r)'
        BY <2>1, <2>2, <2>4, <2>5, <2>7 DEF Accepted
    <2>8. /\ log'[r].stub /\ at[r] # "answered" /\ Hooks!Goto(r, "fetch")
          /\ UNCHANGED <<event, started>> /\ outages' \in Nat /\ outages <= outages'
        BY <2>1, <2>4, <2>7, <1>0
    <2> QED BY <2>6, <2>7, <2>8, RouteProceeds
<1>5. ASSUME NEW r \in Hooks!Routes, Hooks!ProcessWebhook(r) PROVE IntakeInv'
    <2>1. PICK outcome \in Outcomes :
             /\ Hooks!Fetch(outcome)
             /\ CASE outcome = "error" -> Hooks!Answer(r, 500) /\ UNCHANGED started
                  [] outcome = "missing" -> Hooks!Answer(r, 202) /\ UNCHANGED started
                  [] OTHER ->
                        /\ started' = [started EXCEPT ![r] = Hooks!OperationOf(event.action)]
                        /\ Hooks!Answer(r, 202)
        BY <1>5 DEF Hooks!ProcessWebhook, Outcomes
    <2>2. at[r] = "fetch" /\ UNCHANGED <<event, log>>
        BY <1>5 DEF Hooks!ProcessWebhook
    <2>3. /\ outages' \in Nat /\ outages <= outages'
          /\ outages' = 0 => outcome = event.acyl
        BY <2>1, <1>f
    <2>4. CASE outcome = "error" /\ Hooks!Answer(r, 500) /\ UNCHANGED started
        <3>1. Plain' => Asked = NULL
            BY <2>2, <2>3, <2>4, <1>0 DEF Plain, Asked
        <3> QED BY <2>2, <2>3, <2>4, <3>1, <1>0, RouteAnswers
    <2>5. CASE outcome = "missing" /\ Hooks!Answer(r, 202) /\ UNCHANGED started
        <3>1. Plain' => Asked = NULL
            BY <2>2, <2>3, <2>5 DEF Plain, Asked
        <3> QED BY <2>2, <2>3, <2>5, <3>1, <1>0, RouteAnswers
    <2>6. CASE /\ outcome \in {"found", "malformed"}
               /\ started' = [started EXCEPT ![r] = Hooks!OperationOf(event.action)]
               /\ Hooks!Answer(r, 202)
        <3>1. Accepted(r) /\ log[r].stub
            BY <2>2 DEF IntakeInv, Progressing
        <3>2. Hooks!OperationOf(event.action) \in {"create", "update", "destroy"}
            BY <3>1, OperationNamed DEF Accepted
        <3>3. IntakeTypeOK'
            BY <2>2, <2>3, <2>6, <3>2 DEF IntakeInv, IntakeTypeOK, Hooks!Answer
        <3>4. Progressing'
            <4> SUFFICES ASSUME NEW q \in Hooks!Routes PROVE Progressing!(q)'
                BY DEF Progressing
            <4>1. Progressing!(q)
                BY DEF IntakeInv, Progressing
            <4>2. /\ at'[r] = "answered" /\ answer'[r] = 202
                  /\ started'[r] = Hooks!OperationOf(event.action)
                  /\ q # r => /\ at'[q] = at[q] /\ answer'[q] = answer[q]
                              /\ started'[q] = started[q]
                BY <2>6 DEF IntakeInv, IntakeTypeOK, Hooks!Answer
            <4>3. CASE q = r
                BY <2>2, <3>1, <4>2, <4>3, IntakeAssumption DEF Accepted
            <4>4. CASE q # r
                BY <2>2, <4>1, <4>2, <4>4 DEF Accepted
            <4> QED BY <4>3, <4>4
        <3>5. PlainAnswer'
            <4>1. Plain' => Plain /\ outcome = event.acyl
                BY <2>2, <2>3, <1>0 DEF Plain
            <4>2. Asked' = Asked
                BY <2>2 DEF Asked
            <4>3. Plain' => Hooks!OperationOf(event.action) = Asked
                BY <3>1, <4>1, <2>6 DEF Asked, Accepted
            <4> QED BY <2>6, <4>1, <4>2, <4>3
                    DEF IntakeInv, IntakeTypeOK, PlainAnswer, Hooks!Answer
        <3> QED BY <3>3, <3>4, <3>5 DEF IntakeInv
    <2> QED BY <2>1, <2>4, <2>5, <2>6 DEF Outcomes
<1>6. CASE UNCHANGED Hooks!intakeVars
    BY <1>6 DEF Hooks!intakeVars, IntakeInv, IntakeTypeOK, Progressing, PlainAnswer, Accepted,
        Plain, Asked
<1> QED BY <1>1, <1>2, <1>3, <1>4, <1>5, <1>6 DEF Hooks!IntakeNext

----------------------------------------------------------------------------
(* A full rebuild.  It ends in another namespace because nobody restores    *)
(* the signature that its request has reset without a new namespace, and    *)
(* the numbers of namespaces only grow.                                     *)

RebuildTypeOK ==
    /\ env \in [status : {"Success", "Failure", "Destroyed"},
                row : {NULL} \cup [namespace : Nat, sig : {"config", "zero"}],
                latest : Nat]
    /\ asked \in [at : {"client", "refused", "log", "accepted", "running", "done", "failed"},
                 saw : {NULL} \cup Nat]
    /\ lock # NULL => lock \in [who : {"rebuild", "other"}, at : {"read", "install", "charts"},
                               inPlace : BOOLEAN]

\* The namespace that the user saw is there no longer.
Left == env.row # NULL => env.row.namespace # asked.saw

\* The request, from the reading of the row to its end.
RebuildSteps ==
    /\ env.row # NULL => env.row.namespace <= env.latest
    /\ asked.at \notin {"client", "refused"} => asked.saw \in Nat /\ asked.saw <= env.latest
    /\ asked.at \in {"accepted", "running"} =>
          Left \/ (env.row # NULL /\ env.row.sig = "zero")
    /\ lock # NULL /\ lock.who = "rebuild" =>
          /\ asked.at = "running"
          /\ lock.at = "charts" \/ lock.inPlace => Left
    /\ asked.at = "done" => Left

RebuildInv == RebuildTypeOK /\ RebuildSteps

LEMMA RebuildInvInit == Hooks!RebuildInit => RebuildInv
<1> SUFFICES ASSUME Hooks!RebuildInit PROVE RebuildInv
    OBVIOUS
<1>1. /\ env = [status |-> "Success", row |-> [namespace |-> 1, sig |-> "config"], latest |-> 1]
      /\ asked = [at |-> "client", saw |-> NULL] /\ lock = NULL
    BY DEF Hooks!RebuildInit
<1> QED BY <1>1 DEF RebuildInv, RebuildTypeOK, RebuildSteps

LEMMA RebuildInvNext ==
    RebuildInv /\ (Hooks!RebuildNext \/ UNCHANGED Hooks!rebuildVars) => RebuildInv'
<1> SUFFICES ASSUME RebuildInv, Hooks!RebuildNext \/ UNCHANGED Hooks!rebuildVars
             PROVE  RebuildInv'
    OBVIOUS
<1> USE DEF RebuildInv, RebuildTypeOK, RebuildSteps, Left
<1>e. ASSUME NEW status_ \in {"Success", "Failure", "Destroyed"}, Hooks!Ends(status_),
             lock # NULL,
             status_ = "Success" /\ lock.who = "rebuild" => Left
      PROVE  RebuildInv'
    <2>1. /\ env' = [env EXCEPT !.status = status_] /\ lock' = NULL
          /\ env'.row = env.row /\ env'.latest = env.latest
        BY <1>e DEF Hooks!Ends
    <2>2. CASE lock.who = "rebuild"
        <3>1. asked' = [asked EXCEPT !.at = IF status_ = "Success" THEN "done" ELSE "failed"]
            BY <1>e, <2>2 DEF Hooks!Ends
        <3> QED BY <1>e, <2>1, <2>2, <3>1
    <2>3. CASE lock.who # "rebuild"
        <3>1. asked' = asked
            BY <1>e, <2>3 DEF Hooks!Ends
        <3> QED BY <1>e, <2>1, <2>3, <3>1
    <2> QED BY <2>2, <2>3
<1>1. CASE Hooks!AskRebuild
    BY <1>1 DEF Hooks!AskRebuild
<1>2. CASE Hooks!ResetSignature
    <2>1. asked.at = "log" /\ asked' = [asked EXCEPT !.at = "accepted"] /\ UNCHANGED lock
        BY <1>2 DEF Hooks!ResetSignature
    <2>2. CASE env.row = NULL
        BY <1>2, <2>1, <2>2 DEF Hooks!ResetSignature
    <2>3. CASE env.row # NULL
        <3>1. env' = [env EXCEPT !.row.sig = "zero"]
            BY <1>2, <2>3 DEF Hooks!ResetSignature
        <3>2. env.row \in [namespace : Nat, sig : {"config", "zero"}]
            BY <2>3
        <3> DEFINE new == [env.row EXCEPT !.sig = "zero"]
        <3>3. /\ new \in [namespace : Nat, sig : {"config", "zero"}]
              /\ new.namespace = env.row.namespace /\ new.sig = "zero"
            BY <3>2
        <3>4. env' = [env EXCEPT !.row = new] /\ env'.row = new /\ env'.latest = env.latest
            BY <3>1
        <3> HIDE DEF new
        <3> QED BY <2>1, <2>3, <3>3, <3>4
    <2> QED BY <2>2, <2>3
<1>3. CASE Hooks!RebuildLocks
    <2>1. /\ asked.at = "accepted" /\ asked' = [asked EXCEPT !.at = "running"]
          /\ lock' = [who |-> "rebuild", at |-> "read", inPlace |-> FALSE]
          /\ UNCHANGED env
        BY <1>3 DEF Hooks!RebuildLocks, Hooks!Take
    <2> QED BY <2>1
<1>4. CASE Hooks!OtherLocks
    <2>1. /\ lock' = [who |-> "other", at |-> "read", inPlace |-> FALSE]
          /\ UNCHANGED <<env, asked>>
        BY <1>4 DEF Hooks!OtherLocks, Hooks!Take
    <2> QED BY <2>1
<1>5. CASE Hooks!UpdateReads
    <2>1. lock # NULL /\ lock.at = "read"
        BY <1>5 DEF Hooks!UpdateReads
    <2>2. CASE Hooks!Ends("Failure")
        BY <2>1, <2>2, <1>e
    <2>3. CASE /\ UNCHANGED <<env, asked>>
               /\ \E b \in BOOLEAN :
                     /\ b => env.row # NULL /\ env.row.sig = "config"
                     /\ lock' = [lock EXCEPT !.at = "install", !.inPlace = b]
        BY <2>1, <2>3
    <2> QED BY <1>5, <2>1, <2>2, <2>3 DEF Hooks!UpdateReads
<1>6. CASE Hooks!WriteRow
    <2> DEFINE new == [namespace |-> env.latest + 1, sig |-> "config"]
    <2>1. /\ lock # NULL /\ lock' = [lock EXCEPT !.at = "charts"]
          /\ env' = [env EXCEPT !.row = new, !.latest = @ + 1] /\ UNCHANGED asked
        BY <1>6 DEF Hooks!WriteRow
    <2>2. new \in [namespace : Nat, sig : {"config", "zero"}] /\ new.namespace = env.latest + 1
        OBVIOUS
    <2> HIDE DEF new
    <2>3. env'.row = new /\ env'.latest = env.latest + 1
        BY <2>1
    <2>4. RebuildTypeOK'
        BY <2>1, <2>2
    <2>5. asked.at \notin {"client", "refused"} => Left'
        BY <2>1, <2>2, <2>3
    <2>6. lock'.who = lock.who /\ lock'.inPlace = lock.inPlace
        BY <2>1
    <2> QED BY <2>1, <2>2, <2>3, <2>4, <2>5, <2>6
<1>7. CASE Hooks!Installed
    <2>1. /\ lock # NULL /\ (Hooks!Ends("Success") \/ Hooks!Ends("Failure"))
          /\ lock.at = "charts" \/ lock.inPlace
        BY <1>7 DEF Hooks!Installed
    <2> QED BY <2>1, <1>e
<1>8. CASE Hooks!Deleted
    BY <1>8, <1>e DEF Hooks!Deleted
<1>9. CASE Hooks!TornDown
    BY <1>9 DEF Hooks!TornDown
<1>10. CASE UNCHANGED Hooks!rebuildVars
    BY <1>10 DEF Hooks!rebuildVars
<1> QED BY <1>1, <1>2, <1>3, <1>4, <1>5, <1>6, <1>7, <1>8, <1>9, <1>10 DEF Hooks!RebuildNext

\* GitHub is told the truth by each of its two routes, both start the same where they look
\* at the same, and a full rebuild that succeeds has left the namespace that the user saw,
\* if the environment has a row by then (processWebhook, pkg/ghevent, pkg/ghapp,
\* userEnvActionsRebuildHandler).
THEOREM RequestsAreKept == Spec => []RequestsKept
<1>1. Init => IntakeInv /\ RebuildInv
    BY IntakeInvInit, RebuildInvInit DEF Init
<1>2. IntakeInv /\ RebuildInv /\ [Next]_vars => (IntakeInv /\ RebuildInv)'
    <2> SUFFICES ASSUME IntakeInv, RebuildInv, [Next]_vars PROVE (IntakeInv /\ RebuildInv)'
        OBVIOUS
    <2>1. Hooks!IntakeNext \/ UNCHANGED eventVars
        BY DEF Next, vars
    <2>2. Hooks!RebuildNext \/ UNCHANGED rebuildVars
        BY DEF Next, vars
    <2> QED BY <2>1, <2>2, IntakeInvNext, RebuildInvNext
            DEF eventVars, rebuildVars, Hooks!intakeVars, Hooks!rebuildVars
<1>3. IntakeInv /\ RebuildInv => RequestsKept
    <2> SUFFICES ASSUME IntakeInv, RebuildInv PROVE RequestsKept
        OBVIOUS
    <2>1. Hooks!AnswersTell
        BY DEF IntakeInv, Progressing, Accepted, Hooks!AnswersTell, Hooks!Supported,
            Hooks!OperationOf
    <2>2. Hooks!RoutesAgree
        BY DEF IntakeInv, PlainAnswer, Plain, Hooks!RoutesAgree, Hooks!Answered, Hooks!Routes
    <2>3. Hooks!FullRebuildRebuilds
        BY DEF RebuildInv, RebuildSteps, Left, Hooks!FullRebuildRebuilds
    <2> QED BY <2>1, <2>2, <2>3 DEF RequestsKept, Hooks!RequestsKept
<1> QED BY <1>1, <1>2, <1>3, PTL DEF Spec

----------------------------------------------------------------------------
(* Login, for any number of tabs.  When every tab is rejected or about to   *)
(* be checked, the one that was redirected last still has its session: the  *)
(* others asked for it before it was the browser's, and cannot have seen    *)
(* its id.                                                                  *)

SessionRows ==
    [target_route : Tabs, state : Nat, expires : Nat, github_user : {NULL, "user"},
     authenticated : BOOLEAN, token : {NULL, "token"}]

SessionIds == {NULL} \cup 1..sequence

TabStates ==
    {"closed", "asked", "page", "delete", "create", "redirect", "github", "callback",
     "authorize", "update", "accepted", "target", "served", "rejected", "unauthorized"}

LoginTypeOK ==
    /\ sequence \in Nat /\ now \in Nat
    /\ DOMAIN ui_sessions \subseteq 1..sequence
    /\ \A i \in DOMAIN ui_sessions : ui_sessions[i] \in SessionRows
    /\ pc \in [Tabs -> TabStates]
    /\ cookie \in SessionIds
    /\ sid \in [Tabs -> SessionIds]
    /\ own \in [Tabs -> SessionIds]
    /\ doomed \in [Tabs -> SessionIds]

\* The session whose state GitHub sends back is there, and is not going to be deleted.
Kept(t) ==
    /\ own[t] \in DOMAIN ui_sessions
    /\ ui_sessions[own[t]].state = own[t] /\ ui_sessions[own[t]].expires >= now
    /\ \A u \in Tabs : doomed[u] # own[t]

\* Until the redirection arrives, nobody else knows the id of the new session.
Unknown(t) ==
    /\ sid[t] = own[t] /\ cookie # own[t]
    /\ \A u \in Tabs \ {t} : sid[u] # own[t]

\* A tab that is not going to be rejected.
Passes(t) ==
    /\ Kept(t)
    /\ \/ pc[t] = "github" /\ cookie = own[t]
       \/ pc[t] = "callback" /\ sid[t] = own[t]

Late == {"github", "callback", "rejected"}

RedirectsKept == \A t \in Tabs : pc[t] = "redirect" => Kept(t) /\ Unknown(t)

SomebodyPasses == (\A t \in Tabs : pc[t] \in Late) => \E t \in Tabs : Passes(t)

LoginInv == LoginTypeOK /\ RedirectsKept /\ SomebodyPasses

\* The other parts of the server have no browser.
LoginOnly == IF group = "login" THEN LoginInv ELSE \A t \in Tabs : pc[t] = "closed"

LEMMA LoginInvInit == UI!BrowserInit /\ ui_sessions = <<>> /\ sequence = 0 => LoginInv
<1> SUFFICES ASSUME UI!BrowserInit, ui_sessions = <<>>, sequence = 0 PROVE LoginInv
    OBVIOUS
<1>1. LoginTypeOK
    BY DEF UI!BrowserInit, LoginTypeOK, SessionIds, TabStates
<1>2. RedirectsKept
    BY DEF UI!BrowserInit, RedirectsKept
<1>3. SomebodyPasses
    BY LoginAssumption DEF UI!BrowserInit, SomebodyPasses, Late
<1> QED BY <1>1, <1>2, <1>3 DEF LoginInv

\* A session stays kept unless it is deleted, or somebody is going to delete it.
LEMMA KeptStays ==
    ASSUME LoginTypeOK, NEW t \in Tabs, Kept(t), UNCHANGED now, own'[t] = own[t],
           own[t] \in DOMAIN ui_sessions',
           ui_sessions'[own[t]].state = ui_sessions[own[t]].state,
           ui_sessions'[own[t]].expires = ui_sessions[own[t]].expires,
           \A u \in Tabs : doomed'[u] \in {doomed[u], NULL}
    PROVE  Kept(t)'
<1>1. own[t] \in Nat
    BY DEF Kept, LoginTypeOK
<1> QED BY <1>1, NullAssumption DEF Kept

\* A step that only changes what a tab waits for, and leaves it outside Late or at the
\* beginning of it, keeps the sessions of the others.
LEMMA OthersKept ==
    ASSUME LoginInv, UNCHANGED <<ui_sessions, sequence, now, doomed, own>>, NEW t \in Tabs,
           NEW next \in TabStates \ {"redirect"}, UI!To(t, next),
           \/ sid' = sid
           \/ sid' = [sid EXCEPT ![t] = cookie],
           \/ cookie' = cookie
           \/ cookie' = sid[t]
    PROVE  LoginTypeOK' /\ RedirectsKept'
<1>1. pc' = [pc EXCEPT ![t] = next]
    BY DEF UI!To
<1>2. LoginTypeOK'
    BY <1>1 DEF LoginInv, LoginTypeOK, SessionIds
<1>3. RedirectsKept'
    <2> SUFFICES ASSUME NEW r \in Tabs, pc'[r] = "redirect" PROVE (Kept(r) /\ Unknown(r))'
        BY DEF RedirectsKept
    <2>1. r # t /\ pc[r] = "redirect"
        BY <1>1 DEF LoginInv, LoginTypeOK
    <2>2. Kept(r) /\ Unknown(r)
        BY <2>1 DEF LoginInv, RedirectsKept
    <2>3. Kept(r)'
        BY <2>2 DEF Kept
    <2>4. Unknown(r)'
        BY <2>1, <2>2 DEF Unknown, LoginInv, LoginTypeOK
    <2> QED BY <2>3, <2>4
<1> QED BY <1>2, <1>3

\* A step after which a tab is not in Late.
LEMMA NotLate ==
    ASSUME LoginTypeOK, NEW t \in Tabs, NEW next \in TabStates \ Late, UI!To(t, next)
    PROVE  SomebodyPasses'
BY DEF LoginTypeOK, UI!To, SomebodyPasses

LEMMA LoginInvNext == LoginInv /\ UI!LoginNext => LoginInv'
<1> SUFFICES ASSUME LoginInv, UI!LoginNext PROVE LoginInv'
    OBVIOUS
<1>0. LoginTypeOK /\ RedirectsKept /\ SomebodyPasses
    BY DEF LoginInv
<1>1. ASSUME NEW t \in Tabs, UI!Ask(t) PROVE LoginInv'
    <2>1. /\ UI!To(t, "asked") /\ sid' = [sid EXCEPT ![t] = cookie]
          /\ UNCHANGED <<ui_sessions, sequence, cookie, own, doomed, now>>
        BY <1>1 DEF UI!Ask, UI!tables
    <2> QED BY <2>1, <1>0, OthersKept, NotLate DEF LoginInv, TabStates, Late
<1>2. ASSUME NEW t \in Tabs, UI!Authenticate(t) PROVE LoginInv'
    <2>1. /\ \E next \in {"create", "page", "delete"} : UI!To(t, next)
          /\ UNCHANGED <<ui_sessions, sequence, cookie, sid, own, doomed, now>>
        BY <1>2 DEF UI!Authenticate, UI!tables, UI!pageVars
    <2> QED BY <2>1, <1>0, OthersKept, NotLate DEF LoginInv, TabStates, Late
<1>3. ASSUME NEW t \in Tabs, UI!DeleteInvalid(t) PROVE LoginInv'
    <2>1. /\ pc[t] = "delete" /\ UI!To(t, "create")
          /\ ui_sessions' = [k \in DOMAIN ui_sessions \ {sid[t]} |-> ui_sessions[k]]
          /\ UNCHANGED <<sequence, cookie, sid, own, doomed, now>>
        BY <1>3 DEF UI!DeleteInvalid, UI!DeleteUISession, UI!Delete, UI!pageVars
    <2>2. pc' = [pc EXCEPT ![t] = "create"]
        BY <2>1 DEF UI!To
    <2>3. LoginTypeOK'
        BY <2>1, <2>2, <1>0 DEF LoginTypeOK, SessionIds, TabStates
    <2>4. RedirectsKept'
        <3> SUFFICES ASSUME NEW r \in Tabs, pc'[r] = "redirect" PROVE (Kept(r) /\ Unknown(r))'
            BY DEF RedirectsKept
        <3>1. r # t /\ pc[r] = "redirect"
            BY <2>2, <1>0 DEF LoginTypeOK
        <3>2. Kept(r) /\ Unknown(r)
            BY <3>1, <1>0 DEF RedirectsKept
        <3>3. Kept(r)'
            BY <2>1, <3>1, <3>2, <1>0 DEF Kept, Unknown
        <3>4. Unknown(r)'
            BY <2>1, <3>2 DEF Unknown
        <3> QED BY <3>3, <3>4
    <2>5. SomebodyPasses'
        BY <2>1, <1>0, NotLate DEF TabStates, Late
    <2> QED BY <2>3, <2>4, <2>5 DEF LoginInv
<1>4. ASSUME NEW t \in Tabs, UI!RedirectToAuth(t) PROVE LoginInv'
    <2> DEFINE new == sequence + 1
               uis == [target_route |-> t, state |-> new, expires |-> now + CookieMaxAge,
                       github_user |-> NULL, authenticated |-> FALSE, token |-> NULL]
    <2>1. /\ pc' = [pc EXCEPT ![t] = "redirect"] /\ UI!To(t, "redirect")
          /\ sid' = [sid EXCEPT ![t] = new] /\ own' = [own EXCEPT ![t] = new]
          /\ sequence' = new
          /\ UNCHANGED <<cookie, doomed, now>>
        BY <1>4 DEF UI!RedirectToAuth, UI!CreateUISession, UI!To, UI!pageVars
    <2>2. /\ new \in Nat /\ new \notin 1..sequence /\ 1..new = 1..sequence \cup {new}
          /\ new # NULL
        BY <1>0, NullAssumption DEF LoginTypeOK
    <2>3. ui_sessions' = [k \in DOMAIN ui_sessions \cup {new} |->
                             IF k = new THEN uis ELSE ui_sessions[k]]
        BY <1>4, <1>0, <2>2 DEF UI!RedirectToAuth, UI!CreateUISession, UI!Insert, LoginTypeOK
    <2>4. uis \in SessionRows /\ uis.state = new /\ uis.expires = now + CookieMaxAge
        BY <2>2, <1>0, LoginAssumption DEF SessionRows, LoginTypeOK
    <2> HIDE DEF new, uis
    <2>5. LoginTypeOK'
        BY <2>1, <2>2, <2>3, <2>4, <1>0 DEF LoginTypeOK, SessionIds, TabStates
    <2>6. /\ cookie # new
          /\ \A u \in Tabs : sid[u] # new /\ doomed[u] # new /\ own[u] # new
        BY <2>2, <1>0 DEF LoginTypeOK, SessionIds
    <2>7. RedirectsKept'
        <3> SUFFICES ASSUME NEW r \in Tabs, pc'[r] = "redirect" PROVE (Kept(r) /\ Unknown(r))'
            BY DEF RedirectsKept
        <3>1. CASE r = t
            <4>1. own'[t] = new /\ sid'[t] = new /\ \A u \in Tabs \ {t} : sid'[u] = sid[u]
                BY <2>1, <1>0 DEF LoginTypeOK
            <4>2. now + CookieMaxAge >= now
                BY <1>0, LoginAssumption DEF LoginTypeOK
            <4>3. Kept(t)'
                BY <2>1, <2>3, <2>4, <2>6, <4>1, <4>2 DEF Kept
            <4>4. Unknown(t)'
                BY <2>1, <2>6, <4>1 DEF Unknown
            <4> QED BY <3>1, <4>3, <4>4
        <3>2. CASE r # t
            <4>1. pc[r] = "redirect" /\ own'[r] = own[r]
                BY <2>1, <3>2, <1>0 DEF LoginTypeOK
            <4>2. Kept(r) /\ Unknown(r)
                BY <4>1, <1>0 DEF RedirectsKept
            <4>3. Kept(r)'
                BY <2>1, <2>3, <2>6, <4>1, <4>2, <1>0 DEF Kept
            <4>4. Unknown(r)'
                BY <2>1, <2>6, <3>2, <4>1, <4>2, <1>0 DEF Unknown, LoginTypeOK
            <4> QED BY <4>3, <4>4
        <3> QED BY <3>1, <3>2
    <2>8. SomebodyPasses'
        BY <2>1, <1>0, NotLate DEF TabStates, Late
    <2> QED BY <2>5, <2>7, <2>8 DEF LoginInv
<1>5. ASSUME NEW t \in Tabs, UI!Redirected(t) PROVE LoginInv'
    <2>1. /\ pc[t] = "redirect" /\ UI!To(t, "github") /\ cookie' = sid[t]
          /\ UNCHANGED <<ui_sessions, sequence, sid, own, doomed, now>>
        BY <1>5 DEF UI!Redirected, UI!Arrives, UI!tables, UI!pageVars
    <2>2. LoginTypeOK' /\ RedirectsKept'
        BY <2>1, OthersKept DEF TabStates
    <2>3. Kept(t) /\ Unknown(t)
        BY <2>1, <1>0 DEF RedirectsKept
    <2>4. pc'[t] = "github"
        BY <2>1, <1>0 DEF UI!To, LoginTypeOK
    <2>5. Passes(t)'
        BY <2>1, <2>3, <2>4 DEF Passes, Kept, Unknown
    <2> QED BY <2>2, <2>5 DEF LoginInv, SomebodyPasses
<1>6. ASSUME NEW t \in Tabs, UI!Served(t) PROVE LoginInv'
    <2>1. /\ UI!To(t, "served") /\ cookie' = sid[t]
          /\ UNCHANGED <<ui_sessions, sequence, sid, own, doomed, now>>
        BY <1>6 DEF UI!Served, UI!Arrives, UI!tables, UI!pageVars
    <2> QED BY <2>1, <1>0, OthersKept, NotLate DEF LoginInv, TabStates, Late
<1>7. ASSUME NEW t \in Tabs, UI!Callback(t) PROVE LoginInv'
    <2>1. /\ pc[t] = "github" /\ UI!To(t, "callback") /\ sid' = [sid EXCEPT ![t] = cookie]
          /\ UNCHANGED <<ui_sessions, sequence, cookie, own, doomed, now>>
        BY <1>7 DEF UI!Callback, UI!tables, UI!pageVars
    <2>2. LoginTypeOK' /\ RedirectsKept'
        BY <2>1, OthersKept DEF TabStates
    <2>3. SomebodyPasses'
        <3> SUFFICES ASSUME \A u \in Tabs : pc'[u] \in Late PROVE \E u \in Tabs : Passes(u)'
            BY DEF SomebodyPasses
        <3>1. pc' = [pc EXCEPT ![t] = "callback"]
            BY <2>1 DEF UI!To
        <3>2. \A u \in Tabs : pc[u] \in Late
            BY <2>1, <3>1, <1>0 DEF Late, LoginTypeOK
        <3>3. PICK u \in Tabs : Passes(u)
            BY <3>2, <1>0 DEF SomebodyPasses
        <3>4. Kept(u)'
            BY <2>1, <3>3 DEF Passes, Kept
        <3>5. Passes(u)'
            <4>1. CASE u = t
                BY <2>1, <3>1, <3>3, <3>4, <4>1, <1>0 DEF Passes, LoginTypeOK
            <4>2. CASE u # t
                BY <2>1, <3>1, <3>3, <3>4, <4>2, <1>0 DEF Passes, LoginTypeOK
            <4> QED BY <4>1, <4>2
        <3> QED BY <3>5
    <2> QED BY <2>2, <2>3 DEF LoginInv
<1>8. ASSUME NEW t \in Tabs, UI!CheckState(t) PROVE LoginInv'
    <2> DEFINE uis == UI!GetUISession(sid[t])
    <2>1. /\ pc[t] = "callback"
          /\ UI!To(t, IF uis = NULL \/ (uis # NULL /\ uis.state # own[t]) THEN "rejected"
                      ELSE "authorize")
          /\ UNCHANGED <<ui_sessions, sequence, cookie, sid, own, doomed, now>>
        BY <1>8 DEF UI!CheckState, UI!tables, UI!pageVars
    <2>2. LoginTypeOK' /\ RedirectsKept'
        <3>1. \E next \in {"rejected", "authorize"} : UI!To(t, next)
            BY <2>1
        <3> QED BY <2>1, <3>1, OthersKept DEF TabStates
    <2>3. SomebodyPasses'
        <3> SUFFICES ASSUME \A u \in Tabs : pc'[u] \in Late PROVE \E u \in Tabs : Passes(u)'
            BY DEF SomebodyPasses
        <3>1. /\ pc' = [pc EXCEPT ![t] = "rejected"]
              /\ uis = NULL \/ (uis # NULL /\ uis.state # own[t])
            BY <2>1, <1>0 DEF UI!To, LoginTypeOK, Late
        <3>2. \A u \in Tabs : pc[u] \in Late
            BY <2>1, <3>1, <1>0 DEF Late, LoginTypeOK
        <3>3. PICK u \in Tabs : Passes(u)
            BY <3>2, <1>0 DEF SomebodyPasses
        <3>4. u # t
            <4> SUFFICES ASSUME Passes(t) PROVE FALSE
                BY <3>3
            <4>1. sid[t] = own[t] /\ Kept(t)
                BY <2>1 DEF Passes
            <4>2. uis = ui_sessions[own[t]] /\ uis.state = own[t] /\ uis \in SessionRows
                BY <4>1, <1>0 DEF UI!GetUISession, Kept, LoginTypeOK
            <4>3. uis # NULL
                BY <4>2, NullAssumption DEF SessionRows
            <4> QED BY <3>1, <4>2, <4>3
        <3>5. Passes(u)'
            BY <2>1, <3>1, <3>3, <3>4, <1>0 DEF Passes, Kept, LoginTypeOK
        <3> QED BY <3>5
    <2> QED BY <2>2, <2>3 DEF LoginInv
<1>9. ASSUME NEW t \in Tabs, UI!Authorize(t) PROVE LoginInv'
    <2>1. /\ \E next \in {"update", "unauthorized"} : UI!To(t, next)
          /\ UNCHANGED <<ui_sessions, sequence, cookie, sid, own, doomed, now>>
        BY <1>9 DEF UI!Authorize, UI!tables, UI!pageVars
    <2> QED BY <2>1, <1>0, OthersKept, NotLate DEF LoginInv, TabStates, Late
<1>10. ASSUME NEW t \in Tabs, UI!UpdateSession(t) PROVE LoginInv'
    <2>1. /\ pc' = [pc EXCEPT ![t] = "accepted"] /\ UI!To(t, "accepted")
          /\ UNCHANGED <<sequence, cookie, sid, own, doomed, now>>
          /\ ui_sessions' =
                [i \in DOMAIN ui_sessions |->
                    IF i = sid[t] THEN [ui_sessions[i] EXCEPT !.github_user = "user",
                                               !.token = "token", !.authenticated = TRUE]
                    ELSE ui_sessions[i]]
        BY <1>10 DEF UI!UpdateSession, UI!UpdateUISession, UI!To, UI!pageVars
    <2>2. \A i \in DOMAIN ui_sessions :
             /\ ui_sessions'[i] \in SessionRows
             /\ ui_sessions'[i].state = ui_sessions[i].state
             /\ ui_sessions'[i].expires = ui_sessions[i].expires
        BY <2>1, <1>0 DEF LoginTypeOK, SessionRows
    <2>3. LoginTypeOK'
        BY <2>1, <2>2, <1>0 DEF LoginTypeOK, SessionIds, TabStates
    <2>4. RedirectsKept'
        <3> SUFFICES ASSUME NEW r \in Tabs, pc'[r] = "redirect" PROVE (Kept(r) /\ Unknown(r))'
            BY DEF RedirectsKept
        <3>1. pc[r] = "redirect"
            BY <2>1, <1>0 DEF LoginTypeOK
        <3>2. Kept(r) /\ Unknown(r)
            BY <3>1, <1>0 DEF RedirectsKept
        <3>3. own[r] \in DOMAIN ui_sessions'
            BY <2>1, <3>2 DEF Kept
        <3>4. Kept(r)'
            BY <2>1, <2>2, <3>2, <3>3 DEF Kept
        <3>5. Unknown(r)'
            BY <2>1, <3>2 DEF Unknown
        <3> QED BY <3>4, <3>5
    <2>5. SomebodyPasses'
        BY <2>1, <1>0, NotLate DEF TabStates, Late
    <2> QED BY <2>3, <2>4, <2>5 DEF LoginInv
<1>11. ASSUME NEW t \in Tabs, UI!Accepted(t) PROVE LoginInv'
    <2>1. /\ UI!To(t, "target") /\ cookie' = sid[t]
          /\ UNCHANGED <<ui_sessions, sequence, sid, own, doomed, now>>
        BY <1>11 DEF UI!Accepted, UI!Arrives, UI!tables, UI!pageVars
    <2> QED BY <2>1, <1>0, OthersKept, NotLate DEF LoginInv, TabStates, Late
<1>12. ASSUME NEW t \in Tabs, UI!Poll(t) PROVE LoginInv'
    <2>1. /\ pc[t] = "served"
          /\ \E x \in {NULL, cookie} : doomed' = [doomed EXCEPT ![t] = x]
          /\ UNCHANGED <<ui_sessions, sequence, cookie, pc, sid, own, now>>
        BY <1>12 DEF UI!Poll, UI!tables, UI!tabVars
    <2>2. PICK x \in {NULL, cookie} : doomed' = [doomed EXCEPT ![t] = x]
        BY <2>1
    <2>3. LoginTypeOK'
        BY <2>1, <2>2, <1>0 DEF LoginTypeOK, SessionIds
    <2>4. RedirectsKept'
        <3> SUFFICES ASSUME NEW r \in Tabs, pc'[r] = "redirect" PROVE (Kept(r) /\ Unknown(r))'
            BY DEF RedirectsKept
        <3>1. Kept(r) /\ Unknown(r)
            BY <2>1, <1>0 DEF RedirectsKept
        <3>2. own[r] # NULL /\ own[r] # cookie
            BY <3>1, <1>0, NullAssumption DEF Kept, Unknown, LoginTypeOK
        <3> QED BY <2>1, <2>2, <3>1, <3>2, <1>0 DEF Kept, Unknown, LoginTypeOK
    <2>5. SomebodyPasses'
        BY <2>1 DEF SomebodyPasses, Late
    <2> QED BY <2>3, <2>4, <2>5 DEF LoginInv
<1>13. ASSUME ui_sessions' = [k \in DOMAIN ui_sessions' |-> ui_sessions[k]],
              DOMAIN ui_sessions' \subseteq DOMAIN ui_sessions,
              \A t \in Tabs : Kept(t) => own[t] \in DOMAIN ui_sessions',
              \A t \in Tabs : doomed'[t] \in {doomed[t], NULL},
              doomed' \in [Tabs -> SessionIds],
              UNCHANGED <<sequence, cookie, pc, sid, own, now>>
       PROVE  LoginInv'
    <2>1. LoginTypeOK'
        BY <1>13, <1>0 DEF LoginTypeOK, SessionIds
    <2>2. \A t \in Tabs : Kept(t) => Kept(t)'
        BY <1>13, <1>0, KeptStays
    <2>3. RedirectsKept'
        BY <1>13, <2>2, <1>0 DEF RedirectsKept, Unknown
    <2>4. SomebodyPasses'
        BY <1>13, <2>2, <1>0 DEF SomebodyPasses, Passes
    <2> QED BY <2>1, <2>3, <2>4 DEF LoginInv
<1>14. ASSUME NEW t \in Tabs, UI!DeleteDoomed(t) PROVE LoginInv'
    <2>1. /\ ui_sessions' = [k \in DOMAIN ui_sessions \ {doomed[t]} |-> ui_sessions[k]]
          /\ doomed' = [doomed EXCEPT ![t] = NULL]
          /\ UNCHANGED <<sequence, cookie, pc, sid, own, now>>
        BY <1>14 DEF UI!DeleteDoomed, UI!DeleteUISession, UI!Delete, UI!tabVars
    <2>2. DOMAIN ui_sessions' = DOMAIN ui_sessions \ {doomed[t]}
        BY <2>1
    <2>3. \A u \in Tabs : Kept(u) => own[u] \in DOMAIN ui_sessions'
        BY <2>2 DEF Kept
    <2>4. /\ doomed' \in [Tabs -> SessionIds]
          /\ \A u \in Tabs : doomed'[u] \in {doomed[u], NULL}
        BY <2>1, <1>0 DEF LoginTypeOK, SessionIds
    <2> QED BY <2>1, <2>2, <2>3, <2>4, <1>13
<1>15. CASE UI!Tick
    <2>1. /\ \A t \in Tabs : pc[t] \in UI!AtRest
          /\ now' = now + 1
          /\ UNCHANGED <<ui_sessions, sequence, cookie, pc, sid, own, doomed>>
        BY <1>15 DEF UI!Tick, UI!tables, UI!tabVars, UI!pageVars
    <2>2. LoginTypeOK'
        BY <2>1, <1>0 DEF LoginTypeOK, SessionIds
    <2>3. RedirectsKept'
        BY <2>1 DEF RedirectsKept, UI!AtRest
    <2>4. SomebodyPasses'
        BY <2>1, <1>0 DEF SomebodyPasses, Passes, UI!AtRest
    <2> QED BY <2>2, <2>3, <2>4 DEF LoginInv
<1>16. CASE UI!SessionsCleanup
    <2> DEFINE gone == {i \in DOMAIN ui_sessions : ui_sessions[i].expires < now}
    <2>1. /\ ui_sessions' = [k \in DOMAIN ui_sessions \ gone |-> ui_sessions[k]]
          /\ UNCHANGED <<sequence, cookie, pc, sid, own, doomed, now>>
        BY <1>16 DEF UI!SessionsCleanup, UI!DeleteExpiredUISessions, UI!Delete, UI!tabVars,
            UI!pageVars
    <2>2. DOMAIN ui_sessions' = DOMAIN ui_sessions \ gone
        BY <2>1
    <2>3. \A t \in Tabs : Kept(t) => own[t] \in DOMAIN ui_sessions'
        BY <2>2, <1>0 DEF Kept, LoginTypeOK, SessionRows
    <2>4. doomed' \in [Tabs -> SessionIds] /\ \A t \in Tabs : doomed'[t] = doomed[t]
        BY <2>1, <1>0 DEF LoginTypeOK
    <2> HIDE DEF gone
    <2> QED BY <2>1, <2>2, <2>3, <2>4, <1>13
<1> QED BY <1>1, <1>2, <1>3, <1>4, <1>5, <1>6, <1>7, <1>8, <1>9, <1>10, <1>11, <1>12, <1>14,
           <1>15, <1>16 DEF UI!LoginNext

\* However the requests of the tabs of a browser interleave, at least one of its logins does
\* not fail for what the others did (authenticate, authCallbackHandler and sessionAuth).
THEOREM SomeTabLogsIn == Spec => []NotAllRejected
<1>1. Init => LoginOnly
    <2> SUFFICES ASSUME Init PROVE LoginOnly
        OBVIOUS
    <2>1. UI!BrowserInit
        BY DEF Init
    <2>2. CASE group = "login"
        <3>1. PG!Init
            BY <2>2 DEF Init, LayersInit
        <3> QED BY <2>1, <2>2, <3>1, LoginInvInit DEF LoginOnly, PG!Init
    <2>3. CASE group # "login"
        BY <2>1, <2>3 DEF LoginOnly, UI!BrowserInit
    <2> QED BY <2>2, <2>3
<1>2. LoginOnly /\ [Next]_vars => LoginOnly'
    <2> SUFFICES ASSUME LoginOnly, [Next]_vars PROVE LoginOnly'
        OBVIOUS
    <2>1. UNCHANGED group
        BY DEF Next, vars, LayersNext
    <2>2. CASE group # "login"
        <3>1. UNCHANGED browserVars
            BY <2>2 DEF Next, vars
        <3> QED BY <2>1, <2>2, <3>1 DEF LoginOnly, browserVars
    <2>3. CASE group = "login"
        <3>1. UI!LoginNext \/ UNCHANGED <<tables, browserVars>>
            BY <2>3 DEF Next, vars, LayersNext
        <3>2. UNCHANGED <<tables, browserVars>> => LoginInv'
            BY <2>3 DEF LoginOnly, tables, browserVars, LoginInv, LoginTypeOK, SessionIds,
                RedirectsKept, SomebodyPasses, Kept, Unknown, Passes
        <3>3. LoginInv'
            BY <2>3, <3>1, <3>2, LoginInvNext DEF LoginOnly
        <3> QED BY <2>1, <2>3, <3>3 DEF LoginOnly
    <2> QED BY <2>2, <2>3
<1>3. LoginOnly => NotAllRejected
    BY LoginAssumption
       DEF LoginOnly, LoginInv, SomebodyPasses, Passes, Late, NotAllRejected,
           UI!NotAllRejected, UI!Rejected
<1> QED BY <1>1, <1>2, <1>3, PTL DEF Spec

----------------------------------------------------------------------------
(* Cluster, for any number of teardowns, namespaces, faults and restarts.   *)
(* Between a row and its binding there are the operation, the teardowns and *)
(* the cleanup job; none of them meets what it has not read, unless it is   *)
(* recorded in `disturbed', and each deletes a namespace before its binding *)
(* and the binding before the row.                                          *)

KubeRows == [namespace : 1..created, privileged : BOOLEAN]

TearStates == [row : KubeRows, at : {"namespace", "binding", "row"}, try : Nat]

\* From a new namespace to its row, and from there to the end.
Unlisted == {"write", "old namespace", "old binding", "old row", "insert"}
Listed   == {"set up", "bind", "extras", "tiller", "charts", "success", "fail", "unbind"}

ClusterTypeOK ==
    /\ created \in Nat
    /\ status \in {"none", "Spawned", "Updating", "Success", "Failure", "Destroyed", "pruned"}
    /\ row \in {NULL} \cup KubeRows /\ old \in {NULL} \cup KubeRows
    /\ crb \in {NULL} \cup 1..created /\ job \in {NULL} \cup 1..created
    /\ ns \in {NULL} \cup 1..created /\ (step \in Unlisted \cup Listed => ns # NULL)
    /\ namespaces \subseteq 1..created /\ tillers \subseteq 1..created
    /\ whitelisted \in BOOLEAN
    /\ step \in {"idle", "namespace", "failure"} \cup Unlisted \cup Listed
    /\ tear \in [Teardowns -> {NULL} \cup TearStates]

\* An operation is one of an environment that is there, and a teardown outlives no record.
StatusInv ==
    /\ step # "idle" => status \in Kube!Extant
    /\ \A t \in Teardowns : tear[t] # NULL => status # "pruned"

\* The namespace of the operation is not that of anybody else.
NamespaceInv ==
    /\ step \in Unlisted =>
          /\ ns \notin tillers /\ job # ns
          /\ \A t \in Teardowns : tear[t] # NULL => tear[t].row.namespace # ns
    /\ step \in {"set up", "bind", "extras"} => ns \notin tillers
    /\ step \in {"old namespace", "old binding", "old row"} => old # NULL /\ row \in {NULL, old}
    /\ step = "insert" => row = NULL

\* A namespace is deleted before its binding.
NamespaceFirst ==
    /\ step \in {"old binding", "old row"} => old.namespace \notin namespaces
    /\ step = "unbind" => ns \notin namespaces
    /\ \A t \in Teardowns :
          tear[t] # NULL /\ tear[t].at # "namespace" => tear[t].row.namespace \notin namespaces

\* The row of the operation, and who does not know it.
RowListed ==
    /\ step \in Listed => row # NULL /\ row.namespace = ns
    /\ step \in {"set up", "bind", "extras", "tiller"} => row.privileged = whitelisted
    /\ step = "bind" => whitelisted
    /\ row # NULL /\ (step \in Listed \/ status = "Success") => job # row.namespace
    /\ row # NULL /\ (step \in Listed \/ (step = "idle" /\ status = "Success")) =>
          \A t \in Teardowns : tear[t] # NULL => tear[t].row.namespace # row.namespace

\* A binding without a privileged row is gone.
BindingListed ==
    /\ crb # NULL => status = "pruned" \/ (row # NULL /\ row.privileged)
    /\ \A t \in Teardowns :
          tear[t] # NULL /\ tear[t].at = "row" /\ row = tear[t].row => crb = NULL
    /\ step \in {"old row", "insert", "set up", "bind"} => crb = NULL

\* A namespace that the charts can be upgraded in has its binding.
BindingThere ==
    /\ step \in {"extras", "tiller"} /\ whitelisted => crb = ns
    /\ row # NULL /\ row.privileged /\ row.namespace \in namespaces \cap tillers =>
          (step = "charts" \/ status = "Success" => crb = row.namespace)
    /\ row # NULL /\ row.privileged =>
          (\/ step = "success"
           \/ step = "idle" /\ status = "Success" /\ ~interrupted
           => crb = row.namespace)

ClusterInv ==
    /\ ClusterTypeOK /\ StatusInv
    /\ leaked \/ disturbed \/
          (NamespaceInv /\ NamespaceFirst /\ RowListed /\ BindingListed /\ BindingThere)

LEMMA EmptyIsNotOne == Len(<<>>) # 1
OBVIOUS

\* A row of an environment is a row.
LEMMA RowIsThere ==
    ASSUME created \in Nat, NEW x \in KubeRows
    PROVE  x # NULL /\ x.namespace \in Nat /\ x.namespace # NULL
<1>1. KubeRows \subseteq [namespace : Nat, privileged : BOOLEAN]
    BY DEF KubeRows
<1> QED BY <1>1, NullAssumption

\* A teardown goes on with its row, or tries again.
LEMMA TearGoesOn ==
    ASSUME NEW x \in TearStates, NEW next \in {"namespace", "binding", "row"}
    PROVE  /\ [x EXCEPT !.at = next] \in TearStates
           /\ [x EXCEPT !.at = next].row = x.row /\ [x EXCEPT !.at = next].at = next
BY DEF TearStates

LEMMA TearTries ==
    ASSUME NEW x \in TearStates
    PROVE  /\ [x EXCEPT !.try = x.try + 1] \in TearStates
           /\ [x EXCEPT !.try = x.try + 1].row = x.row /\ [x EXCEPT !.try = x.try + 1].at = x.at
BY DEF TearStates

\* What a teardown and the cleanup job may change.
LEMMA TearTypes ==
    ASSUME ClusterTypeOK, UNCHANGED <<status, step, ns, old, job, whitelisted, tillers, interrupted>>,
           created' = created, row' \in {NULL, row}, namespaces' \subseteq namespaces,
           crb' \in {NULL, crb}, tear' \in [Teardowns -> {NULL} \cup TearStates]
    PROVE  ClusterTypeOK'
<1>1. KubeRows' = KubeRows /\ TearStates' = TearStates
    BY DEF KubeRows, TearStates
<1>2. row' \in {NULL} \cup KubeRows'
    BY <1>1 DEF ClusterTypeOK
<1>3. old' \in {NULL} \cup KubeRows'
    BY <1>1 DEF ClusterTypeOK
<1>4. tear' \in [Teardowns -> {NULL} \cup TearStates']
    BY <1>1
<1>5. crb' \in {NULL} \cup 1..created' /\ job' \in {NULL} \cup 1..created'
    BY DEF ClusterTypeOK
<1>6. namespaces' \subseteq 1..created' /\ tillers' \subseteq 1..created'
    BY DEF ClusterTypeOK
<1>7. /\ created' \in Nat /\ whitelisted' \in BOOLEAN
      /\ ns' \in {NULL} \cup 1..created' /\ (step' \in Unlisted \cup Listed => ns' # NULL)
    BY DEF ClusterTypeOK
<1>8. /\ status' \in {"none", "Spawned", "Updating", "Success", "Failure", "Destroyed", "pruned"}
      /\ step' \in {"idle", "namespace", "failure"} \cup Unlisted \cup Listed
    BY DEF ClusterTypeOK
<1> QED BY <1>2, <1>3, <1>4, <1>5, <1>6, <1>7, <1>8 DEF ClusterTypeOK

LEMMA ClusterInvNext == ClusterInv /\ Kube!ClusterNext => ClusterInv'
<1> SUFFICES ASSUME ClusterInv, Kube!ClusterNext PROVE ClusterInv'
    OBVIOUS
<1> USE NullAssumption
        DEF ClusterInv, ClusterTypeOK, StatusInv, NamespaceInv, NamespaceFirst, RowListed,
            BindingListed, BindingThere, KubeRows, TearStates, Unlisted, Listed, Kube!Extant, Kube!From,
            Kube!Works, Kube!Fails, Kube!dbVars, Kube!opVars, Kube!history, Kube!rest
<1>1. ASSUME Kube!StartCreate PROVE ClusterInv'
    BY <1>1 DEF Kube!StartCreate
<1>2. ASSUME Kube!StartUpgrade PROVE ClusterInv'
    BY <1>2 DEF Kube!StartUpgrade
<1>3. ASSUME Kube!UpdateFails PROVE ClusterInv'
    BY <1>3 DEF Kube!UpdateFails
<1>4. ASSUME Kube!DestroyRecord PROVE ClusterInv'
    BY <1>4 DEF Kube!DestroyRecord
<1>5. ASSUME Kube!EarlyError PROVE ClusterInv'
    BY <1>5 DEF Kube!EarlyError
<1>6. ASSUME Kube!CreateNamespace PROVE ClusterInv'
    BY <1>6 DEF Kube!CreateNamespace
<1>7. ASSUME Kube!ReadRow PROVE ClusterInv'
    BY <1>7 DEF Kube!ReadRow
<1>8. ASSUME Kube!DeleteOldNamespace PROVE ClusterInv'
    <2>1. ClusterTypeOK'
        BY <1>8 DEF Kube!DeleteOldNamespace
    <2>2. StatusInv'
        BY <1>8 DEF Kube!DeleteOldNamespace
    <2>3. leaked' \/ disturbed' \/ NamespaceInv'
        BY <1>8 DEF Kube!DeleteOldNamespace
    <2>4. leaked' \/ disturbed' \/ NamespaceFirst'
        BY <1>8 DEF Kube!DeleteOldNamespace
    <2>5. leaked' \/ disturbed' \/ RowListed'
        BY <1>8 DEF Kube!DeleteOldNamespace
    <2>6. leaked' \/ disturbed' \/ BindingListed'
        BY <1>8 DEF Kube!DeleteOldNamespace
    <2>7. leaked' \/ disturbed' \/ BindingThere'
        BY <1>8 DEF Kube!DeleteOldNamespace
    <2> QED BY <2>1, <2>2, <2>3, <2>4, <2>5, <2>6, <2>7
<1>9. ASSUME Kube!DeleteOldBinding PROVE ClusterInv'
    BY <1>9 DEF Kube!DeleteOldBinding
<1>10. ASSUME Kube!DeleteOldRow PROVE ClusterInv'
    BY <1>10 DEF Kube!DeleteOldRow
<1>11. ASSUME Kube!InsertRow PROVE ClusterInv'
    <2> DEFINE new == [namespace |-> ns, privileged |-> whitelisted]
    <2>0. new \in KubeRows /\ new.namespace = ns /\ new.privileged = whitelisted
        BY <1>11 DEF Kube!InsertRow
    <2>9. new # NULL
        BY <2>0, RowIsThere
    <2>8. /\ step = "insert" /\ step' = "set up" /\ row' = new
          /\ UNCHANGED <<status, namespaces, tillers, crb, ns, old, disturbed, leaked,
                        interrupted, faults, whitelisted, tear, job, created, restarts>>
        BY <1>11 DEF Kube!InsertRow
    <2> HIDE DEF new
    <2>1. ClusterTypeOK'
        BY <2>0, <2>8
    <2>2. StatusInv'
        BY <2>8
    <2>3. leaked' \/ disturbed' \/ NamespaceInv'
        BY <2>0, <2>8, <2>9
    <2>4. leaked' \/ disturbed' \/ NamespaceFirst'
        BY <2>0, <2>8, <2>9
    <2>5. leaked' \/ disturbed' \/ RowListed'
        BY <2>0, <2>8, <2>9
    <2>6. leaked' \/ disturbed' \/ BindingListed'
        BY <2>0, <2>8, <2>9
    <2>7. leaked' \/ disturbed' \/ BindingThere'
        BY <2>0, <2>8, <2>9
    <2> QED BY <2>1, <2>2, <2>3, <2>4, <2>5, <2>6, <2>7
<1>12. ASSUME Kube!SetupNamespace PROVE ClusterInv'
    <2>1. ClusterTypeOK'
        BY <1>12 DEF Kube!SetupNamespace
    <2>2. StatusInv'
        BY <1>12 DEF Kube!SetupNamespace
    <2>3. leaked' \/ disturbed' \/ NamespaceInv'
        BY <1>12 DEF Kube!SetupNamespace
    <2>4. leaked' \/ disturbed' \/ NamespaceFirst'
        BY <1>12 DEF Kube!SetupNamespace
    <2>5. leaked' \/ disturbed' \/ RowListed'
        BY <1>12 DEF Kube!SetupNamespace
    <2>6. leaked' \/ disturbed' \/ BindingListed'
        BY <1>12 DEF Kube!SetupNamespace
    <2>7. leaked' \/ disturbed' \/ BindingThere'
        BY <1>12 DEF Kube!SetupNamespace
    <2> QED BY <2>1, <2>2, <2>3, <2>4, <2>5, <2>6, <2>7
<1>13. ASSUME Kube!CreateBinding PROVE ClusterInv'
    <2>1. ClusterTypeOK'
        BY <1>13 DEF Kube!CreateBinding
    <2>2. StatusInv'
        BY <1>13 DEF Kube!CreateBinding
    <2>3. leaked' \/ disturbed' \/ NamespaceInv'
        BY <1>13 DEF Kube!CreateBinding
    <2>4. leaked' \/ disturbed' \/ NamespaceFirst'
        BY <1>13 DEF Kube!CreateBinding
    <2>5. leaked' \/ disturbed' \/ RowListed'
        BY <1>13 DEF Kube!CreateBinding
    <2>6. leaked' \/ disturbed' \/ BindingListed'
        BY <1>13 DEF Kube!CreateBinding
    <2>7. leaked' \/ disturbed' \/ BindingThere'
        BY <1>13 DEF Kube!CreateBinding
    <2> QED BY <2>1, <2>2, <2>3, <2>4, <2>5, <2>6, <2>7
<1>14. ASSUME Kube!SetupExtras PROVE ClusterInv'
    <2>1. ClusterTypeOK'
        BY <1>14 DEF Kube!SetupExtras
    <2>2. StatusInv'
        BY <1>14 DEF Kube!SetupExtras
    <2>3. leaked' \/ disturbed' \/ NamespaceInv'
        BY <1>14 DEF Kube!SetupExtras
    <2>4. leaked' \/ disturbed' \/ NamespaceFirst'
        BY <1>14 DEF Kube!SetupExtras
    <2>5. leaked' \/ disturbed' \/ RowListed'
        BY <1>14 DEF Kube!SetupExtras
    <2>6. leaked' \/ disturbed' \/ BindingListed'
        BY <1>14 DEF Kube!SetupExtras
    <2>7. leaked' \/ disturbed' \/ BindingThere'
        BY <1>14 DEF Kube!SetupExtras
    <2> QED BY <2>1, <2>2, <2>3, <2>4, <2>5, <2>6, <2>7
<1>15. ASSUME Kube!InstallTiller PROVE ClusterInv'
    <2>0. /\ step = "tiller" /\ step' \in {"charts", "fail"} /\ tillers' = tillers \cup {ns}
          /\ UNCHANGED <<status, row, namespaces, crb, ns, old, disturbed, leaked,
                        interrupted, faults, whitelisted, tear, job, created, restarts>>
        BY <1>15 DEF Kube!InstallTiller
    <2>1. ClusterTypeOK'
        BY <2>0
    <2>2. StatusInv'
        BY <2>0
    <2>3. leaked' \/ disturbed' \/ NamespaceInv'
        BY <2>0
    <2>4. leaked' \/ disturbed' \/ NamespaceFirst'
        BY <2>0
    <2>5. leaked' \/ disturbed' \/ RowListed'
        BY <2>0
    <2>6. leaked' \/ disturbed' \/ BindingListed'
        BY <2>0
    <2>7. leaked' \/ disturbed' \/ BindingThere'
        BY <2>0
    <2> QED BY <2>1, <2>2, <2>3, <2>4, <2>5, <2>6, <2>7
<1>16. ASSUME Kube!Charts PROVE ClusterInv'
    <2>0. /\ step = "charts" /\ step' \in {"success", "fail"}
          /\ UNCHANGED <<status, row, namespaces, tillers, crb, ns, old, disturbed, leaked,
                        interrupted, faults, whitelisted, tear, job, created, restarts>>
        BY <1>16 DEF Kube!Charts
    <2>8. step' = "success" => ns \in namespaces \cap tillers
        BY <1>16, EmptyIsNotOne DEF Kube!Charts, Kube!PodsOf
    <2>1. ClusterTypeOK'
        BY <2>0
    <2>2. StatusInv'
        BY <2>0
    <2>3. leaked' \/ disturbed' \/ NamespaceInv'
        BY <2>0, <2>8
    <2>4. leaked' \/ disturbed' \/ NamespaceFirst'
        BY <2>0, <2>8
    <2>5. leaked' \/ disturbed' \/ RowListed'
        BY <2>0, <2>8
    <2>6. leaked' \/ disturbed' \/ BindingListed'
        BY <2>0, <2>8
    <2>7. leaked' \/ disturbed' \/ BindingThere'
        BY <2>0, <2>8
    <2> QED BY <2>1, <2>2, <2>3, <2>4, <2>5, <2>6, <2>7
<1>17. ASSUME Kube!Succeed PROVE ClusterInv'
    BY <1>17 DEF Kube!Succeed
<1>18. ASSUME Kube!FailNamespace PROVE ClusterInv'
    <2>1. ClusterTypeOK'
        BY <1>18 DEF Kube!FailNamespace
    <2>2. StatusInv'
        BY <1>18 DEF Kube!FailNamespace
    <2>3. leaked' \/ disturbed' \/ NamespaceInv'
        BY <1>18 DEF Kube!FailNamespace
    <2>4. leaked' \/ disturbed' \/ NamespaceFirst'
        BY <1>18 DEF Kube!FailNamespace
    <2>5. leaked' \/ disturbed' \/ RowListed'
        BY <1>18 DEF Kube!FailNamespace
    <2>6. leaked' \/ disturbed' \/ BindingListed'
        BY <1>18 DEF Kube!FailNamespace
    <2>7. leaked' \/ disturbed' \/ BindingThere'
        BY <1>18 DEF Kube!FailNamespace
    <2> QED BY <2>1, <2>2, <2>3, <2>4, <2>5, <2>6, <2>7
<1>19. ASSUME Kube!FailBinding PROVE ClusterInv'
    BY <1>19 DEF Kube!FailBinding
<1>20. ASSUME Kube!Fail PROVE ClusterInv'
    BY <1>20 DEF Kube!Fail
<1>21. ASSUME NEW t \in Teardowns, Kube!StartRebuild(t) PROVE ClusterInv'
    <2>1. ClusterTypeOK'
        BY <1>21 DEF Kube!StartRebuild, Kube!Launch
    <2>2. StatusInv'
        BY <1>21 DEF Kube!StartRebuild, Kube!Launch
    <2>3. leaked' \/ disturbed' \/ NamespaceInv'
        BY <1>21 DEF Kube!StartRebuild, Kube!Launch
    <2>4. leaked' \/ disturbed' \/ NamespaceFirst'
        BY <1>21 DEF Kube!StartRebuild, Kube!Launch
    <2>5. leaked' \/ disturbed' \/ RowListed'
        BY <1>21 DEF Kube!StartRebuild, Kube!Launch
    <2>6. leaked' \/ disturbed' \/ BindingListed'
        BY <1>21 DEF Kube!StartRebuild, Kube!Launch
    <2>7. leaked' \/ disturbed' \/ BindingThere'
        BY <1>21 DEF Kube!StartRebuild, Kube!Launch
    <2> QED BY <2>1, <2>2, <2>3, <2>4, <2>5, <2>6, <2>7
<1>22. ASSUME NEW t \in Teardowns, Kube!Destroy(t) PROVE ClusterInv'
    <2>1. ClusterTypeOK'
        BY <1>22 DEF Kube!Destroy, Kube!Launch
    <2>2. StatusInv'
        BY <1>22 DEF Kube!Destroy, Kube!Launch
    <2>3. leaked' \/ disturbed' \/ NamespaceInv'
        BY <1>22 DEF Kube!Destroy, Kube!Launch
    <2>4. leaked' \/ disturbed' \/ NamespaceFirst'
        BY <1>22 DEF Kube!Destroy, Kube!Launch
    <2>5. leaked' \/ disturbed' \/ RowListed'
        BY <1>22 DEF Kube!Destroy, Kube!Launch
    <2>6. leaked' \/ disturbed' \/ BindingListed'
        BY <1>22 DEF Kube!Destroy, Kube!Launch
    <2>7. leaked' \/ disturbed' \/ BindingThere'
        BY <1>22 DEF Kube!Destroy, Kube!Launch
    <2> QED BY <2>1, <2>2, <2>3, <2>4, <2>5, <2>6, <2>7
<1>23. ASSUME NEW t \in Teardowns, Kube!TearNamespace(t) PROVE ClusterInv'
    <2>0. /\ tear[t] # NULL /\ tear[t].at = "namespace"
          /\ namespaces' \in {namespaces, namespaces \ {tear[t].row.namespace}}
          /\ UNCHANGED <<status, row, tillers, crb, step, ns, old, disturbed, leaked,
                        interrupted, whitelisted, job, created, restarts>>
        BY <1>23 DEF Kube!TearNamespace
    <2>8. PICK x \in {NULL} \cup TearStates :
             /\ tear' = [tear EXCEPT ![t] = x]
             /\ x # NULL =>
                   /\ x.row = tear[t].row
                   /\ x.at # "namespace" => namespaces' = namespaces \ {tear[t].row.namespace}
                   /\ x.at = "row" => ~tear[t].row.privileged
        <3>1. tear[t] \in TearStates
            BY <2>0
        <3>2. CASE /\ namespaces' = namespaces \ {tear[t].row.namespace}
                   /\ tear' = [tear EXCEPT ![t].at =
                                  IF tear[t].row.privileged THEN "binding" ELSE "row"]
            <4> DEFINE next == IF tear[t].row.privileged THEN "binding" ELSE "row"
                       x == [tear[t] EXCEPT !.at = next]
            <4>1. x \in TearStates /\ x.row = tear[t].row /\ x.at = next
                BY <3>1, TearGoesOn
            <4>2. tear' = [tear EXCEPT ![t] = x]
                BY <3>2
            <4> HIDE DEF x
            <4> QED BY <3>2, <4>1, <4>2
        <3>3. CASE tear' = [tear EXCEPT ![t] = IF tear[t].try = DeleteTries THEN NULL
                                               ELSE [tear[t] EXCEPT !.try = tear[t].try + 1]]
            <4> DEFINE x == [tear[t] EXCEPT !.try = tear[t].try + 1]
            <4>1. x \in TearStates /\ x.row = tear[t].row /\ x.at = "namespace"
                BY <2>0, <3>1, TearTries
            <4>2. CASE tear[t].try = DeleteTries
                BY <3>3, <4>2
            <4>3. CASE tear[t].try # DeleteTries
                <5>1. (IF tear[t].try = DeleteTries THEN NULL
                       ELSE [tear[t] EXCEPT !.try = tear[t].try + 1]) = x
                    BY <4>3
                <5> HIDE DEF x
                <5>2. tear' = [tear EXCEPT ![t] = x]
                    BY <3>3, <5>1
                <5> QED BY <4>1, <5>2
            <4> QED BY <4>2, <4>3
        <3> QED BY <1>23, <3>2, <3>3 DEF Kube!TearNamespace
    <2>9. /\ tear' \in [Teardowns -> {NULL} \cup TearStates]
          /\ tear'[t] = x /\ \A u \in Teardowns \ {t} : tear'[u] = tear[u]
        BY <2>8
    <2>1. ClusterTypeOK'
        BY TearTypes, <2>0, <2>9
    <2>2. StatusInv'
        BY <2>0, <2>9
    <2> HIDE DEF ClusterTypeOK, KubeRows, TearStates
    <2>3. leaked' \/ disturbed' \/ NamespaceInv'
        BY <2>0, <2>8, <2>9
    <2>4. leaked' \/ disturbed' \/ NamespaceFirst'
        BY <2>0, <2>8, <2>9
    <2>5. leaked' \/ disturbed' \/ RowListed'
        BY <2>0, <2>8, <2>9
    <2>6. leaked' \/ disturbed' \/ BindingListed'
        BY <2>0, <2>8, <2>9
    <2>7. leaked' \/ disturbed' \/ BindingThere'
        BY <2>0, <2>8, <2>9
    <2> QED BY <2>1, <2>2, <2>3, <2>4, <2>5, <2>6, <2>7
<1>24. ASSUME NEW t \in Teardowns, Kube!TearBinding(t) PROVE ClusterInv'
    <2>0. /\ tear[t] # NULL /\ tear[t].at = "binding" /\ tear' = [tear EXCEPT ![t].at = "row"]
          /\ \/ /\ crb' = NULL /\ leaked' = leaked
                /\ disturbed' = (disturbed \/ crb \notin {NULL, tear[t].row.namespace})
             \/ leaked' = TRUE /\ crb' = crb /\ disturbed' = disturbed
          /\ UNCHANGED <<status, row, namespaces, tillers, step, ns, old, interrupted,
                        whitelisted, job, created, restarts>>
        BY <1>24 DEF Kube!TearBinding
    <2> DEFINE x == [tear[t] EXCEPT !.at = "row"]
    <2>8. x \in TearStates /\ x.row = tear[t].row /\ x.at = "row"
        BY <2>0, TearGoesOn
    <2>10. tear' = [tear EXCEPT ![t] = x]
        BY <2>0
    <2> HIDE DEF x
    <2>9. /\ tear' \in [Teardowns -> {NULL} \cup TearStates]
          /\ tear'[t] = x /\ \A u \in Teardowns \ {t} : tear'[u] = tear[u]
        BY <2>8, <2>10
    <2>11. UNCHANGED <<status, row, namespaces, tillers, step, ns, old, interrupted, whitelisted,
                      job, created>>
        BY <2>0
    <2>12. row # NULL => row.namespace # NULL
        BY RowIsThere
    <2>1. ClusterTypeOK'
        BY TearTypes, <2>0, <2>9
    <2>2. StatusInv'
        BY <2>0, <2>9
    <2>3. ASSUME ~leaked', ~disturbed'
          PROVE  NamespaceInv' /\ NamespaceFirst' /\ RowListed' /\ BindingListed' /\ BindingThere'
        <3> HIDE DEF ClusterTypeOK, KubeRows, TearStates, StatusInv, NamespaceInv, NamespaceFirst,
                     RowListed, BindingListed, BindingThere
        <3>1. leaked' = leaked /\ crb' = NULL
            BY <2>0, <2>3
        <3>2. disturbed' = (disturbed \/ crb \notin {NULL, tear[t].row.namespace})
            BY <2>0, <2>3
        <3>3. ~leaked /\ ~disturbed /\ crb \in {NULL, tear[t].row.namespace}
            BY <2>3, <3>1, <3>2
        <3>4. NamespaceInv /\ NamespaceFirst /\ RowListed /\ BindingListed /\ BindingThere
            BY <3>3
        <3>5. NamespaceInv'
            BY <2>8, <2>9, <2>11, <3>4, <2>0 DEF NamespaceInv
        <3>6. NamespaceFirst'
            BY <2>8, <2>9, <2>11, <3>4, <2>0 DEF NamespaceFirst
        <3>7. RowListed'
            <4>1. ASSUME NEW u \in Teardowns, tear'[u] # NULL
                  PROVE  tear[u] # NULL /\ tear'[u].row = tear[u].row
                BY <2>0, <2>8, <2>9, <4>1
            <4> QED BY <2>11, <3>4, <4>1 DEF RowListed, Listed
        <3>8. BindingListed'
            BY <2>8, <2>9, <2>11, <3>1, <3>4, <2>0 DEF BindingListed
        <3>9. BindingThere'
            <4>1. crb = NULL \/ crb \notin namespaces
                BY <2>0, <3>3, <3>4 DEF NamespaceFirst
            <4>2. row # NULL /\ (step \in Listed \/ (step = "idle" /\ status = "Success")) =>
                     crb = NULL \/ crb # row.namespace
                BY <2>0, <3>3, <3>4 DEF RowListed
            <4>3. step \in {"extras", "tiller"} => row # NULL /\ row.namespace = ns
                BY <3>4 DEF RowListed, Listed
            <4> QED BY <2>11, <2>12, <3>1, <3>4, <4>1, <4>2, <4>3 DEF BindingThere, Listed
        <3> QED BY <3>5, <3>6, <3>7, <3>8, <3>9
    <2> QED BY <2>1, <2>2, <2>3
<1>25. ASSUME NEW t \in Teardowns, Kube!TearRow(t) PROVE ClusterInv'
    <2>0. /\ tear[t] # NULL /\ tear[t].at = "row" /\ tear' = [tear EXCEPT ![t] = NULL]
          /\ row' = NULL
          /\ disturbed' = (disturbed \/ (row # NULL /\ row # tear[t].row))
          /\ UNCHANGED <<status, namespaces, tillers, crb, step, ns, old, leaked, interrupted,
                        faults, whitelisted, job, created, restarts>>
        BY <1>25 DEF Kube!TearRow
    <2>9. /\ tear' \in [Teardowns -> {NULL} \cup TearStates]
          /\ tear'[t] = NULL /\ \A u \in Teardowns \ {t} : tear'[u] = tear[u]
        BY <2>0
    <2>1. ClusterTypeOK'
        BY TearTypes, <2>0, <2>9
    <2>2. StatusInv'
        BY <2>0, <2>9
    <2>3. leaked' \/ disturbed' \/ NamespaceInv'
        BY <2>0, <2>9
    <2>4. leaked' \/ disturbed' \/ NamespaceFirst'
        BY <2>0, <2>9
    <2>5. leaked' \/ disturbed' \/ RowListed'
        BY <2>0, <2>9
    <2>6. leaked' \/ disturbed' \/ BindingListed'
        BY <2>0, <2>9
    <2>7. leaked' \/ disturbed' \/ BindingThere'
        BY <2>0, <2>9
    <2> QED BY <2>1, <2>2, <2>3, <2>4, <2>5, <2>6, <2>7
<1>26. ASSUME Kube!JobReads PROVE ClusterInv'
    <2>1. ClusterTypeOK'
        BY <1>26 DEF Kube!JobReads, Kube!Orphaned
    <2>2. StatusInv'
        BY <1>26 DEF Kube!JobReads, Kube!Orphaned
    <2>3. leaked' \/ disturbed' \/ NamespaceInv'
        BY <1>26 DEF Kube!JobReads, Kube!Orphaned
    <2>4. leaked' \/ disturbed' \/ NamespaceFirst'
        BY <1>26 DEF Kube!JobReads, Kube!Orphaned
    <2>5. leaked' \/ disturbed' \/ RowListed'
        BY <1>26 DEF Kube!JobReads, Kube!Orphaned
    <2>6. leaked' \/ disturbed' \/ BindingListed'
        BY <1>26 DEF Kube!JobReads, Kube!Orphaned
    <2>7. leaked' \/ disturbed' \/ BindingThere'
        BY <1>26 DEF Kube!JobReads, Kube!Orphaned
    <2> QED BY <2>1, <2>2, <2>3, <2>4, <2>5, <2>6, <2>7
<1>27. ASSUME Kube!JobDeletes PROVE ClusterInv'
    <2>0. /\ job # NULL /\ job' = NULL /\ crb' = NULL
          /\ disturbed' = (disturbed \/ crb \notin {NULL, job})
          /\ UNCHANGED <<status, row, namespaces, tillers, step, ns, old, leaked, interrupted,
                        faults, whitelisted, tear, created, restarts>>
        BY <1>27 DEF Kube!JobDeletes
    <2>8. row # NULL => row.namespace # NULL
        BY RowIsThere
    <2>1. ClusterTypeOK'
        BY <2>0
    <2>2. StatusInv'
        BY <2>0
    <2>3. leaked' \/ disturbed' \/ NamespaceInv'
        BY <2>0, <2>8
    <2>4. leaked' \/ disturbed' \/ NamespaceFirst'
        BY <2>0, <2>8
    <2>5. leaked' \/ disturbed' \/ RowListed'
        BY <2>0, <2>8
    <2>6. leaked' \/ disturbed' \/ BindingListed'
        BY <2>0, <2>8
    <2>7. leaked' \/ disturbed' \/ BindingThere'
        BY <2>0, <2>8
    <2> QED BY <2>1, <2>2, <2>3, <2>4, <2>5, <2>6, <2>7
<1>28. ASSUME NEW n \in 1..MaxNamespaces, Kube!RemoveOrphanedNamespace(n) PROVE ClusterInv'
    <2>0. /\ n # ns /\ namespaces' \subseteq namespaces
          /\ \A m \in namespaces : m # n => m \in namespaces'
          /\ row # NULL => row.namespace # n
          /\ UNCHANGED <<status, row, tillers, crb, step, ns, old, disturbed, leaked,
                        interrupted, faults, whitelisted, tear, job, created, restarts>>
        BY <1>28 DEF Kube!RemoveOrphanedNamespace
    <2>1. ClusterTypeOK'
        BY TearTypes, <2>0
    <2>2. StatusInv'
        BY <2>0
    <2>3. leaked' \/ disturbed' \/ NamespaceInv'
        BY <2>0
    <2>4. leaked' \/ disturbed' \/ NamespaceFirst'
        BY <2>0
    <2>5. leaked' \/ disturbed' \/ RowListed'
        BY <2>0
    <2>6. leaked' \/ disturbed' \/ BindingListed'
        BY <2>0
    <2>7. leaked' \/ disturbed' \/ BindingThere'
        BY <2>0
    <2> QED BY <2>1, <2>2, <2>3, <2>4, <2>5, <2>6, <2>7
<1>29. ASSUME Kube!Prune PROVE ClusterInv'
    BY <1>29 DEF Kube!Prune
<1>30. ASSUME Kube!Restart PROVE ClusterInv'
    BY <1>30 DEF Kube!Restart
<1> QED BY <1>1, <1>2, <1>3, <1>4, <1>5, <1>6, <1>7, <1>8, <1>9, <1>10, <1>11, <1>12, <1>13, <1>14, <1>15, <1>16, <1>17, <1>18, <1>19, <1>20, <1>21, <1>22, <1>23, <1>24, <1>25, <1>26, <1>27, <1>28, <1>29, <1>30 DEF Kube!ClusterNext

LEMMA ClusterInvInit == Kube!ClusterInit => ClusterInv
<1> SUFFICES ASSUME Kube!ClusterInit PROVE ClusterInv
    OBVIOUS
<1> USE DEF Kube!ClusterInit
<1>1. ClusterTypeOK
    BY DEF ClusterTypeOK, Unlisted, Listed
<1>2. StatusInv /\ NamespaceInv
    BY DEF StatusInv, NamespaceInv, Unlisted
<1>3. NamespaceFirst /\ RowListed
    BY DEF NamespaceFirst, RowListed, Listed
<1>4. BindingListed /\ BindingThere
    BY DEF BindingListed, BindingThere
<1> QED BY <1>1, <1>2, <1>3, <1>4 DEF ClusterInv

LEMMA ClusterInvStutter == ClusterInv /\ UNCHANGED clusterVars => ClusterInv'
<1> SUFFICES ASSUME ClusterInv, UNCHANGED clusterVars PROVE ClusterInv'
    OBVIOUS
<1>0. UNCHANGED <<status, row, namespaces, tillers, crb, step, ns, old, tear, job, disturbed,
                  leaked, interrupted, whitelisted, created>>
    BY DEF clusterVars
<1>1. ClusterTypeOK'
    BY <1>0, TearTypes DEF ClusterInv, ClusterTypeOK
<1>2. StatusInv'
    BY <1>0 DEF ClusterInv, StatusInv, Kube!Extant
<1>3. ASSUME NamespaceInv, NamespaceFirst, RowListed, BindingListed, BindingThere
      PROVE  NamespaceInv' /\ NamespaceFirst' /\ RowListed' /\ BindingListed' /\ BindingThere'
    <2>1. NamespaceInv' /\ NamespaceFirst'
        BY <1>0, <1>3 DEF NamespaceInv, NamespaceFirst, Unlisted
    <2>2. RowListed'
        BY <1>0, <1>3 DEF RowListed, Listed
    <2>3. BindingListed'
        BY <1>0, <1>3 DEF BindingListed
    <2>4. BindingThere'
        BY <1>0, <1>3 DEF BindingThere
    <2> QED BY <2>1, <2>2, <2>3, <2>4
<1> QED BY <1>0, <1>1, <1>2, <1>3 DEF ClusterInv

\* pkg/nitro/metahelm, the goroutines of deleteNamespace and the cleanup job: whatever the
\* list of privileged repositories was when the server was started, and however often it
\* was restarted with another one: when nothing is going on, the binding of the environment
\* can be found by its row or by its status, and an environment that is up has it, unless
\* its last rebuild was killed; and its name is free whenever one is created.  Unless the
\* deletion of a binding failed or came so late that it met the next row or binding.
THEOREM BindingsAreAccountedFor == Spec => []BindingsAccountedFor
<1>1. Init => ClusterInv
    BY ClusterInvInit DEF Init
<1>2. ClusterInv /\ [Next]_vars => ClusterInv'
    <2> SUFFICES ASSUME ClusterInv, [Next]_vars PROVE ClusterInv'
        OBVIOUS
    <2>1. Kube!ClusterNext \/ UNCHANGED clusterVars
        BY DEF Next, vars
    <2> QED BY <2>1, ClusterInvNext, ClusterInvStutter
<1>3. ClusterInv => BindingsAccountedFor
    <2> SUFFICES ASSUME ClusterInv, ~leaked, ~disturbed
                 PROVE  Kube!Removable /\ Kube!Bound /\ Kube!NameIsFree
        BY DEF BindingsAccountedFor, Kube!BindingsAccountedFor
    <2>1. BindingListed /\ BindingThere
        BY DEF ClusterInv
    <2>2. Kube!Removable
        BY <2>1 DEF BindingListed, Kube!Removable, Kube!Orphaned
    <2>3. Kube!Bound
        BY <2>1 DEF BindingThere, Kube!Bound, Kube!AtRest
    <2>4. Kube!NameIsFree
        BY <2>1 DEF BindingListed, Kube!NameIsFree
    <2> QED BY <2>2, <2>3, <2>4
<1> QED BY <1>1, <1>2, <1>3, PTL DEF Spec

----------------------------------------------------------------------------
(* DataLayers, for any environments, logs, values and searches: LayersInv   *)
(* in the behaviours that are about the two layers; the other parts only    *)
(* keep the references between the tables.                                  *)

LayersOnly == IF group \in Groups THEN LayersInv ELSE RowsHaveRecords

LEMMA DatabaseHasRecords == Api!DatabaseInit /\ Fake!Init => RowsHaveRecords
<1> SUFFICES ASSUME Api!DatabaseInit, Fake!Init PROVE RowsHaveRecords
    OBVIOUS
<1>1. DOMAIN kubernetes_environments \subseteq DOMAIN qa_environments
    BY DatabasesAssumption DEF Api!DatabaseInit
<1>2. DOMAIN helm_releases = {} /\ DOMAIN k8s = {} /\ DOMAIN helm = {}
    BY DEF Api!DatabaseInit, Fake!Init
<1> QED BY <1>1, <1>2 DEF RowsHaveRecords

\* No page and no search adds a row, and what prunes a record prunes its row.
LEMMA PagesKeepRecords ==
    ASSUME RowsHaveRecords, Api!PagesNext, UNCHANGED memory
    PROVE  RowsHaveRecords'
<1> DEFINE Bound == /\ DOMAIN kubernetes_environments \subseteq DOMAIN qa_environments
                    /\ DOMAIN helm_releases \subseteq DOMAIN qa_environments
<1>1. Bound /\ DOMAIN k8s \cup DOMAIN helm \subseteq DOMAIN d
    BY DEF RowsHaveRecords
<1>2. (DOMAIN k8s \cup DOMAIN helm \subseteq DOMAIN d)'
    BY <1>1 DEF memory
<1>3. ASSUME UNCHANGED tables PROVE Bound'
    BY <1>1, <1>3 DEF tables
<1>4. ASSUME NEW n, Api!DeleteRow(n) PROVE Bound'
    BY <1>1, <1>4 DEF Api!DeleteRow, Api!DeleteK8sEnv, Api!Delete, Api!OnlyK8s
<1>5. ASSUME NEW n, Api!Destroyed(n) PROVE Bound'
    BY <1>1, <1>5 DEF Api!Destroyed, Api!SetQAEnvironmentStatus, Api!OnlyEnvironments
<1>6. ASSUME NEW n, Api!Pruned(n) PROVE Bound'
    BY <1>1, <1>6 DEF Api!Pruned, Api!DeleteQAEnvironment, Api!Delete
<1>7. ASSUME NEW n, NEW id, Api!LogMoves(id, n) PROVE Bound'
    BY <1>1, <1>7 DEF Api!LogMoves, Api!SetEventLogEnvName
<1>8. ASSUME NEW id, Api!LogGoes(id) PROVE Bound'
    BY <1>1, <1>8 DEF Api!LogGoes, Api!DeleteEventLog, Api!OnlyLogs
<1>9. Bound'
    <2>1. \/ UNCHANGED tables
          \/ \E n \in DOMAIN qa_environments :
                \/ Api!DeleteRow(n) \/ Api!Destroyed(n) \/ Api!Pruned(n)
                \/ \E id \in DOMAIN event_logs : Api!LogMoves(id, n)
          \/ \E id \in DOMAIN event_logs : Api!LogGoes(id)
        BY Zenon DEF Api!PagesNext, Api!ListEnvs, Api!Open, Api!ReadRecord, Api!OutsideFails,
           Api!CheckPermissions, Api!RenderActions, Api!UserEnvDetail, Api!UserEnvNamePods,
           Api!UserEnvPodContainers, Api!UserEnvPodLogs, Api!UserEnvActionsRebuild,
           Api!GetPodList, Api!GetPodContainers, Api!GetPodLogs, Api!ReadEvents, Api!AskEvent,
           Api!OnlyPage, Api!NamespaceGoes, Api!PodStarts, Api!GitHubChanges, Api!tables, tables
    <2> HIDE DEF Bound
    <2> QED BY <1>3, <1>4, <1>5, <1>6, <1>7, <1>8, <2>1
<1> QED BY <1>2, <1>9 DEF RowsHaveRecords

\* Tests with the layer in memory see what the server would see with Postgres: after any
\* calls that the callers can make, every query that the code uses answers the same, but
\* for GetMostRecent and a search without a condition, which differ as KnownDifferences
\* says; and a row or a release has its record, also after a local command that was killed
\* while it saved its state (pkg/persistence: fake.go against pg.go, k8s_envs.go, helm.go,
\* eventlogs.go and uisessions.go).
THEOREM LayersAnswerTheSame == Spec => []SameAnswers
<1>1. Init => LayersOnly
    <2> SUFFICES ASSUME Init PROVE LayersOnly
        OBVIOUS
    <2>1. CASE LayersInit
        <3>1. RowsHaveRecords
            BY <2>1 DEF LayersInit, PG!Init, Fake!Init, RowsHaveRecords
        <3> QED BY <2>1, <3>1, LayersInvInit DEF LayersOnly
    <2>2. CASE Api!DatabaseInit /\ Fake!Init /\ group \in {"search", "pages"}
        <3>1. group \notin Groups
            BY <2>2 DEF Groups
        <3> QED BY <2>2, <3>1, DatabaseHasRecords DEF LayersOnly
    <2> QED BY <2>1, <2>2 DEF Init
<1>2. LayersOnly /\ [Next]_vars => LayersOnly'
    <2> SUFFICES ASSUME LayersOnly, [Next]_vars PROVE LayersOnly'
        OBVIOUS
    <2>1. UNCHANGED group
        BY DEF Next, vars, LayersNext
    <2>2. CASE group \in Groups
        <3>1. LayersNext \/ UNCHANGED layersVars
            BY <2>2 DEF Next, vars, Groups, layersVars, memory
        <3>2. UNCHANGED layersVars => LayersInv'
            BY <2>2 DEF LayersOnly, layersVars, tables, LayersInv, RecordsMatch, RowsMatch,
                LogsMatch, LogsNamed, SessionsMatch, FilesMatch, Same
        <3> QED BY <2>1, <2>2, <3>1, <3>2, LayersInvNext DEF LayersOnly
    <2>3. CASE group \notin Groups
        <3>1. RowsHaveRecords
            BY <2>3 DEF LayersOnly
        <3>2. ~LayersNext
            BY <2>3 DEF LayersNext, Groups
        <3>3. ASSUME UNCHANGED <<tables, memory>> PROVE RowsHaveRecords'
            BY <3>1, <3>3 DEF RowsHaveRecords, tables, memory
        <3>4. ASSUME UI!LoginNext, UNCHANGED memory PROVE RowsHaveRecords'
            <4>1. UNCHANGED <<qa_environments, kubernetes_environments, helm_releases>>
                BY <3>4 DEF UI!LoginNext, UI!Ask, UI!Authenticate, UI!DeleteInvalid, UI!RedirectToAuth,
                   UI!Redirected, UI!Served, UI!Arrives, UI!Callback, UI!CheckState,
                   UI!Authorize, UI!UpdateSession, UI!Accepted, UI!Poll, UI!DeleteDoomed,
                   UI!Tick, UI!SessionsCleanup, UI!tables, UI!DeleteUISession,
                   UI!CreateUISession, UI!UpdateUISession, UI!DeleteExpiredUISessions,
                   UI!OnlySessions
            <4> QED BY <3>1, <3>4, <4>1 DEF RowsHaveRecords, memory
        <3>5. ASSUME Api!SearchEnvs, UNCHANGED memory PROVE RowsHaveRecords'
            BY <3>1, <3>5 DEF RowsHaveRecords, Api!SearchEnvs, Api!tables, memory
        <3>6. ASSUME Api!PagesNext, UNCHANGED memory PROVE RowsHaveRecords'
            BY <3>1, <3>6, PagesKeepRecords
        <3>7. RowsHaveRecords'
            BY <3>2, <3>3, <3>4, <3>5, <3>6 DEF Next, vars
        <3> QED BY <2>1, <2>3, <3>7 DEF LayersOnly
    <2> QED BY <2>2, <2>3
<1>3. LayersOnly => SameAnswers
    BY LayersInvSameAnswers DEF LayersOnly, SameAnswers, AnswersAgree
<1> QED BY <1>1, <1>2, <1>3, PTL DEF Spec

----------------------------------------------------------------------------
(* Reads, for any databases, queries, repositories and permissions.         *)

EnvStatuses == {"Spawned", "Success", "Failure", "Destroyed", "Updating"}

\* What the records and the logs have, whatever has been written to them.
KnownRecords ==
    /\ NULL \notin SUBSET DOMAIN qa_environments
    /\ \A n \in DOMAIN qa_environments :
          /\ {"status", "data"} \subseteq DOMAIN qa_environments[n]
          /\ qa_environments[n].data.repo \in Repos
          /\ qa_environments[n].status \in EnvStatuses

KnownLogs ==
    \A id \in DOMAIN event_logs :
        /\ "status" \in DOMAIN event_logs[id]
        /\ event_logs[id].status # NULL => Api!Shown(event_logs[id].status) # NULL

\* Before anything has changed, each environment has an event and each pod runs.
AtFirst ==
    changes = 0 =>
        /\ \A n \in DOMAIN qa_environments :
              \E id \in DOMAIN event_logs : event_logs[id].env_name = n
        /\ \A space \in DOMAIN living : living[space] # "pending"
        /\ page.at \notin {"none", "answered"} => page.name \in DOMAIN qa_environments

\* An environment whose repository is one of repos.
EnvOf(name, repos) ==
    name \in DOMAIN qa_environments /\ qa_environments[name].data.repo \in repos

\* A link is there, and the page has offered a rebuild, for as long as nothing has moved.
LinksKept ==
    ~moved =>
        /\ \A n \in listed : EnvOf(n, Api!Visible)
        /\ page.linked => EnvOf(page.name, Api!Visible)
        /\ page.offered => EnvOf(page.name, Api!Writable)
        /\ page.at \in {"permissions", "actions"} => EnvOf(page.name, {page.repo})

PageOpen ==
    /\ DOMAIN page = DOMAIN Api!Idle
    /\ page.at \notin {"none", "answered"} => page.kind \in Api!Kinds
    /\ page.at = "actions" => page.kind = "page"

PagesInv ==
    /\ KnownRecords /\ KnownLogs /\ changes \in Nat
    /\ AtFirst /\ LinksKept /\ PageOpen /\ Api!LinksLead

\* A repository is given, but it is the empty one.
NoRepo(q) == Api!Has(q, "repo") /\ q["repo"][1] = ""

\* What the versions have answered to a query.
AnswersAgreeOn(q, answers) ==
    /\ answers["v0"] = answers["v1"]
    /\ ~Api!Has(q, "tracking_ref") => answers["v2"] = answers["v1"]
    /\ \A v \in Api!Versions :
          answers[v].code = 500 => NoRepo(q) \/ Api!OptionsOf(v, q) = Api!NoOptions

SearchAnswered ==
    query # NULL => \E q \in Queries : query = q /\ AnswersAgreeOn(q, replies)

ReadsInv ==
    /\ SearchAnswered
    /\ group \in {"search", "pages"} => PagesInv

----------------------------------------------------------------------------
\* A search that passed the checks of the handler is refused only for an empty value.
LEMMA RefusedForNothing ==
    ASSUME NEW q \in Queries, NEW v, NEW o, o = Api!OptionsOf(v, q), KnownRecords,
           ~Api!BadParameters(v, q), Api!Find(o) = NULL,
           Api!Has(q, "repo") => Api!Value(q, "repo") # NULL
    PROVE  o = Api!NoOptions
<1>1. /\ o.Pr = (IF Api!Has(q, "pr") THEN Api!NumberOf(q["pr"][1]) ELSE NULL)
      /\ o.Repo = Api!Value(q, "repo")
      /\ o.Repos = {} /\ o.Statuses = {}
      /\ o.TrackingRef = (IF v = "v2" THEN Api!Value(q, "tracking_ref") ELSE NULL)
    BY DEF Api!OptionsOf, Api!NoOptions
<1>2. o.Pr # NULL \/ o.TrackingRef # NULL => Api!Has(q, "repo")
    BY <1>1 DEF Api!BadParameters, Api!Value
<1>3. Api!Has(q, "repo") => o.Repo # NULL
    BY <1>1
<1>4. ~Api!SearchRefused(o)
    BY <1>1, <1>2, <1>3 DEF Api!SearchRefused
<1>5. Api!NoCondition(o)
    <2> SUFFICES ASSUME ~Api!NoCondition(o) PROVE FALSE
        OBVIOUS
    <2>1. Api!Search(o, ApiNow) \subseteq DOMAIN qa_environments
        BY <1>4 DEF Api!Search, Api!Select
    <2> QED BY <2>1 DEF KnownRecords, Api!Find
<1>6. /\ o.Pr = NULL /\ o.Repo = NULL /\ o.SourceSHA = NULL /\ o.SourceBranch = NULL
      /\ o.User = NULL /\ o.Status = NULL /\ o.CreatedSince = NULL /\ o.TrackingRef = NULL
    BY <1>5 DEF Api!NoCondition, Api!OptionsOf, Api!NoOptions
<1> QED BY <1>1, <1>6 DEF Api!OptionsOf, Api!NoOptions

LEMMA SearchReplies ==
    ASSUME NEW q \in Queries, KnownRecords
    PROVE  /\ Api!SearchReply("v0", q) = Api!SearchReply("v1", q)
           /\ ~Api!Has(q, "tracking_ref") => Api!SearchReply("v2", q) = Api!SearchReply("v1", q)
           /\ \A v \in Api!Versions :
                 Api!SearchReply(v, q).code = 500 =>
                     NoRepo(q) \/ Api!OptionsOf(v, q) = Api!NoOptions
<1>1. Api!BadParameters("v0", q) <=> Api!BadParameters("v1", q)
    BY DEF Api!BadParameters
<1>2. Api!OptionsOf("v0", q) = Api!OptionsOf("v1", q)
    BY DEF Api!OptionsOf
<1>3. ASSUME ~Api!Has(q, "tracking_ref")
      PROVE  /\ Api!BadParameters("v2", q) <=> Api!BadParameters("v1", q)
             /\ Api!OptionsOf("v2", q) = Api!OptionsOf("v1", q)
    <2>1. Api!Value(q, "tracking_ref") = NULL
        BY <1>3 DEF Api!Value
    <2> QED BY <1>3, <2>1 DEF Api!BadParameters, Api!OptionsOf
<1>4. ASSUME NEW v \in Api!Versions, Api!SearchReply(v, q).code = 500,
             ~NoRepo(q)
      PROVE  Api!OptionsOf(v, q) = Api!NoOptions
    <2>1. ASSUME Api!BadParameters(v, q) \/ Api!BadValues(q) PROVE Api!SearchReply(v, q).code # 500
        BY <2>1 DEF Api!SearchReply
    <2>2. ASSUME ~(Api!BadParameters(v, q) \/ Api!BadValues(q)), Api!Find(Api!OptionsOf(v, q)) # NULL
          PROVE  Api!SearchReply(v, q).code # 500
        BY <2>2 DEF Api!SearchReply
    <2>3. ~Api!BadParameters(v, q) /\ Api!Find(Api!OptionsOf(v, q)) = NULL
        BY <1>4, <2>1, <2>2
    <2>4. Api!Has(q, "repo") => Api!Value(q, "repo") # NULL
        <3> SUFFICES ASSUME Api!Has(q, "repo") PROVE Api!Value(q, "repo") # NULL
            OBVIOUS
        <3>1. q["repo"][1] # NULL
            BY QueriesAssumption DEF Api!Has
        <3> QED BY <1>4, <3>1 DEF Api!Value, NoRepo
    <2>5. ASSUME NEW o, o = Api!OptionsOf(v, q) PROVE o = Api!NoOptions
        BY <2>3, <2>4, <2>5, RefusedForNothing
    <2> QED BY <2>5
<1>5. Api!SearchReply("v0", q) = Api!SearchReply("v1", q)
    BY <1>1, <1>2 DEF Api!SearchReply
<1>6. ~Api!Has(q, "tracking_ref") => Api!SearchReply("v2", q) = Api!SearchReply("v1", q)
    BY <1>3 DEF Api!SearchReply
<1> QED BY <1>4, <1>5, <1>6

\* The list of everything that the user may see has what the conditions say.
LEMMA ListFinds ==
    ASSUME NEW history, NEW destroyed
    PROVE  Api!UserEnvs(TRUE, history, destroyed) =
              {n \in DOMAIN qa_environments :
                  /\ Api!Visible = {} \/ qa_environments[n].data.repo \in Api!Visible
                  /\ qa_environments[n].status \in
                        {"Success", "Spawned", "Updating", "Failure"}
                            \cup (IF destroyed THEN {"Destroyed"} ELSE {})
                  /\ \/ Api!Since(history) = NULL
                     \/ qa_environments[n].created >= ApiNow - Api!Since(history)}
<1> DEFINE Running == {"Success", "Spawned", "Updating", "Failure"}
                       \cup (IF destroyed THEN {"Destroyed"} ELSE {})
           o == [Api!NoOptions EXCEPT
                    !.User = NULL, !.Repos = Api!Visible, !.Statuses = Running,
                    !.CreatedSince = Api!Since(history)]
<1>1. Api!UserEnvs(TRUE, history, destroyed) = Api!Find(o)
    BY DEF Api!UserEnvs
<1>2. /\ o.Pr = NULL /\ o.Repo = NULL /\ o.SourceSHA = NULL /\ o.SourceBranch = NULL
      /\ o.User = NULL /\ o.Status = NULL /\ o.TrackingRef = NULL
      /\ o.Repos = Api!Visible /\ o.Statuses = Running /\ o.CreatedSince = Api!Since(history)
    BY DEF Api!NoOptions
<1>3. Running # {} /\ Api!NoOptions.Statuses = {}
    BY DEF Api!NoOptions
<1>4. Api!Find(o) = Api!Search(o, ApiNow) /\ ~Api!NoCondition(o)
    BY <1>2, <1>3 DEF Api!Find, Api!NoCondition
<1> HIDE DEF o
<1>5. ~Api!SearchRefused(o)
    BY <1>2 DEF Api!SearchRefused
<1>6. Api!Search(o, ApiNow) =
         {n \in DOMAIN qa_environments :
             /\ Api!Visible = {} \/ qa_environments[n].data.repo \in Api!Visible
             /\ Running = {} \/ qa_environments[n].status \in Running
             /\ \/ Api!Since(history) = NULL
                \/ qa_environments[n].created >= ApiNow - Api!Since(history)}
    BY <1>2, <1>4, <1>5 DEF Api!Search, Api!Select, Api!Given, Api!GivenSome
<1> HIDE DEF Running
<1>7. Api!UserEnvs(TRUE, history, destroyed) =
         {n \in DOMAIN qa_environments :
             /\ Api!Visible = {} \/ qa_environments[n].data.repo \in Api!Visible
             /\ qa_environments[n].status \in Running
             /\ \/ Api!Since(history) = NULL
                \/ qa_environments[n].created >= ApiNow - Api!Since(history)}
    BY <1>1, <1>3, <1>4, <1>6
<1> QED BY <1>7 DEF Running

LEMMA ListsAgreeAlways == KnownRecords => Api!ListsAgree
<1> SUFFICES ASSUME KnownRecords, NEW days \in Days, NEW destroyed \in BOOLEAN
             PROVE  /\ Api!Visible = Repos /\ days > 0 =>
                          Api!UserEnvs(TRUE, Api!Day * days, destroyed)
                              = Api!EnvRecent(days, destroyed)
                    /\ Api!EnvRecent(days, destroyed) \subseteq Api!EnvList
    BY DEF Api!ListsAgree
<1>1. Api!EnvRecent(days, destroyed) =
         {n \in DOMAIN qa_environments :
             /\ qa_environments[n].created >= ApiNow - Api!Day * days
             /\ destroyed \/ qa_environments[n].status # "Destroyed"}
    BY DEF Api!EnvRecent, Api!GetMostRecent, Api!Select
<1>2. Api!EnvList = DOMAIN qa_environments
    BY DEF Api!EnvList, Api!GetQAEnvironments, Api!Select
<1>3. ASSUME Api!Visible = Repos, days > 0
      PROVE  Api!UserEnvs(TRUE, Api!Day * days, destroyed) = Api!EnvRecent(days, destroyed)
    <2>1. days \in Nat
        BY <1>3, QueriesAssumption
    <2>2. Api!Since(Api!Day * days) = Api!Day * days /\ Api!Day * days # NULL
        <3>1. Api!Day * days \in Nat /\ Api!Day * days > 0
            BY <1>3, <2>1 DEF Api!Day
        <3>2. Api!Day * days # NULL
            BY <3>1, NullAssumption
        <3>3. 2 * ((Api!Day * days) \div 2) = Api!Day * days
            BY <2>1 DEF Api!Day
        <3> QED BY <3>1, <3>2, <3>3 DEF Api!Since
    <2>3. \A n \in DOMAIN qa_environments :
             /\ qa_environments[n].data.repo \in Api!Visible
             /\ qa_environments[n].status \in
                   {"Success", "Spawned", "Updating", "Failure"}
                       \cup (IF destroyed THEN {"Destroyed"} ELSE {})
                <=> destroyed \/ qa_environments[n].status # "Destroyed"
        BY <1>3 DEF KnownRecords, EnvStatuses
    <2>4. Api!UserEnvs(TRUE, Api!Day * days, destroyed) =
             {n \in DOMAIN qa_environments :
                 /\ Api!Visible = {} \/ qa_environments[n].data.repo \in Api!Visible
                 /\ qa_environments[n].status \in
                       {"Success", "Spawned", "Updating", "Failure"}
                           \cup (IF destroyed THEN {"Destroyed"} ELSE {})
                 /\ \/ Api!Since(Api!Day * days) = NULL
                    \/ qa_environments[n].created >= ApiNow - Api!Since(Api!Day * days)}
        BY ListFinds
    <2> DEFINE After(n, since) == qa_environments[n].created >= ApiNow - since
               From == Api!Day * days
    <2> HIDE DEF After, From
    <2>5. Api!UserEnvs(TRUE, Api!Day * days, destroyed) =
             {n \in DOMAIN qa_environments :
                 After(n, From) /\ (destroyed \/ qa_environments[n].status # "Destroyed")}
        BY <2>2, <2>3, <2>4 DEF After, From
    <2>6. Api!EnvRecent(days, destroyed) =
             {n \in DOMAIN qa_environments :
                 After(n, From) /\ (destroyed \/ qa_environments[n].status # "Destroyed")}
        BY <1>1 DEF After, From
    <2> QED BY <2>5, <2>6
<1> QED BY <1>1, <1>2, <1>3

----------------------------------------------------------------------------
LEMMA PagesInvInit == Api!DatabaseInit /\ Api!RequestsInit => PagesInv
<1> SUFFICES ASSUME Api!DatabaseInit, Api!RequestsInit PROVE PagesInv
    OBVIOUS
<1> PICK db \in Databases : /\ qa_environments = db.qa_environments
                            /\ event_logs = db.event_logs
    BY DEF Api!DatabaseInit
<1>1. KnownRecords /\ KnownLogs
    BY DatabasesAssumption DEF KnownRecords, KnownLogs, EnvStatuses
<1>2. changes = 0 /\ page = Api!Idle /\ listed = {}
    BY DEF Api!RequestsInit
<1>3. page.at = "none" /\ ~page.linked /\ ~page.offered
    BY <1>2 DEF Api!Idle
<1>4. AtFirst
    <2>1. \A space \in DOMAIN living : living[space] = "running"
        BY DEF Api!RequestsInit
    <2>2. \A n \in DOMAIN qa_environments :
             \E id \in DOMAIN event_logs : event_logs[id].env_name = n
        BY DatabasesAssumption
    <2> QED BY <1>3, <2>1, <2>2 DEF AtFirst
<1>5. LinksKept /\ PageOpen /\ Api!LinksLead
    BY <1>2, <1>3 DEF LinksKept, PageOpen, Api!LinksLead
<1> QED BY <1>1, <1>2, <1>4, <1>5 DEF PagesInv

\* What the steps of a page leave alone.
Still == UNCHANGED <<tables, perms, living, listed, moved, changes>>

\* The page goes on to its next step.
LEMMA StepKeeps ==
    ASSUME PagesInv, Still, page.at \notin {"none", "answered"},
           DOMAIN page' = DOMAIN page, page'.at \notin {"none", "answered"},
           page'.kind = page.kind, page'.name = page.name,
           page'.linked = page.linked, page'.offered = page.offered,
           ~moved /\ page'.at \in {"permissions", "actions"} => EnvOf(page.name, {page'.repo}),
           page'.at = "actions" => page.kind = "page"
    PROVE  PagesInv'
<1>1. KnownRecords' /\ KnownLogs' /\ changes' \in Nat
    BY DEF PagesInv, KnownRecords, KnownLogs, Still, tables
<1>2. AtFirst'
    BY DEF PagesInv, AtFirst, Still, tables
<1>3. LinksKept'
    BY DEF PagesInv, LinksKept, EnvOf, Still, tables, Api!Visible, Api!Writable
<1>4. PageOpen'
    BY DEF PagesInv, PageOpen, Api!Idle
<1>5. Api!LinksLead'
    BY DEF Api!LinksLead
<1> QED BY <1>1, <1>2, <1>3, <1>4, <1>5 DEF PagesInv

\* The answer is one that a link may lead to.
LEMMA AnswerKeeps ==
    ASSUME PagesInv, Still, page.at \notin {"none", "answered"},
           DOMAIN page' = DOMAIN page, page'.at = "answered",
           page'.kind = page.kind, page'.name = page.name, page'.linked = page.linked,
           ~moved /\ page'.offered => EnvOf(page.name, Api!Writable),
           page'.offered /\ page.kind = "rebuild" => page.offered,
           page.linked /\ ~moved =>
              page'.code \notin {302} \cup (IF page.kind = "rebuild" THEN {} ELSE {403, 404}),
           page.offered /\ ~moved /\ page.kind = "rebuild" => page'.code # 403,
           page'.code = 500 => page'.blamed \/ changes > 0,
           page'.code = 0 => page.kind = "pods" /\ changes > 0
    PROVE  PagesInv'
<1>1. KnownRecords' /\ KnownLogs' /\ changes' \in Nat
    BY DEF PagesInv, KnownRecords, KnownLogs, Still, tables
<1>2. AtFirst'
    BY DEF PagesInv, AtFirst, Still, tables
<1>3. LinksKept'
    BY DEF PagesInv, LinksKept, EnvOf, Still, tables, Api!Visible, Api!Writable
<1>4. PageOpen'
    BY DEF PagesInv, PageOpen, Api!Idle
<1>5. page'.kind \notin Api!EventKinds
    BY DEF PagesInv, PageOpen, Api!Kinds, Api!EventKinds
<1>6. moved' = moved /\ changes' = changes
    BY DEF Still
<1>7. Api!LinksLead'
    BY <1>5, <1>6 DEF Api!LinksLead
<1> QED BY <1>1, <1>2, <1>3, <1>4, <1>7 DEF PagesInv

\* Operations and GitHub change something; a log that stays keeps its status, and an
\* environment its repository unless that is noted.
LEMMA ChangeKeeps ==
    ASSUME PagesInv, UNCHANGED <<page, listed>>, changes' = changes + 1,
           KnownRecords', KnownLogs',
           ~moved' => /\ ~moved /\ perms' = perms
                      /\ \A n \in DOMAIN qa_environments :
                            /\ n \in DOMAIN qa_environments'
                            /\ qa_environments'[n].data.repo = qa_environments[n].data.repo,
           \A id \in DOMAIN event_logs' :
               id \in DOMAIN event_logs /\ event_logs'[id].status = event_logs[id].status
    PROVE  PagesInv'
<1>1. changes \in Nat /\ changes' \in Nat /\ changes' # 0 /\ changes' > 0
    BY DEF PagesInv
<1>2. AtFirst' /\ PageOpen'
    BY <1>1 DEF AtFirst, PagesInv, PageOpen, Api!Idle
<1>3. ASSUME NEW n, NEW R, EnvOf(n, R), ~moved' PROVE EnvOf(n, R)'
    BY <1>3 DEF EnvOf
<1>4. ~moved' => Api!Visible' = Api!Visible /\ Api!Writable' = Api!Writable
    BY DEF Api!Visible, Api!Writable
<1>5. LinksKept'
    <2> SUFFICES ASSUME ~moved'
                 PROVE  /\ \A n \in listed' : EnvOf(n, Api!Visible)'
                        /\ page'.linked => EnvOf(page.name, Api!Visible)'
                        /\ page'.offered => EnvOf(page.name, Api!Writable)'
                        /\ page'.at \in {"permissions", "actions"} => EnvOf(page.name, {page.repo})'
        BY DEF LinksKept, EnvOf
    <2>1. /\ \A n \in listed : EnvOf(n, Api!Visible)
          /\ page.linked => EnvOf(page.name, Api!Visible)
          /\ page.offered => EnvOf(page.name, Api!Writable)
          /\ page.at \in {"permissions", "actions"} => EnvOf(page.name, {page.repo})
        BY DEF PagesInv, LinksKept
    <2> QED BY <1>4, <2>1 DEF EnvOf
<1>6. Api!LinksLead'
    <2> SUFFICES ASSUME page.at = "answered" PROVE Api!LinksLead'
        BY DEF Api!LinksLead
    <2>1. \A id \in DOMAIN event_logs' : Api!GetEventStatus(id)' = Api!GetEventStatus(id)
        BY DEF Api!GetEventStatus
    <2>2. Api!LinksLead
        BY DEF PagesInv
    <2>3. page.name \in DOMAIN event_logs' /\ page.kind \in Api!EventKinds =>
             /\ page.code = 401 => page.kind = "lines" /\ page.blamed
             /\ page.code = 404 => page.kind = "status" /\ Api!GetEventStatus(page.name)' = NULL
        BY <2>1, <2>2 DEF Api!LinksLead
    <2>4. /\ page.linked /\ ~moved' =>
                page.code \notin {302} \cup (IF page.kind = "rebuild" THEN {} ELSE {403, 404})
          /\ page.offered /\ ~moved' /\ page.kind = "rebuild" => page.code # 403
          /\ page.code = 0 => page.kind = "pods"
        BY <2>2 DEF Api!LinksLead
    <2> QED BY <1>1, <2>3, <2>4 DEF Api!LinksLead, Api!GetEventStatus
<1> QED BY <1>1, <1>2, <1>5, <1>6 DEF PagesInv

LEMMA PageStill ==
    ASSUME PageOpen
    PROVE  /\ {"kind", "name", "at", "repo", "row", "code", "linked", "offered", "blamed"}
                  \subseteq DOMAIN page
           /\ Api!OnlyPage => Still
BY DEF PageOpen, Api!Idle, Api!OnlyPage, Still, Api!tables, tables

\* The pages about one environment.
LEMMA PageStepsKeep ==
    ASSUME PagesInv,
           \/ Api!ReadRecord \/ Api!OutsideFails \/ Api!CheckPermissions \/ Api!RenderActions
           \/ Api!UserEnvDetail \/ Api!UserEnvNamePods \/ Api!UserEnvPodContainers
           \/ Api!UserEnvPodLogs \/ Api!UserEnvActionsRebuild \/ Api!GetPodList
           \/ Api!GetPodContainers \/ Api!GetPodLogs \/ Api!ReadEvents
    PROVE  PagesInv'
<1>1. /\ {"kind", "name", "at", "repo", "row", "code", "linked", "offered", "blamed"}
             \subseteq DOMAIN page
      /\ Api!OnlyPage => Still
    BY PageStill DEF PagesInv
<1>2. ASSUME NEW code, Still, page.at \notin {"none", "answered"}, Api!Answered(code),
             page.linked /\ ~moved =>
                 code \notin {302} \cup (IF page.kind = "rebuild" THEN {} ELSE {403, 404}),
             page.offered /\ ~moved /\ page.kind = "rebuild" => code # 403,
             code = 500 => changes > 0, code = 0 => page.kind = "pods" /\ changes > 0
      PROVE  PagesInv'
    <2>1. page' = [page EXCEPT !.at = "answered", !.code = code]
        BY <1>2 DEF Api!Answered, Api!Goto
    <2>2. /\ DOMAIN page' = DOMAIN page /\ page'.at = "answered" /\ page'.code = code
          /\ page'.kind = page.kind /\ page'.name = page.name
          /\ page'.linked = page.linked /\ page'.offered = page.offered
        BY <1>1, <2>1
    <2>3. /\ ~moved /\ page'.offered => EnvOf(page.name, Api!Writable)
          /\ page'.offered => page.offered
        BY <2>2 DEF PagesInv, LinksKept
    <2>4. /\ page.linked /\ ~moved =>
                page'.code \notin {302} \cup (IF page.kind = "rebuild" THEN {} ELSE {403, 404})
          /\ page.offered /\ ~moved /\ page.kind = "rebuild" => page'.code # 403
          /\ page'.code = 500 => changes > 0
          /\ page'.code = 0 => page.kind = "pods" /\ changes > 0
        BY <1>2, <2>2
    <2> QED BY <1>2, <2>2, <2>3, <2>4, AnswerKeeps
<1>3. ASSUME Still, page.at \notin {"none", "answered"},
             Api!Goto([page EXCEPT !.at = "answered", !.code = 500, !.blamed = TRUE])
      PROVE  PagesInv'
    <2>1. /\ DOMAIN page' = DOMAIN page /\ page'.at = "answered" /\ page'.code = 500
          /\ page'.kind = page.kind /\ page'.name = page.name /\ page'.blamed
          /\ page'.linked = page.linked /\ page'.offered = page.offered
        BY <1>1, <1>3 DEF Api!Goto
    <2>2. page'.code \notin {302, 403, 404, 0}
        BY <2>1
    <2>3. /\ ~moved /\ page'.offered => EnvOf(page.name, Api!Writable)
          /\ page'.offered => page.offered
        BY <2>1 DEF PagesInv, LinksKept
    <2> QED BY <1>3, <2>1, <2>2, <2>3, AnswerKeeps
<1>4. ASSUME Still, page.at \notin {"none", "answered"}, NEW next,
             next \in {"kubernetes", "events"}, Api!WithRow(next)
      PROVE  PagesInv'
    <2>1. /\ DOMAIN page' = DOMAIN page /\ page'.at = next
          /\ page'.kind = page.kind /\ page'.name = page.name
          /\ page'.linked = page.linked /\ page'.offered = page.offered
        BY <1>1, <1>4 DEF Api!WithRow, Api!Goto
    <2> QED BY <1>4, <2>1, StepKeeps
<1>5. CASE Api!ReadRecord
    <2>1. Still /\ page.at = "record"
        BY <1>1, <1>5 DEF Api!ReadRecord, Api!Only
    <2>2. CASE page.name \notin DOMAIN qa_environments
        <3>1. Api!Answered(404)
            BY <1>5, <2>2 DEF Api!ReadRecord, Api!GetQAEnvironment, Api!Select
        <3>2. ~(page.linked /\ ~moved)
            BY <2>2 DEF PagesInv, LinksKept, EnvOf
        <3> QED BY <1>2, <2>1, <3>1, <3>2
    <2>3. CASE page.name \in DOMAIN qa_environments /\ page.kind = "api"
        <3>1. Api!Answered(200)
            BY <1>5, <2>3 DEF Api!ReadRecord, Api!GetQAEnvironment, Api!Select
        <3> QED BY <1>2, <2>1, <3>1
    <2>4. CASE page.name \in DOMAIN qa_environments /\ page.kind # "api"
        <3>1. page' = [page EXCEPT !.at = "permissions",
                                   !.repo = qa_environments[page.name].data.repo]
            BY <1>5, <2>4 DEF Api!ReadRecord, Api!GetQAEnvironment, Api!Select, Api!Goto
        <3>2. /\ DOMAIN page' = DOMAIN page /\ page'.at = "permissions"
              /\ page'.kind = page.kind /\ page'.name = page.name
              /\ page'.linked = page.linked /\ page'.offered = page.offered
              /\ EnvOf(page.name, {page'.repo})
            BY <1>1, <2>4, <3>1 DEF EnvOf
        <3> QED BY <2>1, <3>2, StepKeeps
    <2> QED BY <2>2, <2>3, <2>4
<1>6. CASE Api!OutsideFails
    <2>1. page.at \notin {"none", "answered"} /\ Still
        BY <1>6 DEF Api!OutsideFails, Api!Only, Still, Api!tables, tables
    <2> QED BY <1>3, <1>6, <2>1 DEF Api!OutsideFails
<1>7. CASE Api!CheckPermissions
    <2>1. Still /\ page.at = "permissions"
        BY <1>1, <1>7 DEF Api!CheckPermissions, Api!Only
    <2>2. ~moved => EnvOf(page.name, {page.repo})
        BY <2>1 DEF PagesInv, LinksKept
    <2>3. ~moved /\ page.linked => page.repo \in Api!Visible
        BY <2>2 DEF PagesInv, LinksKept, EnvOf
    <2>4. ~moved /\ page.offered => page.repo \in Api!Writable
        BY <2>2 DEF PagesInv, LinksKept, EnvOf
    <2>5. CASE page.repo \notin (IF page.kind = "rebuild" THEN Api!Writable ELSE Api!Visible)
        <3>1. Api!Answered(IF page.kind = "page" THEN 302 ELSE 403)
            BY <1>7, <2>5 DEF Api!CheckPermissions
        <3>2. CASE page.kind = "page"
            <4>1. Api!Answered(302) /\ page.kind # "rebuild"
                BY <3>1, <3>2
            <4>2. ~(page.linked /\ ~moved)
                BY <2>3, <2>5, <4>1
            <4> QED BY <1>2, <2>1, <4>1, <4>2
        <3>3. CASE page.kind # "page"
            <4>1. Api!Answered(403)
                BY <3>1, <3>3
            <4>2. page.linked /\ ~moved => page.kind = "rebuild"
                BY <2>3, <2>5
            <4>3. ~(page.offered /\ ~moved /\ page.kind = "rebuild")
                BY <2>4, <2>5
            <4> QED BY <1>2, <2>1, <4>1, <4>2, <4>3
        <3> QED BY <3>2, <3>3
    <2>6. CASE page.repo \in (IF page.kind = "rebuild" THEN Api!Writable ELSE Api!Visible)
        <3>1. page' = [page EXCEPT !.at = IF page.kind = "page" THEN "actions" ELSE "row"]
            BY <1>7, <2>6 DEF Api!CheckPermissions, Api!Goto
        <3>2. /\ DOMAIN page' = DOMAIN page /\ page'.at \in {"actions", "row"}
              /\ page'.at = "actions" => page.kind = "page"
              /\ page'.kind = page.kind /\ page'.name = page.name /\ page'.repo = page.repo
              /\ page'.linked = page.linked /\ page'.offered = page.offered
            BY <1>1, <3>1
        <3> QED BY <2>1, <2>2, <3>2, StepKeeps
    <2> QED BY <2>5, <2>6
<1>8. CASE Api!RenderActions
    <2>1. Still /\ page.at = "actions" /\ page.kind = "page"
        BY <1>1, <1>8 DEF Api!RenderActions, Api!Only, PagesInv, PageOpen
    <2>2. page' = [page EXCEPT !.at = "answered", !.code = 200,
                               !.offered = page.repo \in Api!Writable]
        BY <1>8 DEF Api!RenderActions, Api!Goto
    <2>3. /\ DOMAIN page' = DOMAIN page /\ page'.at = "answered" /\ page'.code = 200
          /\ page'.kind = page.kind /\ page'.name = page.name /\ page'.linked = page.linked
          /\ page'.offered = (page.repo \in Api!Writable)
        BY <1>1, <2>2
    <2>4. page'.offered /\ ~moved => EnvOf(page.name, Api!Writable)
        BY <2>1, <2>3 DEF PagesInv, LinksKept, EnvOf
    <2>5. page'.code \notin {302, 403, 404, 500, 0}
        BY <2>3
    <2> QED BY <2>1, <2>3, <2>4, <2>5, AnswerKeeps
<1>9. CASE Api!UserEnvDetail
    BY <1>1, <1>4, <1>9 DEF Api!UserEnvDetail, Api!RowOf
<1>10. CASE Api!UserEnvNamePods \/ Api!UserEnvPodContainers
    <2>1. Still /\ page.at = "row" /\ (Api!Answered(200) \/ Api!WithRow("kubernetes"))
        BY <1>1, <1>10 DEF Api!UserEnvNamePods, Api!UserEnvPodContainers, Api!RowOf
    <2> QED BY <1>2, <1>4, <2>1
<1>11. CASE Api!UserEnvPodLogs
    <2>1. /\ Still /\ page.at = "row"
          /\ \/ Api!Answered(412) \/ Api!WithRow("kubernetes") \/ Api!Answered(400)
             \/ Api!Goto([page EXCEPT !.at = "answered", !.code = 500, !.blamed = TRUE])
        BY <1>1, <1>11 DEF Api!UserEnvPodLogs, Api!RowOf
    <2> QED BY <1>2, <1>3, <1>4, <2>1
<1>12. CASE Api!UserEnvActionsRebuild
    <2>1. /\ Still /\ page.at = "row" /\ page.kind = "rebuild"
          /\ Api!Answered(404) \/ Api!Answered(201)
        BY <1>1, <1>12 DEF Api!UserEnvActionsRebuild, Api!RowOf
    <2> QED BY <1>2, <2>1
<1>13. CASE Api!GetPodList
    <2>1. Still /\ page.at = "kubernetes" /\ page.kind = "pods"
        BY <1>1, <1>13 DEF Api!GetPodList, Api!Only
    <2>2. CASE Api!PodState = "pending"
        <3>1. Api!Answered(0)
            BY <1>13, <2>2 DEF Api!GetPodList
        <3>2. changes # 0
            BY <2>2, QueriesAssumption DEF PagesInv, AtFirst, Api!PodState
        <3>3. changes > 0
            BY <3>2 DEF PagesInv
        <3> QED BY <1>2, <2>1, <3>1, <3>3
    <2>3. CASE Api!PodState # "pending"
        <3>1. Api!Answered(200)
            BY <1>13, <2>3 DEF Api!GetPodList
        <3> QED BY <1>2, <2>1, <3>1
    <2> QED BY <2>2, <2>3
<1>14. CASE Api!GetPodContainers \/ Api!GetPodLogs
    <2>1. /\ Still /\ page.at = "kubernetes"
          /\ \/ Api!Answered(200)
             \/ Api!Goto([page EXCEPT !.at = "answered", !.code = 500, !.blamed = TRUE])
        BY <1>1, <1>14 DEF Api!GetPodContainers, Api!GetPodLogs, Api!PodIsThere, Api!Only
    <2> QED BY <1>2, <1>3, <2>1
<1>15. CASE Api!ReadEvents
    <2> DEFINE ids == Api!GetEventLogsWithStatusByEnvName(page.name)
    <2>1. Still /\ page.at = "events"
        BY <1>15 DEF Api!ReadEvents, Api!Only, Still, Api!tables, tables
    <2>2. CASE ids = {}
        <3>1. Api!Answered(500)
            BY <1>15, <2>2 DEF Api!ReadEvents
        <3>2. changes # 0
            <4> SUFFICES ASSUME changes = 0 PROVE FALSE
                OBVIOUS
            <4>1. page.name \in DOMAIN qa_environments
                BY <2>1 DEF PagesInv, AtFirst
            <4>2. PICK id \in DOMAIN event_logs : event_logs[id].env_name = page.name
                BY <4>1 DEF PagesInv, AtFirst
            <4> QED BY <2>2, <4>2 DEF Api!GetEventLogsWithStatusByEnvName, Api!LogsWhere
        <3>3. changes > 0
            BY <3>2 DEF PagesInv
        <3> QED BY <1>2, <2>1, <3>1, <3>3
    <2>3. CASE ids # {}
        <3>1. Api!Answered(200)
            BY <1>15, <2>3 DEF Api!ReadEvents
        <3> QED BY <1>2, <2>1, <3>1
    <2> QED BY <2>2, <2>3
<1> QED BY <1>5, <1>6, <1>7, <1>8, <1>9, <1>10, <1>11, <1>12, <1>13, <1>14, <1>15

\* The list, a new page, and an event: what a page has shown before is gone, or is of the
\* same environment.
LEMMA ListEnvsKeeps == PagesInv /\ Api!ListEnvs => PagesInv'
<1> SUFFICES ASSUME PagesInv, Api!ListEnvs PROVE PagesInv'
    OBVIOUS
<1>1. /\ UNCHANGED <<tables, perms, living, changes>>
      /\ page' = Api!Idle
    BY DEF Api!ListEnvs, Api!tables, tables
<1>2. page'.at = "none" /\ ~page'.linked /\ ~page'.offered /\ DOMAIN page' = DOMAIN Api!Idle
    BY <1>1 DEF Api!Idle
<1>3. \A n \in listed' : EnvOf(n, Api!Visible)
    <2>1. PICK history \in Histories, destroyed \in BOOLEAN :
             listed' = {} \/ (Api!Visible # {} /\ listed' = Api!UserEnvs(TRUE, history, destroyed))
        BY DEF Api!ListEnvs
    <2>2. Api!UserEnvs(TRUE, history, destroyed) =
             {n \in DOMAIN qa_environments :
                 /\ Api!Visible = {} \/ qa_environments[n].data.repo \in Api!Visible
                 /\ qa_environments[n].status \in
                       {"Success", "Spawned", "Updating", "Failure"}
                           \cup (IF destroyed THEN {"Destroyed"} ELSE {})
                 /\ \/ Api!Since(history) = NULL
                    \/ qa_environments[n].created >= ApiNow - Api!Since(history)}
        BY ListFinds
    <2> QED BY <2>1, <2>2 DEF EnvOf
<1>4. KnownRecords' /\ KnownLogs' /\ changes' \in Nat
    BY <1>1 DEF PagesInv, KnownRecords, KnownLogs, tables
<1>5. AtFirst'
    BY <1>1, <1>2 DEF PagesInv, AtFirst, tables
<1>6. LinksKept'
    BY <1>1, <1>2, <1>3 DEF LinksKept, EnvOf, tables, Api!Visible
<1>7. PageOpen' /\ Api!LinksLead'
    BY <1>2 DEF PageOpen, Api!Idle, Api!LinksLead
<1> QED BY <1>4, <1>5, <1>6, <1>7 DEF PagesInv

LEMMA OpenKeeps ==
    ASSUME PagesInv, NEW kind \in Api!Kinds, NEW n \in DOMAIN qa_environments, Api!Open(kind, n)
    PROVE  PagesInv'
<1>1. /\ UNCHANGED <<tables, perms, living, moved, changes>> /\ listed' = {}
      /\ page' = [Api!Idle EXCEPT
                     !.kind = kind, !.name = n, !.at = "record",
                     !.linked = n \in listed \/ (page.name = n /\ page.linked),
                     !.offered = page.name = n /\ page.offered]
    BY DEF Api!Open, Api!Goto, Api!tables, tables
<1>2. /\ page'.at = "record" /\ page'.kind = kind /\ page'.name = n
      /\ DOMAIN page' = DOMAIN Api!Idle
      /\ page'.linked = (n \in listed \/ (page.name = n /\ page.linked))
      /\ page'.offered = (page.name = n /\ page.offered)
    BY <1>1 DEF Api!Idle
<1>3. KnownRecords' /\ KnownLogs' /\ changes' \in Nat
    BY <1>1 DEF PagesInv, KnownRecords, KnownLogs, tables
<1>4. AtFirst'
    BY <1>1, <1>2 DEF PagesInv, AtFirst, tables
<1>5. ~moved => /\ page'.linked => EnvOf(n, Api!Visible)
                /\ page'.offered => EnvOf(n, Api!Writable)
    BY <1>2 DEF PagesInv, LinksKept
<1>6. LinksKept'
    BY <1>1, <1>2, <1>5 DEF LinksKept, EnvOf, tables, Api!Visible, Api!Writable
<1>7. PageOpen' /\ Api!LinksLead'
    BY <1>2 DEF PageOpen, Api!Idle, Api!LinksLead
<1> QED BY <1>3, <1>4, <1>6, <1>7 DEF PagesInv

LEMMA AskEventKeeps == PagesInv /\ Api!AskEvent => PagesInv'
<1> SUFFICES ASSUME PagesInv, Api!AskEvent PROVE PagesInv'
    OBVIOUS
<1>1. Still
    BY DEF Api!AskEvent, Api!OnlyPage, Api!tables, Still, tables
<1>2. PICK kind \in Api!EventKinds, id \in events, key \in {"right", "other", "malformed"} :
         page' = [Api!Idle EXCEPT !.kind = kind, !.name = id, !.at = "answered",
                                  !.code = Api!EventAnswer(kind, id, key),
                                  !.blamed = key # "right"]
    BY DEF Api!AskEvent, Api!Goto
<1>3. /\ page'.at = "answered" /\ page'.kind = kind /\ page'.name = id
      /\ DOMAIN page' = DOMAIN Api!Idle /\ ~page'.linked /\ ~page'.offered
      /\ page'.code = Api!EventAnswer(kind, id, key)
      /\ key # "right" => page'.blamed
    BY <1>2 DEF Api!Idle
<1>4. KnownRecords' /\ KnownLogs' /\ changes' \in Nat
    BY <1>1 DEF PagesInv, KnownRecords, KnownLogs, Still, tables
<1>5. AtFirst'
    BY <1>1, <1>3 DEF PagesInv, AtFirst, Still, tables
<1>6. LinksKept'
    BY <1>1, <1>3 DEF PagesInv, LinksKept, EnvOf, Still, tables, Api!Visible, Api!Writable
<1>7. PageOpen'
    BY <1>3 DEF PageOpen, Api!Idle
<1>8. id \in DOMAIN event_logs /\ Api!StatusShown(id) = NULL => Api!GetEventStatus(id) = NULL
    BY DEF PagesInv, KnownLogs, Api!StatusShown, Api!GetEventStatus
<1>9. /\ Api!EventAnswer(kind, id, key) \in {200, 401, 404}
      /\ Api!EventAnswer(kind, id, key) = 401 => kind = "lines" /\ key # "right"
      /\ id \in DOMAIN event_logs /\ Api!EventAnswer(kind, id, key) = 404 =>
            kind = "status" /\ Api!StatusShown(id) = NULL
    BY DEF Api!EventAnswer, Api!GetEventLogByID, Api!LogsWhere
<1>10. Api!LinksLead'
    <2>1. page'.code \in {200, 401, 404}
        BY <1>3, <1>9
    <2>2. page'.code = 401 => page'.kind = "lines" /\ page'.blamed
        BY <1>3, <1>9
    <2>3. event_logs' = event_logs
        BY <1>1 DEF Still, tables
    <2>4. id \in DOMAIN event_logs' /\ page'.code = 404 =>
             page'.kind = "status" /\ event_logs'[id].status = NULL
        BY <1>3, <1>8, <1>9, <2>3 DEF Api!GetEventStatus
    <2> QED BY <1>3, <2>1, <2>2, <2>4 DEF Api!LinksLead, Api!GetEventStatus
<1> QED BY <1>4, <1>5, <1>6, <1>7, <1>10 DEF PagesInv

LEMMA ChangesKeep ==
    ASSUME PagesInv,
           \/ \E n \in DOMAIN qa_environments :
                 \/ Api!DeleteRow(n) \/ Api!Destroyed(n) \/ Api!Pruned(n)
                 \/ \E id \in DOMAIN event_logs : Api!LogMoves(id, n)
           \/ \E space \in DOMAIN living : Api!NamespaceGoes(space) \/ Api!PodStarts(space)
           \/ \E id \in DOMAIN event_logs : Api!LogGoes(id)
           \/ Api!GitHubChanges
    PROVE  PagesInv'
<1>1. KnownRecords /\ KnownLogs
    BY DEF PagesInv
<1>2. Api!Changes => UNCHANGED <<page, listed>> /\ changes' = changes + 1
    BY DEF Api!Changes
<1> DEFINE RecordsStay == \A n \in DOMAIN qa_environments :
                             /\ n \in DOMAIN qa_environments'
                             /\ qa_environments'[n].data.repo = qa_environments[n].data.repo
           LogsStay == \A id \in DOMAIN event_logs' :
                          /\ id \in DOMAIN event_logs
                          /\ event_logs'[id].status = event_logs[id].status
<1>3. UNCHANGED qa_environments => KnownRecords' /\ RecordsStay
    BY <1>1 DEF KnownRecords
<1>4. UNCHANGED event_logs => KnownLogs' /\ LogsStay
    BY <1>1 DEF KnownLogs
<1> HIDE DEF RecordsStay, LogsStay
<1>5. ASSUME Api!Changes, KnownRecords', KnownLogs', LogsStay,
             ~moved' => ~moved /\ perms' = perms /\ RecordsStay
      PROVE  PagesInv'
    BY <1>2, <1>5, ChangeKeeps DEF RecordsStay, LogsStay
<1>6. ASSUME NEW n, Api!DeleteRow(n) PROVE PagesInv'
    BY <1>3, <1>4, <1>5, <1>6 DEF Api!DeleteRow, Api!DeleteK8sEnv, Api!OnlyK8s
<1>7. ASSUME NEW n, Api!Destroyed(n) PROVE PagesInv'
    <2>1. KnownRecords' /\ RecordsStay
        BY <1>1, <1>7 DEF Api!Destroyed, Api!SetQAEnvironmentStatus, KnownRecords, RecordsStay,
                          EnvStatuses
    <2>2. UNCHANGED event_logs
        BY <1>7 DEF Api!Destroyed, Api!SetQAEnvironmentStatus, Api!OnlyEnvironments
    <2> QED BY <1>4, <1>5, <1>7, <2>1, <2>2 DEF Api!Destroyed
<1>8. ASSUME NEW n, Api!Pruned(n) PROVE PagesInv'
    <2>1. KnownRecords'
        <3>1. qa_environments' = Api!Delete(qa_environments, {n})
            BY <1>8 DEF Api!Pruned, Api!DeleteQAEnvironment
        <3>2. /\ DOMAIN qa_environments' \subseteq DOMAIN qa_environments
              /\ \A m \in DOMAIN qa_environments' : qa_environments'[m] = qa_environments[m]
            BY <3>1 DEF Api!Delete
        <3>3. NULL \notin SUBSET DOMAIN qa_environments'
            BY <1>1, <3>2 DEF KnownRecords
        <3> QED BY <1>1, <3>2, <3>3 DEF KnownRecords
    <2>2. UNCHANGED event_logs
        BY <1>8 DEF Api!Pruned, Api!DeleteQAEnvironment
    <2> QED BY <1>4, <1>5, <1>8, <2>1, <2>2 DEF Api!Pruned
<1>9. ASSUME NEW n, NEW id, Api!LogMoves(id, n) PROVE PagesInv'
    <2>1. /\ event_logs' = Api!Update(event_logs, id, "env_name", n)
          /\ qa_environments' =
                [m \in DOMAIN qa_environments |->
                    IF m = n THEN [qa_environments[m] EXCEPT !.event_ids = @ \cup {id}]
                    ELSE qa_environments[m]]
        BY <1>9 DEF Api!LogMoves, Api!SetEventLogEnvName
    <2>2. KnownRecords' /\ RecordsStay
        BY <1>1, <2>1 DEF KnownRecords, RecordsStay
    <2>3. KnownLogs' /\ LogsStay
        <3>1. DOMAIN event_logs' = DOMAIN event_logs
            BY <2>1 DEF Api!Update
        <3>2. \A i \in DOMAIN event_logs :
                 /\ DOMAIN event_logs'[i] = DOMAIN event_logs[i]
                 /\ "status" \in DOMAIN event_logs[i] => event_logs'[i].status = event_logs[i].status
            BY <2>1 DEF Api!Update
        <3> QED BY <1>1, <3>1, <3>2 DEF KnownLogs, LogsStay
    <2> QED BY <1>5, <1>9, <2>2, <2>3 DEF Api!LogMoves
<1>10. ASSUME NEW id, Api!LogGoes(id) PROVE PagesInv'
    <2>1. event_logs' = Api!Delete(event_logs, {id}) /\ UNCHANGED qa_environments
        BY <1>10 DEF Api!LogGoes, Api!DeleteEventLog, Api!OnlyLogs
    <2>2. KnownLogs' /\ LogsStay
        BY <1>1, <2>1 DEF KnownLogs, LogsStay, Api!Delete
    <2> QED BY <1>3, <1>5, <1>10, <2>1, <2>2 DEF Api!LogGoes
<1>11. ASSUME NEW space, Api!NamespaceGoes(space) \/ Api!PodStarts(space) PROVE PagesInv'
    BY <1>3, <1>4, <1>5, <1>11 DEF Api!NamespaceGoes, Api!PodStarts, Api!tables
<1>12. ASSUME Api!GitHubChanges PROVE PagesInv'
    BY <1>3, <1>4, <1>5, <1>12 DEF Api!GitHubChanges, Api!tables
<1> QED BY <1>6, <1>7, <1>8, <1>9, <1>10, <1>11, <1>12

LEMMA PagesInvNext == PagesInv /\ Api!PagesNext => PagesInv'
<1> SUFFICES ASSUME PagesInv, Api!PagesNext PROVE PagesInv'
    OBVIOUS
<1>1. CASE \E kind \in Api!Kinds, n \in DOMAIN qa_environments : Api!Open(kind, n)
    BY <1>1, OpenKeeps
<1> QED BY <1>1, ListEnvsKeeps, PageStepsKeep, AskEventKeeps, ChangesKeep DEF Api!PagesNext

LEMMA PagesDoNotSearch == Api!PagesNext => UNCHANGED searchVars
BY DEF Api!PagesNext, Api!ListEnvs, Api!Open, Api!ReadRecord, Api!OutsideFails,
       Api!CheckPermissions, Api!RenderActions, Api!UserEnvDetail, Api!UserEnvNamePods,
       Api!UserEnvPodContainers, Api!UserEnvPodLogs, Api!UserEnvActionsRebuild, Api!GetPodList,
       Api!GetPodContainers, Api!GetPodLogs, Api!ReadEvents, Api!AskEvent, Api!OnlyPage,
       Api!Changes, Api!DeleteRow, Api!Destroyed, Api!Pruned, Api!LogMoves, Api!LogGoes,
       Api!NamespaceGoes, Api!PodStarts, Api!GitHubChanges, Api!searchVars, searchVars

\* Searches by the three versions of the API give the same answer and fail only for an empty
\* value or without a parameter that they know, the lists of the versions agree, and a link
\* of the interface leads somewhere until the record or the permissions change, although
\* each page asks the database, GitHub and Kubernetes one after the other while operations
\* go on (pkg/api: api_v0.go, api_v1.go, api_v2.go and api_ui.go).
THEOREM ReadsAreConsistent == Spec => []ReadsAgree
<1>1. Init => ReadsInv
    <2> SUFFICES ASSUME Init PROVE ReadsInv
        OBVIOUS
    <2>1. Api!RequestsInit
        BY DEF Init
    <2>2. SearchAnswered
        BY <2>1 DEF Api!RequestsInit, SearchAnswered
    <2>3. CASE group \in {"search", "pages"}
        <3>1. Api!DatabaseInit
            BY <2>3 DEF Init, Groups
        <3> QED BY <2>1, <2>2, <3>1, PagesInvInit DEF ReadsInv
    <2> QED BY <2>2, <2>3 DEF ReadsInv
<1>2. ReadsInv /\ [Next]_vars => ReadsInv'
    <2> SUFFICES ASSUME ReadsInv, [Next]_vars PROVE ReadsInv'
        OBVIOUS
    <2>1. UNCHANGED group
        BY DEF Next, vars, LayersNext
    <2>2. UNCHANGED searchVars => SearchAnswered'
        BY DEF ReadsInv, searchVars, SearchAnswered, AnswersAgreeOn
    <2>3. UNCHANGED <<tables, pageVars>> /\ PagesInv => PagesInv'
        BY DEF tables, pageVars, PagesInv, KnownRecords, KnownLogs, AtFirst, LinksKept, EnvOf,
           PageOpen, Api!LinksLead, Api!Visible, Api!Writable, Api!GetEventStatus
    <2>4. CASE group \notin {"search", "pages"}
        <3>1. UNCHANGED searchVars
            BY <2>4 DEF Next, vars
        <3> QED BY <2>1, <2>2, <2>4, <3>1 DEF ReadsInv
    <2>5. CASE group \in {"search", "pages"}
        <3>1. PagesInv
            BY <2>5 DEF ReadsInv
        <3>2. \/ UNCHANGED <<tables, searchVars, pageVars>>
              \/ group = "search" /\ Api!SearchEnvs
              \/ group = "pages" /\ Api!PagesNext
            BY <2>5 DEF Next, vars, LayersNext
        <3>3. CASE UNCHANGED <<tables, searchVars, pageVars>>
            BY <2>1, <2>2, <2>3, <3>1, <3>3 DEF ReadsInv
        <3>4. CASE Api!SearchEnvs
            <4>1. UNCHANGED <<tables, pageVars>>
                BY <3>4 DEF Api!SearchEnvs, Api!tables, Api!pageVars, tables, pageVars
            <4>2. PICK q \in Queries :
                     query' = q /\ replies' = [v \in Api!Versions |-> Api!SearchReply(v, q)]
                BY <3>4 DEF Api!SearchEnvs
            <4>3. /\ replies'["v0"] = Api!SearchReply("v0", q)
                  /\ replies'["v1"] = Api!SearchReply("v1", q)
                  /\ replies'["v2"] = Api!SearchReply("v2", q)
                  /\ \A v \in Api!Versions : replies'[v] = Api!SearchReply(v, q)
                BY <4>2 DEF Api!Versions
            <4>4. AnswersAgreeOn(q, replies')
                BY <3>1, <4>3, SearchReplies DEF PagesInv, AnswersAgreeOn
            <4>5. SearchAnswered'
                BY <4>2, <4>4 DEF SearchAnswered, AnswersAgreeOn
            <4> QED BY <2>1, <2>3, <3>1, <4>1, <4>5 DEF ReadsInv
        <3>5. CASE Api!PagesNext
            <4>1. UNCHANGED searchVars
                BY <3>5, PagesDoNotSearch
            <4> QED BY <2>1, <2>2, <3>1, <3>5, <4>1, PagesInvNext DEF ReadsInv
        <3> QED BY <3>2, <3>3, <3>4, <3>5
    <2> QED BY <2>4, <2>5
<1>3. ReadsInv => ReadsAgree
    <2> SUFFICES ASSUME ReadsInv, group \in {"search", "pages"} PROVE Api!ReadsAgree
        BY DEF ReadsAgree
    <2>1. Api!ListsAgree /\ Api!LinksLead
        BY ListsAgreeAlways DEF ReadsInv, PagesInv
    <2>2. Api!SearchesAgree
        <3> SUFFICES ASSUME query # NULL PROVE Api!SearchesAgree
            BY DEF Api!SearchesAgree
        <3>1. PICK q \in Queries : query = q /\ AnswersAgreeOn(q, replies)
            BY DEF ReadsInv, SearchAnswered
        <3> QED BY <3>1, Zenon DEF AnswersAgreeOn, NoRepo, Api!SearchesAgree
    <2> QED BY <2>1, <2>2 DEF Api!ReadsAgree
<1> QED BY <1>1, <1>2, <1>3, PTL DEF Spec

=============================================================================
