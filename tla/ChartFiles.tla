----------------------------- MODULE ChartFiles -----------------------------
(***************************************************************************)
(* The directories of charts: each create or update makes a temporary       *)
(* directory (tempDir of pkg/nitro/env), FetchCharts writes the charts into  *)
(* it (fetchChartAndVars of pkg/nitro/meta), the installation reads them,   *)
(* and a deferred RemoveAll removes the directory.  Operations on different  *)
(* environments, and a preempted one with its successor, do so at the same   *)
(* time.  ChartFetch has the order of the goroutines of FetchCharts and the *)
(* variables they share; here are their calls of the file system.           *)
(*                                                                          *)
(* A chart is written to basePath/[offset]/[name], which is one name here.  *)
(***************************************************************************)
EXTENDS MemFS

CONSTANTS
    Ops,        \* creates and updates
    TempNames,  \* prefix and suffix of a temporary directory
    Charts,     \* offsets of charts
    Primary,    \* that of the application
    Contents,   \* Contents[c]: the paths in the chart c; to the target of a link, or <<>>
    WithVars,   \* charts with a vars file
    MaxErrors   \* bound: failing calls of GitHub

VARIABLES
    operation,  \* create or update: how far it is
    td,      \* its temporary directory
    victim,  \* of its RemoveAll: the path that is being removed
    at,      \* of the goroutine of a chart: what it does next
    todo,    \* what it has still to write
    entry,   \* what it is writing: a path below the directory of its chart
    target,  \* the path that its OpenFile has come to
    file,    \* the file that it has opened
    errors

opVars == <<operation, td, victim>>
writerVars == <<at, todo, entry, target, file>>
filesVars == <<storageVars, opVars, writerVars, errors>>

Writers == Ops \X Charts
Nothing == <<>>

ChartDir(w) == Append(td[w[1]], w[2])

\* What is written for a chart: its files and links, and last, its vars file.
Entries(c) ==
    [path : DOMAIN Contents[c], vars : {FALSE}]
    \cup (IF c \in WithVars THEN {[path |-> <<"vars.yml">>, vars |-> TRUE]} ELSE {})
LinkOf(w) == IF entry[w].vars THEN Nothing ELSE Contents[w[2]][entry[w].path]
Bytes(o, c, e) == [op |-> o, chart |-> c, entry |-> e]

\* The names in all paths
Names ==
    {"tmp", "vars.yml"} \cup TempNames \cup Charts
    \cup UNION {UNION {ToSet(p) \cup ToSet(Contents[c][p]) : p \in DOMAIN Contents[c]} : c \in Charts}
Paths == Seq(Names)

\* What is assumed of the charts that GitHub has: a file is not a directory, the vars file is not
\* one of a chart's own, and a link leads to a file of its chart.
ChartsWellFormed ==
    /\ Primary \in Charts
    /\ \A c \in Charts :
          /\ \A p \in DOMAIN Contents[c] : p \in Paths \ {<<>>} /\ Contents[c][p] \in Paths
          /\ \A e, f \in Entries(c) : IsPrefix(e.path, f.path) => e = f
          /\ \A p \in DOMAIN Contents[c] :
                Contents[c][p] # Nothing =>
                    /\ Front(p) \o Contents[c][p] \in DOMAIN Contents[c]
                    /\ Contents[c][Front(p) \o Contents[c][p]] = Nothing

ASSUME FilesAssumption == ChartsWellFormed

FilesInit ==
    /\ StorageInit
    /\ operation = [o \in Ops |-> "idle"] /\ td = [o \in Ops |-> Nothing]
    /\ victim = [o \in Ops |-> Nothing]
    /\ at = [w \in Writers |-> "off"] /\ todo = [w \in Writers |-> {}]
    /\ entry = [w \in Writers |-> Nothing] /\ target = [w \in Writers |-> Nothing]
    /\ file = [w \in Writers |-> Nothing] /\ errors = 0

-----------------------------------------------------------------------------
(* The operation.                                                           *)

\* tempDir: MkdirAll does not say that the directory was there, so that the loop never
\* tries another name: that nobody else has it is due to nextSuffix alone.
TempDir(o) ==
    /\ operation[o] = "idle" /\ operation' = [operation EXCEPT ![o] = "fetching"]
    /\ \E n \in TempNames :
          /\ \A p \in Ops : td[p] # <<"tmp", n>>
          /\ td' = [td EXCEPT ![o] = <<"tmp", n>>]
          /\ MkdirAll(<<"tmp", n>>)
    /\ UNCHANGED <<victim, writerVars, errors>>

\* The chart of the application first, then the others at once.
FetchChart(w) ==
    /\ at[w] = "off" /\ operation[w[1]] = "fetching"
    /\ w[2] # Primary => at[<<w[1], Primary>>] = "done"
    /\ \/ /\ at' = [at EXCEPT ![w] = "next"] /\ todo' = [todo EXCEPT ![w] = Entries(w[2])]
          /\ UNCHANGED errors
       \/ /\ errors < MaxErrors /\ errors' = errors + 1
          /\ at' = [at EXCEPT ![w] = "failed"] /\ UNCHANGED todo
    /\ UNCHANGED <<storageVars, opVars, entry, target, file>>

\* Broken variant: a goroutine that is not in the group is not waited for.
ReturnEarly(o) ==
    /\ operation[o] = "fetching" /\ \A c \in Charts : at[<<o, c>>] # "off"
    /\ operation' = [operation EXCEPT ![o] = "installing"]
    /\ UNCHANGED <<storageVars, td, victim, writerVars, errors>>

\* FetchCharts returns when all goroutines have ended; after an error, the directory that
\* was made stays, for its name is not returned.
FetchReturns(o) ==
    /\ operation[o] = "fetching"
    /\ \/ at[<<o, Primary>>] = "failed"
       \/ \A c \in Charts : at[<<o, c>>] \in {"done", "failed"}
    /\ operation' = [operation EXCEPT ![o] =
                        IF \E c \in Charts : at[<<o, c>>] = "failed" THEN "failed"
                        ELSE "installing"]
    /\ UNCHANGED <<storageVars, td, victim, writerVars, errors>>

Installed(o) ==
    /\ operation[o] = "installing" /\ operation' = [operation EXCEPT ![o] = "removing"]
    /\ UNCHANGED <<storageVars, td, victim, writerVars, errors>>

-----------------------------------------------------------------------------
(* RemoveAll: what is in a directory before the directory.                  *)

\* storage.Remove: Get, and under a second lock, that a directory is empty.
Check(o) ==
    /\ operation[o] = "removing" /\ victim[o] = Nothing
    /\ \E p \in DOMAIN files :
          /\ IsPrefix(td[o], p) /\ DOMAIN ChildrenOf(p) = {}
          /\ victim' = [victim EXCEPT ![o] = p]
    /\ UNCHANGED <<storageVars, operation, td, writerVars, errors>>

\* Under a third lock it is removed, whatever is in it by now.
RemoveFile(o) ==
    /\ victim[o] # Nothing /\ Delete(victim[o])
    /\ victim' = [victim EXCEPT ![o] = Nothing]
    /\ UNCHANGED <<operation, td, writerVars, errors>>

RemoveAllReturns(o) ==
    /\ operation[o] = "removing" /\ victim[o] = Nothing /\ ~has(td[o])
    /\ operation' = [operation EXCEPT ![o] = "ended"]
    /\ UNCHANGED <<storageVars, td, victim, writerVars, errors>>

-----------------------------------------------------------------------------
(* The goroutine of a chart.                                                *)

MoveTo(w, step) == at' = [at EXCEPT ![w] = step]
OthersKept == UNCHANGED <<opVars, errors>>

\* The next path of the map, in no particular order; in the end the vars file.
Choose(w) ==
    /\ at[w] = "next" /\ OthersKept
    /\ \E e \in todo[w] :
          /\ e.vars => todo[w] = {e}
          /\ todo' = [todo EXCEPT ![w] = @ \ {e}]
          /\ entry' = [entry EXCEPT ![w] = e]
          /\ target' = [target EXCEPT ![w] = ChartDir(w) \o e.path]
          /\ MoveTo(w, IF e.vars THEN "open" ELSE "mkdir")
    /\ UNCHANGED <<storageVars, file>>

FinishChart(w) ==
    /\ at[w] = "next" /\ todo[w] = {} /\ MoveTo(w, "done")
    /\ OthersKept /\ UNCHANGED <<storageVars, todo, entry, target, file>>

MakeDir(w) ==
    /\ at[w] = "mkdir" /\ OthersKept
    /\ \/ MkdirAll(Front(target[w])) /\ MoveTo(w, IF LinkOf(w) = Nothing THEN "open" ELSE "stat")
       \/ MkdirAllFails(Front(target[w])) /\ MoveTo(w, "failed")
    /\ UNCHANGED <<todo, entry, target, file>>

\* Symlink: Stat, which follows a link, and then as for a file.
StatLink(w) ==
    /\ at[w] = "stat" /\ OthersKept
    /\ LET p == target[w] IN
          MoveTo(w, IF has(p) /\ (ModeOf(p) = "link" => has(Target(p))) THEN "failed" ELSE "open")
    /\ UNCHANGED <<storageVars, todo, entry, target, file>>

\* OpenFile with O_CREATE and O_TRUNC: storage.Get
Open(w) ==
    /\ at[w] = "open" /\ OthersKept
    /\ LET p == target[w] IN
          \/ ~has(p) /\ MoveTo(w, "new") /\ UNCHANGED <<target, file>>
          \/ /\ has(p) /\ ModeOf(p) = "link"
             /\ target' = [target EXCEPT ![w] = Target(p)] /\ UNCHANGED <<at, file>>
          \/ has(p) /\ ModeOf(p) = "dir" /\ MoveTo(w, "failed") /\ UNCHANGED <<target, file>>
          \/ /\ has(p) /\ ModeOf(p) = "file"
             /\ file' = [file EXCEPT ![w] = files[p]] /\ MoveTo(w, "write") /\ UNCHANGED target
    /\ UNCHANGED <<storageVars, todo, entry>>

\* and storage.New, for which the path may be there by now: a file is an error, and for a
\* directory it returns nil, which OpenFile dereferences.
Create(w) ==
    /\ at[w] = "new" /\ OthersKept
    /\ \/ /\ ~has(target[w]) /\ New(target[w], IF LinkOf(w) = Nothing THEN "file" ELSE "link")
          /\ file' = [file EXCEPT ![w] = NextFile(target[w])] /\ MoveTo(w, "write")
       \/ Exists(target[w]) /\ ModeOf(target[w]) # "dir" /\ MoveTo(w, "failed") /\ UNCHANGED file
       \/ Exists(target[w]) /\ ModeOf(target[w]) = "dir" /\ MoveTo(w, "panicked") /\ UNCHANGED file
    /\ UNCHANGED <<todo, entry, target>>

\* Duplicate, which truncates, and Write.
Write(w) ==
    /\ at[w] = "write" /\ MoveTo(w, "next") /\ OthersKept
    /\ node' = [node EXCEPT ![file[w]].content =
                   <<IF LinkOf(w) = Nothing THEN Bytes(w[1], w[2], entry[w]) ELSE LinkOf(w)>>]
    /\ UNCHANGED <<files, children, todo, entry, target, file>>

WriterStep(w) ==
    \/ FetchChart(w) \/ Choose(w) \/ FinishChart(w) \/ MakeDir(w) \/ StatLink(w) \/ Open(w)
    \/ Create(w) \/ Write(w)

FilesNext ==
    \/ \E o \in Ops : \/ TempDir(o) \/ FetchReturns(o) \/ Installed(o)
                      \/ Check(o) \/ RemoveFile(o) \/ RemoveAllReturns(o)
    \/ \E w \in Writers : WriterStep(w)

FilesSpec == FilesInit /\ [][FilesNext]_filesVars

-----------------------------------------------------------------------------
(* Properties                                                               *)

\* What is found at a path, links followed.
Read(path) ==
    IF ~has(path) THEN Nothing
    ELSE IF ModeOf(path) = "link"
         THEN IF has(Target(path)) THEN node[files[Target(path)]].content ELSE Nothing
         ELSE node[files[path]].content

\* While an operation installs, its directory has the files of its charts, complete, and
\* no others, although goroutines of other operations create and remove directories beside it.
ChartsIntact ==
    \A o \in Ops : operation[o] = "installing" =>
        /\ \A c \in Charts : \A e \in Entries(c) :
              LET from == IF ~e.vars /\ Contents[c][e.path] # Nothing
                          THEN [e EXCEPT !.path = Front(e.path) \o Contents[c][e.path]] ELSE e
              IN  Read(Append(td[o], c) \o e.path) = <<Bytes(o, c, from)>>
        /\ \A p \in DOMAIN files :
              IsPrefix(td[o], p) /\ ModeOf(p) # "dir" =>
                  \E c \in Charts : \E e \in Entries(c) : p = Append(td[o], c) \o e.path

\* Whoever has fetched its charts leaves nothing behind.
NothingLeft ==
    \A o \in Ops : operation[o] = "ended" => \A p \in DOMAIN files : ~IsPrefix(td[o], p)

FilesKept == TreeKept /\ ChartsIntact /\ NothingLeft
=============================================================================
