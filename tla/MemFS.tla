------------------------------- MODULE MemFS -------------------------------
(***************************************************************************)
(* The file system in memory (pkg/memfs), which the tests of the packages   *)
(* under pkg/nitro run on in place of that of the OS.  "storage" has two    *)
(* maps with one lock: files by their path, and by directory the files in   *)
(* it.  A method of storage, or a part of one between two locks, is one     *)
(* step; what a method of Memory does with several of them is not.          *)
(*                                                                          *)
(* A path is the sequence of its names and is clean; the root is <<>>.  A   *)
(* *file is its path when it was made and the count of those before it      *)
(* there, its key in `node'.  The methods that nobody in this repository    *)
(* calls, Rename, Truncate, Seek and those for temporary files, are left    *)
(* out.                                                                     *)
(***************************************************************************)
EXTENDS Naturals, Sequences, FiniteSets, SequencesExt

VARIABLES
    files,     \* storage.files: path -> *file
    children,  \* storage.children: path of a directory -> name -> *file
    node       \* of a *file, which stays when it is removed: mode ("dir", "file" or "link")
               \* and content

storageVars == <<files, children, node>>

StorageInit == files = <<>> /\ children = <<>> /\ node = <<>>

has(path) == path \in DOMAIN files
ModeOf(path) == node[files[path]].mode
ChildrenOf(path) == IF path \in DOMAIN children THEN children[path] ELSE <<>>

\* path and the directories above it that new has to create: it stops at the first one
\* that is there.
Missing(path) ==
    {q \in Prefixes(path) :
        \A r \in Prefixes(path) : Len(r) >= Len(q) => ~has(r)}

NextFile(path) == <<path, Cardinality({f \in DOMAIN node : f[1] = path}) + 1>>

\* storage.new of a path that is not there, with createParent.  A file is not entered in
\* its parent when that is not a directory: the error of createParent is ignored.
New(path, mode) ==
    LET missing == Missing(path)
        linked  == {q \in missing \ {<<>>} :
                       Front(q) \in missing \/ ModeOf(Front(q)) = "dir"}
        names(dir) == {Last(q) : q \in {p \in linked : Front(p) = dir}}
    IN  /\ node' = [f \in DOMAIN node \cup {NextFile(q) : q \in missing} |->
                       IF f \in DOMAIN node THEN node[f]
                       ELSE [mode |-> IF f[1] = path THEN mode ELSE "dir", content |-> <<>>]]
        /\ files' = [q \in DOMAIN files \cup missing |->
                        IF q \in missing THEN NextFile(q) ELSE files[q]]
        /\ children' = [dir \in DOMAIN children \cup {Front(q) : q \in linked} |->
              [n \in DOMAIN ChildrenOf(dir) \cup names(dir) |->
                  IF n \in names(dir) THEN NextFile(Append(dir, n)) ELSE ChildrenOf(dir)[n]]]

\* storage.New, when the path is there: an error for what is not a directory.
Exists(path) == has(path) /\ UNCHANGED storageVars

\* Memory.MkdirAll
MkdirAll(path) ==
    \/ ~has(path) /\ New(path, "dir")
    \/ Exists(path) /\ ModeOf(path) = "dir"
MkdirAllFails(path) == Exists(path) /\ ModeOf(path) # "dir"

\* resolveLink: the target is relative to the directory of the link, and that directory
\* itself as long as the link has no content.
Target(path) ==
    IF node[files[path]].content = <<>> THEN Front(path)
    ELSE Front(path) \o node[files[path]].content[1]

\* Broken variant: the entry in the directory is forgotten.
DeleteFile(path) ==
    files' = [q \in DOMAIN files \ {path} |-> files[q]] /\ UNCHANGED <<children, node>>

\* storage.Remove, its last part, under the lock again
Delete(path) ==
    /\ files' = [q \in DOMAIN files \ {path} |-> files[q]]
    /\ children' = [dir \in DOMAIN children |->
                       [n \in {m \in DOMAIN children[dir] : Append(dir, m) # path} |->
                           children[dir][n]]]
    /\ UNCHANGED node

-----------------------------------------------------------------------------
\* Whatever is in one of the maps is in the other, up to the root, whoever creates,
\* writes and removes files elsewhere at the same time.
TreeKept ==
    /\ \A p \in DOMAIN files \ {<<>>} :
          /\ has(Front(p)) /\ ModeOf(Front(p)) = "dir"
          /\ Last(p) \in DOMAIN ChildrenOf(Front(p))
          /\ ChildrenOf(Front(p))[Last(p)] = files[p]
    /\ \A dir \in DOMAIN children : \A n \in DOMAIN children[dir] : has(Append(dir, n))
=============================================================================
