------------------------- MODULE ChartFiles_proofs -------------------------
(***************************************************************************)
(* Proofs about ChartFiles for any charts, operations and names of          *)
(* temporary directories: what one operation writes and removes is below    *)
(* its own directory, so that nobody's charts are in anybody's way, and     *)
(* the two maps of the file system agree after every step.                  *)
(***************************************************************************)
EXTENDS ChartFiles, SequenceTheorems, TLAPS

-----------------------------------------------------------------------------
(* The inductive invariant                                                  *)

\* Where an entry of a chart is written
Path(w, e) == ChartDir(w) \o e.path

\* A goroutine that is at one of its entries, and one that has begun
Inside == {"mkdir", "stat", "open", "new", "write"}
Begun == Inside \cup {"next", "done"}

\* An entry of a chart that is a file or a link by now, if perhaps an empty one
Written(w, e) ==
    /\ at[w] \in Begun /\ e \in Entries(w[2]) \ todo[w]
    /\ e = entry[w] => at[w] \in {"next", "done", "write"}

LinkTo(c, e) == IF e.vars THEN Nothing ELSE Contents[c][e.path]

TypeOK ==
    /\ operation \in [Ops -> {"idle", "fetching", "installing", "failed", "removing", "ended"}]
    /\ td \in [Ops -> Paths] /\ victim \in [Ops -> Paths]
    /\ at \in [Writers -> Begun \cup {"off", "failed"}]
    /\ DOMAIN todo = Writers /\ \A w \in Writers : todo[w] \subseteq Entries(w[2])
    /\ DOMAIN entry = Writers /\ DOMAIN target = Writers /\ DOMAIN file = Writers
    /\ DOMAIN files \subseteq Paths
    /\ \A f \in DOMAIN node : DOMAIN node[f] = {"mode", "content"}

\* Each operation has a directory of its own.
OwnDirectory ==
    /\ \A o \in Ops : IF operation[o] = "idle" THEN td[o] = Nothing
                                        ELSE \E n \in TempNames : td[o] = <<"tmp", n>>
    /\ \A o, p \in Ops : td[o] = td[p] /\ td[o] # Nothing => o = p

\* No goroutine runs before or after FetchCharts.
Joined ==
    \A o \in Ops :
        /\ operation[o] = "idle" => \A c \in Charts : at[<<o, c>>] = "off"
        /\ operation[o] = "failed" => \A c \in Charts : at[<<o, c>>] \in {"off", "done", "failed"}
        /\ operation[o] \in {"installing", "removing", "ended"} =>
              \A c \in Charts : at[<<o, c>>] = "done"
        /\ \A c \in Charts : c # Primary /\ at[<<o, c>>] # "off" => at[<<o, Primary>>] = "done"

\* What a goroutine knows of the entry that it is at.
Writing ==
    \A w \in Writers :
        /\ at[w] \in {"off", "failed", "done"} => todo[w] = {}
        /\ at[w] \in Inside =>
              entry[w] \in Entries(w[2]) \ todo[w] /\ target[w] = Path(w, entry[w])
        /\ at[w] \in {"mkdir", "stat"} => ~entry[w].vars
        /\ at[w] = "write" => has(target[w]) /\ file[w] = files[target[w]]

\* A file belongs to a chart, or is a directory above one that does.
FilesPlaced ==
    \A p \in DOMAIN files :
        \/ /\ ModeOf(p) = "dir"
           /\ \E o \in Ops : td[o] # Nothing /\ p \in Prefixes(td[o])
        \/ /\ ModeOf(p) = "dir"
           /\ \E w \in Writers : \E e \in Entries(w[2]) :
                 td[w[1]] # Nothing /\ p \in Prefixes(Front(Path(w, e)))
        \/ \E w \in Writers : \E e \in Entries(w[2]) : Written(w, e) /\ p = Path(w, e)

\* What has been written is there, until the operation removes it.
FilesThere ==
    \A w \in Writers : \A e \in Entries(w[2]) :
        Written(w, e) /\ operation[w[1]] \notin {"removing", "ended"} =>
            /\ has(Path(w, e))
            /\ ModeOf(Path(w, e)) = (IF LinkTo(w[2], e) = Nothing THEN "file" ELSE "link")
            /\ ~(e = entry[w] /\ at[w] = "write") =>
                  node[files[Path(w, e)]].content =
                      <<IF LinkTo(w[2], e) = Nothing THEN Bytes(w[1], w[2], e)
                                                     ELSE LinkTo(w[2], e)>>

\* A path has had one file, unless its operation has come to the removal.
OneFile ==
    /\ \A p \in DOMAIN files : files[p] \in DOMAIN node /\ files[p][1] = p
    /\ \A f \in DOMAIN node :
          \/ has(f[1])
          \/ \E o \in Ops : operation[o] \in {"removing", "ended"} /\ IsPrefix(td[o], f[1])

Ancestors == \A p \in DOMAIN files : \A q \in Prefixes(p) : has(q)

\* What is about to be removed is a file or an empty directory still.
Victims ==
    \A o \in Ops : victim[o] # Nothing =>
        /\ operation[o] = "removing" /\ IsPrefix(td[o], victim[o]) /\ has(victim[o])
        /\ \A p \in DOMAIN files : victim[o] \in Prefixes(p) => p = victim[o]

FilesInv ==
    /\ TypeOK /\ OwnDirectory /\ Joined /\ Writing
    /\ FilesPlaced /\ FilesThere /\ OneFile /\ Ancestors /\ Victims
    /\ TreeKept /\ NothingLeft

-----------------------------------------------------------------------------
(* Paths                                                                    *)

\* A prefix is shorter and agrees with what it is a prefix of.
LEMMA PrefixesOf ==
    ASSUME NEW S, NEW p \in Seq(S), NEW q
    PROVE  q \in Prefixes(p) <=>
              q \in Seq(S) /\ Len(q) <= Len(p) /\ \A i \in 1..Len(q) : q[i] = p[i]
<1>1. ASSUME NEW l \in 0..Len(p)
      PROVE  /\ SubSeq(p, 1, l) \in Seq(S) /\ Len(SubSeq(p, 1, l)) = l
             /\ \A i \in 1..l : SubSeq(p, 1, l)[i] = p[i]
    <2>1. Len(p) \in Nat /\ l \in Int /\ 1 \in Int
        BY LenProperties
    <2>2. \A i \in 1..l : p[i] \in S
        BY <2>1, ElementOfSeq
    <2> QED BY <2>1, <2>2, SubSeqProperties
<1>2. ASSUME q \in Prefixes(p)
      PROVE  q \in Seq(S) /\ Len(q) <= Len(p) /\ \A i \in 1..Len(q) : q[i] = p[i]
    <2>1. PICK l \in 0..Len(p) : q = SubSeq(p, 1, l)
        BY <1>2 DEF Prefixes
    <2>2. Len(p) \in Nat
        BY LenProperties
    <2> QED BY <1>1, <2>1, <2>2
<1>3. ASSUME q \in Seq(S), Len(q) <= Len(p), \A i \in 1..Len(q) : q[i] = p[i]
      PROVE  q \in Prefixes(p)
    <2>1. Len(q) \in Nat /\ Len(p) \in Nat
        BY <1>3, LenProperties
    <2>2. Len(q) \in 0..Len(p)
        BY <1>3, <2>1
    <2>3. q = SubSeq(p, 1, Len(q))
        BY <1>1, <1>3, <2>2, SeqEqual
    <2> QED BY <2>2, <2>3 DEF Prefixes
<1> QED BY <1>2, <1>3

LEMMA PrefixIsPrefix ==
    ASSUME NEW S, NEW p \in Seq(S), NEW q \in Seq(S)
    PROVE  IsPrefix(q, p) <=> q \in Prefixes(p)
<1>1. Len(q) \in Nat /\ Len(p) \in Nat
    BY LenProperties
<1>2. SubSeq(q, 1, Len(q)) = q
    BY SubSeqFull
<1>3. ASSUME Len(q) <= Len(p) PROVE SubSeq(p, 1, Len(q)) \in Prefixes(p)
    BY <1>1, <1>3 DEF Prefixes
<1>4. ASSUME q \in Prefixes(p) PROVE Len(q) <= Len(p) /\ q = SubSeq(p, 1, Len(q))
    <2>1. PICK l \in 0..Len(p) : q = SubSeq(p, 1, l)
        BY <1>4 DEF Prefixes
    <2>2. \A i \in 1..l : p[i] \in S
        BY <1>1, ElementOfSeq
    <2>3. Len(q) = l
        BY <1>1, <2>1, <2>2, SubSeqProperties
    <2> QED BY <1>1, <2>1, <2>3
<1> QED BY <1>2, <1>3, <1>4 DEF IsPrefix

\* A path, the directory above it and its last name
LEMMA FrontOf ==
    ASSUME NEW S, NEW p \in Seq(S), p # <<>>
    PROVE  /\ Front(p) \in Seq(S) /\ Len(Front(p)) = Len(p) - 1 /\ Last(p) \in S
           /\ \A i \in 1..(Len(p) - 1) : Front(p)[i] = p[i]
           /\ Append(Front(p), Last(p)) = p
           /\ Len(p) \in Nat \ {0}
<1>1. Len(p) \in Nat \ {0}
    BY EmptySeq
<1>2. \A i \in 1..(Len(p) - 1) : p[i] \in S
    BY <1>1, ElementOfSeq
<1>3. /\ Front(p) \in Seq(S) /\ Len(Front(p)) = Len(p) - 1
      /\ \A i \in 1..(Len(p) - 1) : Front(p)[i] = p[i]
    <2> DEFINE f == SubSeq(p, 1, Len(p) - 1)
    <2>1. /\ f \in Seq(S)
          /\ Len(f) = IF 1 <= Len(p) - 1 THEN Len(p) - 1 - 1 + 1 ELSE 0
          /\ \A i \in 1..(Len(p) - 1 - 1 + 1) : f[i] = p[1 + i - 1]
        BY <1>1, <1>2, SubSeqProperties
    <2> HIDE DEF f
    <2>2. Len(f) = Len(p) - 1
        <3>1. PICK n \in Nat \ {0} : n = Len(p)
            BY <1>1
        <3>2. Len(f) = IF 1 <= n - 1 THEN n - 1 - 1 + 1 ELSE 0
            BY <2>1, <3>1
        <3>3. Len(f) = n - 1
            BY <3>2
        <3> QED BY <3>1, <3>3
    <2>4. ASSUME NEW i \in 1..(Len(p) - 1) PROVE f[i] = p[i]
        <3>1. i \in 1..(Len(p) - 1 - 1 + 1) /\ 1 + i - 1 = i
            BY <1>1
        <3> QED BY <2>1, <3>1
    <2>3. Front(p) = f
        BY DEF Front, f
    <2> QED BY <2>1, <2>2, <2>3, <2>4
<1>4. Last(p) \in S
    BY <1>1, ElementOfSeq DEF Last
<1>5. Append(Front(p), Last(p)) = p
    <2>1. /\ Append(Front(p), Last(p)) \in Seq(S)
          /\ Len(Append(Front(p), Last(p))) = Len(Front(p)) + 1
          /\ \A i \in 1..Len(Front(p)) : Append(Front(p), Last(p))[i] = Front(p)[i]
          /\ Append(Front(p), Last(p))[Len(Front(p)) + 1] = Last(p)
        BY <1>3, <1>4, AppendProperties
    <2>2. \A i \in 1..Len(p) : Append(Front(p), Last(p))[i] = p[i]
        BY <1>1, <1>3, <2>1 DEF Last
    <2> QED BY <1>1, <1>3, <2>1, <2>2, SeqEqual
<1> QED BY <1>1, <1>3, <1>4, <1>5

LEMMA FrontOfAppend ==
    ASSUME NEW S, NEW p \in Seq(S), NEW n \in S
    PROVE  Append(p, n) \in Seq(S) \ {<<>>} /\ Front(Append(p, n)) = p /\ Last(Append(p, n)) = n
<1>1. /\ Append(p, n) \in Seq(S) /\ Append(p, n) # <<>> /\ Len(Append(p, n)) = Len(p) + 1
      /\ Append(p, n)[Len(p) + 1] = n
    BY AppendProperties
<1>2. Append(Front(Append(p, n)), Last(Append(p, n))) = Append(p, n)
    BY <1>1, FrontOf
<1>3. Front(Append(p, n)) \in Seq(S) /\ Last(Append(p, n)) \in S
    BY <1>1, FrontOf
<1> QED BY <1>1, <1>2, <1>3, AppendInjective

\* What the prefixes of a path have in common.
LEMMA PrefixFacts ==
    ASSUME NEW S, NEW p \in Seq(S)
    PROVE  /\ p \in Prefixes(p) /\ <<>> \in Prefixes(p)
           /\ \A q \in Prefixes(p) : q # <<>> => Front(q) \in Prefixes(p)
           /\ \A q, r \in Prefixes(p) : Len(q) <= Len(r) => q \in Prefixes(r)
           /\ \A q \in Prefixes(p) : q # p => Len(q) < Len(p)
           /\ p # <<>> => \A q \in Prefixes(p) : q # p => q \in Prefixes(Front(p))
           /\ p # <<>> => \A q \in Prefixes(Front(p)) : q \in Prefixes(p) /\ q # p
<1>0. Len(p) \in Nat
    BY LenProperties
<1>1. p \in Prefixes(p) /\ <<>> \in Prefixes(p)
    <2>1. SubSeq(p, 1, 0) = <<>>
        BY SubSeqEmpty
    <2>2. <<>> \in Prefixes(p)
        BY <1>0, <2>1 DEF Prefixes
    <2>3. p \in Prefixes(p)
        BY <1>0, PrefixesOf
    <2> QED BY <2>2, <2>3
<1>2. ASSUME NEW q \in Prefixes(p), q # <<>> PROVE Front(q) \in Prefixes(p)
    <2>1. q \in Seq(S) /\ Len(q) <= Len(p) /\ \A i \in 1..Len(q) : q[i] = p[i]
        BY PrefixesOf
    <2>2. /\ Front(q) \in Seq(S) /\ Len(Front(q)) = Len(q) - 1
          /\ \A i \in 1..(Len(q) - 1) : Front(q)[i] = q[i]
          /\ Len(q) \in Nat \ {0}
        BY <1>2, <2>1, FrontOf
    <2>3. Len(Front(q)) <= Len(p) /\ \A i \in 1..Len(Front(q)) : Front(q)[i] = p[i]
        BY <1>0, <2>1, <2>2
    <2> QED BY <2>2, <2>3, PrefixesOf
<1>3. ASSUME NEW q \in Prefixes(p), NEW r \in Prefixes(p), Len(q) <= Len(r)
      PROVE  q \in Prefixes(r)
    <2>1. /\ q \in Seq(S) /\ \A i \in 1..Len(q) : q[i] = p[i]
          /\ r \in Seq(S) /\ \A i \in 1..Len(r) : r[i] = p[i]
        BY PrefixesOf
    <2>2. Len(q) \in Nat /\ Len(r) \in Nat
        BY <2>1, LenProperties
    <2>3. \A i \in 1..Len(q) : q[i] = r[i]
        BY <1>3, <2>1, <2>2
    <2> QED BY <1>3, <2>1, <2>3, PrefixesOf
<1>4. ASSUME NEW q \in Prefixes(p), q # p PROVE Len(q) < Len(p)
    <2>1. q \in Seq(S) /\ Len(q) <= Len(p) /\ \A i \in 1..Len(q) : q[i] = p[i]
        BY PrefixesOf
    <2>2. Len(q) \in Nat
        BY <2>1, LenProperties
    <2>3. Len(q) # Len(p)
        BY <1>4, <2>1, SeqEqual
    <2> QED BY <1>0, <2>1, <2>2, <2>3
<1>5. ASSUME p # <<>>, NEW q \in Prefixes(p), q # p PROVE q \in Prefixes(Front(p))
    <2>1. Front(p) \in Prefixes(p) /\ Len(Front(p)) = Len(p) - 1
        BY <1>1, <1>2, <1>5, FrontOf
    <2>2. Len(q) < Len(p) /\ Len(q) \in Nat
        BY <1>4, <1>5, PrefixesOf, LenProperties
    <2> QED BY <1>0, <1>3, <2>1, <2>2
<1>6. ASSUME p # <<>>, NEW q \in Prefixes(Front(p)) PROVE q \in Prefixes(p) /\ q # p
    <2>1. /\ Front(p) \in Seq(S) /\ Len(Front(p)) = Len(p) - 1
          /\ \A i \in 1..(Len(p) - 1) : Front(p)[i] = p[i]
        BY <1>6, FrontOf
    <2>2. /\ q \in Seq(S) /\ Len(q) <= Len(p) - 1
          /\ \A i \in 1..Len(q) : q[i] = Front(p)[i]
        BY <2>1, PrefixesOf
    <2>3. Len(q) \in Nat
        BY <2>2, LenProperties
    <2>4. Len(q) <= Len(p) /\ \A i \in 1..Len(q) : q[i] = p[i]
        BY <1>0, <2>1, <2>2, <2>3
    <2>5. q # p
        BY <1>0, <2>2
    <2> QED BY <2>2, <2>4, <2>5, PrefixesOf
<1> QED BY <1>1, <1>2, <1>3, <1>4, <1>5, <1>6

LEMMA PrefixOfPrefix ==
    ASSUME NEW S, NEW p \in Seq(S), NEW q \in Prefixes(p), NEW r \in Prefixes(q)
    PROVE  r \in Prefixes(p)
<1>1. q \in Seq(S) /\ Len(q) <= Len(p) /\ \A i \in 1..Len(q) : q[i] = p[i]
    BY PrefixesOf
<1>2. r \in Seq(S) /\ Len(r) <= Len(q) /\ \A i \in 1..Len(r) : r[i] = q[i]
    BY <1>1, PrefixesOf
<1>3. Len(p) \in Nat /\ Len(q) \in Nat /\ Len(r) \in Nat
    BY <1>1, <1>2, LenProperties
<1>4. Len(r) <= Len(p) /\ \A i \in 1..Len(r) : r[i] = p[i]
    BY <1>1, <1>2, <1>3
<1> QED BY <1>2, <1>4, PrefixesOf

\* Between a path and one below it
LEMMA NextPrefix ==
    ASSUME NEW S, NEW p \in Seq(S), NEW q \in Prefixes(p), q # p
    PROVE  \E r \in Prefixes(p) : r # <<>> /\ Front(r) = q /\ Append(q, Last(r)) = r
<1>1. PICK k \in Nat, l \in Nat : k = Len(q) /\ l = Len(p) /\ k < l
    BY PrefixFacts, PrefixesOf, LenProperties
<1> DEFINE r == SubSeq(p, 1, k + 1)
<1>2. r \in Prefixes(p)
    BY <1>1 DEF Prefixes
<1>3. r \in Seq(S) /\ Len(r) = k + 1
    <2>1. \A i \in 1..(k + 1) : p[i] \in S
        BY <1>1, ElementOfSeq
    <2>2. r \in Seq(S)
        BY <2>1, SubSeqProperties
    <2>3. Len(r) = IF 1 <= k + 1 THEN (k + 1) - 1 + 1 ELSE 0
        BY <2>1, SubSeqProperties
    <2> HIDE DEF r
    <2> QED BY <2>2, <2>3
<1> HIDE DEF r
<1>4. r # <<>>
    BY <1>3, EmptySeq
<1>5. Front(r) \in Prefixes(p) /\ Len(Front(r)) = k /\ Append(Front(r), Last(r)) = r
    <2>1. Front(r) \in Prefixes(p)
        BY <1>2, <1>4, PrefixFacts
    <2>2. Len(Front(r)) = Len(r) - 1 /\ Append(Front(r), Last(r)) = r
        BY <1>3, <1>4, FrontOf
    <2> QED BY <1>3, <2>1, <2>2
<1>6. Front(r) = q
    <2>1. /\ Front(r) \in Seq(S) /\ \A i \in 1..Len(Front(r)) : Front(r)[i] = p[i]
        BY <1>5, PrefixesOf
    <2>2. q \in Seq(S) /\ \A i \in 1..Len(q) : q[i] = p[i]
        BY PrefixesOf
    <2> QED BY <1>1, <1>5, <2>1, <2>2, SeqEqual
<1> QED BY <1>2, <1>4, <1>5, <1>6

-----------------------------------------------------------------------------
(* Where the charts are                                                     *)

Temp(n) == <<"tmp", n>>
PathIn(n, c, e) == Append(Temp(n), c) \o e.path

LEMMA TempPath ==
    ASSUME NEW n \in TempNames
    PROVE  /\ Temp(n) \in Paths \ {<<>>} /\ Len(Temp(n)) = 2
           /\ Temp(n)[1] = "tmp" /\ Temp(n)[2] = n
<1>1. n \in Names /\ "tmp" \in Names
    BY DEF Names
<1> QED BY <1>1 DEF Paths, Temp

LEMMA EntryPath ==
    ASSUME ChartsWellFormed, NEW c \in Charts, NEW e \in Entries(c)
    PROVE  /\ e.path \in Paths \ {<<>>} /\ e.vars \in BOOLEAN
           /\ ~e.vars => e.path \in DOMAIN Contents[c]
           /\ e = [path |-> e.path, vars |-> e.vars]
<1>1. CASE e \in [path : DOMAIN Contents[c], vars : {FALSE}]
    <2>1. e.path \in DOMAIN Contents[c] /\ e.vars = FALSE /\ e = [path |-> e.path, vars |-> e.vars]
        BY <1>1
    <2> QED BY <2>1 DEF ChartsWellFormed
<1>2. CASE e = [path |-> <<"vars.yml">>, vars |-> TRUE]
    <2>1. "vars.yml" \in Names
        BY DEF Names
    <2>2. <<"vars.yml">> \in Paths \ {<<>>}
        BY <2>1 DEF Paths
    <2> QED BY <1>2, <2>2
<1> QED BY <1>1, <1>2 DEF Entries

LEMMA PathParts ==
    ASSUME ChartsWellFormed, NEW n \in TempNames, NEW c \in Charts, NEW e \in Entries(c)
    PROVE  /\ PathIn(n, c, e) \in Paths \ {<<>>} /\ Len(PathIn(n, c, e)) = 3 + Len(e.path)
           /\ PathIn(n, c, e)[1] = "tmp" /\ PathIn(n, c, e)[2] = n /\ PathIn(n, c, e)[3] = c
           /\ \A i \in 1..Len(e.path) : PathIn(n, c, e)[3 + i] = e.path[i]
           /\ Len(e.path) \in Nat \ {0} /\ Append(Temp(n), c) \in Paths
           /\ Len(Append(Temp(n), c)) = 3
<1> DEFINE dir == Append(Temp(n), c)
<1>1. c \in Names /\ Temp(n) \in Seq(Names) /\ Len(Temp(n)) = 2
      /\ Temp(n)[1] = "tmp" /\ Temp(n)[2] = n
    BY TempPath DEF Names, Paths
<1>2. dir \in Seq(Names) /\ Len(dir) = 3 /\ dir[1] = "tmp" /\ dir[2] = n /\ dir[3] = c
    <2>1. \A s \in Seq(Names) : \A x \in Names :
             /\ Append(s, x) \in Seq(Names) /\ Len(Append(s, x)) = Len(s) + 1
             /\ \A i \in 1..Len(s) : Append(s, x)[i] = s[i]
             /\ Append(s, x)[Len(s) + 1] = x
        BY AppendProperties
    <2>2. /\ dir \in Seq(Names) /\ Len(dir) = Len(Temp(n)) + 1
          /\ \A i \in 1..Len(Temp(n)) : dir[i] = Temp(n)[i]
          /\ dir[Len(Temp(n)) + 1] = c
        BY <1>1, <2>1, Zenon
    <2> HIDE DEF dir
    <2> QED BY <1>1, <2>2
<1>3. e.path \in Seq(Names) /\ e.path # <<>> /\ Len(e.path) \in Nat \ {0}
    BY EntryPath, EmptySeq DEF Paths
<1> HIDE DEF dir
<1> DEFINE p == dir \o e.path
<1>4. /\ p \in Seq(Names) /\ Len(p) = Len(dir) + Len(e.path)
      /\ \A i \in 1..(Len(dir) + Len(e.path)) :
            p[i] = IF i <= Len(dir) THEN dir[i] ELSE e.path[i - Len(dir)]
    BY <1>2, <1>3, ConcatProperties
<1> HIDE DEF p
<1>5. PICK l \in Nat \ {0} : l = Len(e.path)
    BY <1>3
<1>6. Len(p) = 3 + l /\ \A i \in 1..(3 + l) : p[i] = IF i <= 3 THEN dir[i] ELSE e.path[i - 3]
    BY <1>2, <1>4, <1>5
<1>7. p[1] = dir[1] /\ p[2] = dir[2] /\ p[3] = dir[3]
    BY <1>6
<1>8. ASSUME NEW i \in 1..l PROVE p[3 + i] = e.path[i]
    <2>1. 3 + i \in 1..(3 + l) /\ ~(3 + i <= 3) /\ (3 + i) - 3 = i
        OBVIOUS
    <2> QED BY <1>6, <2>1
<1>9. p # <<>>
    BY <1>4, <1>6, EmptySeq
<1>10. PathIn(n, c, e) = p
    BY DEF PathIn, p, dir
<1>11. dir = Append(Temp(n), c)
    BY DEF dir
<1> QED BY <1>2, <1>3, <1>4, <1>5, <1>6, <1>7, <1>8, <1>9, <1>10, <1>11 DEF Paths

\* No path of an entry is above that of another.
LEMMA PathsApart ==
    ASSUME ChartsWellFormed, NEW n \in TempNames, NEW m \in TempNames,
           NEW c \in Charts, NEW d \in Charts, NEW e \in Entries(c), NEW f \in Entries(d),
           PathIn(n, c, e) \in Prefixes(PathIn(m, d, f))
    PROVE  n = m /\ c = d /\ e = f
<1>1. /\ PathIn(n, c, e) \in Seq(Names) /\ PathIn(m, d, f) \in Seq(Names)
      /\ PathIn(n, c, e)[2] = n /\ PathIn(n, c, e)[3] = c
      /\ PathIn(m, d, f)[2] = m /\ PathIn(m, d, f)[3] = d
    BY PathParts DEF Paths
<1>2. PICK k \in Nat, l \in Nat :
         /\ k = Len(e.path) /\ Len(PathIn(n, c, e)) = 3 + k
         /\ l = Len(f.path) /\ Len(PathIn(m, d, f)) = 3 + l
    BY PathParts
<1>3. k <= l /\ \A i \in 1..(3 + k) : PathIn(n, c, e)[i] = PathIn(m, d, f)[i]
    <2>1. /\ Len(PathIn(n, c, e)) <= Len(PathIn(m, d, f))
          /\ \A i \in 1..Len(PathIn(n, c, e)) : PathIn(n, c, e)[i] = PathIn(m, d, f)[i]
        BY <1>1, PrefixesOf
    <2> QED BY <1>2, <2>1
<1>4. n = m /\ c = d
    BY <1>1, <1>3
<1>5. ASSUME NEW i \in 1..k PROVE e.path[i] = f.path[i]
    <2>1. 3 + i \in 1..(3 + k) /\ i \in 1..l
        BY <1>3
    <2>2. PathIn(n, c, e)[3 + i] = PathIn(m, d, f)[3 + i]
        BY <1>3, <2>1
    <2>3. PathIn(n, c, e)[3 + i] = e.path[i]
        BY <1>2, PathParts
    <2>4. PathIn(m, d, f)[3 + i] = f.path[i]
        BY <1>2, <2>1, PathParts
    <2> QED BY <2>2, <2>3, <2>4
<1>6. e.path \in Seq(Names) /\ f.path \in Seq(Names)
    BY EntryPath DEF Paths
<1>7. e.path \in Prefixes(f.path)
    BY <1>2, <1>3, <1>5, <1>6, PrefixesOf
<1>8. IsPrefix(e.path, f.path)
    BY <1>6, <1>7, PrefixIsPrefix
<1> QED BY <1>4, <1>8 DEF ChartsWellFormed

\* What is below a temporary directory is above the entries of its charts only, and no entry
\* is above a temporary directory.
LEMMA TempsApart ==
    ASSUME ChartsWellFormed, NEW n \in TempNames, NEW m \in TempNames
    PROVE  /\ \A c \in Charts : \A e \in Entries(c) :
                 /\ \A q \in Prefixes(PathIn(m, c, e)) : IsPrefix(Temp(n), q) => n = m
                 /\ PathIn(m, c, e) \notin Prefixes(Temp(n))
                 /\ Temp(m) \in Prefixes(Front(PathIn(m, c, e)))
           /\ \A q \in Prefixes(Temp(m)) : IsPrefix(Temp(n), q) => n = m
<1>1. /\ Temp(n) \in Seq(Names) /\ Len(Temp(n)) = 2 /\ Temp(n)[2] = n
      /\ Temp(m) \in Seq(Names) /\ Len(Temp(m)) = 2 /\ Temp(m)[1] = "tmp" /\ Temp(m)[2] = m
    BY TempPath DEF Paths
<1>2. ASSUME NEW p \in Seq(Names), NEW q \in Prefixes(p), IsPrefix(Temp(n), q)
      PROVE  2 <= Len(p) /\ p[2] = n
    <2>1. q \in Seq(Names) /\ Len(q) <= Len(p) /\ \A i \in 1..Len(q) : q[i] = p[i]
        BY PrefixesOf
    <2>2. Temp(n) \in Prefixes(q)
        BY <1>1, <1>2, <2>1, PrefixIsPrefix
    <2>3. 2 <= Len(q) /\ \A i \in 1..2 : Temp(n)[i] = q[i]
        <3>1. Len(Temp(n)) <= Len(q) /\ \A i \in 1..Len(Temp(n)) : Temp(n)[i] = q[i]
            BY <2>1, <2>2, PrefixesOf
        <3> QED BY <1>1, <3>1
    <2>4. Len(q) \in Nat /\ Len(p) \in Nat
        BY <2>1, LenProperties
    <2>5. 2 \in 1..2 /\ 2 \in 1..Len(q)
        BY <2>3, <2>4
    <2> QED BY <1>1, <2>1, <2>3, <2>4, <2>5
<1>3. ASSUME NEW c \in Charts, NEW e \in Entries(c)
      PROVE  /\ \A q \in Prefixes(PathIn(m, c, e)) : IsPrefix(Temp(n), q) => n = m
             /\ PathIn(m, c, e) \notin Prefixes(Temp(n))
             /\ Temp(m) \in Prefixes(Front(PathIn(m, c, e)))
    <2>1. PathIn(m, c, e) \in Seq(Names) /\ PathIn(m, c, e)[1] = "tmp" /\ PathIn(m, c, e)[2] = m
          /\ PathIn(m, c, e) # <<>>
        BY PathParts DEF Paths
    <2>2. PICK k \in Nat : Len(PathIn(m, c, e)) = 3 + k
        BY PathParts
    <2>3. PathIn(m, c, e) \notin Prefixes(Temp(n))
        <3>1. ASSUME PathIn(m, c, e) \in Prefixes(Temp(n)) PROVE Len(PathIn(m, c, e)) <= Len(Temp(n))
            BY <1>1, <3>1, PrefixesOf
        <3> QED BY <1>1, <2>2, <3>1
    <2>4. Temp(m) \in Prefixes(PathIn(m, c, e))
        <3>1. \A i \in 1..Len(Temp(m)) : Temp(m)[i] = PathIn(m, c, e)[i]
            BY <1>1, <2>1
        <3>2. Len(Temp(m)) <= Len(PathIn(m, c, e))
            BY <1>1, <2>2
        <3> QED BY <1>1, <2>1, <3>1, <3>2, PrefixesOf
    <2>5. Temp(m) # PathIn(m, c, e)
        <3>1. ASSUME Temp(m) = PathIn(m, c, e) PROVE Len(Temp(m)) = Len(PathIn(m, c, e))
            BY <3>1
        <3>2. 3 + k # 2
            OBVIOUS
        <3> QED BY <1>1, <2>2, <3>1, <3>2
    <2>6. Temp(m) \in Prefixes(Front(PathIn(m, c, e)))
        BY <2>1, <2>4, <2>5, PrefixFacts
    <2> QED BY <1>2, <2>1, <2>3, <2>6
<1>4. \A q \in Prefixes(Temp(m)) : IsPrefix(Temp(n), q) => n = m
    BY <1>1, <1>2
<1> QED BY <1>3, <1>4

\* A path is below one temporary directory.
LEMMA OneTemp ==
    ASSUME NEW n \in TempNames, NEW m \in TempNames, NEW q \in Paths,
           IsPrefix(Temp(n), q), IsPrefix(Temp(m), q)
    PROVE  n = m
<1>1. /\ Temp(n) \in Seq(Names) /\ Len(Temp(n)) = 2 /\ Temp(n)[2] = n
      /\ Temp(m) \in Seq(Names) /\ Len(Temp(m)) = 2 /\ Temp(m)[2] = m
      /\ q \in Seq(Names)
    BY TempPath DEF Paths
<1>2. Temp(n) \in Prefixes(q) /\ Temp(m) \in Prefixes(q)
    BY <1>1, PrefixIsPrefix
<1> DEFINE Above(t) == \A i \in 1..Len(t) : t[i] = q[i]
<1>3. \A t \in Prefixes(q) : Above(t)
    BY <1>1, PrefixesOf
<1>4. Above(Temp(n)) /\ Above(Temp(m))
    BY <1>2, <1>3, Zenon
<1>5. 2 \in 1..Len(Temp(n)) /\ 2 \in 1..Len(Temp(m))
    BY <1>1
<1> QED BY <1>1, <1>3, <1>4, <1>5

\* Where a link leads.
LEMMA LinkPath ==
    ASSUME ChartsWellFormed, NEW n \in TempNames, NEW c \in Charts, NEW e \in Entries(c),
           LinkTo(c, e) # Nothing, NEW from,
           from = [e EXCEPT !.path = Front(e.path) \o Contents[c][e.path]]
    PROVE  /\ from \in Entries(c) /\ LinkTo(c, from) = Nothing
           /\ Front(PathIn(n, c, e)) \o LinkTo(c, e) = PathIn(n, c, from)
<1>1. /\ ~e.vars /\ e.path \in DOMAIN Contents[c] /\ e = [path |-> e.path, vars |-> FALSE]
      /\ LinkTo(c, e) = Contents[c][e.path]
    BY EntryPath DEF LinkTo
<1> DEFINE to == Contents[c][e.path]
<1>2. /\ Front(e.path) \o to \in DOMAIN Contents[c] /\ Contents[c][Front(e.path) \o to] = Nothing
      /\ to \in Seq(Names) /\ e.path \in Seq(Names) /\ e.path # <<>>
    BY <1>1, EntryPath DEF ChartsWellFormed, Paths
<1>3. from = [path |-> Front(e.path) \o to, vars |-> FALSE]
    <2>1. DOMAIN e = {"path", "vars"} /\ e.vars = FALSE
        BY <1>1
    <2> HIDE DEF to
    <2>2. from = [e EXCEPT !.path = Front(e.path) \o to]
        BY DEF to
    <2> QED BY <2>1, <2>2
<1>4. from \in Entries(c) /\ LinkTo(c, from) = Nothing
    <2>1. from.path = Front(e.path) \o to /\ from.vars = FALSE
        BY <1>3
    <2> HIDE DEF to
    <2>2. from \in [path : DOMAIN Contents[c], vars : {FALSE}]
        <3>1. \A x \in DOMAIN Contents[c] :
                 [path |-> x, vars |-> FALSE] \in [path : DOMAIN Contents[c], vars : {FALSE}]
            OBVIOUS
        <3> QED BY <1>2, <1>3, <3>1, Zenon
    <2>3. LinkTo(c, from) = Contents[c][Front(e.path) \o to]
        BY <2>1 DEF LinkTo
    <2> QED BY <1>2, <2>2, <2>3 DEF Entries
<1> DEFINE dir == Append(Temp(n), c)
           p == PathIn(n, c, e)
<1>5. dir \in Seq(Names) /\ Len(dir) = 3 /\ p \in Seq(Names) /\ p # <<>> /\ p = dir \o e.path
    <2>1. p = dir \o e.path
        BY DEF PathIn
    <2> HIDE DEF p, dir
    <2>2. p = PathIn(n, c, e) /\ dir = Append(Temp(n), c)
        BY DEF p, dir
    <2> QED BY <2>1, <2>2, PathParts DEF Paths
<1>6. Front(p) = dir \o Front(e.path)
    <2>1. PICK k \in Nat \ {0} : k = Len(e.path)
        BY <1>2, EmptySeq
    <2>2. /\ Len(p) = 3 + k
          /\ \A i \in 1..(3 + k) : p[i] = IF i <= 3 THEN dir[i] ELSE e.path[i - 3]
        <3>1. /\ Len(dir \o e.path) = Len(dir) + Len(e.path)
              /\ \A i \in 1..(Len(dir) + Len(e.path)) :
                    (dir \o e.path)[i] = IF i <= Len(dir) THEN dir[i] ELSE e.path[i - Len(dir)]
            BY <1>2, <1>5, ConcatProperties
        <3> HIDE DEF dir, p
        <3> QED BY <1>5, <2>1, <3>1
    <2>3. /\ Front(p) \in Seq(Names) /\ Len(Front(p)) = Len(p) - 1
          /\ \A i \in 1..(Len(p) - 1) : Front(p)[i] = p[i]
        BY <1>5, FrontOf
    <2>4. /\ Front(e.path) \in Seq(Names) /\ Len(Front(e.path)) = Len(e.path) - 1
          /\ \A i \in 1..(Len(e.path) - 1) : Front(e.path)[i] = e.path[i]
        BY <1>2, FrontOf
    <2> DEFINE s == dir \o Front(e.path)
    <2>5. /\ s \in Seq(Names) /\ Len(s) = Len(dir) + Len(Front(e.path))
          /\ \A i \in 1..(Len(dir) + Len(Front(e.path))) :
                s[i] = IF i <= Len(dir) THEN dir[i] ELSE Front(e.path)[i - Len(dir)]
        BY <1>5, <2>4, ConcatProperties
    <2> HIDE DEF s, dir, p
    <2>6. Len(s) = 2 + k /\ Len(Front(p)) = 2 + k /\ Len(Front(e.path)) = k - 1
        BY <1>5, <2>1, <2>2, <2>3, <2>4, <2>5
    <2>7. ASSUME NEW i \in 1..(2 + k) PROVE Front(p)[i] = s[i]
        <3>1. Front(p)[i] = p[i] /\ i \in 1..(3 + k)
            BY <2>2, <2>3
        <3>2. s[i] = IF i <= 3 THEN dir[i] ELSE Front(e.path)[i - 3]
            BY <1>5, <2>5, <2>6
        <3>3. CASE i <= 3
            BY <2>2, <3>1, <3>2, <3>3
        <3>4. CASE ~(i <= 3)
            <4>1. i - 3 \in 1..(k - 1)
                BY <3>4
            <4>2. Front(e.path)[i - 3] = e.path[i - 3]
                BY <2>1, <2>4, <4>1
            <4> QED BY <2>2, <3>1, <3>2, <3>4, <4>2
        <3> QED BY <3>3, <3>4
    <2>8. Front(p) = s
        BY <2>3, <2>5, <2>6, <2>7, SeqEqual
    <2> QED BY <2>8 DEF s
<1>7. Front(e.path) \in Seq(Names)
    BY <1>2, FrontOf
<1> HIDE DEF dir, p, to
<1>8. Front(p) \o to = dir \o (Front(e.path) \o to)
    BY <1>2, <1>5, <1>6, <1>7, ConcatAssociative
<1>9. from.path = Front(e.path) \o to
    <2>1. [path |-> Front(e.path) \o to, vars |-> FALSE].path = Front(e.path) \o to
        OBVIOUS
    <2> QED BY <1>3, <2>1, Zenon
<1> QED BY <1>1, <1>4, <1>8, <1>9 DEF PathIn, dir, p, to

-----------------------------------------------------------------------------
(* The file system                                                          *)

\* A new file, the directories above it that were not there, and nothing else
LEMMA NewKeeps ==
    ASSUME NEW S, NEW path \in Seq(S), NEW mode, ~has(path), New(path, mode),
           DOMAIN files \subseteq Seq(S), Ancestors, TreeKept,
           \A f \in DOMAIN node : DOMAIN node[f] = {"mode", "content"},
           \A p \in DOMAIN files : files[p] \in DOMAIN node /\ files[p][1] = p,
           \A q \in Prefixes(path) : has(q) => ModeOf(q) = "dir",
           \A f \in DOMAIN node : f[1] \in Prefixes(path) => has(f[1])
    PROVE  /\ DOMAIN files' = DOMAIN files \cup Prefixes(path)
           /\ \A p \in DOMAIN files : files'[p] = files[p]
           /\ \A f \in DOMAIN node : f \in DOMAIN node' /\ node'[f] = node[f]
           /\ \A p \in DOMAIN files' : files'[p] \in DOMAIN node' /\ files'[p][1] = p
           /\ \A f \in DOMAIN node' : /\ DOMAIN node'[f] = {"mode", "content"}
                                      /\ f \in DOMAIN node \/ f[1] \in Prefixes(path)
           /\ \A q \in Prefixes(path) : q # path => node'[files'[q]].mode = "dir"
           /\ node'[files'[path]].mode = mode /\ files'[path] = NextFile(path)
           /\ Ancestors' /\ TreeKept'
<1> DEFINE missing == Missing(path)
           linked == {q \in missing \ {<<>>} :
                         Front(q) \in missing \/ ModeOf(Front(q)) = "dir"}
           names(dir) == {Last(q) : q \in {p \in linked : Front(p) = dir}}
<1>1. \A q : q \in missing <=> q \in Prefixes(path) /\ ~has(q)
    <2>1. ASSUME NEW q \in Prefixes(path), ~has(q), NEW r \in Prefixes(path), Len(r) >= Len(q)
          PROVE  ~has(r)
        <3>1. Len(q) \in Nat /\ Len(r) \in Nat
            BY PrefixesOf, LenProperties
        <3>2. q \in Prefixes(r)
            BY <2>1, <3>1, PrefixFacts
        <3> QED BY <2>1, <3>2 DEF Ancestors, has
    <2>2. ASSUME NEW q \in Prefixes(path) PROVE Len(q) >= Len(q)
        BY PrefixesOf, LenProperties
    <2> QED BY <2>1, <2>2 DEF Missing
<1>2. \A q \in missing \ {<<>>} :
          /\ q \in Seq(S) /\ Front(q) \in Prefixes(path) /\ Front(q) # path
          /\ Append(Front(q), Last(q)) = q
    <2> SUFFICES ASSUME NEW q \in missing \ {<<>>}
                 PROVE  /\ q \in Seq(S) /\ Front(q) \in Prefixes(path) /\ Front(q) # path
                        /\ Append(Front(q), Last(q)) = q
        OBVIOUS
    <2>1. q \in Prefixes(path) /\ q \in Seq(S)
        BY <1>1, PrefixesOf
    <2>2. Front(q) \in Prefixes(path)
        BY <2>1, PrefixFacts
    <2>3. Append(Front(q), Last(q)) = q
        BY <2>1, FrontOf
    <2>4. Front(q) # path
        <3>1. Len(Front(q)) = Len(q) - 1 /\ Len(q) \in Nat
            BY <2>1, FrontOf
        <3>2. Len(q) <= Len(path)
            BY <2>1, PrefixesOf
        <3>3. Len(path) \in Nat
            BY LenProperties
        <3> QED BY <3>1, <3>2, <3>3
    <2> QED BY <2>1, <2>2, <2>3, <2>4
<1>3. linked = missing \ {<<>>}
    BY <1>1, <1>2
<1> HIDE DEF linked, missing
<1>5. /\ node' = [f \in DOMAIN node \cup {NextFile(q) : q \in missing} |->
                     IF f \in DOMAIN node THEN node[f]
                     ELSE [mode |-> IF f[1] = path THEN mode ELSE "dir", content |-> <<>>]]
      /\ files' = [q \in DOMAIN files \cup missing |->
                     IF q \in missing THEN NextFile(q) ELSE files[q]]
      /\ children' = [dir \in DOMAIN children \cup {Front(q) : q \in linked} |->
            [n \in DOMAIN ChildrenOf(dir) \cup names(dir) |->
                IF n \in names(dir) THEN NextFile(Append(dir, n)) ELSE ChildrenOf(dir)[n]]]
    BY DEF New, linked, missing
<1>6. \A q : NextFile(q)[1] = q
    BY DEF NextFile
<1>7. \A q \in missing : NextFile(q) \notin DOMAIN node
    BY <1>1, <1>6
<1>8. path \in missing
    BY <1>1, PrefixFacts
<1>9. DOMAIN files' = DOMAIN files \cup Prefixes(path)
    BY <1>1, <1>5 DEF has
<1>10. /\ \A p \in DOMAIN files : files'[p] = files[p]
       /\ \A q \in missing : q \in DOMAIN files' /\ files'[q] = NextFile(q)
    BY <1>1, <1>5 DEF has
<1>11. \A f \in DOMAIN node : f \in DOMAIN node' /\ node'[f] = node[f]
    BY <1>5
<1>12. \A q \in missing :
           /\ NextFile(q) \in DOMAIN node'
           /\ node'[NextFile(q)] = [mode |-> IF q = path THEN mode ELSE "dir", content |-> <<>>]
           /\ node'[NextFile(q)].mode = IF q = path THEN mode ELSE "dir"
    <2> SUFFICES ASSUME NEW q \in missing
                 PROVE  /\ NextFile(q) \in DOMAIN node'
                        /\ node'[NextFile(q)] =
                              [mode |-> IF q = path THEN mode ELSE "dir", content |-> <<>>]
        OBVIOUS
    <2> QED BY <1>5, <1>6, <1>7
<1>13. \A p \in DOMAIN files' : files'[p] \in DOMAIN node' /\ files'[p][1] = p
    <2> SUFFICES ASSUME NEW p \in DOMAIN files'
                 PROVE  files'[p] \in DOMAIN node' /\ files'[p][1] = p
        OBVIOUS
    <2>1. CASE p \in DOMAIN files
        BY <1>10, <1>11, <2>1
    <2>2. CASE p \in missing
        BY <1>6, <1>10, <1>12, <2>2
    <2> QED BY <1>1, <1>9, <2>1, <2>2 DEF has
<1>14. \A f \in DOMAIN node' : /\ DOMAIN node'[f] = {"mode", "content"}
                               /\ f \in DOMAIN node \/ f[1] \in Prefixes(path)
    <2> SUFFICES ASSUME NEW f \in DOMAIN node', f \notin DOMAIN node
                 PROVE  DOMAIN node'[f] = {"mode", "content"} /\ f[1] \in Prefixes(path)
        BY <1>11
    <2>1. PICK q \in missing : f = NextFile(q)
        BY <1>5
    <2> QED BY <1>1, <1>6, <1>12, <2>1
<1>15. \A q \in Prefixes(path) : q # path => node'[files'[q]].mode = "dir"
    <2> SUFFICES ASSUME NEW q \in Prefixes(path), q # path PROVE node'[files'[q]].mode = "dir"
        OBVIOUS
    <2>0. q # path
        OBVIOUS
    <2>1. CASE has(q)
        BY <1>10, <1>11, <2>1 DEF has, ModeOf
    <2>2. CASE ~has(q)
        <3>1. q \in missing
            BY <1>1, <2>2
        <3> QED BY <1>10, <1>12, <2>0, <3>1
    <2> QED BY <2>1, <2>2
<1>16. node'[files'[path]].mode = mode /\ files'[path] = NextFile(path)
    BY <1>8, <1>10, <1>12
<1>17. Ancestors'
    <2> SUFFICES ASSUME NEW p \in DOMAIN files', NEW q \in Prefixes(p) PROVE q \in DOMAIN files'
        BY DEF Ancestors, has
    <2>1. CASE p \in DOMAIN files
        BY <1>9, <2>1 DEF Ancestors, has
    <2>2. CASE p \in Prefixes(path)
        <3>1. q \in Prefixes(path)
            BY <2>2, PrefixOfPrefix
        <3> QED BY <1>9, <3>1
    <2> QED BY <1>9, <2>1, <2>2
<1>18. \A dir, n : n \in names(dir) => Append(dir, n) \in missing
    BY <1>2, <1>3
<1>19. \A q \in missing \ {<<>>} : Last(q) \in names(Front(q)) /\ Front(q) \in DOMAIN children'
    BY <1>3, <1>5
<1>20. /\ \A dir \in DOMAIN children' : \A n :
             n \in DOMAIN children'[dir] <=> n \in DOMAIN ChildrenOf(dir) \/ n \in names(dir)
       /\ \A dir \in DOMAIN children' : \A n \in DOMAIN children'[dir] :
             children'[dir][n] = IF n \in names(dir) THEN NextFile(Append(dir, n))
                                                     ELSE ChildrenOf(dir)[n]
       /\ DOMAIN children \subseteq DOMAIN children'
    <2> HIDE DEF names
    <2> QED BY <1>5
<1> HIDE DEF names
<1>21. TreeKept'
    <2>1. ASSUME NEW p \in DOMAIN files' \ {<<>>}
          PROVE  /\ Front(p) \in DOMAIN files' /\ node'[files'[Front(p)]].mode = "dir"
                 /\ Front(p) \in DOMAIN children' /\ Last(p) \in DOMAIN children'[Front(p)]
                 /\ children'[Front(p)][Last(p)] = files'[p]
        <3>1. CASE p \in missing
            <4>1. /\ Front(p) \in Prefixes(path) /\ Front(p) # path
                  /\ Append(Front(p), Last(p)) = p
                BY <1>2, <3>1
            <4>2. Last(p) \in names(Front(p)) /\ Front(p) \in DOMAIN children'
                BY <1>19, <3>1
            <4> QED BY <1>9, <1>10, <1>15, <1>20, <3>1, <4>1, <4>2
        <3>2. CASE p \notin missing
            <4>1. p \in DOMAIN files /\ p \in Seq(S)
                BY <1>1, <1>9, <3>2 DEF has
            <4>2. /\ Front(p) \in DOMAIN files /\ node[files[Front(p)]].mode = "dir"
                  /\ Last(p) \in DOMAIN ChildrenOf(Front(p))
                  /\ ChildrenOf(Front(p))[Last(p)] = files[p]
                BY <4>1 DEF TreeKept, has, ModeOf
            <4>3. Front(p) \in DOMAIN children
                BY <4>2 DEF ChildrenOf
            <4>4. Last(p) \notin names(Front(p))
                <5>1. Append(Front(p), Last(p)) = p
                    BY <4>1, FrontOf
                <5>2. ASSUME Last(p) \in names(Front(p)) PROVE Append(Front(p), Last(p)) \in missing
                    BY <1>18, <5>2, Zenon
                <5> QED BY <3>2, <5>1, <5>2
            <4> QED BY <1>9, <1>10, <1>11, <1>20, <4>1, <4>2, <4>3, <4>4
        <3> QED BY <3>1, <3>2
    <2>2. ASSUME NEW dir \in DOMAIN children', NEW n \in DOMAIN children'[dir]
          PROVE  Append(dir, n) \in DOMAIN files'
        <3>1. CASE n \in names(dir)
            BY <1>10, <1>18, <3>1
        <3>2. CASE n \in DOMAIN ChildrenOf(dir)
            <4>1. dir \in DOMAIN children /\ n \in DOMAIN children[dir]
                BY <3>2 DEF ChildrenOf
            <4> QED BY <1>9, <4>1 DEF TreeKept, has
        <3> QED BY <1>20, <3>1, <3>2
    <2> QED BY <2>1, <2>2 DEF TreeKept, has, ModeOf, ChildrenOf
<1> QED BY <1>9, <1>10, <1>11, <1>13, <1>14, <1>15, <1>16, <1>17, <1>21

\* A file that is removed, or a directory in which nothing is
LEMMA DeleteKeeps ==
    ASSUME NEW S, NEW path \in DOMAIN files, path # <<>>, Delete(path),
           DOMAIN files \subseteq Seq(S), Ancestors, TreeKept,
           \A p \in DOMAIN files : path \in Prefixes(p) => p = path
    PROVE  /\ DOMAIN files' = DOMAIN files \ {path} /\ node' = node
           /\ \A p \in DOMAIN files' : files'[p] = files[p]
           /\ Ancestors' /\ TreeKept'
<1>1. /\ DOMAIN files' = DOMAIN files \ {path} /\ node' = node
      /\ \A p \in DOMAIN files' : files'[p] = files[p]
    BY DEF Delete
<1>2. Ancestors'
    BY <1>1 DEF Ancestors, has
<1>3. /\ DOMAIN children' = DOMAIN children
      /\ \A dir \in DOMAIN children : \A n :
            n \in DOMAIN children'[dir] <=> n \in DOMAIN children[dir] /\ Append(dir, n) # path
      /\ \A dir \in DOMAIN children : \A n \in DOMAIN children'[dir] :
            children'[dir][n] = children[dir][n]
    BY DEF Delete
<1>4. ASSUME NEW p \in DOMAIN files' \ {<<>>}
      PROVE  /\ Front(p) \in DOMAIN files' /\ node'[files'[Front(p)]].mode = "dir"
             /\ Front(p) \in DOMAIN children' /\ Last(p) \in DOMAIN children'[Front(p)]
             /\ children'[Front(p)][Last(p)] = files'[p]
    <2>1. p \in DOMAIN files /\ p # path /\ p \in Seq(S)
        BY <1>1
    <2>2. /\ Front(p) \in DOMAIN files /\ node[files[Front(p)]].mode = "dir"
          /\ Last(p) \in DOMAIN ChildrenOf(Front(p)) /\ ChildrenOf(Front(p))[Last(p)] = files[p]
        BY <2>1 DEF TreeKept, has, ModeOf
    <2>3. Front(p) \in DOMAIN children
        BY <2>2 DEF ChildrenOf
    <2>4. Front(p) # path
        BY <2>1, PrefixFacts
    <2>5. Append(Front(p), Last(p)) # path
        BY <2>1, FrontOf
    <2>6. Last(p) \in DOMAIN children[Front(p)] /\ children[Front(p)][Last(p)] = files[p]
        BY <2>2, <2>3 DEF ChildrenOf
    <2> QED BY <1>1, <1>3, <2>1, <2>2, <2>3, <2>4, <2>5, <2>6
<1>5. ASSUME NEW dir \in DOMAIN children', NEW n \in DOMAIN children'[dir]
      PROVE  Append(dir, n) \in DOMAIN files'
    BY <1>1, <1>3 DEF TreeKept, has
<1>6. TreeKept'
    BY <1>4, <1>5 DEF TreeKept, has, ModeOf, ChildrenOf
<1> QED BY <1>1, <1>2, <1>6

-----------------------------------------------------------------------------
(* What the invariant says of a step                                        *)

LEMMA HasTemp ==
    ASSUME FilesInv, NEW o \in Ops
    PROVE  /\ td[o] # Nothing <=> operation[o] # "idle"
           /\ td[o] # Nothing => \E n \in TempNames : td[o] = Temp(n)
<1>1. \A n \in TempNames : Temp(n) # <<>>
    BY TempPath
<1> QED BY <1>1 DEF FilesInv, OwnDirectory, Temp, Nothing

LEMMA PathOf ==
    ASSUME NEW w \in Writers, NEW n, td[w[1]] = Temp(n), NEW e
    PROVE  Path(w, e) = PathIn(n, w[2], e)
BY DEF Path, PathIn, ChartDir

\* Whoever is writing belongs to a FetchCharts that has not returned.
LEMMA Active ==
    ASSUME ChartsWellFormed, FilesInv, NEW w \in Writers, at[w] \notin {"off", "done", "failed"}
    PROVE  /\ w[1] \in Ops /\ w[2] \in Charts /\ w = <<w[1], w[2]>>
           /\ operation[w[1]] = "fetching"
           /\ \E n \in TempNames : td[w[1]] = Temp(n)
<1>1. w[1] \in Ops /\ w[2] \in Charts /\ w = <<w[1], w[2]>>
    BY DEF Writers
<1>2. operation[w[1]] = "fetching"
    <2>1. PICK o \in Ops, c \in Charts : w = <<o, c>> /\ w[1] = o
        BY <1>1
    <2>2. at[<<o, c>>] \notin {"off", "done", "failed"}
        BY <2>1
    <2>3. operation[o] \in {"idle", "fetching", "installing", "failed", "removing", "ended"}
        BY DEF FilesInv, TypeOK
    <2> QED BY <2>1, <2>2, <2>3 DEF FilesInv, Joined
<1>3. td[w[1]] # Nothing
    BY <1>1, <1>2, HasTemp
<1> QED BY <1>1, <1>2, <1>3, HasTemp

LEMMA WrittenHasTemp ==
    ASSUME FilesInv, NEW w \in Writers, NEW e, Written(w, e)
    PROVE  /\ w[1] \in Ops /\ w[2] \in Charts /\ e \in Entries(w[2]) /\ w = <<w[1], w[2]>>
           /\ \E n \in TempNames : td[w[1]] = Temp(n)
<1>1. w[1] \in Ops /\ w[2] \in Charts /\ w = <<w[1], w[2]>>
    BY DEF Writers
<1>2. at[w] # "off" /\ e \in Entries(w[2])
    BY DEF Written, Begun, Inside
<1>3. PICK o \in Ops, c \in Charts : o = w[1] /\ c = w[2]
    BY <1>1
<1>4. at[<<o, c>>] # "off"
    BY <1>1, <1>2, <1>3
<1>5. operation[o] # "idle"
    BY <1>4 DEF FilesInv, Joined
<1> QED BY <1>1, <1>2, <1>3, <1>5, HasTemp

\* Entries of two charts, or two of one, have two paths.
LEMMA OtherPath ==
    ASSUME ChartsWellFormed, FilesInv, NEW w \in Writers, NEW v \in Writers,
           NEW n \in TempNames, td[w[1]] = Temp(n), NEW m \in TempNames, td[v[1]] = Temp(m),
           NEW e \in Entries(w[2]), NEW f \in Entries(v[2]), Path(w, e) \in Prefixes(Path(v, f))
    PROVE  w = v /\ e = f
<1>1. /\ w[1] \in Ops /\ w[2] \in Charts /\ w = <<w[1], w[2]>>
      /\ v[1] \in Ops /\ v[2] \in Charts /\ v = <<v[1], v[2]>>
    BY DEF Writers
<1>2. n = m /\ w[2] = v[2] /\ e = f
    BY <1>1, PathOf, PathsApart
<1>3. w[1] = v[1]
    BY <1>1, <1>2, HasTemp DEF FilesInv, OwnDirectory, Temp, Nothing
<1> QED BY <1>1, <1>2, <1>3

\* What is above an entry is a directory.
LEMMA AboveIsDir ==
    ASSUME ChartsWellFormed, FilesInv, NEW w \in Writers, NEW n \in TempNames, td[w[1]] = Temp(n),
           NEW e \in Entries(w[2]), NEW q \in Prefixes(Path(w, e)), q # Path(w, e), has(q)
    PROVE  ModeOf(q) = "dir"
<1>1. ASSUME NEW v \in Writers, NEW f \in Entries(v[2]), Written(v, f), q = Path(v, f)
      PROVE  FALSE
    <2>1. PICK m \in TempNames : td[v[1]] = Temp(m)
        BY <1>1, WrittenHasTemp
    <2>2. v = w /\ f = e
        BY <1>1, <2>1, OtherPath
    <2> QED BY <1>1, <2>2
<1> QED BY <1>1 DEF FilesInv, FilesPlaced, has

\* Nobody has created what is not written yet.
LEMMA NotYet ==
    ASSUME ChartsWellFormed, FilesInv, NEW w \in Writers, at[w] \in Inside \ {"write"}
    PROVE  /\ ~has(target[w]) /\ entry[w] \in Entries(w[2]) /\ target[w] = Path(w, entry[w])
           /\ target[w] \in Paths \ {<<>>}
<1>1. entry[w] \in Entries(w[2]) /\ target[w] = Path(w, entry[w])
    BY DEF FilesInv, Writing
<1>2. PICK n \in TempNames : td[w[1]] = Temp(n)
    BY Active DEF Inside
<1>3. w[2] \in Charts
    BY DEF Writers
<1>4. target[w] = PathIn(n, w[2], entry[w]) /\ target[w] \in Paths \ {<<>>}
    BY <1>1, <1>2, <1>3, PathOf, PathParts
<1>5. target[w] \in Prefixes(target[w])
    BY <1>4, PrefixFacts DEF Paths
<1>6. ASSUME NEW v \in Writers, NEW f \in Entries(v[2]), Written(v, f), target[w] = Path(v, f)
      PROVE  FALSE
    <2>1. PICK m \in TempNames : td[v[1]] = Temp(m)
        BY <1>6, WrittenHasTemp
    <2>2. v = w /\ f = entry[w]
        <3>1. Path(w, entry[w]) \in Prefixes(Path(v, f))
            BY <1>1, <1>5, <1>6
        <3> QED BY <1>1, <1>2, <2>1, <3>1, OtherPath
    <2> QED BY <1>6, <2>2 DEF Written, Inside
<1>7. ASSUME NEW v \in Writers, NEW f \in Entries(v[2]), td[v[1]] # Nothing,
             target[w] \in Prefixes(Front(Path(v, f)))
      PROVE  FALSE
    <2>1. v[1] \in Ops /\ v[2] \in Charts
        BY DEF Writers
    <2>2. PICK m \in TempNames : td[v[1]] = Temp(m)
        BY <1>7, <2>1, HasTemp
    <2>3. Path(v, f) \in Paths \ {<<>>}
        BY <2>1, <2>2, PathOf, PathParts
    <2>4. target[w] \in Prefixes(Path(v, f)) /\ target[w] # Path(v, f)
        BY <1>7, <2>3, PrefixFacts DEF Paths
    <2>5. v = w /\ f = entry[w]
        BY <1>1, <1>2, <2>2, <2>4, OtherPath
    <2> QED BY <1>1, <2>4, <2>5
<1>8. ASSUME NEW o \in Ops, td[o] # Nothing, target[w] \in Prefixes(td[o])
      PROVE  FALSE
    BY <1>1, <1>3, <1>4, <1>8, HasTemp, TempsApart
<1>9. ~has(target[w])
    BY <1>6, <1>7, <1>8 DEF FilesInv, FilesPlaced, has
<1> QED BY <1>1, <1>4, <1>9

\* A step that leaves the file system as it is, and what has been written
LEMMA QuietKeeps ==
    ASSUME FilesInv, UNCHANGED storageVars, UNCHANGED td,
           \A o \in Ops : operation[o] \in {"removing", "ended"} => operation'[o] \in {"removing", "ended"},
           \A w \in Writers : \A e \in Entries(w[2]) :
              /\ Written(w, e)' <=> Written(w, e)
              /\ e = entry[w] /\ at[w] = "write" => e = entry'[w] /\ at'[w] = "write"
    PROVE  FilesPlaced' /\ FilesThere' /\ OneFile' /\ Ancestors' /\ TreeKept'
<1>1. files' = files /\ children' = children /\ node' = node
    BY DEF storageVars
<1>2. Ancestors' /\ TreeKept'
    BY <1>1 DEF FilesInv, Ancestors, TreeKept, has, ModeOf, ChildrenOf
<1>3. OneFile'
    BY <1>1 DEF FilesInv, OneFile, has
<1>4. FilesPlaced'
    <2>1. \A w \in Writers : \A e : Path(w, e)' = Path(w, e)
        BY DEF Path, ChartDir
    <2>2. \A p \in DOMAIN files :
             ModeOf(p)' = ModeOf(p)
        BY <1>1 DEF ModeOf
    <2>3. \A p \in DOMAIN files :
             \/ ModeOf(p)' = "dir" /\ \E o \in Ops : td'[o] # Nothing /\ p \in Prefixes(td'[o])
             \/ /\ ModeOf(p)' = "dir"
                /\ \E w \in Writers : \E e \in Entries(w[2]) :
                      td'[w[1]] # Nothing /\ p \in Prefixes(Front(Path(w, e)'))
             \/ \E w \in Writers : \E e \in Entries(w[2]) : Written(w, e)' /\ p = Path(w, e)'
        BY <2>1, <2>2 DEF FilesInv, FilesPlaced
    <2> QED BY <1>1, <2>3 DEF FilesPlaced
<1>5. FilesThere'
    <2> SUFFICES ASSUME NEW w \in Writers, NEW e \in Entries(w[2]), Written(w, e)',
                        operation'[w[1]] \notin {"removing", "ended"}
                 PROVE  (/\ has(Path(w, e))
                         /\ ModeOf(Path(w, e)) =
                               (IF LinkTo(w[2], e) = Nothing THEN "file" ELSE "link")
                         /\ ~(e = entry[w] /\ at[w] = "write") =>
                               node[files[Path(w, e)]].content =
                                   <<IF LinkTo(w[2], e) = Nothing THEN Bytes(w[1], w[2], e)
                                                                  ELSE LinkTo(w[2], e)>>)'
        BY DEF FilesThere
    <2>1. w[1] \in Ops
        BY DEF Writers
    <2>2. Written(w, e) /\ operation[w[1]] \notin {"removing", "ended"}
        BY <2>1
    <2>3. Path(w, e)' = Path(w, e)
        BY DEF Path, ChartDir
    <2> QED BY <1>1, <2>2, <2>3 DEF FilesInv, FilesThere, has, ModeOf
<1> QED BY <1>2, <1>3, <1>4, <1>5

-----------------------------------------------------------------------------
(* The steps of an operation                                                *)

LEMMA TypesOf ==
    ASSUME FilesInv, NEW o \in Ops
    PROVE  /\ DOMAIN operation = Ops /\ DOMAIN td = Ops /\ DOMAIN victim = Ops /\ DOMAIN at = Writers
           /\ td[o] \in Paths /\ victim[o] \in Paths
BY DEF FilesInv, TypeOK

\* Steps that change no more than operation
LEMMA ReturnsKeep ==
    ASSUME ChartsWellFormed, FilesInv, NEW o \in Ops, NEW after,
           operation' = [operation EXCEPT ![o] = after], UNCHANGED <<storageVars, td, victim, writerVars, errors>>,
           \/ /\ operation[o] = "fetching" /\ after \in {"failed", "installing"}
              /\ \A c \in Charts : at[<<o, c>>] \in {"off", "done", "failed"}
              /\ after = "installing" => \A c \in Charts : at[<<o, c>>] = "done"
           \/ operation[o] = "installing" /\ after = "removing"
           \/ /\ operation[o] = "removing" /\ after = "ended" /\ victim[o] = Nothing
              /\ \A p \in DOMAIN files : ~IsPrefix(td[o], p)
    PROVE  FilesInv'
<1>1. UNCHANGED <<storageVars, files, children, node, td, victim, at, todo, entry, target, file>>
    BY DEF writerVars, storageVars
<1>2. /\ \A p \in Ops : operation'[p] = IF p = o THEN after ELSE operation[p]
      /\ operation' \in [Ops -> {"idle", "fetching", "installing", "failed", "removing", "ended"}]
    BY DEF FilesInv, TypeOK
<1>3. TypeOK'
    BY <1>1, <1>2 DEF FilesInv, TypeOK
<1>4. OwnDirectory'
    BY <1>1, <1>2 DEF FilesInv, OwnDirectory
<1>5. Joined'
    <2> SUFFICES ASSUME NEW p \in Ops
                 PROVE  /\ operation'[p] = "idle" => \A c \in Charts : at[<<p, c>>] = "off"
                        /\ operation'[p] = "failed" =>
                              \A c \in Charts : at[<<p, c>>] \in {"off", "done", "failed"}
                        /\ operation'[p] \in {"installing", "removing", "ended"} =>
                              \A c \in Charts : at[<<p, c>>] = "done"
                        /\ \A c \in Charts : c # Primary /\ at[<<p, c>>] # "off" => at[<<p, Primary>>] = "done"
        BY <1>1 DEF Joined
    <2>1. CASE p = o
        BY <1>2, <2>1 DEF FilesInv, Joined
    <2>2. CASE p # o
        BY <1>2, <2>2 DEF FilesInv, Joined
    <2> QED BY <2>1, <2>2
<1>6. Writing'
    BY <1>1 DEF FilesInv, Writing, has, Path, ChartDir
<1>7. \A w \in Writers : \A e : Written(w, e)' <=> Written(w, e)
    BY <1>1 DEF Written
<1>8. FilesPlaced' /\ FilesThere' /\ OneFile' /\ Ancestors' /\ TreeKept'
    BY <1>1, <1>2, <1>7, QuietKeeps
<1>9. Victims'
    BY <1>1, <1>2 DEF FilesInv, Victims, has
<1>10. NothingLeft'
    BY <1>1, <1>2 DEF FilesInv, NothingLeft
<1> QED BY <1>3, <1>4, <1>5, <1>6, <1>8, <1>9, <1>10 DEF FilesInv

LEMMA FetchReturnsKeeps ==
    ASSUME ChartsWellFormed, FilesInv, NEW o \in Ops, FetchReturns(o)
    PROVE  FilesInv'
<1>1. \A c \in Charts : at[<<o, c>>] \in {"off", "done", "failed"}
    <2>1. CASE at[<<o, Primary>>] = "failed"
        BY <2>1 DEF FilesInv, Joined, ChartsWellFormed
    <2>2. CASE \A c \in Charts : at[<<o, c>>] \in {"done", "failed"}
        BY <2>2
    <2> QED BY <2>1, <2>2 DEF FetchReturns
<1>2. CASE \E c \in Charts : at[<<o, c>>] = "failed"
    BY <1>1, <1>2, ReturnsKeep DEF FetchReturns
<1>3. CASE ~\E c \in Charts : at[<<o, c>>] = "failed"
    <2>1. \A c \in Charts : at[<<o, c>>] = "done"
        BY <1>3 DEF FetchReturns, ChartsWellFormed
    <2> QED BY <1>1, <1>3, <2>1, ReturnsKeep DEF FetchReturns
<1> QED BY <1>2, <1>3

LEMMA InstalledKeeps ==
    ASSUME ChartsWellFormed, FilesInv, NEW o \in Ops, Installed(o)
    PROVE  FilesInv'
BY ReturnsKeep DEF Installed

LEMMA RemoveAllReturnsKeeps ==
    ASSUME ChartsWellFormed, FilesInv, NEW o \in Ops, RemoveAllReturns(o)
    PROVE  FilesInv'
<1>1. ASSUME NEW p \in DOMAIN files, IsPrefix(td[o], p) PROVE FALSE
    <2>1. p \in Seq(Names) /\ td[o] \in Seq(Names)
        BY TypesOf DEF FilesInv, TypeOK, Paths
    <2>2. td[o] \in Prefixes(p)
        BY <1>1, <2>1, PrefixIsPrefix
    <2> QED BY <2>2 DEF FilesInv, Ancestors, RemoveAllReturns
<1> QED BY <1>1, ReturnsKeep DEF RemoveAllReturns

LEMMA CheckKeeps ==
    ASSUME ChartsWellFormed, FilesInv, NEW o \in Ops, Check(o)
    PROVE  FilesInv'
<1>1. PICK p \in DOMAIN files :
         /\ operation[o] = "removing" /\ IsPrefix(td[o], p) /\ DOMAIN ChildrenOf(p) = {}
         /\ victim' = [victim EXCEPT ![o] = p]
    BY DEF Check
<1>2. /\ UNCHANGED <<storageVars, files, children, node, operation, td, at, todo, entry, target, file>>
      /\ p \in Seq(Names)
    BY DEF Check, writerVars, storageVars, FilesInv, TypeOK, Paths
<1>3. ASSUME NEW r \in DOMAIN files, p \in Prefixes(r) PROVE r = p
    <2> SUFFICES ASSUME r # p PROVE FALSE
        OBVIOUS
    <2>1. r \in Seq(Names)
        BY DEF FilesInv, TypeOK, Paths
    <2>2. PICK q \in Prefixes(r) : q # <<>> /\ Front(q) = p
        BY <1>3, <2>1, NextPrefix
    <2>3. q \in DOMAIN files
        BY <2>2 DEF FilesInv, Ancestors, has
    <2>4. Last(q) \in DOMAIN ChildrenOf(p)
        BY <2>2, <2>3 DEF FilesInv, TreeKept
    <2> QED BY <1>1, <2>4
<1>4. /\ TypeOK' /\ OwnDirectory' /\ Joined' /\ Writing' /\ NothingLeft'
    <2>1. victim' \in [Ops -> Paths]
        BY <1>1, <1>2 DEF FilesInv, TypeOK, Paths
    <2>2. TypeOK'
        BY <1>2, <2>1 DEF FilesInv, TypeOK
    <2>3. OwnDirectory' /\ Joined' /\ NothingLeft'
        BY <1>2 DEF FilesInv, OwnDirectory, Joined, NothingLeft
    <2>4. Writing'
        BY <1>2 DEF FilesInv, Writing, has, Path, ChartDir
    <2> QED BY <2>2, <2>3, <2>4
<1>5. \A w \in Writers : \A e : Written(w, e)' <=> Written(w, e)
    BY <1>2 DEF Written
<1>6. FilesPlaced' /\ FilesThere' /\ OneFile' /\ Ancestors' /\ TreeKept'
    BY <1>2, <1>5, QuietKeeps
<1>7. Victims'
    <2>1. \A x \in Ops : victim'[x] = IF x = o THEN p ELSE victim[x]
        BY <1>1, TypesOf
    <2> QED BY <1>1, <1>2, <1>3, <2>1 DEF FilesInv, Victims, has
<1> QED BY <1>4, <1>6, <1>7 DEF FilesInv

-----------------------------------------------------------------------------
(* The steps of a goroutine                                                 *)

\* Steps that look at the file system, and decide what to do next
LEMMA LooksKeep ==
    ASSUME ChartsWellFormed, FilesInv, NEW w \in Writers, NEW step \in Begun \cup {"failed"},
           UNCHANGED <<storageVars, opVars, file>>, operation[w[1]] = "fetching",
           at' = [at EXCEPT ![w] = step], at[w] \notin {"done", "write"}, step # "write",
           w[2] # Primary => at[<<w[1], Primary>>] = "done",
           DOMAIN todo' = Writers, DOMAIN entry' = Writers, DOMAIN target' = Writers,
           \A v \in Writers : v # w => /\ todo'[v] = todo[v] /\ entry'[v] = entry[v]
                                       /\ target'[v] = target[v],
           todo'[w] \subseteq Entries(w[2]), step \in {"failed", "done"} => todo'[w] = {},
           step \in Inside => /\ entry'[w] \in Entries(w[2]) \ todo'[w]
                              /\ target'[w] = Path(w, entry'[w]),
           step \in {"mkdir", "stat"} => ~entry'[w].vars,
           \A e \in Entries(w[2]) : Written(w, e)' <=> Written(w, e)
    PROVE  FilesInv'
<1>1. UNCHANGED <<storageVars, files, children, node, operation, td, victim, file>>
    BY DEF storageVars, opVars
<1>2. /\ at' \in [Writers -> Begun \cup {"off", "failed"}]
      /\ \A v \in Writers : at'[v] = IF v = w THEN step ELSE at[v]
    BY DEF FilesInv, TypeOK
<1>3. PICK o \in Ops, c \in Charts : w = <<o, c>> /\ w[1] = o /\ w[2] = c
    BY DEF Writers
<1>4. TypeOK'
    BY <1>1, <1>2 DEF FilesInv, TypeOK
<1>5. OwnDirectory' /\ Victims' /\ NothingLeft'
    BY <1>1 DEF FilesInv, OwnDirectory, Victims, NothingLeft, has
<1>6. Joined'
    <2> SUFFICES ASSUME NEW p \in Ops
                 PROVE  /\ operation[p] = "idle" => \A d \in Charts : at'[<<p, d>>] = "off"
                        /\ operation[p] = "failed" =>
                              \A d \in Charts : at'[<<p, d>>] \in {"off", "done", "failed"}
                        /\ operation[p] \in {"installing", "removing", "ended"} =>
                              \A d \in Charts : at'[<<p, d>>] = "done"
                        /\ \A d \in Charts :
                              d # Primary /\ at'[<<p, d>>] # "off" => at'[<<p, Primary>>] = "done"
        BY <1>1 DEF Joined
    <2>1. \A d \in Charts : at'[<<p, d>>] = IF p = o /\ d = c THEN step ELSE at[<<p, d>>]
        BY <1>2, <1>3 DEF Writers
    <2>2. Primary \in Charts
        BY DEF ChartsWellFormed
    <2>3. p = o => operation[p] = "fetching"
        BY <1>3
    <2>4. at[<<o, c>>] # "done" /\ (c # Primary => at[<<o, Primary>>] = "done")
        BY <1>3
    <2>5. /\ operation[p] = "idle" => \A d \in Charts : at[<<p, d>>] = "off"
          /\ operation[p] = "failed" => \A d \in Charts : at[<<p, d>>] \in {"off", "done", "failed"}
          /\ operation[p] \in {"installing", "removing", "ended"} =>
                \A d \in Charts : at[<<p, d>>] = "done"
          /\ \A d \in Charts : d # Primary /\ at[<<p, d>>] # "off" => at[<<p, Primary>>] = "done"
        BY DEF FilesInv, Joined
    <2>6. CASE p # o
        BY <2>1, <2>5, <2>6
    <2>7. CASE p = o
        <3>1. operation[p] = "fetching"
            BY <2>3, <2>7
        <3>2. ASSUME NEW d \in Charts, d # Primary, at'[<<p, d>>] # "off"
              PROVE  at'[<<p, Primary>>] = "done"
            BY <2>1, <2>2, <2>4, <2>5, <2>7, <3>2
        <3> QED BY <3>1, <3>2
    <2> QED BY <2>6, <2>7
<1>7. Writing'
    <2>1. \A v \in Writers : \A e : Path(v, e)' = Path(v, e)
        BY <1>1 DEF Path, ChartDir
    <2> SUFFICES ASSUME NEW v \in Writers
                 PROVE  /\ at'[v] \in {"off", "failed", "done"} => todo'[v] = {}
                        /\ at'[v] \in Inside => /\ entry'[v] \in Entries(v[2]) \ todo'[v]
                                                /\ target'[v] = Path(v, entry'[v])
                        /\ at'[v] \in {"mkdir", "stat"} => ~entry'[v].vars
                        /\ at'[v] = "write" => /\ target'[v] \in DOMAIN files
                                               /\ file[v] = files[target'[v]]
        BY <1>1, <2>1 DEF Writing, has
    <2>2. CASE v = w
        <3>1. at'[w] = step /\ step # "off"
            BY <1>2 DEF Begun, Inside
        <3> QED BY <2>2, <3>1
    <2>3. CASE v # w
        <3>1. at'[v] = at[v] /\ todo'[v] = todo[v] /\ entry'[v] = entry[v] /\ target'[v] = target[v]
            BY <1>2, <2>3
        <3> QED BY <3>1 DEF FilesInv, Writing, has
    <2> QED BY <2>2, <2>3
<1>8. \A v \in Writers : \A e \in Entries(v[2]) :
         /\ Written(v, e)' <=> Written(v, e)
         /\ e = entry[v] /\ at[v] = "write" => e = entry'[v] /\ at'[v] = "write"
    <2> SUFFICES ASSUME NEW v \in Writers, NEW e \in Entries(v[2])
                 PROVE  /\ Written(v, e)' <=> Written(v, e)
                        /\ e = entry[v] /\ at[v] = "write" => e = entry'[v] /\ at'[v] = "write"
        OBVIOUS
    <2>1. CASE v = w
        BY <2>1
    <2>2. CASE v # w
        <3>1. at'[v] = at[v] /\ todo'[v] = todo[v] /\ entry'[v] = entry[v]
            BY <1>2, <2>2
        <3> QED BY <3>1 DEF Written
    <2> QED BY <2>1, <2>2
<1>9. FilesPlaced' /\ FilesThere' /\ OneFile' /\ Ancestors' /\ TreeKept'
    BY <1>1, <1>8, QuietKeeps
<1> QED BY <1>4, <1>5, <1>6, <1>7, <1>9 DEF FilesInv

\* What a goroutine knows, also of the operation that it belongs to.
LEMMA WriterFacts ==
    ASSUME ChartsWellFormed, FilesInv, NEW w \in Writers, at[w] \notin {"off", "done", "failed"}
    PROVE  /\ operation[w[1]] = "fetching" /\ (w[2] # Primary => at[<<w[1], Primary>>] = "done")
           /\ todo[w] \subseteq Entries(w[2])
           /\ DOMAIN todo = Writers /\ DOMAIN entry = Writers /\ DOMAIN target = Writers
           /\ DOMAIN at = Writers /\ DOMAIN file = Writers /\ LinkOf(w) = LinkTo(w[2], entry[w])
<1>1. PICK o \in Ops, c \in Charts : w = <<o, c>> /\ w[1] = o /\ w[2] = c
    BY DEF Writers
<1>2. at[<<o, c>>] # "off"
    BY <1>1
<1>3. c # Primary => at[<<o, Primary>>] = "done"
    BY <1>2 DEF FilesInv, Joined
<1> QED BY <1>1, <1>3, Active DEF FilesInv, TypeOK, LinkOf, LinkTo

LEMMA FetchKeeps ==
    ASSUME ChartsWellFormed, FilesInv, NEW w \in Writers, FetchChart(w)
    PROVE  FilesInv'
<1>1. /\ at[w] = "off" /\ operation[w[1]] = "fetching" /\ (w[2] # Primary => at[<<w[1], Primary>>] = "done")
      /\ UNCHANGED <<storageVars, opVars, entry, target, file>>
    BY DEF FetchChart
<1>2. /\ DOMAIN at = Writers /\ DOMAIN todo = Writers /\ DOMAIN entry = Writers
      /\ DOMAIN target = Writers /\ todo[w] = {}
    BY <1>1 DEF FilesInv, TypeOK, Writing
<1>3. \A e \in Entries(w[2]) : ~Written(w, e)
    BY <1>1 DEF Written, Begun, Inside
<1>4. CASE at' = [at EXCEPT ![w] = "next"] /\ todo' = [todo EXCEPT ![w] = Entries(w[2])]
    <2>1. /\ DOMAIN todo' = Writers /\ todo'[w] = Entries(w[2])
          /\ \A v \in Writers : v # w => todo'[v] = todo[v]
        BY <1>2, <1>4
    <2>2. \A e \in Entries(w[2]) : ~Written(w, e)'
        BY <2>1 DEF Written
    <2> QED BY <1>1, <1>2, <1>3, <1>4, <2>1, <2>2, LooksKeep DEF Begun, Inside
<1>5. CASE at' = [at EXCEPT ![w] = "failed"] /\ UNCHANGED todo
    <2>1. at'[w] = "failed"
        BY <1>2, <1>5
    <2>2. \A e \in Entries(w[2]) : ~Written(w, e)'
        BY <2>1 DEF Written, Begun, Inside
    <2> QED BY <1>1, <1>2, <1>3, <1>5, <2>2, LooksKeep DEF Begun, Inside
<1> QED BY <1>4, <1>5 DEF FetchChart

LEMMA ChooseKeeps ==
    ASSUME ChartsWellFormed, FilesInv, NEW w \in Writers, Choose(w)
    PROVE  FilesInv'
<1>1. PICK e \in todo[w] :
         /\ at[w] = "next" /\ todo' = [todo EXCEPT ![w] = todo[w] \ {e}]
         /\ entry' = [entry EXCEPT ![w] = e]
         /\ target' = [target EXCEPT ![w] = ChartDir(w) \o e.path]
         /\ at' = [at EXCEPT ![w] = IF e.vars THEN "open" ELSE "mkdir"]
         /\ UNCHANGED <<storageVars, opVars, file>>
    BY DEF Choose, MoveTo, OthersKept
<1>2. /\ operation[w[1]] = "fetching" /\ (w[2] # Primary => at[<<w[1], Primary>>] = "done")
      /\ todo[w] \subseteq Entries(w[2]) /\ DOMAIN todo = Writers /\ DOMAIN entry = Writers
      /\ DOMAIN target = Writers /\ DOMAIN at = Writers
    BY <1>1, WriterFacts
<1>3. /\ todo'[w] = todo[w] \ {e} /\ entry'[w] = e /\ target'[w] = Path(w, e)
      /\ at'[w] = IF e.vars THEN "open" ELSE "mkdir"
      /\ DOMAIN todo' = Writers /\ DOMAIN entry' = Writers /\ DOMAIN target' = Writers
      /\ \A v \in Writers : v # w => /\ todo'[v] = todo[v] /\ entry'[v] = entry[v]
                                     /\ target'[v] = target[v]
    BY <1>1, <1>2 DEF Path
<1>4. \A f \in Entries(w[2]) : Written(w, f)' <=> Written(w, f)
    BY <1>1, <1>2, <1>3 DEF Written, Begun, Inside
<1> DEFINE step == IF e.vars THEN "open" ELSE "mkdir"
<1>5. /\ step \in Inside /\ step \in Begun \cup {"failed"} /\ step # "write"
      /\ step \notin {"failed", "done"} /\ (step \in {"mkdir", "stat"} => ~e.vars)
    BY DEF Inside, Begun
<1>6. at' = [at EXCEPT ![w] = step]
    BY <1>1
<1> HIDE DEF step
<1>7. /\ todo'[w] \subseteq Entries(w[2]) /\ entry'[w] \in Entries(w[2]) \ todo'[w]
      /\ target'[w] = Path(w, entry'[w])
      /\ step \in {"failed", "done"} => todo'[w] = {}
      /\ step \in {"mkdir", "stat"} => ~entry'[w].vars
    BY <1>2, <1>3, <1>5
<1>8. at[w] \notin {"done", "write"} /\ UNCHANGED <<storageVars, opVars, file>>
    BY <1>1
<1> QED BY <1>2, <1>3, <1>4, <1>5, <1>6, <1>7, <1>8, LooksKeep

LEMMA StepsKeep ==
    ASSUME ChartsWellFormed, FilesInv, NEW w \in Writers, NEW step \in Begun,
           at[w] \in Begun \ {"done", "write"}, at' = [at EXCEPT ![w] = step], step # "write",
           UNCHANGED <<storageVars, opVars, todo, entry, target, file>>,
           step = "done" => at[w] = "next" /\ todo[w] = {},
           step \in Inside => at[w] \in Inside,
           step = "next" => at[w] = "next",
           step \in {"mkdir", "stat"} => ~entry[w].vars
    PROVE  FilesInv'
<1>1. /\ operation[w[1]] = "fetching" /\ (w[2] # Primary => at[<<w[1], Primary>>] = "done")
      /\ todo[w] \subseteq Entries(w[2]) /\ DOMAIN todo = Writers /\ DOMAIN entry = Writers
      /\ DOMAIN target = Writers /\ DOMAIN at = Writers
    BY WriterFacts DEF Begun, Inside
<1>2. at'[w] = step
    BY <1>1
<1>3. step \in Inside => /\ entry[w] \in Entries(w[2]) \ todo[w]
                         /\ target[w] = Path(w, entry[w])
    BY DEF FilesInv, Writing
<1>4. \A e \in Entries(w[2]) : Written(w, e)' <=> Written(w, e)
    BY <1>2 DEF Written, Begun, Inside
<1>5. step \in {"failed", "done"} => todo[w] = {}
    BY DEF Begun, Inside
<1> QED BY <1>1, <1>3, <1>4, <1>5, LooksKeep

LEMMA FinishKeeps ==
    ASSUME ChartsWellFormed, FilesInv, NEW w \in Writers, FinishChart(w)
    PROVE  FilesInv'
BY StepsKeep DEF FinishChart, MoveTo, OthersKept, opVars, Begun, Inside

LEMMA StatLinkKeeps ==
    ASSUME ChartsWellFormed, FilesInv, NEW w \in Writers, StatLink(w)
    PROVE  FilesInv'
<1>1. at[w] = "stat" /\ ~has(target[w])
    BY NotYet DEF StatLink, Inside
<1>2. /\ at' = [at EXCEPT ![w] = "open"]
      /\ UNCHANGED <<storageVars, opVars, todo, entry, target, file>>
    BY <1>1 DEF StatLink, MoveTo, OthersKept
<1> QED BY <1>1, <1>2, StepsKeep DEF Begun, Inside

LEMMA OpenKeeps ==
    ASSUME ChartsWellFormed, FilesInv, NEW w \in Writers, Open(w)
    PROVE  FilesInv'
<1>1. at[w] = "open" /\ ~has(target[w])
    BY NotYet DEF Open, Inside
<1>2. /\ at' = [at EXCEPT ![w] = "new"]
      /\ UNCHANGED <<storageVars, opVars, todo, entry, target, file>>
    BY <1>1 DEF Open, MoveTo, OthersKept
<1> QED BY <1>1, <1>2, StepsKeep DEF Begun, Inside

-----------------------------------------------------------------------------
(* The steps that change the file system                                    *)

\* Of a file or a directory that an operation creates in its own temporary directory
Creates(o, n, path, mode) ==
    /\ ~has(path) /\ New(path, mode)
    /\ td'[o] = Temp(n) /\ operation'[o] = "fetching" /\ operation[o] \in {"idle", "fetching"}
    /\ \A p \in Ops : p # o => operation'[p] = operation[p] /\ td'[p] = td[p] /\ td[p] # Temp(n)
    /\ UNCHANGED victim
    /\ \A q \in Prefixes(path) : has(q) => ModeOf(q) = "dir"
    /\ \A q \in Prefixes(path) : \A m \in TempNames : IsPrefix(Temp(m), q) => m = n

Created(path, mode) ==
    /\ DOMAIN files' = DOMAIN files \cup Prefixes(path) /\ DOMAIN files' \subseteq Paths
    /\ \A p \in DOMAIN files : files'[p] = files[p] /\ node'[files'[p]] = node[files[p]]
    /\ \A q \in Prefixes(path) : q # path => node'[files'[q]].mode = "dir"
    /\ node'[files'[path]].mode = mode /\ files'[path] = NextFile(path)
    /\ \A f \in DOMAIN node' : DOMAIN node'[f] = {"mode", "content"}
    /\ OneFile' /\ Ancestors' /\ TreeKept' /\ Victims' /\ NothingLeft'

LEMMA CreationKeeps ==
    ASSUME ChartsWellFormed, FilesInv, NEW o \in Ops, NEW n \in TempNames,
           NEW path \in Paths, NEW mode, Creates(o, n, path, mode)
    PROVE  Created(path, mode)
<1> USE DEF Creates
<1>1. \A p \in Ops : operation[p] \in {"removing", "ended"} =>
         /\ p # o /\ operation'[p] = operation[p] /\ td'[p] = td[p]
         /\ \E m \in TempNames : m # n /\ td[p] = Temp(m)
    <2> SUFFICES ASSUME NEW p \in Ops, operation[p] \in {"removing", "ended"}
                 PROVE  /\ p # o /\ operation'[p] = operation[p] /\ td'[p] = td[p]
                        /\ \E m \in TempNames : m # n /\ td[p] = Temp(m)
        OBVIOUS
    <2>1. p # o
        OBVIOUS
    <2>2. PICK m \in TempNames : td[p] = Temp(m)
        BY HasTemp
    <2> QED BY <2>1, <2>2
<1>2. \A q \in Prefixes(path) : \A p \in Ops :
          operation[p] \in {"removing", "ended"} => ~IsPrefix(td[p], q)
    BY <1>1
<1>3. path \in Seq(Names) /\ DOMAIN files \subseteq Seq(Names)
    BY DEF Paths, FilesInv, TypeOK
<1>4. /\ Ancestors /\ TreeKept /\ \A f \in DOMAIN node : DOMAIN node[f] = {"mode", "content"}
      /\ \A p \in DOMAIN files : files[p] \in DOMAIN node /\ files[p][1] = p
    BY DEF FilesInv, TypeOK, OneFile
<1>5. \A f \in DOMAIN node : f[1] \in Prefixes(path) => has(f[1])
    BY <1>2 DEF FilesInv, OneFile
<1>6. /\ DOMAIN files' = DOMAIN files \cup Prefixes(path)
      /\ \A p \in DOMAIN files : files'[p] = files[p]
      /\ \A f \in DOMAIN node : f \in DOMAIN node' /\ node'[f] = node[f]
      /\ \A p \in DOMAIN files' : files'[p] \in DOMAIN node' /\ files'[p][1] = p
      /\ \A f \in DOMAIN node' : /\ DOMAIN node'[f] = {"mode", "content"}
                                 /\ f \in DOMAIN node \/ f[1] \in Prefixes(path)
      /\ \A q \in Prefixes(path) : q # path => node'[files'[q]].mode = "dir"
      /\ node'[files'[path]].mode = mode /\ files'[path] = NextFile(path)
      /\ Ancestors' /\ TreeKept'
    BY <1>3, <1>4, <1>5, NewKeeps
<1>7. DOMAIN files' \subseteq Paths
    <2>1. Prefixes(path) \subseteq Seq(Names)
        BY <1>3, PrefixesOf
    <2> QED BY <1>3, <1>6, <2>1 DEF Paths
<1>8. OneFile'
    <2>1. ASSUME NEW f \in DOMAIN node'
          PROVE  \/ f[1] \in DOMAIN files'
                 \/ \E p \in Ops : operation'[p] \in {"removing", "ended"} /\ IsPrefix(td'[p], f[1])
        <3>1. CASE f \in DOMAIN node
            BY <1>1, <1>6, <3>1 DEF FilesInv, OneFile, has
        <3>2. CASE f[1] \in Prefixes(path)
            BY <1>6, <3>2
        <3> QED BY <1>6, <3>1, <3>2
    <2> QED BY <1>6, <2>1 DEF OneFile, has
<1>9. Victims'
    <2> SUFFICES ASSUME NEW p \in Ops, victim[p] # Nothing
                 PROVE  /\ operation'[p] = "removing" /\ IsPrefix(td'[p], victim[p])
                        /\ victim[p] \in DOMAIN files'
                        /\ \A r \in DOMAIN files' : victim[p] \in Prefixes(r) => r = victim[p]
        BY DEF Victims, has
    <2>1. /\ operation[p] = "removing" /\ IsPrefix(td[p], victim[p]) /\ victim[p] \in DOMAIN files
          /\ \A r \in DOMAIN files : victim[p] \in Prefixes(r) => r = victim[p]
        BY DEF FilesInv, Victims, has
    <2>2. ASSUME NEW r \in Prefixes(path), victim[p] \in Prefixes(r) PROVE FALSE
        <3>1. victim[p] \in Prefixes(path)
            BY <1>3, <2>2, PrefixOfPrefix
        <3> QED BY <1>2, <2>1, <3>1
    <2> QED BY <1>1, <1>6, <2>1, <2>2
<1>10. NothingLeft'
    <2> SUFFICES ASSUME NEW p \in Ops, operation'[p] = "ended", NEW r \in DOMAIN files', IsPrefix(td'[p], r)
                 PROVE  FALSE
        BY DEF NothingLeft
    <2>1. operation[p] = "ended" /\ td'[p] = td[p]
        OBVIOUS
    <2>2. r \notin Prefixes(path)
        BY <1>2, <2>1
    <2>3. r \in DOMAIN files
        BY <1>6, <2>2
    <2> QED BY <2>1, <2>3 DEF FilesInv, NothingLeft
<1>11. \A p \in DOMAIN files : node'[files'[p]] = node[files[p]]
    BY <1>4, <1>6
<1> QED BY <1>6, <1>7, <1>8, <1>9, <1>10, <1>11 DEF Created

LEMMA TempDirKeeps ==
    ASSUME ChartsWellFormed, FilesInv, NEW o \in Ops, TempDir(o)
    PROVE  FilesInv'
<1>1. PICK n \in TempNames :
         /\ operation[o] = "idle" /\ operation' = [operation EXCEPT ![o] = "fetching"]
         /\ \A p \in Ops : td[p] # Temp(n)
         /\ td' = [td EXCEPT ![o] = Temp(n)] /\ MkdirAll(Temp(n))
    BY DEF TempDir, Temp
<1>2. UNCHANGED <<victim, at, todo, entry, target, file>>
    BY DEF TempDir, writerVars
<1>3. /\ operation' \in [Ops -> {"idle", "fetching", "installing", "failed", "removing", "ended"}]
      /\ td' \in [Ops -> Paths] /\ operation'[o] = "fetching" /\ td'[o] = Temp(n)
      /\ \A p \in Ops : p # o => operation'[p] = operation[p] /\ td'[p] = td[p] /\ td[p] # Temp(n)
      /\ Temp(n) \in Paths /\ Temp(n) # <<>>
    BY <1>1, TempPath DEF FilesInv, TypeOK
<1>4. \A q \in Prefixes(Temp(n)) : has(q) => ModeOf(q) = "dir" /\ q # Temp(n)
    <2> SUFFICES ASSUME NEW q \in Prefixes(Temp(n)), has(q)
                 PROVE  ModeOf(q) = "dir" /\ q # Temp(n)
        OBVIOUS
    <2>1. ASSUME NEW v \in Writers, NEW f \in Entries(v[2]), Written(v, f), q = Path(v, f)
          PROVE  FALSE
        <3>1. PICK m \in TempNames : td[v[1]] = Temp(m)
            BY <2>1, WrittenHasTemp
        <3>2. v[2] \in Charts
            BY DEF Writers
        <3>3. PathIn(m, v[2], f) \notin Prefixes(Temp(n))
            BY <3>2, TempsApart
        <3> QED BY <2>1, <3>1, <3>3, PathOf
    <2>2. ASSUME q = Temp(n), NEW p \in Ops, td[p] # Nothing, q \in Prefixes(td[p]) PROVE FALSE
        <3>1. PICK m \in TempNames : td[p] = Temp(m)
            BY <2>2, HasTemp
        <3>2. IsPrefix(Temp(n), Temp(n))
            BY TempPath, PrefixFacts, PrefixIsPrefix DEF Paths
        <3>3. n = m
            BY <2>2, <3>1, <3>2, TempsApart
        <3> QED BY <1>1, <3>1, <3>3
    <2>3. ASSUME q = Temp(n), NEW v \in Writers, NEW f \in Entries(v[2]), td[v[1]] # Nothing,
                 q \in Prefixes(Front(Path(v, f)))
          PROVE  FALSE
        <3>1. v[1] \in Ops /\ v[2] \in Charts
            BY DEF Writers
        <3>2. PICK m \in TempNames : td[v[1]] = Temp(m)
            BY <2>3, <3>1, HasTemp
        <3>3. Path(v, f) = PathIn(m, v[2], f) /\ Path(v, f) \in Seq(Names) /\ Path(v, f) # <<>>
            BY <3>1, <3>2, PathOf, PathParts DEF Paths
        <3>4. q \in Prefixes(PathIn(m, v[2], f))
            BY <2>3, <3>3, PrefixFacts
        <3>5. IsPrefix(Temp(n), Temp(n))
            BY TempPath, PrefixFacts, PrefixIsPrefix DEF Paths
        <3>6. n = m
            BY <2>3, <3>1, <3>4, <3>5, TempsApart
        <3> QED BY <1>1, <3>1, <3>2, <3>6
    <2>4. q # Temp(n)
        BY <2>1, <2>2, <2>3 DEF FilesInv, FilesPlaced, has
    <2> QED BY <2>1, <2>4 DEF FilesInv, FilesPlaced, has
<1>5. Temp(n) \in Prefixes(Temp(n))
    BY TempPath, PrefixFacts DEF Paths
<1>6. ~has(Temp(n)) /\ New(Temp(n), "dir")
    <2>1. ~has(Temp(n))
        BY <1>4, <1>5
    <2>2. ~Exists(Temp(n))
        BY <2>1 DEF Exists
    <2> QED BY <1>1, <2>1, <2>2, Zenon DEF MkdirAll
<1>7. \A q \in Prefixes(Temp(n)) : \A m \in TempNames : IsPrefix(Temp(m), q) => m = n
    BY TempsApart
<1>8. /\ DOMAIN files' = DOMAIN files \cup Prefixes(Temp(n)) /\ DOMAIN files' \subseteq Paths
      /\ \A p \in DOMAIN files : files'[p] = files[p] /\ node'[files'[p]] = node[files[p]]
      /\ \A q \in Prefixes(Temp(n)) : node'[files'[q]].mode = "dir"
      /\ \A f \in DOMAIN node' : DOMAIN node'[f] = {"mode", "content"}
      /\ OneFile' /\ Ancestors' /\ TreeKept' /\ Victims' /\ NothingLeft'
    <2>1. operation[o] \in {"idle", "fetching"} /\ UNCHANGED victim
        BY <1>1, <1>2
    <2>2. \A q \in Prefixes(Temp(n)) : has(q) => ModeOf(q) = "dir"
        BY <1>4
    <2>3. /\ DOMAIN files' = DOMAIN files \cup Prefixes(Temp(n)) /\ DOMAIN files' \subseteq Paths
          /\ \A p \in DOMAIN files : files'[p] = files[p] /\ node'[files'[p]] = node[files[p]]
          /\ \A q \in Prefixes(Temp(n)) : q # Temp(n) => node'[files'[q]].mode = "dir"
          /\ node'[files'[Temp(n)]].mode = "dir"
          /\ \A f \in DOMAIN node' : DOMAIN node'[f] = {"mode", "content"}
          /\ OneFile' /\ Ancestors' /\ TreeKept' /\ Victims' /\ NothingLeft'
        <3>1. PICK mode : mode = "dir"
            OBVIOUS
        <3>2. PICK path \in Paths : path = Temp(n)
            BY <1>3
        <3>3. Creates(o, n, path, mode)
            BY <1>3, <1>6, <1>7, <2>1, <2>2, <3>1, <3>2 DEF Creates
        <3>4. Created(path, mode)
            BY <3>3, CreationKeeps
        <3> QED BY <3>1, <3>2, <3>4 DEF Created
    <2>4. \A q \in Prefixes(Temp(n)) : node'[files'[q]].mode = "dir"
        BY <2>3
    <2> QED BY <2>3, <2>4
<1>9. \A c \in Charts : at[<<o, c>>] = "off"
    BY <1>1 DEF FilesInv, Joined
<1>10. \A w \in Writers : at[w] # "off" =>
          /\ w[1] \in Ops /\ w[1] # o /\ operation'[w[1]] = operation[w[1]]
          /\ \A e : Path(w, e)' = Path(w, e)
    <2> SUFFICES ASSUME NEW w \in Writers, at[w] # "off"
                 PROVE  w[1] \in Ops /\ w[1] # o /\ operation'[w[1]] = operation[w[1]]
                        /\ \A e : Path(w, e)' = Path(w, e)
        OBVIOUS
    <2>1. w[1] \in Ops /\ w[1] # o
        BY <1>9 DEF Writers
    <2> QED BY <1>3, <2>1 DEF Path, ChartDir
<1>11. TypeOK'
    BY <1>2, <1>3, <1>8 DEF FilesInv, TypeOK
<1>12. OwnDirectory'
    <2>1. \A p \in Ops : IF operation'[p] = "idle" THEN td'[p] = Nothing
                                            ELSE \E m \in TempNames : td'[p] = <<"tmp", m>>
        BY <1>3 DEF FilesInv, OwnDirectory, Temp
    <2>2. \A p, q \in Ops : td'[p] = td'[q] /\ td'[p] # Nothing => p = q
        BY <1>3 DEF FilesInv, OwnDirectory
    <2> QED BY <2>1, <2>2 DEF OwnDirectory
<1>13. Joined'
    BY <1>2, <1>3 DEF FilesInv, Joined
<1>14. Writing'
    <2> SUFFICES ASSUME NEW w \in Writers
                 PROVE  /\ at[w] \in {"off", "failed", "done"} => todo[w] = {}
                        /\ at[w] \in Inside => /\ entry[w] \in Entries(w[2]) \ todo[w]
                                               /\ target[w] = Path(w, entry[w])'
                        /\ at[w] \in {"mkdir", "stat"} => ~entry[w].vars
                        /\ at[w] = "write" => /\ target[w] \in DOMAIN files'
                                              /\ file[w] = files'[target[w]]
        BY <1>2 DEF Writing, has, Path, ChartDir
    <2>1. /\ at[w] \in {"off", "failed", "done"} => todo[w] = {}
          /\ at[w] \in Inside => /\ entry[w] \in Entries(w[2]) \ todo[w]
                                 /\ target[w] = Path(w, entry[w])
          /\ at[w] \in {"mkdir", "stat"} => ~entry[w].vars
          /\ at[w] = "write" => target[w] \in DOMAIN files /\ file[w] = files[target[w]]
        BY DEF FilesInv, Writing, has
    <2>2. at[w] \in Inside => Path(w, entry[w])' = Path(w, entry[w])
        <3>1. ASSUME at[w] \in Inside PROVE \A e : Path(w, e)' = Path(w, e)
            BY <1>10, <3>1 DEF Inside
        <3> QED BY <1>2, <3>1 DEF Path, ChartDir
    <2>3. at[w] = "write" => target[w] \in DOMAIN files' /\ file[w] = files'[target[w]]
        BY <1>8, <2>1
    <2> QED BY <1>2, <2>1, <2>2, <2>3
<1>15. \A w \in Writers : \A e : Written(w, e) => at[w] # "off"
    BY DEF Written, Begun, Inside
<1>16. \A w \in Writers : \A e : Written(w, e)' <=> Written(w, e)
    BY <1>2 DEF Written
<1>17. FilesPlaced'
    <2> SUFFICES ASSUME NEW p \in DOMAIN files'
                 PROVE  \/ /\ node'[files'[p]].mode = "dir"
                           /\ \E x \in Ops : td'[x] # Nothing /\ p \in Prefixes(td'[x])
                        \/ /\ node'[files'[p]].mode = "dir"
                           /\ \E w \in Writers : \E e \in Entries(w[2]) :
                                 td'[w[1]] # Nothing /\ p \in Prefixes(Front(Path(w, e)'))
                        \/ \E w \in Writers : \E e \in Entries(w[2]) :
                              Written(w, e)' /\ p = Path(w, e)'
        BY DEF FilesPlaced, ModeOf
    <2>1. CASE p \in Prefixes(Temp(n))
        BY <1>3, <1>8, <2>1 DEF Nothing
    <2>2. CASE p \in DOMAIN files
        <3>1. node'[files'[p]].mode = ModeOf(p)
            BY <1>8, <2>2 DEF ModeOf
        <3>2. ASSUME NEW x \in Ops, td[x] # Nothing PROVE td'[x] = td[x]
            BY <1>1, <1>3, <3>2, HasTemp
        <3>3. ASSUME NEW w \in Writers, td[w[1]] # Nothing
              PROVE  td'[w[1]] # Nothing /\ \A e : Path(w, e)' = Path(w, e)
            <4>1. w[1] \in Ops
                BY DEF Writers
            <4> QED BY <3>2, <3>3, <4>1 DEF Path, ChartDir
        <3> QED BY <1>10, <1>15, <1>16, <2>2, <3>1, <3>2, <3>3 DEF FilesInv, FilesPlaced
    <2> QED BY <1>8, <2>1, <2>2
<1>18. FilesThere'
    <2> SUFFICES ASSUME NEW w \in Writers, NEW e \in Entries(w[2]), Written(w, e)',
                        operation'[w[1]] \notin {"removing", "ended"}
                 PROVE  (/\ has(Path(w, e))
                         /\ ModeOf(Path(w, e)) =
                               (IF LinkTo(w[2], e) = Nothing THEN "file" ELSE "link")
                         /\ ~(e = entry[w] /\ at[w] = "write") =>
                               node[files[Path(w, e)]].content =
                                   <<IF LinkTo(w[2], e) = Nothing THEN Bytes(w[1], w[2], e)
                                                                  ELSE LinkTo(w[2], e)>>)'
        BY DEF FilesThere
    <2>1. Written(w, e) /\ Path(w, e)' = Path(w, e) /\ operation[w[1]] \notin {"removing", "ended"}
        BY <1>10, <1>15, <1>16
    <2>2. Path(w, e) \in DOMAIN files
        BY <2>1 DEF FilesInv, FilesThere, has
    <2> QED BY <1>2, <1>8, <2>1, <2>2 DEF FilesInv, FilesThere, has, ModeOf
<1> QED BY <1>8, <1>11, <1>12, <1>13, <1>14, <1>17, <1>18 DEF FilesInv

\* What a goroutine does next leaves the operations and their directories as they are.
LEMMA WriterKeeps ==
    ASSUME ChartsWellFormed, FilesInv, NEW w \in Writers, at[w] \in Inside, NEW step \in Begun \cup {"failed"},
           at' = [at EXCEPT ![w] = step], UNCHANGED opVars
    PROVE  /\ OwnDirectory' /\ Joined' /\ at' \in [Writers -> Begun \cup {"off", "failed"}]
           /\ \A v \in Writers : at'[v] = IF v = w THEN step ELSE at[v]
<1>1. UNCHANGED <<operation, td, victim>>
    BY DEF opVars
<1>2. /\ at' \in [Writers -> Begun \cup {"off", "failed"}]
      /\ \A v \in Writers : at'[v] = IF v = w THEN step ELSE at[v]
    BY DEF FilesInv, TypeOK
<1>3. PICK o \in Ops, c \in Charts : w = <<o, c>> /\ w[1] = o /\ w[2] = c
    BY DEF Writers
<1>4. OwnDirectory'
    BY <1>1 DEF FilesInv, OwnDirectory
<1>5. operation[o] = "fetching" /\ at[<<o, c>>] # "done" /\ (c # Primary => at[<<o, Primary>>] = "done")
    BY <1>3, WriterFacts DEF Inside
<1>6. ASSUME NEW p \in Ops
      PROVE  /\ operation[p] = "idle" => \A d \in Charts : at'[<<p, d>>] = "off"
             /\ operation[p] = "failed" =>
                   \A d \in Charts : at'[<<p, d>>] \in {"off", "done", "failed"}
             /\ operation[p] \in {"installing", "removing", "ended"} =>
                   \A d \in Charts : at'[<<p, d>>] = "done"
             /\ \A d \in Charts :
                   d # Primary /\ at'[<<p, d>>] # "off" => at'[<<p, Primary>>] = "done"
    <2>1. \A d \in Charts : at'[<<p, d>>] = IF p = o /\ d = c THEN step ELSE at[<<p, d>>]
        BY <1>2, <1>3 DEF Writers
    <2>2. Primary \in Charts
        BY DEF ChartsWellFormed
    <2>3. /\ operation[p] = "idle" => \A d \in Charts : at[<<p, d>>] = "off"
          /\ operation[p] = "failed" => \A d \in Charts : at[<<p, d>>] \in {"off", "done", "failed"}
          /\ operation[p] \in {"installing", "removing", "ended"} =>
                \A d \in Charts : at[<<p, d>>] = "done"
          /\ \A d \in Charts : d # Primary /\ at[<<p, d>>] # "off" => at[<<p, Primary>>] = "done"
        BY DEF FilesInv, Joined
    <2>4. CASE p # o
        BY <2>1, <2>2, <2>3, <2>4
    <2>5. CASE p = o
        <3>1. ASSUME NEW d \in Charts, d # Primary, at'[<<p, d>>] # "off"
              PROVE  at'[<<p, Primary>>] = "done"
            <4>1. CASE d = c
                BY <1>5, <2>1, <2>2, <2>5, <3>1, <4>1
            <4>2. CASE d # c
                <5>1. at[<<o, Primary>>] = "done"
                    BY <2>1, <2>3, <2>5, <3>1, <4>2
                <5> QED BY <1>5, <2>1, <2>2, <2>5, <5>1
            <4> QED BY <4>1, <4>2
        <3> QED BY <1>5, <2>5, <3>1
    <2> QED BY <2>4, <2>5
<1>7. Joined'
    BY <1>1, <1>6 DEF Joined
<1> QED BY <1>2, <1>4, <1>7

\* The next entry of a goroutine, or a directory above it, when it is created
LEMMA WriterCreates ==
    ASSUME ChartsWellFormed, FilesInv, NEW w \in Writers, at[w] \in Inside \ {"write"},
           UNCHANGED opVars, NEW path \in Prefixes(target[w]), NEW mode, ~has(path), New(path, mode)
    PROVE  /\ DOMAIN files' = DOMAIN files \cup Prefixes(path) /\ DOMAIN files' \subseteq Paths
           /\ \A p \in DOMAIN files : files'[p] = files[p] /\ node'[files'[p]] = node[files[p]]
           /\ \A q \in Prefixes(path) : q # path => node'[files'[q]].mode = "dir"
           /\ node'[files'[path]].mode = mode /\ files'[path] = NextFile(path)
           /\ \A f \in DOMAIN node' : DOMAIN node'[f] = {"mode", "content"}
           /\ OneFile' /\ Ancestors' /\ TreeKept' /\ Victims' /\ NothingLeft'
<1>1. /\ entry[w] \in Entries(w[2]) /\ target[w] = Path(w, entry[w])
      /\ target[w] \in Paths \ {<<>>}
    BY NotYet
<1>2. w[1] \in Ops /\ w[2] \in Charts /\ operation[w[1]] = "fetching"
    BY Active DEF Inside
<1>3. PICK n \in TempNames : td[w[1]] = Temp(n)
    BY Active DEF Inside
<1>4. UNCHANGED <<operation, td, victim>>
    BY DEF opVars
<1>5. /\ path \in Paths /\ Prefixes(path) \subseteq Prefixes(target[w])
      /\ \A q \in Prefixes(path) : q # path => q # target[w]
    <2>1. path \in Seq(Names) /\ Len(path) <= Len(target[w]) /\ path \in Prefixes(target[w])
        BY <1>1, PrefixesOf DEF Paths
    <2>2. ASSUME NEW q \in Prefixes(path)
          PROVE  q \in Prefixes(target[w]) /\ (q # path => q # target[w])
        <3>1. q \in Prefixes(target[w])
            BY <1>1, <2>1, PrefixOfPrefix DEF Paths
        <3>2. Len(path) \in Nat /\ Len(target[w]) \in Nat /\ Len(q) \in Nat
            BY <1>1, <2>1, <3>1, PrefixesOf, LenProperties DEF Paths
        <3>3. q # path => Len(q) < Len(path)
            BY <2>1, PrefixFacts
        <3> QED BY <2>1, <3>1, <3>2, <3>3
    <2> QED BY <2>1, <2>2 DEF Paths
<1>6. \A q \in Prefixes(path) : has(q) => ModeOf(q) = "dir"
    <2>1. ~has(target[w])
        BY NotYet
    <2> QED BY <1>1, <1>3, <1>5, <2>1, AboveIsDir
<1>7. \A q \in Prefixes(path) : \A m \in TempNames : IsPrefix(Temp(m), q) => m = n
    <2>1. target[w] = PathIn(n, w[2], entry[w])
        BY <1>1, <1>2, <1>3, PathOf
    <2> QED BY <1>1, <1>2, <1>5, <2>1, TempsApart
<1>8. \A p \in Ops : p # w[1] => operation'[p] = operation[p] /\ td'[p] = td[p] /\ td[p] # Temp(n)
    BY <1>2, <1>3, <1>4, HasTemp DEF FilesInv, OwnDirectory
<1>9. PICK o \in Ops : o = w[1]
    BY <1>2
<1>10. /\ td'[o] = Temp(n) /\ operation'[o] = "fetching" /\ operation[o] \in {"idle", "fetching"}
       /\ UNCHANGED victim
       /\ \A p \in Ops : p # o => operation'[p] = operation[p] /\ td'[p] = td[p] /\ td[p] # Temp(n)
    BY <1>2, <1>3, <1>4, <1>8, <1>9
<1>11. ~has(path) /\ New(path, mode) /\ path \in Paths
    BY <1>5
<1>12. Creates(o, n, path, mode)
    BY <1>6, <1>7, <1>10, <1>11 DEF Creates
<1>13. Created(path, mode)
    BY <1>11, <1>12, CreationKeeps
<1> QED BY <1>13 DEF Created

\* Files that are created beside those that are there
LEMMA CreatedBeside ==
    ASSUME FilesInv, UNCHANGED opVars, DOMAIN files \subseteq DOMAIN files',
           \A p \in DOMAIN files : files'[p] = files[p] /\ node'[files'[p]] = node[files[p]],
           \A v \in Writers : \A e : Written(v, e) => Written(v, e)',
           \A p \in DOMAIN files' \ DOMAIN files :
              \/ /\ node'[files'[p]].mode = "dir"
                 /\ \E v \in Writers : \E e \in Entries(v[2]) :
                       td[v[1]] # Nothing /\ p \in Prefixes(Front(Path(v, e)))
              \/ \E v \in Writers : \E e \in Entries(v[2]) : Written(v, e)' /\ p = Path(v, e)
    PROVE  FilesPlaced'
<1>1. UNCHANGED <<operation, td, victim>>
    BY DEF opVars
<1>2. \A v \in Writers : \A e : Path(v, e)' = Path(v, e)
    BY <1>1 DEF Path, ChartDir
<1>3. ASSUME NEW p \in DOMAIN files'
      PROVE  \/ /\ node'[files'[p]].mode = "dir"
                /\ \E x \in Ops : td[x] # Nothing /\ p \in Prefixes(td[x])
             \/ /\ node'[files'[p]].mode = "dir"
                /\ \E v \in Writers : \E e \in Entries(v[2]) :
                      td[v[1]] # Nothing /\ p \in Prefixes(Front(Path(v, e)))
             \/ \E v \in Writers : \E e \in Entries(v[2]) : Written(v, e)' /\ p = Path(v, e)
    <2>1. CASE p \in DOMAIN files
        <3>1. node'[files'[p]].mode = ModeOf(p)
            BY <2>1 DEF ModeOf
        <3> QED BY <2>1, <3>1 DEF FilesInv, FilesPlaced
    <2>2. CASE p \notin DOMAIN files
        BY <2>2
    <2> QED BY <2>1, <2>2
<1> QED BY <1>1, <1>2, <1>3 DEF FilesPlaced, ModeOf

LEMMA MakeDirKeeps ==
    ASSUME ChartsWellFormed, FilesInv, NEW w \in Writers, MakeDir(w)
    PROVE  FilesInv'
<1>1. at[w] = "mkdir" /\ UNCHANGED <<opVars, todo, entry, target, file>>
    BY DEF MakeDir, OthersKept
<1> DEFINE dir == Front(target[w])
           step == IF LinkOf(w) = Nothing THEN "open" ELSE "stat"
<1>2. PICK n \in TempNames : td[w[1]] = Temp(n)
    BY <1>1, Active
<1>3. /\ entry[w] \in Entries(w[2]) /\ target[w] = Path(w, entry[w]) /\ ~entry[w].vars
      /\ target[w] \in Paths \ {<<>>} /\ w[1] \in Ops
    BY <1>1, NotYet DEF Inside, FilesInv, Writing, Writers
<1>4. dir \in Prefixes(target[w]) /\ dir # target[w]
    BY <1>3, PrefixFacts DEF Paths
<1>5. has(dir) => ModeOf(dir) = "dir"
    BY <1>2, <1>3, <1>4, AboveIsDir
<1>6. /\ step \in {"open", "stat"} /\ step \in Inside /\ step \in Begun \cup {"failed"}
      /\ step # "write" /\ step \notin {"next", "done"}
    BY DEF Begun, Inside
<1>7. /\ \/ ~has(dir) /\ New(dir, "dir")
         \/ has(dir) /\ UNCHANGED storageVars
      /\ at' = [at EXCEPT ![w] = step]
    <2>1. \/ MkdirAll(dir) /\ at' = [at EXCEPT ![w] = step]
          \/ MkdirAllFails(dir)
        BY DEF MakeDir, MoveTo
    <2>2. ~MkdirAllFails(dir)
        BY <1>5 DEF MkdirAllFails, Exists
    <2>3. ASSUME MkdirAll(dir)
          PROVE  \/ ~has(dir) /\ New(dir, "dir")
                 \/ has(dir) /\ UNCHANGED storageVars
        <3> HIDE DEF dir
        <3> QED BY <2>3, Zenon DEF MkdirAll, Exists
    <2> HIDE DEF dir, step
    <2> QED BY <2>1, <2>2, <2>3, Zenon
<1> HIDE DEF dir, step
<1>8. CASE has(dir) /\ UNCHANGED storageVars
    BY <1>1, <1>3, <1>6, <1>7, <1>8, StepsKeep DEF Begun, Inside
<1>9. CASE ~has(dir) /\ New(dir, "dir")
    <2>1. UNCHANGED <<operation, td, victim>>
        BY <1>1 DEF opVars
    <2>2. /\ OwnDirectory' /\ Joined' /\ at' \in [Writers -> Begun \cup {"off", "failed"}]
          /\ \A v \in Writers : at'[v] = IF v = w THEN step ELSE at[v]
        BY <1>1, <1>6, <1>7, WriterKeeps DEF Inside
    <2>3. /\ DOMAIN files' = DOMAIN files \cup Prefixes(dir) /\ DOMAIN files' \subseteq Paths
          /\ \A p \in DOMAIN files : files'[p] = files[p] /\ node'[files'[p]] = node[files[p]]
          /\ \A q \in Prefixes(dir) : node'[files'[q]].mode = "dir"
          /\ \A f \in DOMAIN node' : DOMAIN node'[f] = {"mode", "content"}
          /\ OneFile' /\ Ancestors' /\ TreeKept' /\ Victims' /\ NothingLeft'
        <3>1. PICK mode : mode = "dir"
            OBVIOUS
        <3>2. at[w] \in Inside \ {"write"} /\ UNCHANGED opVars /\ ~has(dir) /\ New(dir, mode)
            BY <1>1, <1>9, <3>1 DEF Inside
        <3>3. /\ DOMAIN files' = DOMAIN files \cup Prefixes(dir) /\ DOMAIN files' \subseteq Paths
              /\ \A p \in DOMAIN files : files'[p] = files[p] /\ node'[files'[p]] = node[files[p]]
              /\ \A q \in Prefixes(dir) : q # dir => node'[files'[q]].mode = "dir"
              /\ node'[files'[dir]].mode = mode
              /\ \A f \in DOMAIN node' : DOMAIN node'[f] = {"mode", "content"}
              /\ OneFile' /\ Ancestors' /\ TreeKept' /\ Victims' /\ NothingLeft'
            BY ONLY ChartsWellFormed, FilesInv, w \in Writers, <1>4, <3>2, WriterCreates, ZenonT(60)
        <3> QED BY <3>1, <3>3
    <2>4. TypeOK'
        BY <1>1, <2>1, <2>2, <2>3 DEF FilesInv, TypeOK
    <2>5. \A v \in Writers : \A e : Written(v, e)' <=> Written(v, e)
        <3> SUFFICES ASSUME NEW v \in Writers, NEW e PROVE Written(v, e)' <=> Written(v, e)
            OBVIOUS
        <3>1. CASE v = w
            BY <1>1, <1>6, <2>2, <3>1 DEF Written, Begun, Inside
        <3>2. CASE v # w
            BY <1>1, <2>2, <3>2 DEF Written
        <3> QED BY <3>1, <3>2
    <2>6. \A v \in Writers : \A e : Path(v, e)' = Path(v, e)
        BY <2>1 DEF Path, ChartDir
    <2>7. Writing'
        <3> SUFFICES ASSUME NEW v \in Writers
                     PROVE  /\ at'[v] \in {"off", "failed", "done"} => todo[v] = {}
                            /\ at'[v] \in Inside => /\ entry[v] \in Entries(v[2]) \ todo[v]
                                                    /\ target[v] = Path(v, entry[v])
                            /\ at'[v] \in {"mkdir", "stat"} => ~entry[v].vars
                            /\ at'[v] = "write" => /\ target[v] \in DOMAIN files'
                                                   /\ file[v] = files'[target[v]]
            BY <1>1, <2>6 DEF Writing, has
        <3>1. CASE v = w
            <4>1. at[v] \in Inside
                BY <1>1, <3>1 DEF Inside
            <4>2. entry[v] \in Entries(v[2]) \ todo[v]
                BY <4>1 DEF FilesInv, Writing
            <4> QED BY <1>3, <1>6, <2>2, <3>1, <4>2
        <3>2. CASE v # w
            <4>1. at'[v] = at[v]
                BY <2>2, <3>2
            <4> QED BY <2>3, <4>1 DEF FilesInv, Writing, has
        <3> QED BY <3>1, <3>2
    <2>8. FilesPlaced'
        <3>1. ASSUME NEW p \in DOMAIN files' \ DOMAIN files
              PROVE  /\ node'[files'[p]].mode = "dir"
                     /\ \E v \in Writers : \E e \in Entries(v[2]) :
                           td[v[1]] # Nothing /\ p \in Prefixes(Front(Path(v, e)))
            <4>1. p \in Prefixes(Front(Path(w, entry[w])))
                BY <1>3, <2>3 DEF dir
            <4>2. td[w[1]] # Nothing
                BY <1>2, TempPath DEF Nothing
            <4> QED BY <1>3, <2>3, <4>1, <4>2
        <3> QED BY <1>1, <2>3, <2>5, <3>1, CreatedBeside
    <2>9. FilesThere'
        <3> SUFFICES ASSUME NEW v \in Writers, NEW e \in Entries(v[2]), Written(v, e)',
                            operation'[v[1]] \notin {"removing", "ended"}
                     PROVE  (/\ has(Path(v, e))
                             /\ ModeOf(Path(v, e)) =
                                   (IF LinkTo(v[2], e) = Nothing THEN "file" ELSE "link")
                             /\ ~(e = entry[v] /\ at[v] = "write") =>
                                   node[files[Path(v, e)]].content =
                                       <<IF LinkTo(v[2], e) = Nothing THEN Bytes(v[1], v[2], e)
                                                                      ELSE LinkTo(v[2], e)>>)'
            BY DEF FilesThere
        <3>1. Written(v, e) /\ operation[v[1]] \notin {"removing", "ended"} /\ Path(v, e)' = Path(v, e)
            BY <2>1, <2>5, <2>6
        <3>2. Path(v, e) \in DOMAIN files
            BY <3>1 DEF FilesInv, FilesThere, has
        <3>3. at[v] = "write" => at'[v] = "write"
            BY <1>1, <2>2
        <3> QED BY <1>1, <2>3, <3>1, <3>2, <3>3 DEF FilesInv, FilesThere, has, ModeOf
    <2> QED BY <2>2, <2>3, <2>4, <2>7, <2>8, <2>9 DEF FilesInv
<1> QED BY <1>7, <1>8, <1>9

LEMMA CreateKeeps ==
    ASSUME ChartsWellFormed, FilesInv, NEW w \in Writers, Create(w)
    PROVE  FilesInv'
<1>1. at[w] = "new" /\ UNCHANGED <<opVars, todo, entry, target>>
    BY DEF Create, OthersKept
<1>2. PICK n \in TempNames : td[w[1]] = Temp(n)
    BY <1>1, Active
<1>3. /\ entry[w] \in Entries(w[2]) \ todo[w] /\ target[w] = Path(w, entry[w])
      /\ target[w] \in Paths \ {<<>>} /\ ~has(target[w])
    BY <1>1, NotYet DEF Inside, FilesInv, Writing
<1>4. PICK mode : mode = IF LinkTo(w[2], entry[w]) = Nothing THEN "file" ELSE "link"
    OBVIOUS
<1>5. /\ New(target[w], mode) /\ file' = [file EXCEPT ![w] = NextFile(target[w])]
      /\ at' = [at EXCEPT ![w] = "write"]
    <2>1. LinkOf(w) = LinkTo(w[2], entry[w])
        BY <1>1, WriterFacts
    <2>2. mode = IF LinkOf(w) = Nothing THEN "file" ELSE "link"
        BY <1>4, <2>1
    <2>3. ~Exists(target[w])
        BY <1>3 DEF Exists
    <2> QED BY <2>2, <2>3, Zenon DEF Create, MoveTo
<1>6. UNCHANGED <<operation, td, victim>>
    BY <1>1 DEF opVars
<1>7. /\ OwnDirectory' /\ Joined' /\ at' \in [Writers -> Begun \cup {"off", "failed"}]
      /\ \A v \in Writers : at'[v] = IF v = w THEN "write" ELSE at[v]
    BY <1>1, <1>5, WriterKeeps DEF Begun, Inside
<1>8. /\ DOMAIN files' = DOMAIN files \cup Prefixes(target[w]) /\ DOMAIN files' \subseteq Paths
      /\ \A p \in DOMAIN files : files'[p] = files[p] /\ node'[files'[p]] = node[files[p]]
      /\ \A q \in Prefixes(target[w]) : q # target[w] => node'[files'[q]].mode = "dir"
      /\ node'[files'[target[w]]].mode = mode /\ files'[target[w]] = NextFile(target[w])
      /\ \A f \in DOMAIN node' : DOMAIN node'[f] = {"mode", "content"}
      /\ OneFile' /\ Ancestors' /\ TreeKept' /\ Victims' /\ NothingLeft'
    <2>1. target[w] \in Prefixes(target[w])
        BY <1>3, PrefixFacts DEF Paths
    <2>2. at[w] \in Inside \ {"write"} /\ UNCHANGED opVars
        BY <1>1 DEF Inside
    <2> QED BY ONLY ChartsWellFormed, FilesInv, w \in Writers, <1>3, <1>5, <2>1, <2>2,
                 WriterCreates, ZenonT(60)
<1>9. target[w] \in DOMAIN files'
    BY <1>3, <1>8, PrefixFacts DEF Paths
<1>10. DOMAIN file' = Writers /\ file'[w] = files'[target[w]]
       /\ \A v \in Writers : v # w => file'[v] = file[v]
    BY <1>5, <1>8 DEF FilesInv, TypeOK
<1>11. TypeOK'
    BY <1>1, <1>6, <1>7, <1>8, <1>10 DEF FilesInv, TypeOK
<1>12. \A v \in Writers : \A e : Written(v, e)' <=> (Written(v, e) \/ (v = w /\ e = entry[w]))
    <2> SUFFICES ASSUME NEW v \in Writers, NEW e
                 PROVE  Written(v, e)' <=> (Written(v, e) \/ (v = w /\ e = entry[w]))
        OBVIOUS
    <2>1. CASE v = w
        BY <1>1, <1>3, <1>7, <2>1 DEF Written, Begun, Inside
    <2>2. CASE v # w
        BY <1>1, <1>7, <2>2 DEF Written
    <2> QED BY <2>1, <2>2
<1>13. \A v \in Writers : \A e : Path(v, e)' = Path(v, e)
    BY <1>6 DEF Path, ChartDir
<1>14. Writing'
    <2> SUFFICES ASSUME NEW v \in Writers
                 PROVE  /\ at'[v] \in {"off", "failed", "done"} => todo[v] = {}
                        /\ at'[v] \in Inside => /\ entry[v] \in Entries(v[2]) \ todo[v]
                                                /\ target[v] = Path(v, entry[v])
                        /\ at'[v] \in {"mkdir", "stat"} => ~entry[v].vars
                        /\ at'[v] = "write" => /\ target[v] \in DOMAIN files'
                                               /\ file'[v] = files'[target[v]]
        BY <1>1, <1>13 DEF Writing, has
    <2>1. CASE v = w
        BY <1>3, <1>7, <1>9, <1>10, <2>1
    <2>2. CASE v # w
        <3>1. at'[v] = at[v] /\ file'[v] = file[v]
            BY <1>7, <1>10, <2>2
        <3> QED BY <1>8, <3>1 DEF FilesInv, Writing, has
    <2> QED BY <2>1, <2>2
<1>15. FilesPlaced'
    <2>1. ASSUME NEW p \in DOMAIN files' \ DOMAIN files
          PROVE  \/ /\ node'[files'[p]].mode = "dir"
                    /\ \E v \in Writers : \E e \in Entries(v[2]) :
                          td[v[1]] # Nothing /\ p \in Prefixes(Front(Path(v, e)))
                 \/ \E v \in Writers : \E e \in Entries(v[2]) : Written(v, e)' /\ p = Path(v, e)
        <3>1. CASE p = target[w]
            BY <1>3, <1>12, <3>1
        <3>2. CASE p # target[w]
            <4>1. p \in Prefixes(target[w])
                BY <1>8
            <4>2. p \in Prefixes(Front(Path(w, entry[w])))
                BY <1>3, <3>2, <4>1, PrefixFacts DEF Paths
            <4>3. td[w[1]] # Nothing
                BY <1>2, TempPath DEF Nothing
            <4> QED BY <1>3, <1>8, <3>2, <4>1, <4>2, <4>3
        <3> QED BY <3>1, <3>2
    <2> QED BY <1>1, <1>8, <1>12, <2>1, CreatedBeside
<1>16. FilesThere'
    <2> SUFFICES ASSUME NEW v \in Writers, NEW e \in Entries(v[2]), Written(v, e)',
                        operation'[v[1]] \notin {"removing", "ended"}
                 PROVE  (/\ has(Path(v, e))
                         /\ ModeOf(Path(v, e)) =
                               (IF LinkTo(v[2], e) = Nothing THEN "file" ELSE "link")
                         /\ ~(e = entry[v] /\ at[v] = "write") =>
                               node[files[Path(v, e)]].content =
                                   <<IF LinkTo(v[2], e) = Nothing THEN Bytes(v[1], v[2], e)
                                                                  ELSE LinkTo(v[2], e)>>)'
        BY DEF FilesThere
    <2>1. CASE v = w /\ e = entry[w]
        BY <1>1, <1>3, <1>4, <1>7, <1>8, <1>9, <1>13, <2>1 DEF has, ModeOf
    <2>2. CASE ~(v = w /\ e = entry[w])
        <3>1. Written(v, e) /\ operation[v[1]] \notin {"removing", "ended"} /\ Path(v, e)' = Path(v, e)
            BY <1>6, <1>12, <1>13, <2>2
        <3>2. Path(v, e) \in DOMAIN files
            BY <3>1 DEF FilesInv, FilesThere, has
        <3>3. e = entry[v] /\ at[v] = "write" => at'[v] = "write"
            BY <1>7
        <3> QED BY <1>1, <1>8, <3>1, <3>2, <3>3 DEF FilesInv, FilesThere, has, ModeOf
    <2> QED BY <2>1, <2>2
<1> QED BY <1>7, <1>8, <1>11, <1>14, <1>15, <1>16 DEF FilesInv

LEMMA WriteKeeps ==
    ASSUME ChartsWellFormed, FilesInv, NEW w \in Writers, Write(w)
    PROVE  FilesInv'
<1>1. /\ at[w] = "write" /\ at' = [at EXCEPT ![w] = "next"]
      /\ UNCHANGED <<opVars, files, children, todo, entry, target, file>>
    BY DEF Write, MoveTo, OthersKept
<1>2. PICK n \in TempNames : td[w[1]] = Temp(n)
    BY <1>1, Active
<1>3. /\ entry[w] \in Entries(w[2]) \ todo[w] /\ target[w] = Path(w, entry[w])
      /\ target[w] \in DOMAIN files /\ file[w] = files[target[w]]
    BY <1>1 DEF Inside, FilesInv, Writing, has
<1>4. PICK bytes : bytes = <<IF LinkTo(w[2], entry[w]) = Nothing THEN Bytes(w[1], w[2], entry[w])
                                                               ELSE LinkTo(w[2], entry[w])>>
    OBVIOUS
<1>5. node' = [node EXCEPT ![file[w]].content = bytes]
    <2>1. LinkOf(w) = LinkTo(w[2], entry[w])
        BY <1>1, WriterFacts
    <2> QED BY <1>4, <2>1 DEF Write
<1>6. UNCHANGED <<operation, td, victim>>
    BY <1>1 DEF opVars
<1>7. /\ OwnDirectory' /\ Joined' /\ at' \in [Writers -> Begun \cup {"off", "failed"}]
      /\ \A v \in Writers : at'[v] = IF v = w THEN "next" ELSE at[v]
    BY <1>1, WriterKeeps DEF Begun, Inside
<1>8. /\ DOMAIN node' = DOMAIN node
      /\ \A f \in DOMAIN node : DOMAIN node'[f] = {"mode", "content"} /\ node'[f].mode = node[f].mode
      /\ \A f \in DOMAIN node : f # file[w] => node'[f] = node[f]
      /\ node'[file[w]].content = bytes
      /\ \A p \in DOMAIN files : files[p] \in DOMAIN node /\ files[p][1] = p
    BY <1>3, <1>5 DEF FilesInv, TypeOK, OneFile
<1>9. \A p \in DOMAIN files : /\ node'[files[p]].mode = node[files[p]].mode
                              /\ p # target[w] => node'[files[p]] = node[files[p]]
    BY <1>3, <1>8
<1>10. TypeOK'
    BY <1>1, <1>6, <1>7, <1>8 DEF FilesInv, TypeOK
<1>11. \A v \in Writers : \A e : Written(v, e)' <=> Written(v, e)
    <2> SUFFICES ASSUME NEW v \in Writers, NEW e PROVE Written(v, e)' <=> Written(v, e)
        OBVIOUS
    <2>1. CASE v = w
        BY <1>1, <1>7, <2>1 DEF Written, Begun, Inside
    <2>2. CASE v # w
        BY <1>1, <1>7, <2>2 DEF Written
    <2> QED BY <2>1, <2>2
<1>12. \A v \in Writers : \A e : Path(v, e)' = Path(v, e)
    BY <1>6 DEF Path, ChartDir
<1>13. Writing'
    <2> SUFFICES ASSUME NEW v \in Writers
                 PROVE  /\ at'[v] \in {"off", "failed", "done"} => todo[v] = {}
                        /\ at'[v] \in Inside => /\ entry[v] \in Entries(v[2]) \ todo[v]
                                                /\ target[v] = Path(v, entry[v])
                        /\ at'[v] \in {"mkdir", "stat"} => ~entry[v].vars
                        /\ at'[v] = "write" => /\ target[v] \in DOMAIN files
                                               /\ file[v] = files[target[v]]
        BY <1>1, <1>12 DEF Writing, has
    <2>1. CASE v = w
        BY <1>7, <2>1 DEF Inside
    <2>2. CASE v # w
        <3>1. at'[v] = at[v]
            BY <1>7, <2>2
        <3> QED BY <3>1 DEF FilesInv, Writing, has
    <2> QED BY <2>1, <2>2
<1>14. FilesPlaced'
    <2>1. DOMAIN files \subseteq DOMAIN files' /\ DOMAIN files' \ DOMAIN files = {}
        BY <1>1
    <2>2. \A p \in DOMAIN files :
             \/ /\ node'[files'[p]].mode = "dir"
                /\ \E x \in Ops : td'[x] # Nothing /\ p \in Prefixes(td'[x])
             \/ /\ node'[files'[p]].mode = "dir"
                /\ \E v \in Writers : \E e \in Entries(v[2]) :
                      td'[v[1]] # Nothing /\ p \in Prefixes(Front(Path(v, e)'))
             \/ \E v \in Writers : \E e \in Entries(v[2]) : Written(v, e)' /\ p = Path(v, e)'
        BY <1>1, <1>6, <1>9, <1>11, <1>12 DEF FilesInv, FilesPlaced, ModeOf
    <2> QED BY <1>1, <2>2 DEF FilesPlaced, ModeOf
<1>15. FilesThere'
    <2> SUFFICES ASSUME NEW v \in Writers, NEW e \in Entries(v[2]), Written(v, e)',
                        operation'[v[1]] \notin {"removing", "ended"}
                 PROVE  (/\ has(Path(v, e))
                         /\ ModeOf(Path(v, e)) =
                               (IF LinkTo(v[2], e) = Nothing THEN "file" ELSE "link")
                         /\ ~(e = entry[v] /\ at[v] = "write") =>
                               node[files[Path(v, e)]].content =
                                   <<IF LinkTo(v[2], e) = Nothing THEN Bytes(v[1], v[2], e)
                                                                  ELSE LinkTo(v[2], e)>>)'
        BY DEF FilesThere
    <2>1. Written(v, e) /\ operation[v[1]] \notin {"removing", "ended"} /\ Path(v, e)' = Path(v, e)
        BY <1>6, <1>11, <1>12
    <2>2. /\ Path(v, e) \in DOMAIN files
          /\ ModeOf(Path(v, e)) = (IF LinkTo(v[2], e) = Nothing THEN "file" ELSE "link")
          /\ ~(e = entry[v] /\ at[v] = "write") =>
                node[files[Path(v, e)]].content =
                    <<IF LinkTo(v[2], e) = Nothing THEN Bytes(v[1], v[2], e)
                                                   ELSE LinkTo(v[2], e)>>
        BY <2>1 DEF FilesInv, FilesThere, has
    <2>3. CASE v = w /\ e = entry[w]
        BY <1>1, <1>3, <1>4, <1>8, <1>9, <2>1, <2>2, <2>3 DEF has, ModeOf
    <2>4. CASE ~(v = w /\ e = entry[w])
        <3>1. Path(v, e) # target[w]
            <4>1. PICK m \in TempNames : td[v[1]] = Temp(m)
                BY <2>1, WrittenHasTemp
            <4>2. Path(v, e) \in Prefixes(Path(v, e))
                <5>1. v[2] \in Charts
                    BY DEF Writers
                <5>2. Path(v, e) \in Seq(Names)
                    BY <4>1, <5>1, PathOf, PathParts DEF Paths
                <5> QED BY <5>2, PrefixFacts
            <4>3. ASSUME Path(v, e) = Path(w, entry[w]) PROVE FALSE
                BY <1>2, <1>3, <2>4, <4>1, <4>2, <4>3, OtherPath
            <4> QED BY <1>3, <4>3
        <3>2. e = entry[v] /\ at[v] = "write" => at'[v] = "write"
            BY <1>7, <2>4
        <3> QED BY <1>1, <1>9, <2>1, <2>2, <3>1, <3>2 DEF has, ModeOf
    <2> QED BY <2>3, <2>4
<1>16. OneFile'
    BY <1>1, <1>6, <1>8 DEF FilesInv, OneFile, has
<1>17. Ancestors' /\ Victims' /\ NothingLeft'
    BY <1>1, <1>6 DEF FilesInv, Ancestors, Victims, NothingLeft, has
<1>18. TreeKept'
    BY <1>1, <1>9 DEF FilesInv, TreeKept, has, ModeOf, ChildrenOf
<1> QED BY <1>7, <1>10, <1>13, <1>14, <1>15, <1>16, <1>17, <1>18 DEF FilesInv

\* What RemoveAll removes is its own, and nobody else needs it.
LEMMA RemoveFileKeeps ==
    ASSUME ChartsWellFormed, FilesInv, NEW o \in Ops, RemoveFile(o)
    PROVE  FilesInv'
<1> DEFINE path == victim[o]
<1>1. /\ path # Nothing /\ Delete(path) /\ victim' = [victim EXCEPT ![o] = Nothing]
      /\ UNCHANGED <<operation, td, at, todo, entry, target, file>>
    BY DEF RemoveFile, writerVars
<1>2. /\ operation[o] = "removing" /\ IsPrefix(td[o], path) /\ path \in DOMAIN files
      /\ \A p \in DOMAIN files : path \in Prefixes(p) => p = path
    BY <1>1 DEF FilesInv, Victims, has
<1>3. PICK n \in TempNames : td[o] = Temp(n)
    BY <1>2, HasTemp
<1>4. DOMAIN files \subseteq Seq(Names)
    BY DEF FilesInv, TypeOK, Paths
<1> HIDE DEF path
<1>5. /\ DOMAIN files' = DOMAIN files \ {path} /\ node' = node
      /\ \A p \in DOMAIN files' : files'[p] = files[p]
      /\ Ancestors' /\ TreeKept'
    BY <1>1, <1>2, <1>4, DeleteKeeps DEF FilesInv, Nothing
<1>6. \A v \in Writers : \A e : Path(v, e)' = Path(v, e) /\ (Written(v, e)' <=> Written(v, e))
    BY <1>1 DEF Path, ChartDir, Written
<1>7. ASSUME NEW v \in Writers, NEW e \in Entries(v[2]), operation[v[1]] \notin {"removing", "ended"},
             td[v[1]] # Nothing
      PROVE  Path(v, e) # path
    <2>1. v[1] \in Ops /\ v[2] \in Charts
        BY DEF Writers
    <2>2. PICK m \in TempNames : td[v[1]] = Temp(m)
        BY <1>7, <2>1, HasTemp
    <2>3. Path(v, e) = PathIn(m, v[2], e) /\ Path(v, e) \in Seq(Names)
        BY <2>1, <2>2, PathOf, PathParts DEF Paths
    <2>4. Path(v, e) \in Prefixes(PathIn(m, v[2], e))
        BY <2>3, PrefixFacts
    <2>5. n # m
        BY <1>2, <1>3, <1>7, <2>1, <2>2, HasTemp DEF FilesInv, OwnDirectory
    <2>6. ~IsPrefix(Temp(n), Path(v, e))
        BY <2>1, <2>4, <2>5, TempsApart
    <2> QED BY <1>2, <1>3, <2>6
<1>8. TypeOK'
    <2>1. victim' \in [Ops -> Paths]
        BY <1>1 DEF FilesInv, TypeOK, Paths, Nothing
    <2> QED BY <1>1, <1>5, <2>1 DEF FilesInv, TypeOK
<1>9. OwnDirectory' /\ Joined'
    BY <1>1 DEF FilesInv, OwnDirectory, Joined
<1>10. Writing'
    <2> SUFFICES ASSUME NEW v \in Writers
                 PROVE  /\ at[v] \in {"off", "failed", "done"} => todo[v] = {}
                        /\ at[v] \in Inside => /\ entry[v] \in Entries(v[2]) \ todo[v]
                                               /\ target[v] = Path(v, entry[v])
                        /\ at[v] \in {"mkdir", "stat"} => ~entry[v].vars
                        /\ at[v] = "write" => /\ target[v] \in DOMAIN files'
                                              /\ file[v] = files'[target[v]]
        BY <1>1, <1>6 DEF Writing, has
    <2>1. /\ at[v] \in {"off", "failed", "done"} => todo[v] = {}
          /\ at[v] \in Inside => /\ entry[v] \in Entries(v[2]) \ todo[v]
                                 /\ target[v] = Path(v, entry[v])
          /\ at[v] \in {"mkdir", "stat"} => ~entry[v].vars
          /\ at[v] = "write" => target[v] \in DOMAIN files /\ file[v] = files[target[v]]
        BY DEF FilesInv, Writing, has
    <2>2. ASSUME at[v] = "write" PROVE target[v] # path
        <3>1. operation[v[1]] = "fetching" /\ v[1] \in Ops
            BY <2>2, Active
        <3>2. td[v[1]] # Nothing
            BY <3>1, HasTemp
        <3>3. entry[v] \in Entries(v[2]) /\ target[v] = Path(v, entry[v])
            BY <2>1, <2>2 DEF Inside
        <3> QED BY <1>7, <3>1, <3>2, <3>3
    <2> QED BY <1>5, <2>1, <2>2
<1>11. FilesPlaced'
    <2>1. \A p \in DOMAIN files' :
             \/ /\ node'[files'[p]].mode = "dir"
                /\ \E x \in Ops : td'[x] # Nothing /\ p \in Prefixes(td'[x])
             \/ /\ node'[files'[p]].mode = "dir"
                /\ \E v \in Writers : \E e \in Entries(v[2]) :
                      td'[v[1]] # Nothing /\ p \in Prefixes(Front(Path(v, e)'))
             \/ \E v \in Writers : \E e \in Entries(v[2]) : Written(v, e)' /\ p = Path(v, e)'
        BY <1>1, <1>5, <1>6 DEF FilesInv, FilesPlaced, ModeOf
    <2> QED BY <2>1 DEF FilesPlaced, ModeOf
<1>12. FilesThere'
    <2> SUFFICES ASSUME NEW v \in Writers, NEW e \in Entries(v[2]), Written(v, e)',
                        operation'[v[1]] \notin {"removing", "ended"}
                 PROVE  (/\ has(Path(v, e))
                         /\ ModeOf(Path(v, e)) =
                               (IF LinkTo(v[2], e) = Nothing THEN "file" ELSE "link")
                         /\ ~(e = entry[v] /\ at[v] = "write") =>
                               node[files[Path(v, e)]].content =
                                   <<IF LinkTo(v[2], e) = Nothing THEN Bytes(v[1], v[2], e)
                                                                  ELSE LinkTo(v[2], e)>>)'
        BY DEF FilesThere
    <2>1. Written(v, e) /\ operation[v[1]] \notin {"removing", "ended"} /\ Path(v, e)' = Path(v, e)
        BY <1>1, <1>6
    <2>2. Path(v, e) \in DOMAIN files
        BY <2>1 DEF FilesInv, FilesThere, has
    <2>3. Path(v, e) # path
        <3>1. td[v[1]] # Nothing
            BY <2>1, WrittenHasTemp, TempPath DEF Nothing
        <3> QED BY <1>7, <2>1, <3>1
    <2> QED BY <1>1, <1>5, <2>1, <2>2, <2>3 DEF FilesInv, FilesThere, has, ModeOf
<1>13. OneFile'
    <2>1. ASSUME NEW f \in DOMAIN node
          PROVE  \/ f[1] \in DOMAIN files'
                 \/ \E p \in Ops : operation[p] \in {"removing", "ended"} /\ IsPrefix(td[p], f[1])
        <3>1. CASE f[1] = path
            BY <1>2, <3>1
        <3>2. CASE f[1] # path
            BY <1>5, <3>2 DEF FilesInv, OneFile, has
        <3> QED BY <3>1, <3>2
    <2> QED BY <1>1, <1>5, <2>1 DEF FilesInv, OneFile, has
<1>14. Victims'
    <2> SUFFICES ASSUME NEW p \in Ops, victim'[p] # Nothing
                 PROVE  /\ operation[p] = "removing" /\ IsPrefix(td[p], victim'[p])
                        /\ victim'[p] \in DOMAIN files'
                        /\ \A r \in DOMAIN files' : victim'[p] \in Prefixes(r) => r = victim'[p]
        BY <1>1 DEF Victims, has
    <2>1. p # o /\ victim'[p] = victim[p]
        BY <1>1, TypesOf
    <2>2. /\ operation[p] = "removing" /\ IsPrefix(td[p], victim[p]) /\ victim[p] \in DOMAIN files
          /\ \A r \in DOMAIN files : victim[p] \in Prefixes(r) => r = victim[p]
        BY <2>1 DEF FilesInv, Victims, has
    <2>3. victim[p] # path
        <3>1. PICK m \in TempNames : td[p] = Temp(m)
            BY <2>2, HasTemp
        <3>2. m # n
            BY <1>2, <1>3, <2>1, <3>1, HasTemp DEF FilesInv, OwnDirectory
        <3> QED BY <1>2, <1>3, <1>4, <2>2, <3>1, <3>2, OneTemp DEF Paths
    <2> QED BY <1>5, <2>1, <2>2, <2>3
<1>15. NothingLeft'
    BY <1>1, <1>5 DEF FilesInv, NothingLeft
<1> QED BY <1>5, <1>8, <1>9, <1>10, <1>11, <1>12, <1>13, <1>14, <1>15 DEF FilesInv

-----------------------------------------------------------------------------
(* The invariant                                                            *)

LEMMA InitFilesInv ==
    ASSUME ChartsWellFormed, FilesInit
    PROVE  FilesInv
<1>1. /\ DOMAIN files = {} /\ DOMAIN children = {} /\ DOMAIN node = {}
    BY DEF FilesInit, StorageInit
<1>2. /\ \A o \in Ops : operation[o] = "idle" /\ td[o] = Nothing /\ victim[o] = Nothing
      /\ \A w \in Writers : at[w] = "off" /\ todo[w] = {}
      /\ \A o \in Ops : \A c \in Charts : at[<<o, c>>] = "off"
    BY DEF FilesInit, Writers
<1>3. TypeOK
    <2>1. Nothing \in Paths
        BY DEF Nothing, Paths
    <2> QED BY <1>1, <2>1 DEF FilesInit, TypeOK
<1>4. OwnDirectory /\ Joined /\ Writing
    BY <1>2 DEF OwnDirectory, Joined, Writing, Inside
<1>5. FilesPlaced /\ OneFile /\ Ancestors /\ TreeKept /\ NothingLeft
    BY <1>1 DEF FilesPlaced, OneFile, Ancestors, TreeKept, NothingLeft
<1>6. FilesThere /\ Victims
    BY <1>2 DEF FilesThere, Written, Begun, Inside, Victims
<1> QED BY <1>3, <1>4, <1>5, <1>6 DEF FilesInv

LEMMA NextFilesInv ==
    ASSUME ChartsWellFormed, FilesInv, [FilesNext]_filesVars
    PROVE  FilesInv'
<1>1. ASSUME NEW o \in Ops,
             \/ TempDir(o) \/ FetchReturns(o) \/ Installed(o)
             \/ Check(o) \/ RemoveFile(o) \/ RemoveAllReturns(o)
      PROVE  FilesInv'
    BY <1>1, TempDirKeeps, FetchReturnsKeeps, InstalledKeeps, CheckKeeps, RemoveFileKeeps,
       RemoveAllReturnsKeeps
<1>2. ASSUME NEW w \in Writers, WriterStep(w)
      PROVE  FilesInv'
    BY <1>2, FetchKeeps, ChooseKeeps, FinishKeeps, MakeDirKeeps, StatLinkKeeps, OpenKeeps,
       CreateKeeps, WriteKeeps DEF WriterStep
<1>3. CASE UNCHANGED filesVars
    <2>1. UNCHANGED <<storageVars, files, children, node, operation, td, victim, at, todo, entry, target, file>>
        BY <1>3 DEF filesVars, storageVars, opVars, writerVars
    <2>2. \A w \in Writers : \A e : Written(w, e)' <=> Written(w, e)
        BY <2>1 DEF Written
    <2>3. FilesPlaced' /\ FilesThere' /\ OneFile' /\ Ancestors' /\ TreeKept'
        BY <2>1, <2>2, QuietKeeps
    <2>4. TypeOK' /\ OwnDirectory' /\ Joined'
        BY <2>1 DEF FilesInv, TypeOK, OwnDirectory, Joined
    <2>5. Writing'
        BY <2>1 DEF FilesInv, Writing, has, Path, ChartDir
    <2>6. Victims' /\ NothingLeft'
        BY <2>1 DEF FilesInv, Victims, NothingLeft, has
    <2> QED BY <2>3, <2>4, <2>5, <2>6 DEF FilesInv
<1> QED BY <1>1, <1>2, <1>3 DEF FilesNext

\* What is installed is what has been written, links followed.
LEMMA InvIntact ==
    ASSUME ChartsWellFormed, FilesInv
    PROVE  ChartsIntact
<1> SUFFICES ASSUME NEW o \in Ops, operation[o] = "installing"
             PROVE  /\ \A c \in Charts : \A e \in Entries(c) :
                         LET from == IF ~e.vars /\ Contents[c][e.path] # Nothing
                                     THEN [e EXCEPT !.path = Front(e.path) \o Contents[c][e.path]]
                                     ELSE e
                         IN  Read(Append(td[o], c) \o e.path) = <<Bytes(o, c, from)>>
                    /\ \A p \in DOMAIN files :
                         IsPrefix(td[o], p) /\ ModeOf(p) # "dir" =>
                             \E c \in Charts : \E e \in Entries(c) : p = Append(td[o], c) \o e.path
    BY DEF ChartsIntact
<1>1. PICK n \in TempNames : td[o] = Temp(n)
    BY HasTemp
<1>2. ASSUME NEW c \in Charts, NEW e \in Entries(c)
      PROVE  /\ has(PathIn(n, c, e))
             /\ ModeOf(PathIn(n, c, e)) = (IF LinkTo(c, e) = Nothing THEN "file" ELSE "link")
             /\ node[files[PathIn(n, c, e)]].content =
                   <<IF LinkTo(c, e) = Nothing THEN Bytes(o, c, e) ELSE LinkTo(c, e)>>
    <2>1. PICK w \in Writers : w = <<o, c>> /\ w[1] = o /\ w[2] = c
        <3>1. <<o, c>> \in Writers /\ <<o, c>>[1] = o /\ <<o, c>>[2] = c
            BY DEF Writers
        <3> QED BY <3>1
    <2>2. at[w] = "done"
        BY <2>1 DEF FilesInv, Joined
    <2>3. Written(w, e)
        BY <2>1, <2>2 DEF FilesInv, Writing, Written, Begun
    <2>4. Path(w, e) = PathIn(n, c, e)
        BY <1>1, <2>1, PathOf
    <2> QED BY <2>1, <2>2, <2>3, <2>4 DEF FilesInv, FilesThere
<1>3. ASSUME NEW c \in Charts, NEW e \in Entries(c), NEW from,
             from = IF ~e.vars /\ Contents[c][e.path] # Nothing
                    THEN [e EXCEPT !.path = Front(e.path) \o Contents[c][e.path]] ELSE e
      PROVE  Read(PathIn(n, c, e)) = <<Bytes(o, c, from)>>
    <2>1. CASE LinkTo(c, e) = Nothing
        <3>1. from = e
            BY <1>3, <2>1, EntryPath DEF LinkTo
        <3> QED BY <1>2, <2>1, <3>1 DEF Read
    <2>2. CASE LinkTo(c, e) # Nothing
        <3>1. from = [e EXCEPT !.path = Front(e.path) \o Contents[c][e.path]]
            BY <1>3, <2>2, EntryPath DEF LinkTo
        <3>2. /\ from \in Entries(c) /\ LinkTo(c, from) = Nothing
              /\ Front(PathIn(n, c, e)) \o LinkTo(c, e) = PathIn(n, c, from)
            BY <2>2, <3>1, LinkPath
        <3>3. /\ has(PathIn(n, c, from))
              /\ node[files[PathIn(n, c, from)]].content = <<Bytes(o, c, from)>>
            BY <1>2, <3>2
        <3>4. Target(PathIn(n, c, e)) = PathIn(n, c, from)
            <4>1. PICK to : to = LinkTo(c, e)
                OBVIOUS
            <4>2. node[files[PathIn(n, c, e)]].content = <<to>>
                BY <1>2, <2>2, <4>1
            <4>3. <<to>> # <<>> /\ <<to>>[1] = to
                OBVIOUS
            <4> QED BY <3>2, <4>1, <4>2, <4>3 DEF Target
        <3> QED BY <1>2, <2>2, <3>3, <3>4 DEF Read
    <2> QED BY <2>1, <2>2
<1>4. ASSUME NEW p \in DOMAIN files, IsPrefix(td[o], p), ModeOf(p) # "dir"
      PROVE  \E c \in Charts : \E e \in Entries(c) : p = Append(td[o], c) \o e.path
    <2>1. PICK w \in Writers : \E e \in Entries(w[2]) : Written(w, e) /\ p = Path(w, e)
        BY <1>4 DEF FilesInv, FilesPlaced
    <2>2. PICK e \in Entries(w[2]) : Written(w, e) /\ p = Path(w, e)
        BY <2>1
    <2>3. PICK m \in TempNames : td[w[1]] = Temp(m)
        BY <2>2, WrittenHasTemp
    <2>4. w[1] \in Ops /\ w[2] \in Charts
        BY DEF Writers
    <2>5. p = PathIn(m, w[2], e) /\ p \in Seq(Names)
        BY <2>2, <2>3, PathOf DEF FilesInv, TypeOK, Paths
    <2>6. p \in Prefixes(PathIn(m, w[2], e))
        BY <2>5, PrefixFacts
    <2>7. n = m
        BY <1>1, <1>4, <2>4, <2>6, TempsApart
    <2> QED BY <1>1, <2>4, <2>5, <2>7 DEF PathIn
<1>5. ASSUME NEW c \in Charts, NEW e \in Entries(c)
      PROVE  LET from == IF ~e.vars /\ Contents[c][e.path] # Nothing
                         THEN [e EXCEPT !.path = Front(e.path) \o Contents[c][e.path]] ELSE e
             IN  Read(Append(td[o], c) \o e.path) = <<Bytes(o, c, from)>>
    <2>1. Append(td[o], c) \o e.path = PathIn(n, c, e)
        BY <1>1 DEF PathIn
    <2> QED BY <1>3, <2>1
<1> QED BY <1>4, <1>5

\* Whatever the charts, the operations and their names for directories: while an operation
\* installs, its charts are complete and as GitHub has them, it leaves nothing behind, and the
\* two maps of the file system agree.
THEOREM FilesAreKept == FilesSpec => []FilesKept
<1>1. FilesInit => FilesInv
    BY FilesAssumption, InitFilesInv
<1>2. FilesInv /\ [FilesNext]_filesVars => FilesInv'
    BY FilesAssumption, NextFilesInv
<1>3. FilesInv => FilesKept
    BY FilesAssumption, InvIntact DEF FilesInv, FilesKept
<1> QED BY <1>1, <1>2, <1>3, PTL DEF FilesSpec
=============================================================================
