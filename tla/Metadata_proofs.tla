--------------------------- MODULE Metadata_proofs --------------------------
(* What DataGetter.Get and FetchCharts guarantee, whatever GitHub answers:   *)
(* however deep the dependencies of dependencies are and in whichever order  *)
(* names are replaced (the properties of Metadata), and for any number of    *)
(* goroutines, although they share loc and err (those of ChartFetch).        *)
(*                                                                           *)
(* The invariant of Get is about the calls that are under way, and speaks of *)
(* what is below each of them; GetInv at the end of the module names its     *)
(* parts.  The lemmas are about one call, about the stack of calls, about    *)
(* what has been found (its names, its commits, its order), and at last      *)
(* about the steps.                                                          *)
EXTENDS Metadata, SequenceTheorems, TLAPS

-----------------------------------------------------------------------------
(* Sequences, of whatever elements                                          *)

\* A sequence of some elements
IsSeq(s) == s \in Seq(ToSet(s))

\* A sequence and its set of elements
LEMMA SeqFacts ==
    ASSUME NEW s,
           IsSeq(s)
    PROVE  /\ Len(s) \in Nat /\ DOMAIN s = 1..Len(s)
           /\ \A i \in DOMAIN s : s[i] \in ToSet(s)
           /\ \A x \in ToSet(s) : \E i \in DOMAIN s : x = s[i]
BY DEF IsSeq, ToSet

\* A function on 1..n is a sequence, whatever its values.
LEMMA SeqOfFunction ==
    ASSUME NEW n, NEW f,
           n \in Nat, f = [i \in 1..n |-> f[i]]
    PROVE  IsSeq(f) /\ Len(f) = n /\ DOMAIN f = 1..n
<1> DEFINE S == ToSet(f)
<1>1. DOMAIN f = 1..n
  OBVIOUS
<1>2. \A i \in 1..n : f[i] \in S
  BY <1>1 DEF ToSet
<1> HIDE DEF S
<1>3. f \in [1..n -> S]
  BY <1>2
<1>4. f \in Seq(S)
  BY <1>3
<1>5. Len(f) = n
  BY <1>3, <1>4
<1> QED BY <1>1, <1>4, <1>5 DEF IsSeq, S

\* What Append makes
LEMMA AppendFacts ==
    ASSUME NEW s, NEW e,
           IsSeq(s)
    PROVE  /\ IsSeq(Append(s, e)) /\ Len(Append(s, e)) = Len(s) + 1
           /\ DOMAIN Append(s, e) = DOMAIN s \cup {Len(s) + 1}
           /\ Append(s, e)[Len(s) + 1] = e
           /\ \A i \in DOMAIN s : Append(s, e)[i] = s[i]
           /\ ToSet(Append(s, e)) = ToSet(s) \cup {e}
<1> DEFINE S == ToSet(s) \cup {e}
<1>1. s \in Seq(S) /\ e \in S
  BY DEF IsSeq
<1>2. Append(s, e) \in Seq(S) /\ Len(Append(s, e)) = Len(s) + 1
  BY <1>1
<1>3. Append(s, e)[Len(s)+1] = e /\ \A i \in DOMAIN s : Append(s, e)[i] = s[i]
  BY <1>1
<1>4. DOMAIN Append(s, e) = DOMAIN s \cup {Len(s) + 1}
  BY <1>1, <1>2
<1>5. ToSet(Append(s, e)) = S
  BY <1>3, <1>4 DEF ToSet
<1> QED BY <1>2, <1>3, <1>4, <1>5 DEF IsSeq

\* What the concatenation of two sequences makes
LEMMA ConcatFacts ==
    ASSUME NEW s, NEW t,
           IsSeq(s), IsSeq(t)
    PROVE  /\ IsSeq(s \o t) /\ Len(s \o t) = Len(s) + Len(t)
           /\ \A i \in DOMAIN s : i \in DOMAIN (s \o t) /\ (s \o t)[i] = s[i]
           /\ \A i \in DOMAIN t : /\ Len(s) + i \in DOMAIN (s \o t)
                                  /\ (s \o t)[Len(s) + i] = t[i]
           /\ \A i \in DOMAIN (s \o t) :
                 \/ i \in DOMAIN s
                 \/ i - Len(s) \in DOMAIN t /\ (s \o t)[i] = t[i - Len(s)]
           /\ ToSet(s \o t) = ToSet(s) \cup ToSet(t)
<1> DEFINE S == ToSet(s) \cup ToSet(t)
<1>1. s \in Seq(S) /\ t \in Seq(S)
  BY DEF IsSeq
<1>2. s \o t \in Seq(S) /\ Len(s \o t) = Len(s) + Len(t)
  BY <1>1
<1>0. /\ Len(s) \in Nat /\ Len(t) \in Nat /\ DOMAIN s = 1..Len(s) /\ DOMAIN t = 1..Len(t)
      /\ DOMAIN (s \o t) = 1..(Len(s) + Len(t))
  BY <1>1, <1>2
<1>3. \A i \in DOMAIN s : i \in DOMAIN (s \o t) /\ (s \o t)[i] = s[i]
  BY <1>0, <1>1, <1>2
<1>4. \A i \in DOMAIN t : /\ Len(s) + i \in DOMAIN (s \o t)
                          /\ (s \o t)[Len(s) + i] = t[i]
  BY <1>0, <1>1, <1>2
<1>5. \A i \in DOMAIN (s \o t) :
         \/ i \in DOMAIN s
         \/ i - Len(s) \in DOMAIN t /\ (s \o t)[i] = t[i - Len(s)]
  BY <1>0, <1>1, <1>2
<1>6. ToSet(s \o t) = S
  BY <1>3, <1>4, <1>5 DEF ToSet
<1> QED BY <1>2, <1>3, <1>4, <1>5, <1>6 DEF IsSeq

-----------------------------------------------------------------------------
(* Names: those that are declared, and those that Get makes *)

\* A declared name is not prefixed.
Single(n) == n = <<n[1]>>

\* A prefixed name is a pair,
LEMMA PrefixedIs ==
    ASSUME NEW r, NEW n,
           Single(n)
    PROVE  Prefixed(r, n) = <<r, n[1]>>
<1>1. PICK a : n = <<a>> BY DEF Single
<1>2. n \in Seq({a, r}) /\ <<r>> \in Seq({a, r}) BY <1>1
<1>3. Len(<<r>> \o n) = 2 /\ (<<r>> \o n)[1] = r /\ (<<r>> \o n)[2] = a BY <1>1, <1>2
<1>4. <<r>> \o n \in Seq({a, r}) BY <1>2
<1>5. n[1] = a BY <1>1
<1>6. <<r, a>> \in Seq({a, r}) OBVIOUS
<1>7. Len(<<r, a>>) = 2 /\ <<r, a>>[1] = r /\ <<r, a>>[2] = a OBVIOUS
<1>8. \A i \in 1..2 : i = 1 \/ i = 2 OBVIOUS
<1>9. <<r>> \o n = <<r, a>> BY <1>3, <1>4, <1>6, <1>7, <1>8, SeqEqual
<1> QED BY <1>5, <1>9 DEF Prefixed

\* and tells the repository and the name it was made of.
LEMMA PrefixedFacts ==
    ASSUME NEW r, NEW n,
           Single(n)
    PROVE  /\ Len(Prefixed(r, n)) = 2 /\ Prefixed(r, n)[1] = r
           /\ ~Single(Prefixed(r, n))
           /\ \A q, m : Single(m) /\ Prefixed(r, n) = Prefixed(q, m) => r = q /\ n = m
<1>1. Prefixed(r, n) = <<r, n[1]>>
  BY PrefixedIs
<1>2. Len(<<r, n[1]>>) = 2 /\ <<r, n[1]>>[1] = r /\ <<r, n[1]>>[2] = n[1]
  OBVIOUS
<1>3. ASSUME Single(<<r, n[1]>>) PROVE FALSE
  <2>1. Len(<<<<r, n[1]>>[1]>>) = 1 OBVIOUS
  <2> QED BY <1>2, <1>3, <2>1 DEF Single
<1>4. ASSUME NEW q, NEW m, Single(m), Prefixed(r, n) = Prefixed(q, m)
      PROVE  r = q /\ n = m
  <2>1. <<r, n[1]>> = <<q, m[1]>>
    BY <1>1, <1>4, PrefixedIs
  <2>2. r = q /\ n[1] = m[1]
    BY <2>1
  <2> QED BY <1>4, <2>2 DEF Single
<1> QED BY <1>1, <1>2, <1>3, <1>4

-----------------------------------------------------------------------------
(* The inductive invariant                                                  *)

\* The repositories that have an acyl.yml, and an entry of that
Usable(w) == {r \in DOMAIN w.yaml : w.yaml[r] # None}

Entry(w, e) ==
    /\ DOMAIN e = Fields /\ e.match \in BOOLEAN /\ Single(e.name) /\ IsSeq(e.requires)
    /\ e.kind = "repo" => e.repo \in DOMAIN w.yaml

\* What Get makes of one
Dependency(d) == DOMAIN d = Fields /\ IsSeq(d.requires)

\* Of a repository: the names of what it declares, and those that it requires for it
Siblings(w, r) == NamesOf(w.yaml[r].direct)
Own(w, r) == {Prefixed(r, n) : n \in Siblings(w, r)}

\* What a call goes through, when the list l is processed
DeclaredIn(w, l, c) ==
    IF c.dep.repo = App /\ l = "env" THEN w.yaml[App].env ELSE w.yaml[c.dep.repo].direct

\* The next of it
NextIn(w, l, c) == DeclaredIn(w, l, c)[Len(c.deps) + 1]

\* The names of what a call has gone through, and those that it has replaced
Through(w, l, c) == {DeclaredIn(w, l, c)[i].name : i \in DOMAIN c.deps}
Replaced(w, l, c) == IF c.dep.repo = App THEN {} ELSE Through(w, l, c) \ c.renames

\* A requirement of a dependency of the repository r, when some names have been replaced
New(r, replaced, x) == IF x \in replaced THEN Prefixed(r, x) ELSE x

\* What a dependency requires, when it is made of e, which p declares
RequiresFor(w, p, replaced, e, d) ==
    /\ \A x \in ToSet(e.requires) : New(p.repo, replaced, x) \in ToSet(d.requires)
    /\ \A y \in ToSet(d.requires) :
          \/ \E x \in ToSet(e.requires) : y = New(p.repo, replaced, x)
          \/ d.kind = "repo" /\ y \in Own(w, d.repo)

\* d is made of e, which p declares.
Child(w, p, replaced, e, d) ==
    /\ d.name = IF p.repo = App THEN e.name ELSE Prefixed(p.repo, e.name)
    /\ d.kind = "path" => d.ref = p.ref
    /\ RequiresFor(w, p, replaced, e, d)

\* The branch is that of GetRefForRepo.
Chosen(w, d) ==
    LET branches == w.branches[d.repo]
    IN  /\ d.branch \in branches
        /\ d.match /\ Source \in branches => d.branch = Source
        /\ ~(d.match /\ Source \in branches) /\ d.default \in branches => d.branch = d.default
        /\ d.repo \in w.overrides \/ d.ref = d.branch

\* The dependency d that a call is for, which e declares
HeadOK(w, l, c, e) ==
    LET d == c.dep
    IN  /\ Dependency(d) /\ d.kind = "repo" /\ d.name = e.name /\ d.repo # App /\ Chosen(w, d)
        /\ ToSet(d.requires) = ToSet(e.requires) \cup {Prefixed(d.repo, n) : n \in Through(w, l, c)}

\* A call has gone through a part of what is declared; at the end it replaces names.
CallOK(w, l, known, c) ==
    /\ DOMAIN c = {"dep", "deps", "renames"} /\ IsSeq(c.deps)
    /\ Len(c.deps) <= Len(DeclaredIn(w, l, c)) /\ c.dep.repo \in known
    /\ c.renames \subseteq Through(w, l, c) /\ (c.dep.repo = App => c.renames = {})
    /\ c.dep.repo # App /\ Len(c.deps) < Len(DeclaredIn(w, l, c)) => c.renames = Through(w, l, c)
    /\ \A i \in DOMAIN c.deps :
          /\ Dependency(c.deps[i])
          /\ Child(w, c.dep, Replaced(w, l, c), DeclaredIn(w, l, c)[i], c.deps[i])
          /\ c.dep.repo # App => c.deps[i].parent = c.dep.name

\* A call goes on, or has gone through all, and has replaced all names.
Pends(w, l, c) == Len(c.deps) < Len(DeclaredIn(w, l, c))
Passed(w, l, c) == Len(c.deps) >= Len(DeclaredIn(w, l, c))
Ends(w, l, c) == Passed(w, l, c) /\ c.renames = {}

\* The repositories it depends on are in a set.
ReposIn(c, repos) ==
    \A i \in DOMAIN c.deps : c.deps[i].kind = "repo" => c.deps[i].repo \in repos

\* d is made of the next one that a call goes through.
MadeOf(w, l, c, d) ==
    /\ Dependency(d) /\ d.name = NextIn(w, l, c).name /\ (d.kind = "path" => d.ref = c.dep.ref)
    /\ RequiresFor(w, c.dep, {}, NextIn(w, l, c), d)

\* A call is for the application or for a dependency.
ForDependency(c) == c.dep.repo # App => Dependency(c.dep)

-----------------------------------------------------------------------------
(* One call *)

\* The lists that a call goes through are lists of entries.
LEMMA DeclaredFacts ==
    ASSUME NEW w, NEW l, NEW c,
           WellFormed(w), c.dep.repo \in Usable(w)
    PROVE  /\ IsSeq(DeclaredIn(w, l, c))
           /\ \A i \in DOMAIN DeclaredIn(w, l, c) : Entry(w, DeclaredIn(w, l, c)[i])
<1>1. PICK r \in Usable(w) : DeclaredIn(w, l, c) \in {w.yaml[r].direct, w.yaml[r].env}
  BY DEF DeclaredIn, WellFormed
<1> DEFINE ds == DeclaredIn(w, l, c)
<1>2. /\ ds \in Seq(ToSet(ds))
      /\ \A i \in DOMAIN ds :
            /\ DOMAIN ds[i] = Fields /\ ds[i].match \in BOOLEAN
            /\ ds[i].kind = "repo" => ds[i].repo \in DOMAIN w.yaml
            /\ ds[i].name = <<ds[i].name[1]>>
            /\ ds[i].requires \in Seq(ToSet(ds[i].requires))
  BY <1>1 DEF Usable, WellFormed
<1> QED BY <1>2 DEF IsSeq, Entry, Single

\* Where the dependency goes that one of a call's has been made
Placed(c, d) ==
    IF c.dep.repo = App THEN d
    ELSE [d EXCEPT !.name = Prefixed(c.dep.repo, d.name), !.parent = c.dep.name]

\* A dependency keeps all but its name and its parent, when it is placed.
LEMMA PlacedFacts ==
    ASSUME NEW c, NEW d,
           Dependency(d)
    PROVE  /\ Dependency(Placed(c, d))
           /\ Placed(c, d).kind = d.kind /\ Placed(c, d).repo = d.repo
           /\ Placed(c, d).ref = d.ref /\ Placed(c, d).branch = d.branch
           /\ Placed(c, d).match = d.match /\ Placed(c, d).default = d.default
           /\ Placed(c, d).requires = d.requires
           /\ Placed(c, d).name = IF c.dep.repo = App THEN d.name ELSE Prefixed(c.dep.repo, d.name)
           /\ c.dep.repo # App => Placed(c, d).parent = c.dep.name
BY DEF Placed, Fields, Dependency

\* What a call is, when a dependency has been added to it
LEMMA AddFacts ==
    ASSUME NEW c, NEW d,
           DOMAIN c = {"dep", "deps", "renames"}, ForDependency(c)
    PROVE  /\ DOMAIN Add(c, d) = {"dep", "deps", "renames"}
           /\ Add(c, d).deps = Append(c.deps, Placed(c, d))
           /\ c.dep.repo = App => Add(c, d).dep = c.dep /\ Add(c, d).renames = c.renames
           /\ c.dep.repo # App =>
                 /\ Dependency(Add(c, d).dep)
                 /\ Add(c, d).renames = c.renames \cup {d.name}
                 /\ \A f \in Fields \ {"requires"} : Add(c, d).dep[f] = c.dep[f]
                 /\ ToSet(Add(c, d).dep.requires) =
                       ToSet(c.dep.requires) \cup {Prefixed(c.dep.repo, d.name)}
<1> USE DEF ForDependency
<1>1. CASE c.dep.repo = App
  BY <1>1 DEF Add, Placed
<1>2. CASE c.dep.repo # App
  <2> DEFINE name == Prefixed(c.dep.repo, d.name)
             p    == [c.dep EXCEPT !.requires = Append(@, name)]
  <2> HIDE DEF name
  <2>1. /\ DOMAIN p = Fields /\ p.requires = Append(c.dep.requires, name)
        /\ \A f \in Fields \ {"requires"} : p[f] = c.dep[f]
    BY <1>2 DEF Fields, Dependency
  <2>2. Add(c, d) = [dep |-> p, deps |-> Append(c.deps, Placed(c, d)),
                     renames |-> c.renames \cup {d.name}]
    BY <1>2 DEF Add, Placed, name
  <2>3. IsSeq(p.requires) /\ ToSet(p.requires) = ToSet(c.dep.requires) \cup {name}
    BY <1>2, <2>1, AppendFacts DEF Dependency
  <2> HIDE DEF p
  <2>4. /\ Add(c, d).dep = p /\ Add(c, d).deps = Append(c.deps, Placed(c, d))
        /\ Add(c, d).renames = c.renames \cup {d.name}
        /\ DOMAIN Add(c, d) = {"dep", "deps", "renames"}
    BY <2>2
  <2> HIDE <2>2
  <2> QED BY <1>2, <2>1, <2>3, <2>4 DEF name, Dependency
<1> QED BY <1>1, <1>2

\* A call stays good, when what was made of its next entry is added to it,
LEMMA AddKeepsCall ==
    ASSUME NEW w, NEW l, NEW known, NEW c, NEW d,
           WellFormed(w), known \subseteq Usable(w), CallOK(w, l, known, c),
           Pends(w, l, c), ForDependency(c), MadeOf(w, l, c, d)
    PROVE  /\ CallOK(w, l, known, Add(c, d))
           /\ Add(c, d).dep.repo = c.dep.repo /\ Add(c, d).dep.ref = c.dep.ref
           /\ Through(w, l, Add(c, d)) = Through(w, l, c) \cup {d.name}
           /\ ToSet(Add(c, d).deps) = ToSet(c.deps) \cup {Placed(c, d)}
           /\ Len(Add(c, d).deps) = Len(c.deps) + 1
<1> DEFINE c2 == Add(c, d)
           ds == DeclaredIn(w, l, c)
           e  == NextIn(w, l, c)
<1>0. /\ Len(c.deps) < Len(DeclaredIn(w, l, c)) /\ (c.dep.repo # App => Dependency(c.dep))
      /\ Dependency(d) /\ d.name = e.name /\ (d.kind = "path" => d.ref = c.dep.ref)
      /\ RequiresFor(w, c.dep, {}, e, d)
  BY DEF Pends, ForDependency, MadeOf
<1>1. /\ DOMAIN c2 = {"dep", "deps", "renames"}
      /\ c2.deps = Append(c.deps, Placed(c, d))
      /\ c.dep.repo = App => c2.dep = c.dep /\ c2.renames = c.renames
      /\ c.dep.repo # App =>
            /\ c2.renames = c.renames \cup {d.name}
            /\ \A f \in Fields \ {"requires"} : c2.dep[f] = c.dep[f]
  <2>1. DOMAIN c = {"dep", "deps", "renames"}
    BY DEF CallOK
  <2> QED BY <2>1, AddFacts
<1>2. c2.dep.repo = c.dep.repo /\ c2.dep.ref = c.dep.ref
      /\ (c.dep.repo # App => c2.dep.name = c.dep.name)
  BY <1>1 DEF Fields
<1>3. /\ IsSeq(c.deps) /\ c.dep.repo \in Usable(w)
      /\ c.renames \subseteq Through(w, l, c) /\ (c.dep.repo = App => c.renames = {})
      /\ c.dep.repo # App => c.renames = Through(w, l, c)
  BY <1>0 DEF CallOK
<1> HIDE DEF c2
<1>4. /\ IsSeq(c2.deps) /\ Len(c2.deps) = Len(c.deps) + 1
      /\ DOMAIN c2.deps = DOMAIN c.deps \cup {Len(c.deps) + 1}
      /\ c2.deps[Len(c.deps) + 1] = Placed(c, d)
      /\ \A i \in DOMAIN c.deps : c2.deps[i] = c.deps[i]
      /\ ToSet(c2.deps) = ToSet(c.deps) \cup {Placed(c, d)}
  BY <1>1, <1>3, AppendFacts
<1>5. DeclaredIn(w, l, c2) = ds
  BY <1>2 DEF DeclaredIn
<1>6. IsSeq(ds)
  BY <1>3, DeclaredFacts
<1>7. Through(w, l, c2) = Through(w, l, c) \cup {d.name}
  BY <1>0, <1>4, <1>5 DEF Through, NextIn
<1>8. Replaced(w, l, c) = {} /\ Replaced(w, l, c2) = {}
  BY <1>0, <1>1, <1>2, <1>3, <1>7 DEF Replaced
<1>9. ASSUME NEW i \in DOMAIN c2.deps
      PROVE  /\ Dependency(c2.deps[i])
             /\ Child(w, c2.dep, {}, ds[i], c2.deps[i])
             /\ c2.dep.repo # App => c2.deps[i].parent = c2.dep.name
  <2>1. CASE i \in DOMAIN c.deps
    <3>1. /\ Dependency(c.deps[i]) /\ Child(w, c.dep, {}, ds[i], c.deps[i])
          /\ c.dep.repo # App => c.deps[i].parent = c.dep.name
      BY <1>8, <2>1 DEF CallOK
    <3> QED BY <1>2, <1>4, <2>1, <3>1 DEF Child, RequiresFor
  <2>2. CASE i = Len(c.deps) + 1
    <3> DEFINE d2 == Placed(c, d)
    <3>1. /\ Dependency(d2) /\ d2.kind = d.kind /\ d2.repo = d.repo /\ d2.ref = d.ref
          /\ d2.requires = d.requires
          /\ d2.name = IF c.dep.repo = App THEN d.name ELSE Prefixed(c.dep.repo, d.name)
          /\ c.dep.repo # App => d2.parent = c.dep.name
      BY <1>0, PlacedFacts
    <3> HIDE DEF d2
    <3>2. Child(w, c2.dep, {}, e, d2)
      BY <1>0, <1>2, <3>1 DEF Child, RequiresFor
    <3> QED BY <1>2, <1>4, <2>2, <3>1, <3>2 DEF d2, NextIn
  <2> QED BY <1>4, <2>1, <2>2
<1>10. Len(c2.deps) <= Len(ds)
  BY <1>0, <1>3, <1>4, <1>6, SeqFacts
<1>11. /\ c2.dep.repo # App => c2.renames = Through(w, l, c2)
       /\ c2.dep.repo = App => c2.renames = {}
  BY <1>1, <1>2, <1>3, <1>7
<1>12. c2.dep.repo \in known
  BY <1>2 DEF CallOK
<1>13. CallOK(w, l, known, c2)
  BY <1>1, <1>4, <1>5, <1>8, <1>9, <1>10, <1>11, <1>12 DEF CallOK
<1> QED BY <1>2, <1>4, <1>7, <1>13 DEF c2

\* and so does the dependency that it is for.
LEMMA AddKeepsHead ==
    ASSUME NEW w, NEW l, NEW known, NEW c, NEW e0, NEW d,
           CallOK(w, l, known, c), HeadOK(w, l, c, e0),
           Through(w, l, Add(c, d)) = Through(w, l, c) \cup {d.name}
    PROVE  HeadOK(w, l, Add(c, d), e0)
<1> DEFINE c2 == Add(c, d)
<1>1. /\ Dependency(c2.dep)
      /\ \A f \in Fields \ {"requires"} : c2.dep[f] = c.dep[f]
      /\ ToSet(c2.dep.requires) = ToSet(c.dep.requires) \cup {Prefixed(c.dep.repo, d.name)}
  <2>1. c.dep.repo # App /\ Dependency(c.dep)
    BY DEF HeadOK
  <2>2. DOMAIN c = {"dep", "deps", "renames"}
    BY DEF CallOK
  <2> QED BY <2>1, <2>2, AddFacts DEF ForDependency
<1> HIDE DEF c2
<1>2. /\ c2.dep.kind = c.dep.kind /\ c2.dep.name = c.dep.name /\ c2.dep.repo = c.dep.repo
      /\ c2.dep.branch = c.dep.branch /\ c2.dep.match = c.dep.match
      /\ c2.dep.default = c.dep.default /\ c2.dep.ref = c.dep.ref
  BY <1>1 DEF Fields
<1>3. Chosen(w, c2.dep)
  BY <1>2 DEF HeadOK, Chosen
<1>4. {Prefixed(c2.dep.repo, n) : n \in Through(w, l, c2)} =
        {Prefixed(c.dep.repo, n) : n \in Through(w, l, c)} \cup {Prefixed(c.dep.repo, d.name)}
  BY <1>2 DEF c2
<1> QED BY <1>1, <1>2, <1>3, <1>4 DEF HeadOK, c2

\* after is before, with new in the place of old.
Substituted(before, old, new, after) ==
    /\ \A y \in before : (IF y = old THEN new ELSE y) \in after
    /\ \A z \in after : \E y \in before : z = IF y = old THEN new ELSE y

\* renameRequires changes nothing but requirements, and the old name in these.
LEMMA RenamedFacts ==
    ASSUME NEW ds, NEW old, NEW new,
           IsSeq(ds), \A i \in DOMAIN ds : Dependency(ds[i])
    PROVE  /\ IsSeq(Renamed(ds, old, new)) /\ Len(Renamed(ds, old, new)) = Len(ds)
           /\ DOMAIN Renamed(ds, old, new) = DOMAIN ds
           /\ \A i \in DOMAIN ds :
                 /\ Dependency(Renamed(ds, old, new)[i])
                 /\ \A f \in Fields \ {"requires"} : Renamed(ds, old, new)[i][f] = ds[i][f]
                 /\ Substituted(ToSet(ds[i].requires), old, new,
                                ToSet(Renamed(ds, old, new)[i].requires))
<1> DEFINE rs == Renamed(ds, old, new)
           Replace(q) == [j \in DOMAIN q |-> IF q[j] = old THEN new ELSE q[j]]
<1>1. rs = [i \in DOMAIN ds |-> [ds[i] EXCEPT !.requires = Replace(ds[i].requires)]]
  BY Zenon DEF Renamed
<1>2. Len(ds) \in Nat /\ DOMAIN ds = 1..Len(ds)
  BY SeqFacts
<1> HIDE DEF rs
<1>3. IsSeq(rs) /\ Len(rs) = Len(ds) /\ DOMAIN rs = DOMAIN ds
  <2>1. rs = [i \in 1..Len(ds) |-> rs[i]]
    BY <1>1, <1>2
  <2> QED BY <1>2, <2>1, SeqOfFunction
<1>4. ASSUME NEW i \in DOMAIN ds
      PROVE  /\ Dependency(rs[i])
             /\ \A f \in Fields \ {"requires"} : rs[i][f] = ds[i][f]
             /\ Substituted(ToSet(ds[i].requires), old, new, ToSet(rs[i].requires))
  <2> DEFINE q == ds[i].requires
  <2>1. DOMAIN ds[i] = Fields /\ IsSeq(q)
    BY DEF Dependency
  <2> HIDE DEF q
  <2>2. rs[i] = [ds[i] EXCEPT !.requires = Replace(q)]
    BY <1>1 DEF q
  <2>3. Len(q) \in Nat /\ DOMAIN q = 1..Len(q)
    BY <2>1, SeqFacts
  <2>4. IsSeq(Replace(q))
    <3> DEFINE u == Replace(q)
    <3>1. u = [j \in 1..Len(q) |-> u[j]]
      BY <2>3
    <3> HIDE DEF u
    <3>2. IsSeq(u)
      BY <2>3, <3>1, SeqOfFunction
    <3> QED BY <3>2 DEF u
  <2>5. Substituted(ToSet(q), old, new, ToSet(Replace(q)))
    BY DEF ToSet, Substituted
  <2> HIDE DEF Replace
  <2>6. /\ DOMAIN rs[i] = Fields /\ rs[i].requires = Replace(q)
        /\ \A f \in Fields \ {"requires"} : rs[i][f] = ds[i][f]
    BY <2>1, <2>2 DEF Fields
  <2> QED BY <2>4, <2>5, <2>6 DEF q, Dependency
<1>5. \A i \in DOMAIN ds :
         /\ Dependency(rs[i])
         /\ \A f \in Fields \ {"requires"} : rs[i][f] = ds[i][f]
         /\ Substituted(ToSet(ds[i].requires), old, new, ToSet(rs[i].requires))
  BY <1>4, Zenon
<1> QED BY <1>3, <1>5, Zenon DEF rs

\* The names that a repository declares are not prefixed,
LEMMA SiblingsAreSingle ==
    ASSUME NEW w, NEW r,
           WellFormed(w), r \in Usable(w)
    PROVE  \A n \in Siblings(w, r) : Single(n)
<1> DEFINE ds == w.yaml[r].direct
<1>1. \A i \in DOMAIN ds : ds[i].name = <<ds[i].name[1]>>
  BY DEF WellFormed, Usable
<1> HIDE DEF ds
<1>2. Siblings(w, r) = {ds[i].name : i \in DOMAIN ds}
  BY DEF Siblings, NamesOf, ds
<1> QED BY <1>1, <1>2 DEF Single

\* and those that are made of them are.
LEMMA OwnAreNot ==
    ASSUME NEW w, NEW r,
           WellFormed(w), r \in Usable(w)
    PROVE  \A y \in Own(w, r) : ~Single(y)
BY SiblingsAreSingle, PrefixedFacts DEF Own

\* A call has gone through names that its repository declares; at the end through all.
LEMMA ThroughAreSiblings ==
    ASSUME NEW w, NEW l, NEW known, NEW c,
           WellFormed(w), known \subseteq Usable(w), CallOK(w, l, known, c)
    PROVE  /\ \A n \in Through(w, l, c) : Single(n)
           /\ c.dep.repo # App => Through(w, l, c) \subseteq Siblings(w, c.dep.repo)
           /\ c.dep.repo # App /\ Len(c.deps) >= Len(DeclaredIn(w, l, c))
                 => Through(w, l, c) = Siblings(w, c.dep.repo)
<1> DEFINE ds == DeclaredIn(w, l, c)
<1>1. /\ c.dep.repo \in Usable(w) /\ IsSeq(c.deps) /\ Len(c.deps) <= Len(ds)
  BY DEF CallOK
<1>2. IsSeq(ds) /\ \A i \in DOMAIN ds : Entry(w, ds[i])
  BY <1>1, DeclaredFacts
<1>3. /\ Len(ds) \in Nat /\ DOMAIN ds = 1..Len(ds)
      /\ Len(c.deps) \in Nat /\ DOMAIN c.deps = 1..Len(c.deps)
  BY <1>1, <1>2, SeqFacts
<1>4. DOMAIN c.deps \subseteq DOMAIN ds /\ (Len(c.deps) >= Len(ds) => DOMAIN c.deps = DOMAIN ds)
  BY <1>1, <1>3
<1>5. c.dep.repo # App => ds = w.yaml[c.dep.repo].direct
  BY DEF DeclaredIn
<1> HIDE DEF ds
<1>6. Through(w, l, c) = {ds[i].name : i \in DOMAIN c.deps}
  BY DEF Through, ds
<1>7. \A n \in Through(w, l, c) : Single(n)
  BY <1>2, <1>4, <1>6 DEF Entry
<1>8. c.dep.repo # App => Siblings(w, c.dep.repo) = {ds[i].name : i \in DOMAIN ds}
  BY <1>5 DEF Siblings, NamesOf
<1> QED BY <1>4, <1>6, <1>7, <1>8 DEF ds

\* One more name is replaced in what a dependency requires.
LEMMA RenameKeepsRequires ==
    ASSUME NEW w, NEW p, NEW e, NEW d, NEW d2, NEW replaced, NEW old,
           WellFormed(w), \A x \in replaced : Single(x), Single(old), old \notin replaced,
           d.kind = "repo" => d.repo \in Usable(w), RequiresFor(w, p, replaced, e, d),
           d2.kind = d.kind, d2.repo = d.repo,
           Substituted(ToSet(d.requires), old, Prefixed(p.repo, old), ToSet(d2.requires))
    PROVE  RequiresFor(w, p, replaced \cup {old}, e, d2)
<1> DEFINE after == replaced \cup {old}
<1>1. ASSUME NEW x \in ToSet(e.requires) PROVE New(p.repo, after, x) \in ToSet(d2.requires)
  <2>1. New(p.repo, replaced, x) \in ToSet(d.requires)
    BY DEF RequiresFor
  <2>2. CASE x = old
    BY <2>1, <2>2 DEF New, Substituted
  <2>3. CASE x # old
    <3>1. New(p.repo, after, x) = New(p.repo, replaced, x)
      BY <2>3 DEF New
    <3>2. New(p.repo, replaced, x) # old
      BY <2>3, PrefixedFacts DEF New
    <3> QED BY <2>1, <3>1, <3>2 DEF Substituted
  <2> QED BY <2>2, <2>3
<1>2. ASSUME NEW y2 \in ToSet(d2.requires)
      PROVE  \/ \E x \in ToSet(e.requires) : y2 = New(p.repo, after, x)
             \/ d2.kind = "repo" /\ y2 \in Own(w, d2.repo)
  <2>1. PICK y \in ToSet(d.requires) : y2 = IF y = old THEN Prefixed(p.repo, old) ELSE y
    BY DEF Substituted
  <2>2. CASE \E x \in ToSet(e.requires) : y = New(p.repo, replaced, x)
    <3>1. PICK x \in ToSet(e.requires) : y = New(p.repo, replaced, x)
      BY <2>2
    <3>2. CASE x \in replaced
      <4>1. y = Prefixed(p.repo, x) /\ y # old
        BY <3>1, <3>2, PrefixedFacts DEF New
      <4> QED BY <2>1, <3>2, <4>1 DEF New
    <3>3. CASE x \notin replaced
      BY <2>1, <3>1, <3>3 DEF New
    <3> QED BY <3>2, <3>3
  <2>3. CASE d.kind = "repo" /\ y \in Own(w, d.repo)
    <3>1. y # old
      BY <2>3, OwnAreNot
    <3> QED BY <2>1, <2>3, <3>1
  <2> QED BY <2>2, <2>3 DEF RequiresFor
<1> QED BY <1>1, <1>2 DEF RequiresFor

\* A call stays good, when renameRequires replaces one of its names.
LEMMA RenameKeepsCall ==
    ASSUME NEW w, NEW l, NEW known, NEW c, NEW old,
           WellFormed(w), known \subseteq Usable(w), CallOK(w, l, known, c),
           Passed(w, l, c), old \in c.renames, ReposIn(c, Usable(w))
    PROVE  /\ CallOK(w, l, known, Replacing(c, old))
           /\ Replacing(c, old).dep = c.dep
           /\ Through(w, l, Replacing(c, old)) = Through(w, l, c)
           /\ Len(Replacing(c, old).deps) = Len(c.deps)
           /\ DOMAIN Replacing(c, old).deps = DOMAIN c.deps
           /\ \A i \in DOMAIN c.deps :
                 /\ Dependency(Replacing(c, old).deps[i])
                 /\ \A f \in Fields \ {"requires"} : Replacing(c, old).deps[i][f] = c.deps[i][f]
                 /\ \A y \in ToSet(c.deps[i].requires) :
                       ~Single(y) => y \in ToSet(Replacing(c, old).deps[i].requires)
<1> DEFINE c2 == Replacing(c, old)
           ds == DeclaredIn(w, l, c)
           rs == Renamed(c.deps, old, Prefixed(c.dep.repo, old))
<1>0. /\ DOMAIN c = {"dep", "deps", "renames"} /\ IsSeq(c.deps)
      /\ Len(c.deps) <= Len(ds) /\ c.dep.repo \in known
      /\ Len(c.deps) >= Len(ds)
      /\ c.renames \subseteq Through(w, l, c) /\ c.dep.repo # App
      /\ \A i \in DOMAIN c.deps : c.deps[i].kind = "repo" => c.deps[i].repo \in Usable(w)
      /\ \A i \in DOMAIN c.deps :
            /\ Dependency(c.deps[i])
            /\ Child(w, c.dep, Replaced(w, l, c), ds[i], c.deps[i])
            /\ c.deps[i].parent = c.dep.name
  BY DEF CallOK, Passed, ReposIn
<1> HIDE DEF rs, ds
<1>1. /\ DOMAIN c2 = {"dep", "deps", "renames"} /\ c2.dep = c.dep
      /\ c2.deps = rs /\ c2.renames = c.renames \ {old}
  BY <1>0 DEF Replacing, rs
<1>2. /\ IsSeq(rs) /\ Len(rs) = Len(c.deps) /\ DOMAIN rs = DOMAIN c.deps
      /\ \A i \in DOMAIN c.deps :
            /\ Dependency(rs[i])
            /\ \A f \in Fields \ {"requires"} : rs[i][f] = c.deps[i][f]
            /\ Substituted(ToSet(c.deps[i].requires), old, Prefixed(c.dep.repo, old),
                           ToSet(rs[i].requires))
  BY <1>0, RenamedFacts DEF rs
<1> HIDE DEF c2
<1>3. DeclaredIn(w, l, c2) = ds
  BY <1>1 DEF DeclaredIn, ds
<1>4. Through(w, l, c2) = Through(w, l, c)
  BY <1>1, <1>2, <1>3 DEF Through, ds
<1>5. (\A n \in Through(w, l, c) : Single(n)) /\ Single(old)
  <2>1. \A n \in Through(w, l, c) : Single(n)
    BY ThroughAreSiblings
  <2> QED BY <1>0, <2>1
<1>6. /\ Replaced(w, l, c2) = Replaced(w, l, c) \cup {old} /\ old \notin Replaced(w, l, c)
      /\ \A x \in Replaced(w, l, c) : Single(x)
  BY <1>0, <1>1, <1>4, <1>5 DEF Replaced
<1>7. ASSUME NEW i \in DOMAIN c.deps
      PROVE  /\ Dependency(rs[i])
             /\ Child(w, c.dep, Replaced(w, l, c2), ds[i], rs[i])
             /\ rs[i].parent = c.dep.name
  <2>1. /\ rs[i].name = c.deps[i].name /\ rs[i].kind = c.deps[i].kind
        /\ rs[i].repo = c.deps[i].repo /\ rs[i].ref = c.deps[i].ref
        /\ rs[i].parent = c.deps[i].parent
    BY <1>2 DEF Fields
  <2>2. RequiresFor(w, c.dep, Replaced(w, l, c), ds[i], c.deps[i])
    BY <1>0 DEF Child
  <2>3. RequiresFor(w, c.dep, Replaced(w, l, c2), ds[i], rs[i])
    BY <1>0, <1>2, <1>5, <1>6, <2>1, <2>2, RenameKeepsRequires
  <2> QED BY <1>0, <1>2, <2>1, <2>3 DEF Child
<1>8. CallOK(w, l, known, c2)
  BY <1>0, <1>1, <1>2, <1>3, <1>4, <1>7 DEF CallOK, ds
<1>9. ASSUME NEW i \in DOMAIN c.deps, NEW y \in ToSet(c.deps[i].requires), ~Single(y)
      PROVE  y \in ToSet(rs[i].requires)
  <2>1. y # old
    BY <1>5, <1>9
  <2> QED BY <1>2, <2>1 DEF Substituted
<1> QED BY <1>1, <1>2, <1>4, <1>8, <1>9 DEF c2

-----------------------------------------------------------------------------
(* The calls, one for the other *)

\* The repositories that are being processed, and as dependencies, without the application
Busy(cs) == {cs[k].dep.repo : k \in DOMAIN cs}
Heads(cs) == {cs[k].dep : k \in DOMAIN cs \ {1}}

\* What has been found, when fin has been finished
Found(cs, fin) == fin \cup UNION {ToSet(cs[k].deps) : k \in DOMAIN cs}

\* Call c2 is for the next dependency of c.
Follows(w, l, c, c2) ==
    /\ Len(c.deps) < Len(DeclaredIn(w, l, c))
    /\ HeadOK(w, l, c2, NextIn(w, l, c))

\* The last call
Top(cs) == cs[Len(cs)]

\* Each call is for the next dependency of the one before, and no two for one repository.
CallsInv(w, l, known, cs) ==
    /\ IsSeq(cs) /\ cs # <<>> /\ cs[1].dep = Application
    /\ \A k \in DOMAIN cs : CallOK(w, l, known, cs[k])
    /\ \A k \in DOMAIN cs : k > 1 => Follows(w, l, cs[k - 1], cs[k])
    /\ \A j, k \in DOMAIN cs : cs[j].dep.repo = cs[k].dep.repo => j = k

\* The loop of Get is a call for the triggering repository.
LEMMA ApplicationRepo == Application.repo = App
BY DEF Application

\* A sequence that is not empty has a last element.
LEMMA NotEmpty ==
    ASSUME NEW cs,
           IsSeq(cs), cs # <<>>
    PROVE  Len(cs) \in Nat \ {0} /\ DOMAIN cs = 1..Len(cs) /\ Len(cs) \in DOMAIN cs
BY DEF IsSeq

\* Only the first call is for the application.
LEMMA CallsFacts ==
    ASSUME NEW w, NEW l, NEW known, NEW cs,
           CallsInv(w, l, known, cs)
    PROVE  /\ Len(cs) \in Nat \ {0} /\ DOMAIN cs = 1..Len(cs) /\ Len(cs) \in DOMAIN cs
           /\ App \in Busy(cs)
           /\ \A k \in DOMAIN cs : /\ CallOK(w, l, known, cs[k])
                                   /\ cs[k].dep.repo # App <=> k # 1
                                   /\ k = 1 => cs[k].dep = Application
                                   /\ k # 1 => Dependency(cs[k].dep) /\ cs[k].dep.kind = "repo"
<1>1. Len(cs) \in Nat \ {0} /\ DOMAIN cs = 1..Len(cs) /\ Len(cs) \in DOMAIN cs
  BY NotEmpty DEF CallsInv
<1>2. 1 \in DOMAIN cs /\ cs[1].dep = Application /\ cs[1].dep.repo = App
  BY <1>1, ApplicationRepo DEF CallsInv
<1>3. ASSUME NEW k \in DOMAIN cs, k # 1
      PROVE  Dependency(cs[k].dep) /\ cs[k].dep.kind = "repo" /\ cs[k].dep.repo # App
  <2>1. k > 1
    BY <1>1, <1>3
  <2> QED BY <2>1 DEF CallsInv, Follows, HeadOK
<1>4. \A k \in DOMAIN cs : CallOK(w, l, known, cs[k])
  BY DEF CallsInv
<1>5. App \in Busy(cs)
  BY <1>2 DEF Busy
<1> QED BY <1>1, <1>2, <1>3, <1>4, <1>5

\* What is known of the last call
LEMMA TopCall ==
    ASSUME NEW w, NEW l, NEW known, NEW cs,
           CallsInv(w, l, known, cs)
    PROVE  /\ Top(cs) = cs[Len(cs)] /\ Len(cs) \in DOMAIN cs
           /\ CallOK(w, l, known, Top(cs))
           /\ Len(cs) = 1 => Top(cs).dep = Application
           /\ Len(cs) # 1 <=> Top(cs).dep.repo # App
           /\ Len(cs) # 1 => Dependency(Top(cs).dep) /\ Top(cs).dep.kind = "repo"
<1>1. Top(cs) = cs[Len(cs)] /\ Len(cs) \in DOMAIN cs
  BY CallsFacts DEF Top
<1> DEFINE n == Len(cs)
<1>2. \A k \in DOMAIN cs : /\ CallOK(w, l, known, cs[k])
                           /\ cs[k].dep.repo # App <=> k # 1
                           /\ k = 1 => cs[k].dep = Application
                           /\ k # 1 => Dependency(cs[k].dep) /\ cs[k].dep.kind = "repo"
  BY CallsFacts
<1> HIDE DEF n
<1>3. Top(cs) = cs[n] /\ n \in DOMAIN cs
  BY <1>1 DEF n
<1> QED BY <1>1, <1>2, <1>3 DEF n

\* The last call is replaced.
WithTop(cs, c2) == [cs EXCEPT ![Len(cs)] = c2]

\* What becomes of the calls when the last is replaced by one for the same repository
LEMMA TopFacts ==
    ASSUME NEW cs, NEW c2,
           IsSeq(cs), cs # <<>>, c2.dep.repo = Top(cs).dep.repo
    PROVE  /\ IsSeq(WithTop(cs, c2)) /\ WithTop(cs, c2) # <<>>
           /\ Len(WithTop(cs, c2)) = Len(cs) /\ DOMAIN WithTop(cs, c2) = DOMAIN cs
           /\ WithTop(cs, c2)[Len(cs)] = c2
           /\ \A k \in DOMAIN cs : k # Len(cs) => WithTop(cs, c2)[k] = cs[k]
           /\ Busy(WithTop(cs, c2)) = Busy(cs)
           /\ \A fin : /\ Found(WithTop(cs, c2), fin) \subseteq Found(cs, fin) \cup ToSet(c2.deps)
                       /\ Found(cs, fin) \subseteq Found(WithTop(cs, c2), fin) \cup ToSet(Top(cs).deps)
                       /\ ToSet(c2.deps) \subseteq Found(WithTop(cs, c2), fin)
                       /\ ToSet(Top(cs).deps) \subseteq Found(cs, fin)
           /\ Len(cs) = 1 => Heads(WithTop(cs, c2)) = {} /\ Heads(cs) = {}
           /\ Len(cs) # 1 => /\ Heads(WithTop(cs, c2)) \subseteq Heads(cs) \cup {c2.dep}
                             /\ Heads(cs) \subseteq Heads(WithTop(cs, c2)) \cup {Top(cs).dep}
                             /\ c2.dep \in Heads(WithTop(cs, c2)) /\ Top(cs).dep \in Heads(cs)
<1> DEFINE n == Len(cs)
           cs2 == WithTop(cs, c2)
           c == Top(cs)
<1>1. n \in Nat \ {0} /\ DOMAIN cs = 1..n /\ n \in DOMAIN cs
  BY NotEmpty
<1>2. DOMAIN cs2 = 1..n /\ cs2[n] = c2 /\ \A k \in DOMAIN cs : k # n => cs2[k] = cs[k]
  BY <1>1 DEF WithTop
<1>3. cs2 = [k \in 1..n |-> cs2[k]]
  <2> HIDE DEF cs2
  <2> QED BY <1>1, <1>2 DEF WithTop, cs2
<1>4. IsSeq(cs2) /\ Len(cs2) = n
  BY <1>1, <1>3, SeqOfFunction
<1>5. Len(<<>>) = 0
  OBVIOUS
<1>6. cs2 # <<>>
  BY <1>1, <1>4, <1>5
<1>0. c = cs[n]
  BY DEF Top
<1> HIDE DEF n, cs2, c
<1>7. Busy(cs2) = Busy(cs)
  BY <1>0, <1>1, <1>2 DEF Busy, c
<1>8. ASSUME NEW fin
      PROVE  /\ Found(cs2, fin) \subseteq Found(cs, fin) \cup ToSet(c2.deps)
             /\ Found(cs, fin) \subseteq Found(cs2, fin) \cup ToSet(c.deps)
             /\ ToSet(c2.deps) \subseteq Found(cs2, fin)
             /\ ToSet(c.deps) \subseteq Found(cs, fin)
  BY <1>0, <1>1, <1>2 DEF Found
<1>9. /\ n = 1 => Heads(cs2) = {} /\ Heads(cs) = {}
      /\ n # 1 => /\ Heads(cs2) \subseteq Heads(cs) \cup {c2.dep}
                  /\ Heads(cs) \subseteq Heads(cs2) \cup {c.dep}
                  /\ c2.dep \in Heads(cs2) /\ c.dep \in Heads(cs)
  BY <1>0, <1>1, <1>2 DEF Heads
<1> QED BY <1>1, <1>2, <1>4, <1>6, <1>7, <1>8, <1>9 DEF n, cs2, c

\* The calls stay good, when the last is replaced by a good one.
LEMMA TopKeepsCalls ==
    ASSUME NEW w, NEW l, NEW known, NEW cs, NEW c2,
           CallsInv(w, l, known, cs), c2.dep.repo = Top(cs).dep.repo, CallOK(w, l, known, c2),
           Len(cs) = 1 => c2.dep = Application,
           Len(cs) # 1 => \A e : HeadOK(w, l, Top(cs), e) => HeadOK(w, l, c2, e)
    PROVE  CallsInv(w, l, known, WithTop(cs, c2))
<1> DEFINE n == Len(cs)
           cs2 == WithTop(cs, c2)
<1>1. n \in Nat \ {0} /\ DOMAIN cs = 1..n /\ n \in DOMAIN cs
  BY CallsFacts
<1>2. /\ IsSeq(cs2) /\ cs2 # <<>> /\ Len(cs2) = n /\ DOMAIN cs2 = DOMAIN cs /\ cs2[n] = c2
      /\ \A k \in DOMAIN cs : k # n => cs2[k] = cs[k]
  <2>1. IsSeq(cs) /\ cs # <<>>
    BY DEF CallsInv
  <2> QED BY <2>1, TopFacts
<1>3. /\ cs[1].dep = Application
      /\ \A k \in DOMAIN cs : CallOK(w, l, known, cs[k])
      /\ \A k \in DOMAIN cs : k > 1 => Follows(w, l, cs[k - 1], cs[k])
      /\ \A j, k \in DOMAIN cs : cs[j].dep.repo = cs[k].dep.repo => j = k
  BY DEF CallsInv
<1> HIDE DEF n, cs2
<1>4. cs2[1].dep = Application
  BY <1>1, <1>2, <1>3, TopCall DEF n
<1>5. \A k \in DOMAIN cs2 : CallOK(w, l, known, cs2[k])
  BY <1>2, <1>3
<1>6. ASSUME NEW k \in DOMAIN cs2, k > 1 PROVE Follows(w, l, cs2[k - 1], cs2[k])
  <2>1. k - 1 \in DOMAIN cs /\ k - 1 # n /\ k \in DOMAIN cs
    BY <1>1, <1>2, <1>6
  <2>2. cs2[k - 1] = cs[k - 1] /\ Follows(w, l, cs[k - 1], cs[k])
    BY <1>2, <1>3, <1>6, <2>1
  <2>3. CASE k = n
    <3>1. \A e : HeadOK(w, l, cs[k], e) => HeadOK(w, l, cs2[k], e)
      BY <1>2, <1>6, <2>3, TopCall DEF n
    <3> QED BY <2>2, <3>1 DEF Follows
  <2>4. CASE k # n
    BY <1>2, <2>1, <2>2, <2>4
  <2> QED BY <2>3, <2>4
<1>7. \A j, k \in DOMAIN cs2 : cs2[j].dep.repo = cs2[k].dep.repo => j = k
  <2>1. Top(cs) = cs[n]
    BY TopCall DEF n
  <2>2. \A k \in DOMAIN cs : cs2[k].dep.repo = cs[k].dep.repo
    BY <1>2, <2>1
  <2> QED BY <1>2, <1>3, <2>2
<1> QED BY <1>2, <1>4, <1>5, <1>6, <1>7 DEF CallsInv, cs2

\* The last call returns.
Callers(cs) == [k \in 1..(Len(cs) - 1) |-> cs[k]]

\* The calls without the last, which was for a repository that none of them is for
LEMMA CallersFacts ==
    ASSUME NEW w, NEW l, NEW known, NEW cs,
           CallsInv(w, l, known, cs), Len(cs) # 1
    PROVE  /\ CallsInv(w, l, known, Callers(cs))
           /\ Len(Callers(cs)) = Len(cs) - 1
           /\ \A k \in 1..(Len(cs) - 1) : Callers(cs)[k] = cs[k]
           /\ Busy(cs) = Busy(Callers(cs)) \cup {Top(cs).dep.repo}
           /\ Top(cs).dep.repo \notin Busy(Callers(cs))
           /\ \A fin : Found(cs, fin) = Found(Callers(cs), fin) \cup ToSet(Top(cs).deps)
           /\ Heads(cs) = Heads(Callers(cs)) \cup {Top(cs).dep}
<1> DEFINE n == Len(cs)
           f == Callers(cs)
<1>1. n \in Nat \ {0} /\ n > 1 /\ DOMAIN cs = 1..n /\ n \in DOMAIN cs
  <2>1. n \in Nat \ {0} /\ DOMAIN cs = 1..n /\ n \in DOMAIN cs
    BY CallsFacts
  <2> QED BY <2>1
<1>2. /\ cs[1].dep = Application
      /\ \A k \in DOMAIN cs : CallOK(w, l, known, cs[k])
      /\ \A k \in DOMAIN cs : k > 1 => Follows(w, l, cs[k - 1], cs[k])
      /\ \A j, k \in DOMAIN cs : cs[j].dep.repo = cs[k].dep.repo => j = k
  BY DEF CallsInv
<1>3. n - 1 \in Nat /\ f = [k \in 1..(n - 1) |-> f[k]] /\ \A k \in 1..(n - 1) : f[k] = cs[k]
  <2>1. n - 1 \in Nat
    BY <1>1
  <2>2. f = [k \in 1..(n - 1) |-> cs[k]]
    BY DEF Callers
  <2> HIDE DEF n, f
  <2> QED BY <2>1, <2>2
<1>4. Len(<<>>) = 0
  OBVIOUS
<1> HIDE DEF n, f
<1>5. IsSeq(f) /\ Len(f) = n - 1 /\ DOMAIN f = 1..(n - 1) /\ f # <<>>
  BY <1>1, <1>3, <1>4, SeqOfFunction
<1>6. /\ DOMAIN f \subseteq DOMAIN cs /\ DOMAIN cs = DOMAIN f \cup {n} /\ n \notin DOMAIN f
      /\ 1 \in DOMAIN f
  BY <1>1, <1>5
<1>7. CallsInv(w, l, known, f)
  <2>1. f[1].dep = Application /\ \A k \in DOMAIN f : CallOK(w, l, known, f[k])
    BY <1>2, <1>3, <1>5, <1>6
  <2>2. ASSUME NEW k \in DOMAIN f, k > 1 PROVE Follows(w, l, f[k - 1], f[k])
    <3>1. k - 1 \in DOMAIN f
      BY <1>1, <1>5, <2>2
    <3>2. f[k] = cs[k] /\ f[k - 1] = cs[k - 1] /\ k \in DOMAIN cs
      BY <1>3, <1>5, <1>6, <3>1
    <3> QED BY <1>2, <2>2, <3>2
  <2>3. \A j, k \in DOMAIN f : f[j].dep.repo = f[k].dep.repo => j = k
    BY <1>2, <1>3, <1>5, <1>6
  <2> QED BY <1>5, <2>1, <2>2, <2>3 DEF CallsInv
<1>8. Busy(cs) = Busy(f) \cup {cs[n].dep.repo} /\ cs[n].dep.repo \notin Busy(f)
  BY <1>1, <1>2, <1>3, <1>5, <1>6 DEF Busy
<1>9. \A fin : Found(cs, fin) = Found(f, fin) \cup ToSet(cs[n].deps)
  BY <1>3, <1>5, <1>6 DEF Found
<1>10. Heads(cs) = Heads(f) \cup {cs[n].dep}
  BY <1>1, <1>3, <1>5, <1>6 DEF Heads
<1>11. Top(cs) = cs[n]
  BY TopCall DEF n
<1> QED BY <1>3, <1>5, <1>7, <1>8, <1>9, <1>10, <1>11 DEF n, f

\* The calls stay good, when one is added for a repository that is not being processed.
LEMMA PushFacts ==
    ASSUME NEW w, NEW l, NEW known, NEW cs, NEW c2, NEW known2,
           CallsInv(w, l, known, cs), c2.dep.repo \notin Busy(cs), Follows(w, l, Top(cs), c2),
           known \subseteq known2, CallOK(w, l, known2, c2)
    PROVE  /\ CallsInv(w, l, known2, Append(cs, c2))
           /\ Busy(Append(cs, c2)) = Busy(cs) \cup {c2.dep.repo}
           /\ \A fin : Found(Append(cs, c2), fin) = Found(cs, fin) \cup ToSet(c2.deps)
           /\ Heads(Append(cs, c2)) = Heads(cs) \cup {c2.dep}
<1> DEFINE n == Len(cs)
           a == Append(cs, c2)
<1>1. n \in Nat \ {0} /\ DOMAIN cs = 1..n /\ n \in DOMAIN cs
  BY CallsFacts
<1>2. /\ IsSeq(cs) /\ cs[1].dep = Application
      /\ \A k \in DOMAIN cs : CallOK(w, l, known, cs[k])
      /\ \A k \in DOMAIN cs : k > 1 => Follows(w, l, cs[k - 1], cs[k])
      /\ \A j, k \in DOMAIN cs : cs[j].dep.repo = cs[k].dep.repo => j = k
  BY DEF CallsInv
<1>3. /\ IsSeq(a) /\ Len(a) = n + 1 /\ DOMAIN a = DOMAIN cs \cup {n + 1} /\ a[n + 1] = c2
      /\ \A k \in DOMAIN cs : a[k] = cs[k]
  BY <1>2, AppendFacts
<1>4. Len(<<>>) = 0
  OBVIOUS
<1> HIDE DEF n, a
<1>5. a # <<>> /\ 1 \in DOMAIN cs /\ n + 1 \notin DOMAIN cs
  BY <1>1, <1>3, <1>4
<1>6. \A k \in DOMAIN a : CallOK(w, l, known2, a[k])
  <2>1. \A k \in DOMAIN cs : CallOK(w, l, known2, cs[k])
    BY <1>2 DEF CallOK
  <2> QED BY <1>3, <2>1
<1>7. ASSUME NEW k \in DOMAIN a, k > 1 PROVE Follows(w, l, a[k - 1], a[k])
  <2>1. CASE k = n + 1
    <3>1. Follows(w, l, cs[n], c2)
      BY TopCall DEF n
    <3> QED BY <1>1, <1>3, <2>1, <3>1
  <2>2. CASE k \in DOMAIN cs
    <3>1. k - 1 \in DOMAIN cs
      BY <1>1, <1>7, <2>2
    <3> QED BY <1>2, <1>3, <1>7, <2>2, <3>1
  <2> QED BY <1>3, <2>1, <2>2
<1>8. \A j, k \in DOMAIN a : a[j].dep.repo = a[k].dep.repo => j = k
  BY <1>2, <1>3 DEF Busy
<1>9. CallsInv(w, l, known2, a)
  BY <1>2, <1>3, <1>5, <1>6, <1>7, <1>8 DEF CallsInv
<1>10. Busy(a) = Busy(cs) \cup {c2.dep.repo}
  BY <1>3 DEF Busy
<1>11. \A fin : Found(a, fin) = Found(cs, fin) \cup ToSet(c2.deps)
  BY <1>3 DEF Found
<1>12. Heads(a) = Heads(cs) \cup {c2.dep}
  BY <1>1, <1>3, <1>5 DEF Heads
<1> QED BY <1>9, <1>10, <1>11, <1>12 DEF a

-----------------------------------------------------------------------------
(* Dependencies that have been processed                                     *)

\* Repository d has been processed: all that it declares is in fin, under its new name.
Complete(w, closed, fin, d) ==
    /\ d.repo \in closed /\ Chosen(w, d)
    /\ \A j \in DOMAIN w.yaml[d.repo].direct :
          LET e == w.yaml[d.repo].direct[j]
          IN  /\ Prefixed(d.repo, e.name) \in ToSet(d.requires)
              /\ \E kid \in fin : /\ Child(w, d, Siblings(w, d.repo), e, kid)
                                  /\ Single(d.name) => kid.parent = d.name

\* So has every repository among them.
DepOK(w, closed, fin, d) == Dependency(d) /\ (d.kind = "repo" => Complete(w, closed, fin, d))

\* A repository that has been processed stays so, when more is found.
LEMMA DepMonotone ==
    ASSUME NEW w, NEW closed, NEW closed2, NEW fin, NEW fin2, NEW d,
           closed \subseteq closed2, fin \subseteq fin2, DepOK(w, closed, fin, d)
    PROVE  DepOK(w, closed2, fin2, d)
BY DEF DepOK, Complete

\* It does, too, when renameRequires replaces names that are not prefixed.
LEMMA DepLike ==
    ASSUME NEW w, NEW closed, NEW fin, NEW d, NEW d2,
           WellFormed(w), closed \subseteq Usable(w), DepOK(w, closed, fin, d), Dependency(d2),
           d2.name = d.name, \A f \in Fields \ {"requires"} : d2[f] = d[f],
           \A y \in ToSet(d.requires) : ~Single(y) => y \in ToSet(d2.requires)
    PROVE  DepOK(w, closed, fin, d2)
<1> SUFFICES ASSUME d2.kind = "repo" PROVE Complete(w, closed, fin, d2)
  BY DEF DepOK
<1>1. /\ d2.kind = d.kind /\ d2.repo = d.repo /\ d2.ref = d.ref /\ d2.branch = d.branch
      /\ d2.match = d.match /\ d2.default = d.default
  BY DEF Fields
<1>2. Complete(w, closed, fin, d)
  BY <1>1 DEF DepOK
<1>3. Chosen(w, d2)
  BY <1>1, <1>2 DEF Complete, Chosen
<1>4. ASSUME NEW j \in DOMAIN w.yaml[d.repo].direct, NEW e, e = w.yaml[d.repo].direct[j]
      PROVE  /\ Prefixed(d.repo, e.name) \in ToSet(d2.requires)
             /\ \E kid \in fin : /\ Child(w, d2, Siblings(w, d.repo), e, kid)
                                 /\ Single(d2.name) => kid.parent = d2.name
  <2>1. e.name \in Siblings(w, d.repo)
    BY <1>4 DEF Siblings, NamesOf
  <2>2. Single(e.name)
    BY <1>2, <2>1, SiblingsAreSingle DEF Complete
  <2>3. Prefixed(d.repo, e.name) \in ToSet(d2.requires)
    BY <1>2, <1>4, <2>2, PrefixedFacts DEF Complete
  <2>4. PICK kid \in fin : /\ Child(w, d, Siblings(w, d.repo), e, kid)
                           /\ Single(d.name) => kid.parent = d.name
    BY <1>2, <1>4 DEF Complete
  <2>5. Child(w, d2, Siblings(w, d.repo), e, kid)
    BY <1>1, <2>4 DEF Child, RequiresFor
  <2> QED BY <2>3, <2>4, <2>5
<1> QED BY <1>1, <1>2, <1>3, <1>4 DEF Complete

\* When a call ends, all that the repository declares has been found.
LEMMA HeadCompletes ==
    ASSUME NEW w, NEW l, NEW known, NEW c, NEW e0, NEW p, NEW closed, NEW fin,
           WellFormed(w), known \subseteq Usable(w), CallOK(w, l, known, c),
           Ends(w, l, c), HeadOK(w, l, c, e0),
           Single(e0.name), c.dep.repo \in closed, ToSet(c.deps) \subseteq fin
    PROVE  DepOK(w, closed, fin, Placed(p, c.dep))
<1> USE DEF Ends, Passed, ReposIn
<1> DEFINE d  == c.dep
           d2 == Placed(p, d)
           ds == DeclaredIn(w, l, c)
<1>1. Dependency(d) /\ d.kind = "repo" /\ d.repo # App /\ Chosen(w, d)
  BY DEF HeadOK
<1>2. /\ Dependency(d2) /\ d2.kind = d.kind /\ d2.repo = d.repo
      /\ d2.ref = d.ref /\ d2.branch = d.branch
      /\ d2.match = d.match /\ d2.default = d.default
      /\ d2.requires = d.requires
      /\ d2.name = IF p.dep.repo = App THEN d.name ELSE Prefixed(p.dep.repo, d.name)
  BY <1>1, PlacedFacts
<1>3. ds = w.yaml[d.repo].direct
  BY <1>1 DEF DeclaredIn
<1>4. /\ d.repo \in Usable(w) /\ IsSeq(c.deps) /\ Len(c.deps) <= Len(ds)
      /\ \A i \in DOMAIN c.deps : /\ Child(w, d, Replaced(w, l, c), ds[i], c.deps[i])
                                  /\ c.deps[i].parent = d.name
  BY <1>1 DEF CallOK
<1>5. Through(w, l, c) = Siblings(w, d.repo)
  BY <1>1, ThroughAreSiblings
<1>6. Replaced(w, l, c) = Siblings(w, d.repo)
  BY <1>1, <1>5 DEF Replaced
<1>7. IsSeq(ds)
  BY <1>4, DeclaredFacts
<1>8. DOMAIN c.deps = DOMAIN ds /\ \A i \in DOMAIN c.deps : c.deps[i] \in fin
  <2>1. /\ Len(ds) \in Nat /\ DOMAIN ds = 1..Len(ds)
        /\ Len(c.deps) \in Nat /\ DOMAIN c.deps = 1..Len(c.deps)
    BY <1>4, <1>7, SeqFacts
  <2>2. Len(c.deps) = Len(ds)
    BY <1>4, <2>1
  <2> QED BY <1>4, <2>1, <2>2, SeqFacts
<1> HIDE DEF d2, ds
<1>9. Chosen(w, d2)
  BY <1>1, <1>2 DEF Chosen
<1>10. ASSUME NEW j \in DOMAIN ds
       PROVE  /\ Prefixed(d.repo, ds[j].name) \in ToSet(d2.requires)
              /\ \E kid \in fin : /\ Child(w, d2, Siblings(w, d.repo), ds[j], kid)
                                  /\ Single(d2.name) => kid.parent = d2.name
  <2>1. ds[j].name \in Siblings(w, d.repo)
    BY <1>3 DEF Siblings, NamesOf
  <2>2. Prefixed(d.repo, ds[j].name) \in ToSet(d2.requires)
    BY <1>2, <1>5, <2>1 DEF HeadOK
  <2>3. /\ Child(w, d, Siblings(w, d.repo), ds[j], c.deps[j])
        /\ c.deps[j].parent = d.name /\ c.deps[j] \in fin
    BY <1>4, <1>6, <1>8
  <2>4. Child(w, d2, Siblings(w, d.repo), ds[j], c.deps[j])
    BY <1>2, <2>3 DEF Child, RequiresFor
  <2>5. Single(d.name)
    BY DEF HeadOK
  <2>6. Single(d2.name) => d2.name = d.name
    BY <1>2, <2>5, PrefixedFacts
  <2> QED BY <2>2, <2>3, <2>4, <2>6
<1>11. Complete(w, closed, fin, d2)
  BY <1>1, <1>2, <1>3, <1>9, <1>10 DEF Complete
<1> QED BY <1>2, <1>11 DEF DepOK, d2
-----------------------------------------------------------------------------
(* The names of what has been found, and the commits *)

\* d was made for what r declares.
From(w, r, d) == \E n \in Siblings(w, r) : d.name = Prefixed(r, n)

\* Each name tells where a dependency is from, and the commit of that is its own.
NamesInv(w, known, found, heads) ==
    /\ \A d \in found : Single(d.name) \/ \E r \in known \ {App} : From(w, r, d)
    /\ \A c, d \in found \cup heads :
          c.kind = "repo" /\ d.kind = "repo" /\ c.repo = d.repo => c.ref = d.ref
    /\ \A c \in found : \A d \in found \cup heads :
          c.kind = "path" /\ d.kind = "repo" /\ From(w, d.repo, c) => c.ref = d.ref

\* As far as that goes
Like(c, d) == c.name = d.name /\ c.kind = d.kind /\ c.repo = d.repo /\ c.ref = d.ref

\* The names do not depend on what the dependencies require.
LEMMA NamesLike ==
    ASSUME NEW w, NEW known, NEW found, NEW heads, NEW found2, NEW heads2,
           NamesInv(w, known, found, heads), \A d2 \in found2 : \E d \in found : Like(d2, d),
           \A d2 \in heads2 : \E d \in found \cup heads : Like(d2, d)
    PROVE  NamesInv(w, known, found2, heads2)
<1>1. \A d2 \in found2 \cup heads2 : \E d \in found \cup heads : Like(d2, d)
  OBVIOUS
<1>2. ASSUME NEW d2 \in found2
      PROVE  Single(d2.name) \/ \E r \in known \ {App} : From(w, r, d2)
  <2>1. PICK d \in found : Like(d2, d)
    OBVIOUS
  <2>2. Single(d.name) \/ \E r \in known \ {App} : From(w, r, d)
    BY DEF NamesInv
  <2>3. d2.name = d.name
    BY <2>1 DEF Like
  <2> QED BY <2>2, <2>3 DEF From
<1>3. ASSUME NEW c2 \in found2 \cup heads2, NEW d2 \in found2 \cup heads2,
             c2.kind = "repo", d2.kind = "repo", c2.repo = d2.repo
      PROVE  c2.ref = d2.ref
  <2>1. PICK c \in found \cup heads : Like(c2, c)
    BY <1>1
  <2>2. PICK d \in found \cup heads : Like(d2, d)
    BY <1>1
  <2>3. c.kind = "repo" /\ d.kind = "repo" /\ c.repo = d.repo
    BY <1>3, <2>1, <2>2 DEF Like
  <2>4. c.ref = d.ref
    BY <2>3 DEF NamesInv
  <2> QED BY <2>1, <2>2, <2>4 DEF Like
<1>4. ASSUME NEW c2 \in found2, NEW d2 \in found2 \cup heads2,
             c2.kind = "path", d2.kind = "repo", From(w, d2.repo, c2)
      PROVE  c2.ref = d2.ref
  <2>1. PICK c \in found : Like(c2, c)
    OBVIOUS
  <2>2. PICK d \in found \cup heads : Like(d2, d)
    BY <1>1
  <2>3. From(w, d.repo, c)
    BY <1>4, <2>1, <2>2 DEF From, Like
  <2>4. c.kind = "path" /\ d.kind = "repo"
    BY <1>4, <2>1, <2>2 DEF Like
  <2>5. c.ref = d.ref
    BY <2>3, <2>4 DEF NamesInv
  <2> QED BY <2>1, <2>2, <2>5 DEF Like
<1> QED BY <1>2, <1>3, <1>4 DEF NamesInv

\* A prefixed name was made for one repository only.
LEMMA FromOne ==
    ASSUME NEW w, NEW r, NEW q, NEW d,
           WellFormed(w), r \in Usable(w), q \in Usable(w), From(w, r, d)
    PROVE  ~Single(d.name) /\ (From(w, q, d) => q = r)
BY SiblingsAreSingle, PrefixedFacts DEF From

\* The names stay good with one more chart,
LEMMA NamesWithChart ==
    ASSUME NEW w, NEW known, NEW found, NEW heads, NEW d,
           WellFormed(w), known \subseteq Usable(w), NamesInv(w, known, found, heads),
           \A h \in found \cup heads : h.kind = "repo" => h.repo \in known, d.kind # "repo",
           \/ Single(d.name)
           \/ \E h \in heads : /\ h.kind = "repo" /\ h.repo # App /\ From(w, h.repo, d)
                               /\ d.kind = "path" => d.ref = h.ref
    PROVE  NamesInv(w, known, found \cup {d}, heads)
<1>1. Single(d.name) \/ \E r \in known \ {App} : From(w, r, d)
  OBVIOUS
<1>2. ASSUME NEW h \in found \cup heads, d.kind = "path", h.kind = "repo", From(w, h.repo, d)
      PROVE  d.ref = h.ref
  <2>1. ~Single(d.name)
    BY <1>2, FromOne
  <2>2. PICK g \in heads : g.kind = "repo" /\ g.repo # App /\ From(w, g.repo, d) /\ d.ref = g.ref
    BY <1>2, <2>1
  <2>3. g.repo = h.repo
    BY <1>2, <2>2, FromOne
  <2> QED BY <1>2, <2>2, <2>3 DEF NamesInv
<1> QED BY <1>1, <1>2 DEF NamesInv

\* with a repository whose call has ended,
LEMMA NamesWithRepo ==
    ASSUME NEW w, NEW known, NEW found, NEW heads, NEW h, NEW d,
           NamesInv(w, known, found, heads), h \in heads, h.kind = "repo", d.kind = h.kind,
           d.repo = h.repo, d.ref = h.ref,
           Single(d.name) \/ \E r \in known \ {App} : From(w, r, d)
    PROVE  NamesInv(w, known, found \cup {d}, heads)
BY DEF NamesInv

\* and with a call for a repository that had not been used.
LEMMA NamesWithHead ==
    ASSUME NEW w, NEW known, NEW found, NEW heads, NEW d,
           WellFormed(w), known \subseteq Usable(w), NamesInv(w, known, found, heads),
           \A h \in found \cup heads : h.kind = "repo" => h.repo \in known,
           d.repo \in Usable(w) \ known
    PROVE  NamesInv(w, known \cup {d.repo}, found, heads \cup {d})
<1>1. ASSUME NEW c \in found PROVE ~From(w, d.repo, c)
  <2>1. CASE Single(c.name)
    BY <2>1, FromOne
  <2>2. CASE \E r \in known \ {App} : From(w, r, c)
    BY <2>2, FromOne
  <2> QED BY <2>1, <2>2 DEF NamesInv
<1> QED BY <1>1 DEF NamesInv

-----------------------------------------------------------------------------
(* The order of installation                                                 *)

\* Of any charts in a list, one requires none of them.
Offset(charts, t) ==
    CHOOSE i \in DOMAIN charts :
        charts[i].title = t /\ \A j \in DOMAIN charts : charts[j].title = t => j <= i

\* When titles are distinct, the offset of a title is that of the one chart that has it.
LEMMA OffsetOfTitle ==
    ASSUME NEW charts, NEW j,
           DOMAIN charts \subseteq Nat, IsInjective([i \in DOMAIN charts |-> charts[i].title]),
           j \in DOMAIN charts
    PROVE  Offset(charts, charts[j].title) = j
<1>1. \A i \in DOMAIN charts : charts[i].title = charts[j].title => i = j
  BY DEF IsInjective
<1>2. j <= j
  OBVIOUS
<1> QED BY <1>1, <1>2 DEF Offset

\* Populates, in terms of titles
LEMMA PopulatesOrders ==
    ASSUME NEW charts, NEW S,
           DOMAIN charts \subseteq Nat, IsInjective([i \in DOMAIN charts |-> charts[i].title]),
           Populates(charts), S \in (SUBSET DOMAIN charts) \ {{}}
    PROVE  \E i \in S : \A j \in S : charts[j].title \notin charts[i].requires
<1> DEFINE below == [i \in DOMAIN charts |-> {Offset(charts, t) : t \in charts[i].requires}]
<1>1. PICK i \in S : below[i] \cap S = {}
  BY DEF Populates, Offset
<1>2. ASSUME NEW j \in S, charts[j].title \in charts[i].requires PROVE FALSE
  <2>1. Offset(charts, charts[j].title) \in below[i]
    BY <1>2
  <2> QED BY <1>1, <2>1, OffsetOfTitle
<1> QED BY <1>2

\* The same in terms of titles; each title that is required is that of a chart.
InOrder(charts) ==
    \A S \in (SUBSET DOMAIN charts) \ {{}} :
       \E i \in S : \A j \in S : charts[j].title \notin charts[i].requires

Titled(charts) ==
    \A i \in DOMAIN charts : \A t \in charts[i].requires : \E j \in DOMAIN charts : t = charts[j].title

\* and back
LEMMA OrdersPopulate ==
    ASSUME NEW charts,
           DOMAIN charts \subseteq Nat, IsInjective([i \in DOMAIN charts |-> charts[i].title]),
           Titled(charts), InOrder(charts)
    PROVE  Populates(charts)
<1> DEFINE below == [i \in DOMAIN charts |-> {Offset(charts, t) : t \in charts[i].requires}]
<1>1. ASSUME NEW S \in (SUBSET DOMAIN charts) \ {{}}
      PROVE  \E i \in S : below[i] \cap S = {}
  <2>1. PICK i \in S : \A j \in S : charts[j].title \notin charts[i].requires
    BY DEF InOrder
  <2>2. ASSUME NEW t \in charts[i].requires PROVE Offset(charts, t) \notin S
    <3>1. PICK j \in DOMAIN charts : t = charts[j].title
      BY <2>2 DEF Titled
    <3>2. Offset(charts, t) = j
      BY <3>1, OffsetOfTitle
    <3> QED BY <2>1, <2>2, <3>1, <3>2
  <2>3. below[i] = {Offset(charts, t) : t \in charts[i].requires}
    OBVIOUS
  <2> QED BY <2>2, <2>3
<1> QED BY <1>1 DEF Populates, Offset

\* The same of what acyl.yml declares, but for requirements that are known
OrderedList(ds, known) ==
    \A T \in (SUBSET DOMAIN ds) \ {{}} :
       \E i \in T : \A j \in T : ds[j].name \notin ToSet(ds[i].requires) \ known

\* All that is required is among some names.
RequiresAmong(ds, names) == \A i \in DOMAIN ds : ToSet(ds[i].requires) \subseteq names

\* A list whose charts Populates accepts is ordered.
LEMMA ListOrdered ==
    ASSUME NEW ds, NEW known,
           IsSeq(ds), IsInjective([i \in DOMAIN ds |-> ds[i].name]),
           Populates([i \in DOMAIN ds |->
                [title |-> ds[i].name, requires |-> ToSet(ds[i].requires) \ known]])
    PROVE  OrderedList(ds, known)
<1> DEFINE charts == [i \in DOMAIN ds |->
                [title |-> ds[i].name, requires |-> ToSet(ds[i].requires) \ known]]
<1>1. /\ DOMAIN charts = DOMAIN ds
      /\ \A i \in DOMAIN ds : /\ charts[i].title = ds[i].name
                              /\ charts[i].requires = ToSet(ds[i].requires) \ known
  OBVIOUS
<1>2. DOMAIN charts \subseteq Nat
  BY <1>1, SeqFacts
<1> HIDE DEF charts
<1>3. IsInjective([i \in DOMAIN charts |-> charts[i].title])
  BY <1>1 DEF IsInjective
<1>4. Populates(charts)
  BY DEF charts
<1>5. ASSUME NEW T \in (SUBSET DOMAIN ds) \ {{}}
      PROVE  \E i \in T : \A j \in T : ds[j].name \notin ToSet(ds[i].requires) \ known
  <2>1. PICK i \in T : \A j \in T : charts[j].title \notin charts[i].requires
    BY <1>1, <1>2, <1>3, <1>4, PopulatesOrders
  <2>2. i \in DOMAIN ds /\ \A j \in T : j \in DOMAIN ds
    OBVIOUS
  <2> QED BY <1>1, <2>1, <2>2
<1> QED BY <1>5 DEF OrderedList

\* What a well declared acyl.yml promises
LEMMA WellDeclaredFacts ==
    ASSUME NEW yaml,
           IsSeq(yaml.direct), IsSeq(yaml.env), WellDeclared(yaml)
    PROVE  /\ RequiresAmong(yaml.direct, NamesOf(yaml.direct))
           /\ OrderedList(yaml.direct, {})
           /\ RequiresAmong(yaml.env, NamesOf(yaml.env) \cup NamesOf(yaml.direct))
           /\ OrderedList(yaml.env, NamesOf(yaml.direct))
           /\ <<App>> \notin NamesOf(yaml.direct) \cup NamesOf(yaml.env)
<1>1. RequiresAmong(yaml.direct, NamesOf(yaml.direct)) /\ OrderedList(yaml.direct, {})
  <2> DEFINE ds == yaml.direct
  <2>1. /\ \A i \in DOMAIN ds : ToSet(ds[i].requires) \subseteq NamesOf(ds) \cup {}
        /\ IsInjective([i \in DOMAIN ds |-> ds[i].name])
        /\ Populates([i \in DOMAIN ds |->
                [title |-> ds[i].name, requires |-> ToSet(ds[i].requires) \ {}]])
    BY Zenon DEF WellDeclared
  <2>2. OrderedList(ds, {})
    BY <2>1, ListOrdered
  <2> QED BY <2>1, <2>2 DEF RequiresAmong
<1>2. /\ RequiresAmong(yaml.env, NamesOf(yaml.env) \cup NamesOf(yaml.direct))
      /\ OrderedList(yaml.env, NamesOf(yaml.direct))
  <2> DEFINE ds == yaml.env
             known == NamesOf(yaml.direct)
  <2>1. /\ \A i \in DOMAIN ds : ToSet(ds[i].requires) \subseteq NamesOf(ds) \cup known
        /\ IsInjective([i \in DOMAIN ds |-> ds[i].name])
        /\ Populates([i \in DOMAIN ds |->
                [title |-> ds[i].name, requires |-> ToSet(ds[i].requires) \ known]])
    BY Zenon DEF WellDeclared
  <2> HIDE DEF known
  <2>2. OrderedList(ds, known)
    BY <2>1, ListOrdered
  <2> QED BY <2>1, <2>2 DEF RequiresAmong, known
<1>3. NamesOf(yaml.direct \o yaml.env) = NamesOf(yaml.direct) \cup NamesOf(yaml.env)
  <2>1. ToSet(yaml.direct \o yaml.env) = ToSet(yaml.direct) \cup ToSet(yaml.env)
    BY ConcatFacts
  <2>2. \A ds : NamesOf(ds) = {d.name : d \in ToSet(ds)}
    BY DEF NamesOf, ToSet
  <2> QED BY <2>1, <2>2
<1> QED BY <1>1, <1>2, <1>3 DEF WellDeclared, RequiresAmong

\* What has been found is in layers: a repository is processed after those it depends on.
Ordered(ds) ==
    \A S \in (SUBSET ds) \ {{}} : \E c \in S : \A d \in S : d.name \notin ToSet(c.requires)

\* Of two ordered layers, where the first requires nothing of the second, the union is.
LEMMA Layer ==
    ASSUME NEW below, NEW names, NEW ds,
           Ordered(below), \A c \in below : ToSet(c.requires) \subseteq names,
           \A i \in DOMAIN ds : ds[i].name \notin names, OrderedList(ds, {})
    PROVE  Ordered(below \cup ToSet(ds))
<1> SUFFICES ASSUME NEW S \in (SUBSET (below \cup ToSet(ds))) \ {{}}
             PROVE  \E c \in S : \A d \in S : d.name \notin ToSet(c.requires)
  BY DEF Ordered
<1>1. CASE S \cap below # {}
  <2>1. PICK c \in S \cap below : \A d \in S \cap below : d.name \notin ToSet(c.requires)
    BY <1>1 DEF Ordered
  <2>2. \A d \in ToSet(ds) : d.name \notin names
    BY DEF ToSet
  <2> QED BY <2>1, <2>2
<1>2. CASE S \cap below = {}
  <2> DEFINE T == {i \in DOMAIN ds : ds[i] \in S}
  <2>1. \A d \in S : \E i \in T : d = ds[i]
    BY <1>2 DEF ToSet
  <2>2. T \in (SUBSET DOMAIN ds) \ {{}}
    BY <2>1
  <2>3. PICK i \in T : \A j \in T : ds[j].name \notin ToSet(ds[i].requires)
    BY <2>2 DEF OrderedList
  <2> QED BY <2>1, <2>3
<1> QED BY <1>1, <1>2

\* The repositories all of whose dependencies have been found declare these.
Inner(w, closed) == UNION {Own(w, r) : r \in closed}

\* What a call that ends has made of an ordered list is ordered,
LEMMA CallOrdered ==
    ASSUME NEW w, NEW l, NEW known, NEW c, NEW closed, NEW before,
           WellFormed(w), known \subseteq Usable(w), CallOK(w, l, known, c),
           Ends(w, l, c), closed \subseteq Usable(w),
           c.dep.repo \notin closed,
           ReposIn(c, closed),
           OrderedList(DeclaredIn(w, l, c), before),
           IF c.dep.repo = App THEN \A i \in DOMAIN c.deps : c.deps[i].name \notin before
           ELSE before = {} /\ RequiresAmong(DeclaredIn(w, l, c), NamesOf(DeclaredIn(w, l, c)))
    PROVE  OrderedList(c.deps, {})
<1> USE DEF Ends, Passed, ReposIn
<1> DEFINE ds == DeclaredIn(w, l, c)
           p  == c.dep
<1>1. /\ p.repo \in Usable(w) /\ IsSeq(c.deps) /\ Len(c.deps) <= Len(ds)
      /\ \A i \in DOMAIN c.deps : Child(w, p, Replaced(w, l, c), ds[i], c.deps[i])
  BY DEF CallOK
<1>2. IsSeq(ds) /\ \A i \in DOMAIN ds : Entry(w, ds[i])
  BY <1>1, DeclaredFacts
<1>3. DOMAIN c.deps = DOMAIN ds
  <2>1. /\ Len(ds) \in Nat /\ DOMAIN ds = 1..Len(ds)
        /\ Len(c.deps) \in Nat /\ DOMAIN c.deps = 1..Len(c.deps)
    BY <1>1, <1>2, SeqFacts
  <2> QED BY <1>1, <2>1
<1>4. p.repo = App => Replaced(w, l, c) = {}
  BY DEF Replaced
<1>5. p.repo # App => Replaced(w, l, c) = NamesOf(ds)
  BY <1>3 DEF Replaced, Through, NamesOf
<1> SUFFICES ASSUME NEW T \in (SUBSET DOMAIN ds) \ {{}}
             PROVE  \E i \in T : \A j \in T : c.deps[j].name \notin ToSet(c.deps[i].requires)
  BY <1>3 DEF OrderedList
<1>6. PICK i \in T : \A j \in T : ds[j].name \notin ToSet(ds[i].requires) \ before
  BY DEF OrderedList
<1>7. ASSUME NEW j \in T, c.deps[j].name \in ToSet(c.deps[i].requires) PROVE FALSE
  <2>1. Single(ds[j].name) /\ ds[j].name \in NamesOf(ds)
    BY <1>2 DEF Entry, NamesOf
  <2>2. CASE c.deps[i].kind = "repo" /\ c.deps[j].name \in Own(w, c.deps[i].repo)
    <3>1. c.deps[i].repo \in closed
      BY <1>3, <2>2
    <3>2. PICK n \in Siblings(w, c.deps[i].repo) : c.deps[j].name = Prefixed(c.deps[i].repo, n)
      BY <2>2 DEF Own
    <3>3. Single(n)
      BY <3>1, SiblingsAreSingle
    <3>4. c.deps[j].name = IF p.repo = App THEN ds[j].name ELSE Prefixed(p.repo, ds[j].name)
      BY <1>1, <1>3 DEF Child
    <3>5. CASE p.repo = App
      <4>1. Single(Prefixed(c.deps[i].repo, n))
        BY <2>1, <3>2, <3>4, <3>5
      <4> QED BY <3>3, <4>1, PrefixedFacts
    <3>6. CASE p.repo # App
      <4>1. Prefixed(p.repo, ds[j].name) = Prefixed(c.deps[i].repo, n)
        BY <3>2, <3>4, <3>6
      <4>2. p.repo = c.deps[i].repo
        BY <2>1, <3>3, <4>1, PrefixedFacts
      <4> QED BY <3>1, <4>2
    <3> QED BY <3>5, <3>6
  <2>3. CASE \E x \in ToSet(ds[i].requires) : c.deps[j].name = New(p.repo, Replaced(w, l, c), x)
    <3>1. PICK x \in ToSet(ds[i].requires) : c.deps[j].name = New(p.repo, Replaced(w, l, c), x)
      BY <2>3
    <3>2. c.deps[j].name = IF p.repo = App THEN ds[j].name ELSE Prefixed(p.repo, ds[j].name)
      BY <1>1, <1>3 DEF Child
    <3>3. CASE p.repo = App
      <4>1. ds[j].name = x
        BY <1>4, <3>1, <3>2, <3>3 DEF New
      <4>2. ds[j].name \notin before
        BY <1>3, <3>2, <3>3
      <4> QED BY <1>6, <4>1, <4>2
    <3>4. CASE p.repo # App
      <4>1. x \in NamesOf(ds)
        BY <3>4 DEF RequiresAmong
      <4>2. Prefixed(p.repo, x) = Prefixed(p.repo, ds[j].name) /\ Single(x)
        BY <1>2, <1>5, <3>1, <3>2, <3>4, <4>1 DEF New, NamesOf, Entry
      <4>3. x = ds[j].name
        BY <2>1, <4>2, PrefixedFacts
      <4> QED BY <1>6, <3>4, <4>3
    <3> QED BY <3>3, <3>4
  <2>4. RequiresFor(w, p, Replaced(w, l, c), ds[i], c.deps[i])
    BY <1>1, <1>3 DEF Child
  <2> QED BY <1>7, <2>2, <2>3, <2>4 DEF RequiresFor
<1> QED BY <1>7

\* Their names, and what they require
CallNames(c, ds) ==
    IF c.dep.repo = App THEN NamesOf(ds) ELSE {Prefixed(c.dep.repo, n) : n \in NamesOf(ds)}

\* and requires only what has been found, or what the list may require.
LEMMA CallLayer ==
    ASSUME NEW w, NEW l, NEW known, NEW c, NEW closed,
           WellFormed(w), known \subseteq Usable(w), CallOK(w, l, known, c),
           Ends(w, l, c),
           ReposIn(c, closed)
    PROVE  /\ {d.name : d \in ToSet(c.deps)} = CallNames(c, DeclaredIn(w, l, c))
           /\ \A before :
                 /\ RequiresAmong(DeclaredIn(w, l, c), NamesOf(DeclaredIn(w, l, c)) \cup before)
                 /\ c.dep.repo # App => before = {}
                 => \A d \in ToSet(c.deps) : ToSet(d.requires) \subseteq
                       Inner(w, closed) \cup CallNames(c, DeclaredIn(w, l, c)) \cup before
<1> USE DEF Ends, Passed, ReposIn
<1> DEFINE ds == DeclaredIn(w, l, c)
           p  == c.dep
<1>1. /\ p.repo \in Usable(w) /\ IsSeq(c.deps) /\ Len(c.deps) <= Len(ds)
      /\ \A i \in DOMAIN c.deps : Child(w, p, Replaced(w, l, c), ds[i], c.deps[i])
  BY DEF CallOK
<1>2. IsSeq(ds) /\ \A i \in DOMAIN ds : Entry(w, ds[i])
  BY <1>1, DeclaredFacts
<1>3. DOMAIN c.deps = DOMAIN ds
  <2>1. /\ Len(ds) \in Nat /\ DOMAIN ds = 1..Len(ds)
        /\ Len(c.deps) \in Nat /\ DOMAIN c.deps = 1..Len(c.deps)
    BY <1>1, <1>2, SeqFacts
  <2> QED BY <1>1, <2>1
<1>4. p.repo = App => Replaced(w, l, c) = {}
  BY DEF Replaced
<1>5. p.repo # App => Replaced(w, l, c) = NamesOf(ds)
  BY <1>3 DEF Replaced, Through, NamesOf
<1> HIDE DEF ds
<1>6. \A i \in DOMAIN ds :
         c.deps[i].name = IF p.repo = App THEN ds[i].name ELSE Prefixed(p.repo, ds[i].name)
  BY <1>1, <1>3 DEF Child
<1>7. {d.name : d \in ToSet(c.deps)} = {c.deps[i].name : i \in DOMAIN ds}
  BY <1>3 DEF ToSet
<1>8. {c.deps[i].name : i \in DOMAIN ds} = CallNames(c, ds)
  <2>1. CASE p.repo = App
    BY <1>6, <2>1 DEF CallNames, NamesOf
  <2>2. CASE p.repo # App
    BY <1>6, <2>2 DEF CallNames, NamesOf
  <2> QED BY <2>1, <2>2
<1>9. ASSUME NEW before, RequiresAmong(ds, NamesOf(ds) \cup before), p.repo # App => before = {},
             NEW d \in ToSet(c.deps), NEW y \in ToSet(d.requires)
      PROVE  y \in Inner(w, closed) \cup CallNames(c, ds) \cup before
  <2>1. PICK i \in DOMAIN ds : d = c.deps[i]
    BY <1>3 DEF ToSet
  <2>2. CASE d.kind = "repo" /\ y \in Own(w, d.repo)
    BY <1>3, <2>1, <2>2 DEF Inner
  <2>3. CASE \E x \in ToSet(ds[i].requires) : y = New(p.repo, Replaced(w, l, c), x)
    <3>1. PICK x \in ToSet(ds[i].requires) : y = New(p.repo, Replaced(w, l, c), x)
      BY <2>3
    <3>2. x \in NamesOf(ds) \cup before
      BY <1>9 DEF RequiresAmong
    <3>3. CASE p.repo = App
      BY <1>4, <3>1, <3>2, <3>3 DEF New, CallNames
    <3>4. CASE p.repo # App
      BY <1>5, <1>9, <3>1, <3>2, <3>4 DEF New, CallNames
    <3> QED BY <3>3, <3>4
  <2>4. RequiresFor(w, p, Replaced(w, l, c), ds[i], d)
    BY <1>1, <1>3, <2>1 DEF Child
  <2> QED BY <2>2, <2>3, <2>4 DEF RequiresFor
<1> QED BY <1>7, <1>8, <1>9 DEF ds

\* What has been processed below the dependencies, and these of the first list: the names
\* are in layers, and so is what they require when the lists are in order.
GraphInv(w, known, closed, below, direct) ==
    /\ \A d \in below : d.name \in Inner(w, closed)
    /\ \A d \in direct : d.name \in Inner(w, closed) \cup Siblings(w, App)
    /\ (\A r \in known : WellDeclared(w.yaml[r])) =>
          /\ \A d \in below : ToSet(d.requires) \subseteq Inner(w, closed)
          /\ \A d \in direct : ToSet(d.requires) \subseteq Inner(w, closed) \cup Siblings(w, App)
          /\ Ordered(below \cup direct)

\* The layers are ordered, with that of a repository whose call ends,
LEMMA GraphWithRepo ==
    ASSUME NEW w, NEW l, NEW known, NEW c, NEW closed, NEW below, NEW direct,
           WellFormed(w), known \subseteq Usable(w), CallOK(w, l, known, c),
           Ends(w, l, c), c.dep.repo # App,
           App \in known, closed \subseteq known, c.dep.repo \notin closed,
           ReposIn(c, closed),
           GraphInv(w, known, closed, below, direct)
    PROVE  GraphInv(w, known, closed \cup {c.dep.repo}, below \cup ToSet(c.deps), direct)
<1> USE DEF Ends, Passed, ReposIn
<1> DEFINE R    == c.dep.repo
           ds   == DeclaredIn(w, l, c)
           more == closed \cup {R}
<1>1. R \in known /\ ds = w.yaml[R].direct
  BY DEF CallOK, DeclaredIn
<1>2. IsSeq(w.yaml[R].direct) /\ IsSeq(w.yaml[R].env)
  BY <1>1 DEF WellFormed, Usable, IsSeq
<1>3. CallNames(c, ds) = Own(w, R)
  BY <1>1 DEF CallNames, Own, Siblings
<1>4. Inner(w, more) = Inner(w, closed) \cup Own(w, R)
  BY DEF Inner
<1>5. {d.name : d \in ToSet(c.deps)} = Own(w, R)
  BY <1>3, CallLayer
<1>6. \A d \in ToSet(c.deps) : d.name \in Own(w, R)
  BY <1>5
<1>7. ASSUME \A r \in known : WellDeclared(w.yaml[r])
      PROVE  /\ \A d \in ToSet(c.deps) : ToSet(d.requires) \subseteq Inner(w, more)
             /\ Ordered((below \cup ToSet(c.deps)) \cup direct)
  <2>1. RequiresAmong(ds, NamesOf(ds)) /\ OrderedList(ds, {})
    BY <1>1, <1>2, <1>7, WellDeclaredFacts
  <2>2. RequiresAmong(ds, NamesOf(ds) \cup {})
    BY <2>1
  <2>3. \A d \in ToSet(c.deps) :
           ToSet(d.requires) \subseteq Inner(w, closed) \cup CallNames(c, ds) \cup {}
    BY <2>2, CallLayer
  <2>4. OrderedList(c.deps, {})
    <3>1. closed \subseteq Usable(w)
      OBVIOUS
    <3> QED BY <2>1, <3>1, CallOrdered
  <2> DEFINE names == Inner(w, closed) \cup Siblings(w, App)
  <2>5. ASSUME NEW i \in DOMAIN c.deps PROVE c.deps[i].name \notin names
    <3>1. c.deps[i].name \in Own(w, R)
      BY <1>6 DEF ToSet
    <3>2. PICK n \in Siblings(w, R) : c.deps[i].name = Prefixed(R, n)
      BY <3>1 DEF Own
    <3>3. Single(n) /\ R \in Usable(w) /\ App \in Usable(w)
      BY <1>1, SiblingsAreSingle
    <3>4. c.deps[i].name \notin Siblings(w, App)
      BY <3>2, <3>3, SiblingsAreSingle, PrefixedFacts
    <3>5. ASSUME NEW r \in closed, c.deps[i].name \in Own(w, r) PROVE FALSE
      <4>1. PICK m \in Siblings(w, r) : c.deps[i].name = Prefixed(r, m)
        BY <3>5 DEF Own
      <4>2. Single(m)
        BY SiblingsAreSingle
      <4>3. Prefixed(R, n) = Prefixed(r, m)
        BY <3>2, <4>1
      <4> HIDE DEF R
      <4>4. R = r
        BY <3>3, <4>2, <4>3, PrefixedFacts
      <4> QED BY <4>4 DEF R
    <3> QED BY <3>4, <3>5 DEF Inner
  <2>6. /\ Ordered(below \cup direct)
        /\ \A d \in below \cup direct : ToSet(d.requires) \subseteq names
    BY <1>7 DEF GraphInv
  <2> HIDE DEF names
  <2>7. Ordered((below \cup direct) \cup ToSet(c.deps))
    BY <2>4, <2>5, <2>6, Layer
  <2>8. (below \cup direct) \cup ToSet(c.deps) = (below \cup ToSet(c.deps)) \cup direct
    OBVIOUS
  <2>9. Ordered((below \cup ToSet(c.deps)) \cup direct)
    BY <2>7, <2>8, Zenon
  <2>10. \A d \in ToSet(c.deps) : ToSet(d.requires) \subseteq Inner(w, more)
    BY <1>3, <1>4, <2>3
  <2> QED BY <2>9, <2>10
<1>8. \A d \in below \cup ToSet(c.deps) : d.name \in Inner(w, more)
  BY <1>4, <1>6 DEF GraphInv
<1>9. \A d \in direct : d.name \in Inner(w, more) \cup Siblings(w, App)
  BY <1>4 DEF GraphInv
<1> HIDE DEF more
<1>10. ASSUME \A r \in known : WellDeclared(w.yaml[r])
       PROVE  /\ \A d \in below \cup ToSet(c.deps) : ToSet(d.requires) \subseteq Inner(w, more)
              /\ \A d \in direct : ToSet(d.requires) \subseteq Inner(w, more) \cup Siblings(w, App)
  BY <1>4, <1>7, <1>10 DEF GraphInv
<1> QED BY <1>7, <1>8, <1>9, <1>10 DEF GraphInv, more

\* and with a list of the triggering repository that has been processed.
LEMMA GraphWithList ==
    ASSUME NEW w, NEW l, NEW known, NEW c, NEW closed, NEW below, NEW direct, NEW before,
           WellFormed(w), known \subseteq Usable(w), CallOK(w, l, known, c),
           Ends(w, l, c), c.dep.repo = App,
           App \in known, closed \subseteq known, App \notin closed,
           ReposIn(c, closed),
           GraphInv(w, known, closed, below, direct),
           before = IF l = "env" THEN Siblings(w, App) ELSE {}, l # "env" => direct = {},
           l = "env" => \A i \in DOMAIN c.deps : c.deps[i].name \notin Siblings(w, App)
    PROVE  /\ \A d \in ToSet(c.deps) : d.name \in NamesOf(DeclaredIn(w, l, c))
           /\ NamesOf(DeclaredIn(w, l, c)) \subseteq NamesOf(c.deps)
           /\ (\A r \in known : WellDeclared(w.yaml[r])) =>
                 /\ \A d \in ToSet(c.deps) : ToSet(d.requires) \subseteq
                       Inner(w, closed) \cup NamesOf(DeclaredIn(w, l, c)) \cup before
                 /\ Ordered((below \cup direct) \cup ToSet(c.deps))
<1> USE DEF Ends, Passed, ReposIn
<1> DEFINE ds == DeclaredIn(w, l, c)
<1>1. ds = IF l = "env" THEN w.yaml[App].env ELSE w.yaml[App].direct
  BY DEF DeclaredIn
<1>2. IsSeq(w.yaml[App].direct) /\ IsSeq(w.yaml[App].env) /\ App \in Usable(w)
  BY DEF WellFormed, Usable, IsSeq
<1>3. CallNames(c, ds) = NamesOf(ds)
  BY DEF CallNames
<1>4. {d.name : d \in ToSet(c.deps)} = NamesOf(ds)
  BY <1>3, CallLayer
<1>5. \A d \in ToSet(c.deps) : d.name \in NamesOf(ds)
  BY <1>4
<1>6. NamesOf(ds) \subseteq NamesOf(c.deps)
  <2>1. {d.name : d \in ToSet(c.deps)} = NamesOf(c.deps)
    BY DEF ToSet, NamesOf
  <2> QED BY <1>4, <2>1
<1>7. ASSUME \A r \in known : WellDeclared(w.yaml[r])
      PROVE  /\ \A d \in ToSet(c.deps) :
                   ToSet(d.requires) \subseteq Inner(w, closed) \cup NamesOf(ds) \cup before
             /\ Ordered((below \cup direct) \cup ToSet(c.deps))
  <2>1. RequiresAmong(ds, NamesOf(ds) \cup before) /\ OrderedList(ds, before)
    <3>1. WellDeclared(w.yaml[App])
      BY <1>7
    <3>2. CASE l = "env"
      BY <1>1, <1>2, <3>1, <3>2, WellDeclaredFacts DEF Siblings
    <3>3. CASE l # "env"
      <4>1. RequiresAmong(ds, NamesOf(ds)) /\ OrderedList(ds, {})
        BY <1>1, <1>2, <3>1, <3>3, WellDeclaredFacts
      <4> QED BY <3>3, <4>1
    <3> QED BY <3>2, <3>3
  <2> HIDE DEF ds
  <2>2. \A d \in ToSet(c.deps) :
           ToSet(d.requires) \subseteq Inner(w, closed) \cup NamesOf(ds) \cup before
    BY <1>3, <2>1, CallLayer DEF ds
  <2>3. OrderedList(c.deps, {})
    <3>1. closed \subseteq Usable(w)
      OBVIOUS
    <3>2. \A i \in DOMAIN c.deps : c.deps[i].name \notin before
      OBVIOUS
    <3> QED BY <2>1, <3>1, <3>2, CallOrdered DEF ds
  <2> DEFINE names == Inner(w, closed) \cup before
  <2>4. ASSUME NEW i \in DOMAIN c.deps PROVE c.deps[i].name \notin names
    <3>1. Single(c.deps[i].name)
      <4>1. PICK j \in DOMAIN ds : c.deps[i].name = ds[j].name
        BY <1>5 DEF NamesOf, ToSet
      <4>2. Entry(w, ds[j])
        BY <1>2, DeclaredFacts DEF ds
      <4> QED BY <4>1, <4>2 DEF Entry
    <3>2. c.deps[i].name \notin before
      OBVIOUS
    <3>3. \A r \in closed : c.deps[i].name \notin Own(w, r)
      BY <3>1, OwnAreNot
    <3> QED BY <3>2, <3>3 DEF Inner
  <2>5. /\ Ordered(below \cup direct)
        /\ \A d \in below \cup direct : ToSet(d.requires) \subseteq names
    BY <1>7 DEF GraphInv
  <2> HIDE DEF names
  <2>6. Ordered((below \cup direct) \cup ToSet(c.deps))
    BY <2>3, <2>4, <2>5, Layer
  <2> QED BY <2>2, <2>6
<1> QED BY <1>5, <1>6, <1>7

-----------------------------------------------------------------------------
(* The steps keep the invariant.                                             *)

\* What was found below the lists, and in the first
Done(td, dd) == ToSet(td) \cup ToSet(dd)

\* What Get keeps, while it walks over the dependencies in the list l
Walk(w, l, known, cs, td, dd) ==
    /\ WellFormed(w) /\ App \in known /\ known \subseteq Usable(w)
    /\ l \in {"direct", "env"} /\ IsSeq(td) /\ IsSeq(dd) /\ (l = "direct" => dd = <<>>)
    /\ l = "env" => Siblings(w, App) \subseteq NamesOf(dd)
    /\ CallsInv(w, l, known, cs)
    /\ \A d \in Found(cs, Done(td, dd)) : DepOK(w, known \ Busy(cs), Done(td, dd), d)
    /\ \A r \in known \ {App} :
          \E d \in Found(cs, Done(td, dd)) \cup Heads(cs) : d.kind = "repo" /\ d.repo = r
    /\ NamesInv(w, known, Found(cs, Done(td, dd)), Heads(cs))
    /\ GraphInv(w, known, known \ Busy(cs), ToSet(td), ToSet(dd))

\* Every repository that has been found was used, and is not being processed.
LEMMA WalkRepos ==
    ASSUME NEW w, NEW l, NEW known, NEW cs, NEW td, NEW dd,
           Walk(w, l, known, cs, td, dd)
    PROVE  /\ \A d \in Found(cs, Done(td, dd)) : Dependency(d)
           /\ \A d \in Found(cs, Done(td, dd)) : d.kind = "repo" => d.repo \in known \ Busy(cs)
           /\ \A d \in Found(cs, Done(td, dd)) \cup Heads(cs) : d.kind = "repo" => d.repo \in known
           /\ \A k \in DOMAIN cs : ToSet(cs[k].deps) \subseteq Found(cs, Done(td, dd))
           /\ \A k \in DOMAIN cs : \A i \in DOMAIN cs[k].deps :
                 cs[k].deps[i].kind = "repo" => cs[k].deps[i].repo \in known \ Busy(cs)
<1>1. \A d \in Found(cs, Done(td, dd)) :
         Dependency(d) /\ (d.kind = "repo" => d.repo \in known \ Busy(cs))
  BY DEF Walk, DepOK, Complete
<1>2. \A d \in Heads(cs) : d.repo \in known
  BY CallsFacts DEF Walk, Heads, CallOK
<1>3. \A k \in DOMAIN cs : ToSet(cs[k].deps) \subseteq Found(cs, Done(td, dd))
  BY DEF Found
<1>4. \A k \in DOMAIN cs : \A i \in DOMAIN cs[k].deps : cs[k].deps[i] \in ToSet(cs[k].deps)
  BY DEF ToSet
<1> QED BY <1>1, <1>2, <1>3, <1>4

\* A call begins with nothing.
LEMMA InvokeFacts ==
    ASSUME NEW w, NEW l, NEW known, NEW d,
           WellFormed(w), known \subseteq Usable(w), d.repo \in known
    PROVE  /\ CallOK(w, l, known, Invoke(d)) /\ Invoke(d).dep = d
           /\ ToSet(Invoke(d).deps) = {} /\ Through(w, l, Invoke(d)) = {}
<1> DEFINE c == Invoke(d)
<1>1. /\ DOMAIN c = {"dep", "deps", "renames"}
      /\ c.dep = d /\ c.deps = <<>> /\ c.renames = {}
  BY DEF Invoke
<1> HIDE DEF c
<1>2. /\ IsSeq(c.deps) /\ Len(c.deps) = 0 /\ DOMAIN c.deps = {} /\ ToSet(c.deps) = {}
  BY <1>1 DEF IsSeq, ToSet
<1>3. Len(DeclaredIn(w, l, c)) \in Nat
  <2>1. c.dep.repo \in Usable(w)
    BY <1>1
  <2> QED BY <2>1, DeclaredFacts, SeqFacts
<1>4. Through(w, l, c) = {}
  BY <1>2 DEF Through
<1>5. CallOK(w, l, known, c)
  BY <1>1, <1>2, <1>3, <1>4 DEF CallOK
<1> QED BY <1>1, <1>2, <1>4, <1>5 DEF c

\* The calls, when Get begins with a list
LEMMA FirstCall ==
    ASSUME NEW w, NEW l, NEW known, NEW cs,
           WellFormed(w), known \subseteq Usable(w), App \in known,
           cs = <<Invoke(Application)>>
    PROVE  /\ CallsInv(w, l, known, cs) /\ Busy(cs) = {App} /\ Heads(cs) = {}
           /\ \A fin : Found(cs, fin) = fin
<1> DEFINE c == Invoke(Application)
<1>1. CallOK(w, l, known, c) /\ c.dep = Application /\ ToSet(c.deps) = {}
  BY ApplicationRepo, InvokeFacts
<1> HIDE DEF c
<1>2. cs = <<c>>
  BY DEF c
<1>3. IsSeq(cs) /\ cs # <<>> /\ DOMAIN cs = {1} /\ cs[1] = c
  <2>1. /\ ToSet(<<c>>) = {c} /\ <<c>> \in Seq({c}) /\ <<c>> # <<>>
        /\ DOMAIN <<c>> = {1} /\ <<c>>[1] = c
    BY DEF ToSet
  <2> QED BY <1>2, <2>1 DEF IsSeq
<1>4. CallsInv(w, l, known, cs)
  BY <1>1, <1>3 DEF CallsInv
<1> QED BY <1>1, <1>3, <1>4, ApplicationRepo DEF Busy, Heads, Found

\* The invariant holds when Get begins,
LEMMA WalkBegins ==
    ASSUME NEW w,
           WellFormed(w), w.yaml[App] # None
    PROVE  Walk(w, "direct", {App}, <<Invoke(Application)>>, <<>>, <<>>)
<1> DEFINE cs == <<Invoke(Application)>>
<1>1. App \in Usable(w)
  BY DEF WellFormed, Usable
<1>2. /\ CallsInv(w, "direct", {App}, cs) /\ Busy(cs) = {App} /\ Heads(cs) = {}
      /\ \A fin : Found(cs, fin) = fin
  BY <1>1, FirstCall
<1> HIDE DEF cs
<1>3. IsSeq(<<>>) /\ ToSet(<<>>) = {}
  BY DEF IsSeq, ToSet
<1>4. Found(cs, Done(<<>>, <<>>)) = {}
  BY <1>2, <1>3 DEF Done
<1>5. NamesInv(w, {App}, {}, {})
  BY DEF NamesInv
<1>6. GraphInv(w, {App}, {}, {}, {})
  BY DEF GraphInv, Ordered
<1>7. {App} \ Busy(cs) = {}
  BY <1>2
<1> QED BY <1>1, <1>2, <1>3, <1>4, <1>5, <1>6, <1>7 DEF Walk, cs

\* The next that a call goes through is an entry of an acyl.yml.
LEMMA NextEntry ==
    ASSUME NEW w, NEW l, NEW known, NEW c,
           WellFormed(w), known \subseteq Usable(w), CallOK(w, l, known, c), Pends(w, l, c)
    PROVE  Entry(w, NextIn(w, l, c))
<1> DEFINE ds == DeclaredIn(w, l, c)
<1>1. c.dep.repo \in Usable(w) /\ IsSeq(c.deps)
  BY DEF CallOK
<1>2. IsSeq(ds) /\ \A i \in DOMAIN ds : Entry(w, ds[i])
  BY <1>1, DeclaredFacts
<1>3. Len(c.deps) + 1 \in DOMAIN ds
  <2>1. Len(c.deps) \in Nat /\ Len(ds) \in Nat /\ DOMAIN ds = 1..Len(ds)
    BY <1>1, <1>2, SeqFacts
  <2> QED BY <2>1 DEF Pends
<1> QED BY <1>2, <1>3 DEF NextIn

\* What was made of that is added to the last call.
LEMMA AddAtTop ==
    ASSUME NEW w, NEW l, NEW known, NEW cs, NEW d,
           WellFormed(w), known \subseteq Usable(w), CallsInv(w, l, known, cs),
           Pends(w, l, Top(cs)), MadeOf(w, l, Top(cs), d)
    PROVE  /\ CallsInv(w, l, known, WithTop(cs, Add(Top(cs), d)))
           /\ Busy(WithTop(cs, Add(Top(cs), d))) = Busy(cs)
           /\ \A fin : Found(WithTop(cs, Add(Top(cs), d)), fin) =
                          Found(cs, fin) \cup {Placed(Top(cs), d)}
           /\ \A x \in Heads(WithTop(cs, Add(Top(cs), d))) : \E y \in Heads(cs) : Like(x, y)
           /\ \A y \in Heads(cs) : \E x \in Heads(WithTop(cs, Add(Top(cs), d))) : Like(x, y)
           /\ \/ Single(Placed(Top(cs), d).name)
              \/ /\ Top(cs).dep.repo # App /\ Top(cs).dep.kind = "repo" /\ Top(cs).dep \in Heads(cs)
                 /\ Top(cs).dep.repo \in known /\ From(w, Top(cs).dep.repo, Placed(Top(cs), d))
<1> DEFINE c == Top(cs)
<1>0. Pends(w, l, c) /\ MadeOf(w, l, c, d)
  OBVIOUS
<1> HIDE DEF c
<1> DEFINE n   == Len(cs)
           c2  == Add(c, d)
           cs2 == WithTop(cs, c2)
           d2  == Placed(c, d)
           e   == NextIn(w, l, c)
<1>1. IsSeq(cs) /\ cs # <<>>
  BY DEF CallsInv
<1>2. /\ n \in Nat \ {0} /\ n \in DOMAIN cs /\ CallOK(w, l, known, c)
      /\ c.dep.repo # App <=> n # 1
      /\ n # 1 => Dependency(c.dep) /\ c.dep.kind = "repo"
      /\ n = 1 => c.dep = Application
  BY TopCall, CallsFacts DEF c
<1>3. Entry(w, e)
  <2>1. CallOK(w, l, known, c)
    BY <1>2
  <2> QED BY <1>0, <2>1, NextEntry
<1>4. Dependency(d) /\ d.name = e.name
  BY <1>0 DEF MadeOf
<1> HIDE DEF n, c2, d2, e
<1>5. ForDependency(c) /\ CallOK(w, l, known, c)
  BY <1>2 DEF ForDependency
<1>6. /\ CallOK(w, l, known, c2) /\ c2.dep.repo = c.dep.repo /\ c2.dep.ref = c.dep.ref
      /\ Through(w, l, c2) = Through(w, l, c) \cup {d.name}
      /\ ToSet(c2.deps) = ToSet(c.deps) \cup {d2}
  <2>3. CallOK(w, l, known, c2)
    BY <1>0, <1>5, AddKeepsCall DEF c2
  <2>4. c2.dep.repo = c.dep.repo
    BY <1>0, <1>5, <2>3, AddKeepsCall DEF c2
  <2>5. c2.dep.ref = c.dep.ref
    BY <1>0, <1>5, <2>3, AddKeepsCall DEF c2
  <2>6. Through(w, l, c2) = Through(w, l, c) \cup {d.name}
    BY <1>0, <1>5, <2>3, AddKeepsCall DEF c2
  <2>7. ToSet(c2.deps) = ToSet(c.deps) \cup {d2}
    BY <1>0, <1>5, <2>3, AddKeepsCall DEF c2, d2
  <2> QED BY <2>3, <2>4, <2>5, <2>6, <2>7
<1>7. /\ n = 1 => c2.dep = Application
      /\ n # 1 => c2.dep.kind = "repo" /\ c2.dep.name = c.dep.name
  <2>1. DOMAIN c = {"dep", "deps", "renames"}
    BY <1>2 DEF CallOK
  <2>2. /\ c.dep.repo = App => c2.dep = c.dep
        /\ c.dep.repo # App => \A f \in Fields \ {"requires"} : c2.dep[f] = c.dep[f]
    BY <1>5, <2>1, AddFacts DEF c2
  <2> QED BY <1>2, <2>2 DEF Fields
<1>8. n # 1 => \A e0 : HeadOK(w, l, c, e0) => HeadOK(w, l, c2, e0)
  BY <1>2, <1>6, AddKeepsHead DEF c2
<1>9. CallsInv(w, l, known, cs2)
  BY <1>6, <1>7, <1>8, TopKeepsCalls DEF n, c
<1>10. /\ Busy(cs2) = Busy(cs)
       /\ \A fin : /\ Found(cs2, fin) \subseteq Found(cs, fin) \cup ToSet(c2.deps)
                   /\ Found(cs, fin) \subseteq Found(cs2, fin) \cup ToSet(c.deps)
                   /\ ToSet(c2.deps) \subseteq Found(cs2, fin)
                   /\ ToSet(c.deps) \subseteq Found(cs, fin)
       /\ n = 1 => Heads(cs2) = {} /\ Heads(cs) = {}
       /\ n # 1 => /\ Heads(cs2) \subseteq Heads(cs) \cup {c2.dep}
                   /\ Heads(cs) \subseteq Heads(cs2) \cup {c.dep}
                   /\ c2.dep \in Heads(cs2) /\ c.dep \in Heads(cs)
  BY <1>1, <1>6, TopFacts DEF n, c
<1> HIDE DEF cs2
<1>11. \A fin : Found(cs2, fin) = Found(cs, fin) \cup {d2}
  BY <1>6, <1>10
<1>12. n # 1 => Like(c2.dep, c.dep) /\ Like(c.dep, c2.dep)
  BY <1>2, <1>6, <1>7 DEF Like
<1>13. \A x : Like(x, x)
  BY DEF Like
<1>14. /\ \A x \in Heads(cs2) : \E y \in Heads(cs) : Like(x, y)
       /\ \A y \in Heads(cs) : \E x \in Heads(cs2) : Like(x, y)
  BY <1>10, <1>12, <1>13
<1>15. \/ Single(d2.name)
       \/ /\ c.dep.repo # App /\ c.dep.kind = "repo" /\ c.dep \in Heads(cs)
          /\ c.dep.repo \in known /\ From(w, c.dep.repo, d2)
  <2>1. d2.name = IF c.dep.repo = App THEN e.name ELSE Prefixed(c.dep.repo, e.name)
    <3>1. Dependency(d2)
      BY <1>4, PlacedFacts DEF d2
    <3>2. d2.name = IF c.dep.repo = App THEN d.name ELSE Prefixed(c.dep.repo, d.name)
      BY <1>4, <3>1, PlacedFacts DEF d2
    <3> QED BY <1>4, <3>2
  <2>2. CASE n = 1
    BY <1>2, <1>3, <2>1, <2>2 DEF Entry
  <2>3. CASE n # 1
    <3>1. e.name \in Siblings(w, c.dep.repo)
      <4>1. c2.dep.repo # App /\ e.name \in Through(w, l, c2)
        BY <1>2, <1>4, <1>6, <2>3
      <4>2. Through(w, l, c2) \subseteq Siblings(w, c2.dep.repo)
        BY <1>6, <4>1, ThroughAreSiblings
      <4> QED BY <1>6, <4>1, <4>2
    <3>2. From(w, c.dep.repo, d2)
      BY <1>2, <2>1, <2>3, <3>1 DEF From
    <3>3. c.dep.repo \in known
      BY <1>2 DEF CallOK
    <3> QED BY <1>2, <1>10, <2>3, <3>2, <3>3
  <2> QED BY <2>2, <2>3
<1> QED BY <1>9, <1>10, <1>11, <1>14, <1>15 DEF cs2, c2, d2, c

\* The invariant is kept by ProcessChart,
LEMMA WalkWithChart ==
    ASSUME NEW w, NEW l, NEW known, NEW cs, NEW td, NEW dd,
           Walk(w, l, known, cs, td, dd), Pends(w, l, Top(cs)),
           NextIn(w, l, Top(cs)).kind # "repo"
    PROVE  Walk(w, l, known,
                WithTop(cs, Add(Top(cs), AtParent(NextIn(w, l, Top(cs)), Top(cs).dep))), td, dd)
<1> DEFINE c == Top(cs)
           e == NextIn(w, l, c)
<1>0. Pends(w, l, c) /\ e = NextIn(w, l, c) /\ e.kind # "repo"
  OBVIOUS
<1> HIDE DEF c, e
<1> DEFINE d   == AtParent(e, c.dep)
           cs2 == WithTop(cs, Add(c, d))
           d2  == Placed(c, d)
           fin == Done(td, dd)
<1>1. /\ WellFormed(w) /\ known \subseteq Usable(w) /\ CallsInv(w, l, known, cs)
      /\ IsSeq(cs) /\ cs # <<>>
  BY DEF Walk, CallsInv
<1>2. Entry(w, e)
  <2>1. CallOK(w, l, known, c)
    BY <1>1, TopCall DEF c
  <2> QED BY <1>0, <1>1, <2>1, NextEntry
<1>3. /\ Dependency(d) /\ d.name = e.name /\ d.requires = e.requires /\ d.kind = e.kind
      /\ d.kind = "path" => d.ref = c.dep.ref
  BY <1>2 DEF AtParent, Entry, Dependency, Fields
<1> HIDE DEF d
<1>4. MadeOf(w, l, c, d)
  <2>1. RequiresFor(w, c.dep, {}, e, d)
    BY <1>3 DEF RequiresFor, New
  <2> QED BY <1>0, <1>3, <2>1 DEF MadeOf
<1> HIDE DEF cs2, d2, fin
<1>5. /\ CallsInv(w, l, known, cs2) /\ Busy(cs2) = Busy(cs)
      /\ Found(cs2, fin) = Found(cs, fin) \cup {d2}
      /\ \A x \in Heads(cs2) : \E y \in Heads(cs) : Like(x, y)
      /\ \A y \in Heads(cs) : \E x \in Heads(cs2) : Like(x, y)
      /\ \/ Single(d2.name)
         \/ /\ c.dep.repo # App /\ c.dep.kind = "repo" /\ c.dep \in Heads(cs)
            /\ From(w, c.dep.repo, d2)
  <2>1. CallsInv(w, l, known, cs2)
    BY <1>0, <1>1, <1>4, AddAtTop DEF cs2, c
  <2>2. Busy(cs2) = Busy(cs)
    BY <1>0, <1>1, <1>4, <2>1, AddAtTop DEF cs2, c
  <2>3. Found(cs2, fin) = Found(cs, fin) \cup {d2}
    BY <1>0, <1>1, <1>4, <2>1, AddAtTop DEF cs2, d2, c
  <2>4. /\ \A x \in Heads(cs2) : \E y \in Heads(cs) : Like(x, y)
        /\ \A y \in Heads(cs) : \E x \in Heads(cs2) : Like(x, y)
    BY <1>0, <1>1, <1>4, <2>1, AddAtTop DEF cs2, c
  <2>5. \/ Single(d2.name)
        \/ /\ c.dep.repo # App /\ c.dep.kind = "repo" /\ c.dep \in Heads(cs)
           /\ From(w, c.dep.repo, d2)
    BY <1>0, <1>1, <1>4, <2>1, AddAtTop DEF cs2, d2, c
  <2> QED BY <2>1, <2>2, <2>3, <2>4, <2>5
<1>6. Dependency(d2) /\ d2.kind = d.kind /\ d2.ref = d.ref
  <2>1. Dependency(d2)
    BY <1>3, PlacedFacts DEF d2
  <2>2. d2.kind = d.kind
    BY <1>3, <2>1, PlacedFacts DEF d2
  <2>3. d2.ref = d.ref
    BY <1>3, <2>1, PlacedFacts DEF d2
  <2> QED BY <2>1, <2>2, <2>3
<1>7. \A x \in Found(cs2, fin) : DepOK(w, known \ Busy(cs2), fin, x)
  BY <1>0, <1>3, <1>5, <1>6 DEF Walk, DepOK, fin
<1>8. \A r \in known \ {App} : \E x \in Found(cs2, fin) \cup Heads(cs2) : x.kind = "repo" /\ x.repo = r
  <2> SUFFICES ASSUME NEW r \in known \ {App}
               PROVE  \E x \in Found(cs2, fin) \cup Heads(cs2) : x.kind = "repo" /\ x.repo = r
    OBVIOUS
  <2>1. PICK y \in Found(cs, fin) \cup Heads(cs) : y.kind = "repo" /\ y.repo = r
    BY DEF Walk, fin
  <2> QED BY <1>5, <2>1 DEF Like
<1>9. NamesInv(w, known, Found(cs2, fin), Heads(cs2))
  <2>1. Single(d2.name) \/ \E h \in Heads(cs) : /\ h.kind = "repo" /\ h.repo # App
                                                /\ From(w, h.repo, d2)
                                                /\ d2.kind = "path" => d2.ref = h.ref
    BY <1>3, <1>5, <1>6
  <2>2. NamesInv(w, known, Found(cs, fin), Heads(cs))
    BY DEF Walk, fin
  <2>3. \A h \in Found(cs, fin) \cup Heads(cs) : h.kind = "repo" => h.repo \in known
    BY WalkRepos DEF fin
  <2>4. d2.kind # "repo"
    BY <1>0, <1>3, <1>6
  <2>5. NamesInv(w, known, Found(cs, fin) \cup {d2}, Heads(cs))
    BY <1>1, <2>1, <2>2, <2>3, <2>4, NamesWithChart
  <2>6. \A x : Like(x, x)
    BY DEF Like
  <2>7. /\ \A x \in Found(cs2, fin) : \E y \in Found(cs, fin) \cup {d2} : Like(x, y)
        /\ \A x \in Heads(cs2) : \E y \in (Found(cs, fin) \cup {d2}) \cup Heads(cs) : Like(x, y)
    BY <1>5, <2>6
  <2> QED BY <2>5, <2>7, NamesLike
<1> QED BY <1>5, <1>7, <1>8, <1>9 DEF Walk, fin, cs2, d, c, e

\* by Rename,
LEMMA WalkRenames ==
    ASSUME NEW w, NEW l, NEW known, NEW cs, NEW td, NEW dd, NEW old,
           Walk(w, l, known, cs, td, dd), Passed(w, l, Top(cs)),
           old \in Top(cs).renames
    PROVE  Walk(w, l, known, WithTop(cs, Replacing(Top(cs), old)), td, dd)
<1> DEFINE c == Top(cs)
<1>0. Passed(w, l, c) /\ old \in c.renames
  OBVIOUS
<1> HIDE DEF c
<1> DEFINE n   == Len(cs)
           c2  == Replacing(c, old)
           cs2 == WithTop(cs, c2)
           fin == Done(td, dd)
<1>1. /\ WellFormed(w) /\ known \subseteq Usable(w) /\ CallsInv(w, l, known, cs)
      /\ IsSeq(cs) /\ cs # <<>>
  BY DEF Walk, CallsInv
<1>2. /\ n \in Nat \ {0} /\ n \in DOMAIN cs /\ CallOK(w, l, known, c)
      /\ n = 1 => c.dep = Application
  BY <1>1, TopCall, CallsFacts DEF c
<1>3. ReposIn(c, Usable(w))
  BY <1>1, <1>2, WalkRepos DEF ReposIn, Top, c
<1> HIDE DEF n, c2, fin
<1>4. /\ CallOK(w, l, known, c2) /\ c2.dep = c.dep
      /\ Through(w, l, c2) = Through(w, l, c)
      /\ DOMAIN c2.deps = DOMAIN c.deps
      /\ \A i \in DOMAIN c.deps :
            /\ Dependency(c2.deps[i])
            /\ \A f \in Fields \ {"requires"} : c2.deps[i][f] = c.deps[i][f]
            /\ \A y \in ToSet(c.deps[i].requires) : ~Single(y) => y \in ToSet(c2.deps[i].requires)
  <2>1. CallOK(w, l, known, c)
    BY <1>2
  <2>2. CallOK(w, l, known, c2)
    BY <1>0, <1>1, <1>3, <2>1, RenameKeepsCall DEF c2
  <2>3. c2.dep = c.dep
    BY <1>0, <1>1, <1>3, <2>1, <2>2, RenameKeepsCall DEF c2
  <2>4. Through(w, l, c2) = Through(w, l, c)
    BY <1>0, <1>1, <1>3, <2>1, <2>2, RenameKeepsCall DEF c2
  <2>5. DOMAIN c2.deps = DOMAIN c.deps
    BY <1>0, <1>1, <1>3, <2>1, <2>2, RenameKeepsCall DEF c2
  <2>6. \A i \in DOMAIN c.deps :
           /\ Dependency(c2.deps[i])
           /\ \A f \in Fields \ {"requires"} : c2.deps[i][f] = c.deps[i][f]
           /\ \A y \in ToSet(c.deps[i].requires) : ~Single(y) => y \in ToSet(c2.deps[i].requires)
    BY <1>0, <1>1, <1>3, <2>1, <2>2, RenameKeepsCall DEF c2
  <2> QED BY <2>2, <2>3, <2>4, <2>5, <2>6
<1>5. \A e : HeadOK(w, l, c, e) => HeadOK(w, l, c2, e)
  BY <1>4 DEF HeadOK
<1>6. CallsInv(w, l, known, cs2)
  BY <1>1, <1>2, <1>4, <1>5, TopKeepsCalls DEF n, c
<1>7. /\ Busy(cs2) = Busy(cs)
      /\ Found(cs2, fin) \subseteq Found(cs, fin) \cup ToSet(c2.deps)
      /\ Found(cs, fin) \subseteq Found(cs2, fin) \cup ToSet(c.deps)
      /\ ToSet(c2.deps) \subseteq Found(cs2, fin)
      /\ ToSet(c.deps) \subseteq Found(cs, fin)
      /\ Heads(cs2) = Heads(cs)
  <2>1. /\ Busy(cs2) = Busy(cs)
        /\ Found(cs2, fin) \subseteq Found(cs, fin) \cup ToSet(c2.deps)
        /\ Found(cs, fin) \subseteq Found(cs2, fin) \cup ToSet(c.deps)
        /\ ToSet(c2.deps) \subseteq Found(cs2, fin)
        /\ ToSet(c.deps) \subseteq Found(cs, fin)
        /\ n = 1 => Heads(cs2) = {} /\ Heads(cs) = {}
        /\ n # 1 => /\ Heads(cs2) \subseteq Heads(cs) \cup {c2.dep}
                    /\ Heads(cs) \subseteq Heads(cs2) \cup {c.dep}
                    /\ c2.dep \in Heads(cs2) /\ c.dep \in Heads(cs)
    BY <1>1, <1>4, TopFacts DEF n, c
  <2> HIDE DEF cs2
  <2>2. CASE n = 1
    BY <2>1, <2>2
  <2>3. CASE n # 1
    BY <1>4, <2>1, <2>3
  <2> QED BY <2>1, <2>2, <2>3
<1> HIDE DEF cs2
<1>8. ASSUME NEW i \in DOMAIN c.deps
      PROVE  /\ c.deps[i] \in Found(cs, fin) /\ c2.deps[i] \in Found(cs2, fin)
             /\ c2.deps[i].name = c.deps[i].name
             /\ Like(c2.deps[i], c.deps[i])
  BY <1>4, <1>7 DEF ToSet, Like, Fields
<1>9. ASSUME NEW x \in Found(cs2, fin)
      PROVE  DepOK(w, known \ Busy(cs2), fin, x) /\ \E y \in Found(cs, fin) : Like(x, y)
  <2>1. CASE x \in Found(cs, fin)
    BY <1>7, <2>1 DEF Walk, Like, fin
  <2>2. CASE x \in ToSet(c2.deps)
    <3>1. PICK i \in DOMAIN c.deps : x = c2.deps[i]
      BY <1>4, <2>2 DEF ToSet
    <3>2. DepOK(w, known \ Busy(cs), fin, c.deps[i])
      BY <1>8 DEF Walk, fin
    <3>3. known \ Busy(cs) \subseteq Usable(w)
      BY <1>1
    <3>4. DepOK(w, known \ Busy(cs), fin, c2.deps[i])
      BY <1>1, <1>4, <1>8, <3>2, <3>3, DepLike
    <3> QED BY <1>7, <1>8, <3>1, <3>4
  <2> QED BY <1>7, <2>1, <2>2
<1>10. \A r \in known \ {App} : \E x \in Found(cs2, fin) \cup Heads(cs2) : x.kind = "repo" /\ x.repo = r
  <2> SUFFICES ASSUME NEW r \in known \ {App}
               PROVE  \E x \in Found(cs2, fin) \cup Heads(cs2) : x.kind = "repo" /\ x.repo = r
    OBVIOUS
  <2>1. PICK x \in Found(cs, fin) \cup Heads(cs) : x.kind = "repo" /\ x.repo = r
    BY DEF Walk, fin
  <2>2. CASE x \in Found(cs2, fin) \cup Heads(cs2)
    BY <2>1, <2>2
  <2>3. CASE x \in ToSet(c.deps)
    <3>1. PICK i \in DOMAIN c.deps : x = c.deps[i]
      BY <2>3 DEF ToSet
    <3> QED BY <1>8, <2>1, <3>1 DEF Like
  <2> QED BY <1>7, <2>1, <2>2, <2>3
<1>11. NamesInv(w, known, Found(cs2, fin), Heads(cs2))
  <2>1. NamesInv(w, known, Found(cs, fin), Heads(cs))
    BY DEF Walk, fin
  <2>2. \A x \in Heads(cs2) : \E y \in Found(cs, fin) \cup Heads(cs) : Like(x, y)
    BY <1>7 DEF Like
  <2> QED BY <1>9, <2>1, <2>2, NamesLike
<1> QED BY <1>6, <1>7, <1>9, <1>10, <1>11 DEF Walk, fin, cs2, c2, c

\* d is the repository e, at the branch that is chosen for it.
Taken(w, e, d) ==
    /\ Dependency(d) /\ d.kind = "repo" /\ d.name = e.name /\ d.repo = e.repo
    /\ d.requires = e.requires /\ Chosen(w, d)

\* by ProcessRepo,
LEMMA WalkWithRepo ==
    ASSUME NEW w, NEW l, NEW known, NEW cs, NEW td, NEW dd, NEW d,
           Walk(w, l, known, cs, td, dd), Pends(w, l, Top(cs)),
           Taken(w, NextIn(w, l, Top(cs)), d), d.repo \in Usable(w) \ known
    PROVE  Walk(w, l, known \cup {d.repo}, Append(cs, Invoke(d)), td, dd)
<1> DEFINE known2 == known \cup {d.repo}
           c2  == Invoke(d)
           cs2 == Append(cs, c2)
           fin == Done(td, dd)
           e   == NextIn(w, l, Top(cs))
<1> HIDE DEF known2, c2, cs2, fin, e
<1>1. /\ WellFormed(w) /\ known \subseteq Usable(w) /\ CallsInv(w, l, known, cs) /\ App \in known
  BY DEF Walk
<1>2. /\ known2 \subseteq Usable(w) /\ known \subseteq known2 /\ d.repo \in known2
      /\ d.repo # App
  BY <1>1 DEF known2
<1>3. /\ CallOK(w, l, known2, c2) /\ c2.dep = d
      /\ ToSet(c2.deps) = {} /\ Through(w, l, c2) = {}
  <2>1. CallOK(w, l, known2, c2)
    BY <1>1, <1>2, InvokeFacts DEF c2
  <2>2. c2.dep = d
    BY <1>1, <1>2, <2>1, InvokeFacts DEF c2
  <2>3. ToSet(c2.deps) = {}
    BY <1>1, <1>2, <2>1, InvokeFacts DEF c2
  <2>4. Through(w, l, c2) = {}
    BY <1>1, <1>2, <2>1, InvokeFacts DEF c2
  <2> QED BY <2>1, <2>2, <2>3, <2>4
<1>4. Taken(w, e, d) /\ Dependency(d) /\ d.kind = "repo" /\ d.name = e.name
      /\ d.requires = e.requires /\ Chosen(w, d)
  BY DEF Taken, e
<1>5. Follows(w, l, Top(cs), c2)
  <2>1. HeadOK(w, l, c2, e)
    BY <1>2, <1>3, <1>4 DEF HeadOK
  <2> QED BY <2>1 DEF Follows, Pends, e
<1>6. c2.dep.repo \notin Busy(cs)
  <2>1. Busy(cs) \subseteq known
    BY <1>1, CallsFacts DEF Busy, CallOK
  <2> QED BY <1>3, <2>1
<1>7. /\ CallsInv(w, l, known2, cs2) /\ Busy(cs2) = Busy(cs) \cup {d.repo}
      /\ Found(cs2, fin) = Found(cs, fin) /\ Heads(cs2) = Heads(cs) \cup {d}
  <2>1. CallsInv(w, l, known2, cs2)
    BY <1>1, <1>2, <1>3, <1>5, <1>6, PushFacts DEF cs2
  <2>2. Busy(cs2) = Busy(cs) \cup {c2.dep.repo}
    BY <1>1, <1>2, <1>3, <1>5, <1>6, <2>1, PushFacts DEF cs2
  <2>3. Found(cs2, fin) = Found(cs, fin) \cup ToSet(c2.deps)
    BY <1>1, <1>2, <1>3, <1>5, <1>6, <2>1, PushFacts DEF cs2
  <2>4. Heads(cs2) = Heads(cs) \cup {c2.dep}
    BY <1>1, <1>2, <1>3, <1>5, <1>6, <2>1, PushFacts DEF cs2
  <2> QED BY <1>3, <2>1, <2>2, <2>3, <2>4
<1>8. known2 \ Busy(cs2) = known \ Busy(cs)
  BY <1>7 DEF known2
<1>9. \A x \in Found(cs2, fin) : DepOK(w, known2 \ Busy(cs2), fin, x)
  BY <1>7, <1>8 DEF Walk, fin
<1>10. \A r \in known2 \ {App} : \E x \in Found(cs2, fin) \cup Heads(cs2) : x.kind = "repo" /\ x.repo = r
  <2>1. \A r \in known \ {App} : \E x \in Found(cs, fin) \cup Heads(cs) : x.kind = "repo" /\ x.repo = r
    BY DEF Walk, fin
  <2> QED BY <1>4, <1>7, <2>1 DEF known2
<1>11. NamesInv(w, known2, Found(cs2, fin), Heads(cs2))
  <2>1. NamesInv(w, known, Found(cs, fin), Heads(cs))
    BY DEF Walk, fin
  <2>2. \A h \in Found(cs, fin) \cup Heads(cs) : h.kind = "repo" => h.repo \in known
    BY WalkRepos DEF fin
  <2>3. NamesInv(w, known2, Found(cs, fin), Heads(cs) \cup {d})
    BY <1>1, <2>1, <2>2, NamesWithHead DEF known2
  <2> QED BY <1>7, <2>3
<1>12. GraphInv(w, known2, known2 \ Busy(cs2), ToSet(td), ToSet(dd))
  <2>1. GraphInv(w, known, known \ Busy(cs), ToSet(td), ToSet(dd))
    BY DEF Walk
  <2>2. (\A r \in known2 : WellDeclared(w.yaml[r])) => \A r \in known : WellDeclared(w.yaml[r])
    BY <1>2
  <2> QED BY <1>8, <2>1, <2>2, Zenon DEF GraphInv
<1> QED BY <1>1, <1>2, <1>7, <1>9, <1>10, <1>11, <1>12 DEF Walk, fin, cs2, c2, known2

\* by Return,
LEMMA WalkReturns ==
    ASSUME NEW w, NEW l, NEW known, NEW cs, NEW td, NEW dd,
           Walk(w, l, known, cs, td, dd), Ends(w, l, Top(cs)), Len(cs) # 1
    PROVE  Walk(w, l, known, WithTop(Callers(cs), Add(Top(Callers(cs)), Top(cs).dep)),
                td \o Top(cs).deps, dd)
<1> DEFINE c == Top(cs)
           f == Callers(cs)
<1>0. Ends(w, l, c) /\ Top(cs) = c
  OBVIOUS
<1> HIDE DEF c, f
<1> DEFINE p      == Top(f)
           d      == c.dep
           cs2    == WithTop(f, Add(p, d))
           td2    == td \o c.deps
           d2     == Placed(p, d)
           e      == NextIn(w, l, p)
           fin    == Done(td, dd)
           fin2   == Done(td2, dd)
           closed == known \ Busy(cs)
           more   == closed \cup {d.repo}
<1>1. /\ WellFormed(w) /\ known \subseteq Usable(w) /\ CallsInv(w, l, known, cs) /\ App \in known
      /\ IsSeq(cs) /\ IsSeq(td)
  BY DEF Walk, CallsInv
<1>2. /\ CallOK(w, l, known, c) /\ d.repo # App /\ Dependency(d) /\ d.kind = "repo" /\ d.repo \in known
  <2>1. /\ CallOK(w, l, known, c) /\ d.repo # App /\ Dependency(d) /\ d.kind = "repo"
    BY <1>1, TopCall DEF c
  <2> QED BY <2>1 DEF CallOK
<1> HIDE DEF p, d, cs2, td2, d2, e, fin, fin2, closed, more
<1>3. CallsInv(w, l, known, f)
  BY <1>1, CallersFacts DEF f
<1>4. /\ Busy(cs) = Busy(f) \cup {d.repo} /\ d.repo \notin Busy(f)
      /\ \A fi : Found(cs, fi) = Found(f, fi) \cup ToSet(c.deps)
      /\ Heads(cs) = Heads(f) \cup {d}
  BY <1>0, <1>1, <1>3, CallersFacts DEF f, d
<1>5. Follows(w, l, p, c)
  <2> DEFINE n == Len(cs)
  <2>1. n \in Nat \ {0} /\ DOMAIN cs = 1..n
    BY <1>1, CallsFacts
  <2>2. Len(f) = n - 1 /\ \A k \in 1..(n - 1) : f[k] = cs[k]
    BY <1>1, <1>3, CallersFacts DEF f
  <2>3. \A k \in DOMAIN cs : k > 1 => Follows(w, l, cs[k - 1], cs[k])
    BY <1>1 DEF CallsInv
  <2>4. c = cs[n] /\ p = f[n - 1]
    BY <2>2 DEF c, p, Top
  <2>5. n # 1
    OBVIOUS
  <2> HIDE DEF n
  <2>6. p = cs[n - 1]
    BY <2>1, <2>2, <2>4, <2>5
  <2>7. Follows(w, l, cs[n - 1], cs[n])
    BY <2>1, <2>3, <2>5
  <2> QED BY <2>4, <2>6, <2>7
<1>6. Pends(w, l, p) /\ HeadOK(w, l, c, e)
  BY <1>5 DEF Follows, Pends, e
<1>7. d.name = e.name /\ ToSet(d.requires) = ToSet(e.requires) \cup {Prefixed(d.repo, n) : n \in Through(w, l, c)}
  BY <1>6 DEF HeadOK, d
<1>8. CallOK(w, l, known, p)
  BY <1>3, TopCall DEF p
<1>9. Single(e.name)
  <2>1. Entry(w, e)
    BY <1>1, <1>6, <1>8, NextEntry DEF e
  <2> QED BY <2>1 DEF Entry
<1>10. MadeOf(w, l, p, d)
  <2>1. Through(w, l, c) \subseteq Siblings(w, d.repo)
    BY <1>1, <1>2, ThroughAreSiblings DEF d
  <2>2. RequiresFor(w, p.dep, {}, e, d)
    BY <1>2, <1>7, <2>1 DEF RequiresFor, New, Own
  <2> QED BY <1>2, <1>7, <2>2 DEF MadeOf, e
<1>11. /\ CallsInv(w, l, known, cs2) /\ Busy(cs2) = Busy(f)
       /\ Found(cs2, fin2) = Found(f, fin2) \cup {d2}
       /\ \A x \in Heads(cs2) : \E y \in Heads(f) : Like(x, y)
       /\ \A y \in Heads(f) : \E x \in Heads(cs2) : Like(x, y)
       /\ \/ Single(d2.name)
          \/ p.dep.repo # App /\ p.dep.repo \in known /\ From(w, p.dep.repo, d2)
  <2>1. CallsInv(w, l, known, cs2)
    BY <1>1, <1>3, <1>6, <1>10, AddAtTop DEF cs2, p
  <2>2. Busy(cs2) = Busy(f)
    BY <1>1, <1>3, <1>6, <1>10, <2>1, AddAtTop DEF cs2, p
  <2>3. Found(cs2, fin2) = Found(f, fin2) \cup {d2}
    BY <1>1, <1>3, <1>6, <1>10, <2>1, AddAtTop DEF cs2, d2, p
  <2>4. /\ \A x \in Heads(cs2) : \E y \in Heads(f) : Like(x, y)
        /\ \A y \in Heads(f) : \E x \in Heads(cs2) : Like(x, y)
    BY <1>1, <1>3, <1>6, <1>10, <2>1, AddAtTop DEF cs2, p
  <2>5. \/ Single(d2.name)
        \/ p.dep.repo # App /\ p.dep.repo \in known /\ From(w, p.dep.repo, d2)
    BY <1>1, <1>3, <1>6, <1>10, <2>1, AddAtTop DEF cs2, d2, p
  <2> QED BY <2>1, <2>2, <2>3, <2>4, <2>5
<1>12. Dependency(d2) /\ d2.kind = d.kind /\ d2.ref = d.ref /\ d2.repo = d.repo
  <2>1. Dependency(d2)
    BY <1>2, PlacedFacts DEF d2
  <2>2. d2.kind = d.kind
    BY <1>2, <2>1, PlacedFacts DEF d2
  <2>3. d2.ref = d.ref
    BY <1>2, <2>1, PlacedFacts DEF d2
  <2>4. d2.repo = d.repo
    BY <1>2, <2>1, PlacedFacts DEF d2
  <2> QED BY <2>1, <2>2, <2>3, <2>4
<1>13. IsSeq(td2) /\ ToSet(td2) = ToSet(td) \cup ToSet(c.deps)
  <2>1. IsSeq(c.deps)
    BY <1>2 DEF CallOK
  <2> QED BY <1>1, <2>1, ConcatFacts DEF td2
<1>14. fin2 = fin \cup ToSet(c.deps)
  BY <1>13 DEF fin, fin2, Done
<1>15. Found(cs2, fin2) = Found(cs, fin) \cup {d2}
  <2>1. Found(f, fin2) = Found(f, fin) \cup ToSet(c.deps)
    BY <1>14 DEF Found
  <2> QED BY <1>4, <1>11, <2>1
<1>16. known \ Busy(cs2) = more /\ d.repo \notin closed /\ closed \subseteq known
  BY <1>2, <1>4, <1>11 DEF more, closed
<1>17. ASSUME NEW x \in Found(cs2, fin2) PROVE DepOK(w, more, fin2, x)
  <2>1. CASE x \in Found(cs, fin)
    <3>1. DepOK(w, closed, fin, x)
      BY <2>1 DEF Walk, fin, closed
    <3>2. closed \subseteq more /\ fin \subseteq fin2
      BY <1>14 DEF more
    <3> QED BY <3>1, <3>2, DepMonotone
  <2>2. CASE x = d2
    <3>1. c.dep.repo \in more /\ ToSet(c.deps) \subseteq fin2
      BY <1>14 DEF more, d
    <3>2. DepOK(w, more, fin2, Placed(p, c.dep))
      BY <1>0, <1>1, <1>2, <1>6, <1>9, <3>1, HeadCompletes
    <3> QED BY <2>2, <3>2 DEF d2, d
  <2> QED BY <1>15, <2>1, <2>2
<1>18. \A r \in known \ {App} : \E x \in Found(cs2, fin2) \cup Heads(cs2) : x.kind = "repo" /\ x.repo = r
  <2> SUFFICES ASSUME NEW r \in known \ {App}
               PROVE  \E x \in Found(cs2, fin2) \cup Heads(cs2) : x.kind = "repo" /\ x.repo = r
    OBVIOUS
  <2>1. PICK y \in Found(cs, fin) \cup Heads(cs) : y.kind = "repo" /\ y.repo = r
    BY DEF Walk, fin
  <2>2. CASE y \in Found(cs, fin)
    BY <1>15, <2>1, <2>2
  <2>3. CASE y \in Heads(f)
    BY <1>11, <2>1, <2>3 DEF Like
  <2>4. CASE y = d
    BY <1>2, <1>12, <1>15, <2>1, <2>4
  <2> QED BY <1>4, <2>1, <2>2, <2>3, <2>4
<1>19. NamesInv(w, known, Found(cs2, fin2), Heads(cs2))
  <2>1. NamesInv(w, known, Found(cs, fin), Heads(cs))
    BY DEF Walk, fin
  <2>2. Single(d2.name) \/ \E r \in known \ {App} : From(w, r, d2)
    BY <1>11
  <2>3. d \in Heads(cs)
    BY <1>4
  <2>4. NamesInv(w, known, Found(cs, fin) \cup {d2}, Heads(cs))
    BY <1>2, <1>12, <2>1, <2>2, <2>3, NamesWithRepo
  <2>5. \A x : Like(x, x)
    BY DEF Like
  <2>6. /\ \A x \in Found(cs2, fin2) : \E y \in Found(cs, fin) \cup {d2} : Like(x, y)
        /\ \A x \in Heads(cs2) : \E y \in (Found(cs, fin) \cup {d2}) \cup Heads(cs) : Like(x, y)
    BY <1>4, <1>11, <1>15, <2>5
  <2> QED BY <2>4, <2>6, NamesLike
<1>20. GraphInv(w, known, more, ToSet(td2), ToSet(dd))
  <2>1. GraphInv(w, known, closed, ToSet(td), ToSet(dd))
    BY DEF Walk, closed
  <2>2. ReposIn(c, closed)
    BY <1>1, TopCall, WalkRepos DEF ReposIn, c, closed
  <2>3. GraphInv(w, known, closed \cup {c.dep.repo}, ToSet(td) \cup ToSet(c.deps), ToSet(dd))
    BY <1>0, <1>1, <1>2, <1>16, <2>1, <2>2, GraphWithRepo DEF d
  <2> QED BY <1>13, <2>3 DEF more, d
<1>21. Walk(w, l, known, cs2, td2, dd)
  BY <1>1, <1>11, <1>13, <1>16, <1>17, <1>18, <1>19, <1>20 DEF Walk, fin2
<1> QED BY <1>21 DEF cs2, td2, p, d, c, f

\* When there is one call, it is for the application.
LEMMA OneCall ==
    ASSUME NEW w, NEW l, NEW known, NEW cs,
           CallsInv(w, l, known, cs), Len(cs) = 1
    PROVE  /\ CallOK(w, l, known, Top(cs)) /\ Top(cs).dep.repo = App /\ IsSeq(Top(cs).deps)
           /\ Top(cs).renames = {}
           /\ Busy(cs) = {App} /\ Heads(cs) = {}
           /\ \A fin : Found(cs, fin) = fin \cup ToSet(Top(cs).deps)
<1> DEFINE c == Top(cs)
<1>1. CallOK(w, l, known, c) /\ c.dep = Application
  BY TopCall
<1>2. DOMAIN cs = {1} /\ c = cs[1]
  <2>1. DOMAIN cs = 1..Len(cs)
    BY CallsFacts
  <2> QED BY <2>1 DEF Top
<1> HIDE DEF c
<1>3. c.dep.repo = App
  BY <1>1, ApplicationRepo
<1>4. IsSeq(c.deps) /\ c.renames = {}
  BY <1>1, <1>3 DEF CallOK
<1>5. Busy(cs) = {App} /\ Heads(cs) = {}
  BY <1>2, <1>3 DEF Busy, Heads
<1>6. \A fin : Found(cs, fin) = fin \cup ToSet(c.deps)
  BY <1>2 DEF Found
<1> QED BY <1>1, <1>3, <1>4, <1>5, <1>6 DEF c

\* and by EndDirect.
LEMMA WalkEndsDirect ==
    ASSUME NEW w, NEW known, NEW cs, NEW td, NEW dd,
           Walk(w, "direct", known, cs, td, dd), Passed(w, "direct", Top(cs)), Len(cs) = 1
    PROVE  Walk(w, "env", known, <<Invoke(Application)>>, <<>>, Top(cs).deps \o td)
<1> DEFINE c == Top(cs)
<1>0. Passed(w, "direct", c)
  OBVIOUS
<1> HIDE DEF c
<1> DEFINE dd2    == c.deps \o td
           cs2    == <<Invoke(Application)>>
           fin    == Done(td, dd)
           fin2   == Done(<<>>, dd2)
           closed == known \ Busy(cs)
           ds     == DeclaredIn(w, "direct", c)
<1>1. /\ WellFormed(w) /\ known \subseteq Usable(w) /\ App \in known
      /\ CallsInv(w, "direct", known, cs) /\ IsSeq(td) /\ dd = <<>>
  BY DEF Walk
<1>2. /\ CallOK(w, "direct", known, c) /\ c.dep.repo = App /\ IsSeq(c.deps) /\ c.renames = {}
      /\ Busy(cs) = {App} /\ Heads(cs) = {} /\ Found(cs, fin) = fin \cup ToSet(c.deps)
  BY <1>1, OneCall DEF c
<1>3. /\ CallsInv(w, "env", known, cs2) /\ Busy(cs2) = {App} /\ Heads(cs2) = {}
      /\ \A fi : Found(cs2, fi) = fi
  BY <1>1, FirstCall
<1> HIDE DEF dd2, cs2, fin, fin2, closed, ds
<1>4. /\ IsSeq(dd2) /\ ToSet(dd2) = ToSet(c.deps) \cup ToSet(td)
      /\ NamesOf(c.deps) \subseteq NamesOf(dd2)
  <2>1. /\ IsSeq(dd2) /\ ToSet(dd2) = ToSet(c.deps) \cup ToSet(td)
        /\ \A i \in DOMAIN c.deps : i \in DOMAIN dd2 /\ dd2[i] = c.deps[i]
    BY <1>1, <1>2, ConcatFacts DEF dd2
  <2> QED BY <2>1 DEF NamesOf
<1>5. IsSeq(<<>>) /\ ToSet(<<>>) = {}
  BY DEF IsSeq, ToSet
<1>6. fin2 = Found(cs, fin) /\ fin2 = ToSet(td) \cup ToSet(c.deps) /\ fin = ToSet(td)
  BY <1>1, <1>2, <1>4, <1>5 DEF fin, fin2, Done
<1>7. closed = known \ Busy(cs2) /\ App \notin closed /\ closed \subseteq known
  BY <1>2, <1>3 DEF closed
<1>8. ds = w.yaml[App].direct /\ NamesOf(ds) = Siblings(w, App)
  BY <1>2 DEF ds, DeclaredIn, Siblings
<1>9. GraphInv(w, known, closed, ToSet(td), {})
  BY <1>1, <1>5 DEF Walk, closed
<1>10. ReposIn(c, closed)
  BY <1>1, TopCall, WalkRepos DEF ReposIn, c, closed
<1>11. Ends(w, "direct", c)
  BY <1>0, <1>2 DEF Ends
<1>12. /\ \A d \in ToSet(c.deps) : d.name \in NamesOf(ds)
       /\ NamesOf(ds) \subseteq NamesOf(c.deps)
       /\ (\A r \in known : WellDeclared(w.yaml[r])) =>
             /\ \A d \in ToSet(c.deps) :
                   ToSet(d.requires) \subseteq Inner(w, closed) \cup NamesOf(ds) \cup {}
             /\ Ordered((ToSet(td) \cup {}) \cup ToSet(c.deps))
  <2>1. {} = IF "direct" = "env" THEN Siblings(w, App) ELSE {}
    OBVIOUS
  <2>2. "direct" = "env" => \A i \in DOMAIN c.deps : c.deps[i].name \notin Siblings(w, App)
    OBVIOUS
  <2>3. "direct" # "env" => {} = {}
    OBVIOUS
  <2> QED BY <1>1, <1>2, <1>7, <1>9, <1>10, <1>11, <2>1, <2>2, <2>3, GraphWithList DEF ds
<1>13. GraphInv(w, known, closed, {}, ToSet(dd2))
  <2>1. \A d \in ToSet(dd2) : d.name \in Inner(w, closed) \cup Siblings(w, App)
    BY <1>4, <1>8, <1>9, <1>12 DEF GraphInv
  <2>2. ASSUME \A r \in known : WellDeclared(w.yaml[r])
        PROVE  /\ \A d \in ToSet(dd2) : ToSet(d.requires) \subseteq Inner(w, closed) \cup Siblings(w, App)
               /\ Ordered({} \cup ToSet(dd2))
    <3>1. {} \cup ToSet(dd2) = (ToSet(td) \cup {}) \cup ToSet(c.deps)
      BY <1>4
    <3>2. Ordered({} \cup ToSet(dd2))
      BY <1>12, <2>2, <3>1, Zenon
    <3>3. \A d \in ToSet(td) : ToSet(d.requires) \subseteq Inner(w, closed)
      BY <1>9, <2>2 DEF GraphInv
    <3>4. \A d \in ToSet(c.deps) : ToSet(d.requires) \subseteq Inner(w, closed) \cup Siblings(w, App)
      BY <1>8, <1>12, <2>2
    <3> QED BY <1>4, <3>2, <3>3, <3>4
  <2> QED BY <2>1, <2>2 DEF GraphInv
<1>14. ASSUME NEW d \in fin2 PROVE DepOK(w, closed, fin2, d)
  <2>1. DepOK(w, closed, fin, d)
    BY <1>6 DEF Walk, closed, fin
  <2>2. closed \subseteq closed /\ fin \subseteq fin2
    BY <1>6
  <2> QED BY <2>1, <2>2, DepMonotone
<1>15. /\ \A r \in known \ {App} : \E d \in fin2 \cup {} : d.kind = "repo" /\ d.repo = r
       /\ NamesInv(w, known, fin2, {})
  BY <1>2, <1>6 DEF Walk, fin
<1>16. Siblings(w, App) \subseteq NamesOf(dd2)
  BY <1>4, <1>8, <1>12
<1>17. Walk(w, "env", known, cs2, <<>>, dd2)
  BY <1>1, <1>3, <1>4, <1>5, <1>7, <1>13, <1>14, <1>15, <1>16 DEF Walk, fin2
<1> QED BY <1>17 DEF cs2, dd2, c

-----------------------------------------------------------------------------
(* What Get returns *)

\* What Get returns consists of what it has found.
LEMMA EnvEnds ==
    ASSUME NEW w, NEW known, NEW cs, NEW td, NEW dd,
           Walk(w, "env", known, cs, td, dd), Len(cs) = 1
    PROVE  /\ IsSeq(dd) /\ IsSeq(Top(cs).deps \o td)
           /\ IsSeq(dd \o (Top(cs).deps \o td))
           /\ ToSet(Top(cs).deps \o td) = ToSet(Top(cs).deps) \cup ToSet(td)
           /\ ToSet(dd \o (Top(cs).deps \o td)) = Found(cs, Done(td, dd))
           /\ Found(cs, Done(td, dd)) = ToSet(td) \cup ToSet(dd) \cup ToSet(Top(cs).deps)
<1> DEFINE c   == Top(cs)
           env == c.deps \o td
<1>1. /\ CallsInv(w, "env", known, cs) /\ IsSeq(td) /\ IsSeq(dd)
  BY DEF Walk
<1>2. IsSeq(c.deps) /\ Found(cs, Done(td, dd)) = Done(td, dd) \cup ToSet(c.deps)
  BY <1>1, OneCall
<1> HIDE DEF c
<1>3. IsSeq(env) /\ ToSet(env) = ToSet(c.deps) \cup ToSet(td)
  BY <1>1, <1>2, ConcatFacts
<1> HIDE DEF env
<1>4. IsSeq(dd \o env) /\ ToSet(dd \o env) = ToSet(dd) \cup ToSet(env)
  BY <1>1, <1>3, ConcatFacts
<1> QED BY <1>1, <1>2, <1>3, <1>4 DEF Done, env, c

\* The elements of a sequence are what is in it.
LEMMA MembersAreAt ==
    ASSUME NEW all
    PROVE  /\ \A i \in DOMAIN all : all[i] \in ToSet(all)
           /\ \A d \in ToSet(all) : \E i \in DOMAIN all : d = all[i]
BY DEF ToSet

\* What RefsMatch says of one repository
LEMMA RefsOfEnv ==
    ASSUME NEW w, NEW known, NEW cs, NEW td, NEW dd, NEW d,
           Walk(w, "env", known, cs, td, dd), Len(cs) = 1,
           d \in Found(cs, Done(td, dd)), d.kind = "repo"
    PROVE  /\ Chosen(w, d) /\ d.repo # App
           /\ \A kid \in Found(cs, Done(td, dd)) :
                 kid.kind = "path" /\ kid.name[1] = d.repo /\ Len(kid.name) = 2 => kid.ref = d.ref
<1> DEFINE found == Found(cs, Done(td, dd))
<1>1. WellFormed(w) /\ known \subseteq Usable(w) /\ NamesInv(w, known, found, Heads(cs))
  BY DEF Walk
<1>2. Busy(cs) = {App}
  BY OneCall DEF Walk
<1>3. Complete(w, known \ Busy(cs), Done(td, dd), d)
  BY DEF Walk, DepOK
<1>4. Chosen(w, d) /\ d.repo # App
  BY <1>2, <1>3 DEF Complete
<1> HIDE DEF found
<1>5. ASSUME NEW kid \in found, kid.kind = "path", kid.name[1] = d.repo, Len(kid.name) = 2
      PROVE  kid.ref = d.ref
  <2>1. ~Single(kid.name)
    <3>1. Len(<<kid.name[1]>>) = 1
      OBVIOUS
    <3> QED BY <1>5, <3>1 DEF Single
  <2>2. PICK r \in known \ {App} : From(w, r, kid)
    BY <1>1, <2>1 DEF NamesInv
  <2>3. PICK n \in Siblings(w, r) : kid.name = Prefixed(r, n)
    BY <2>2 DEF From
  <2>4. Single(n)
    BY <1>1, SiblingsAreSingle
  <2>5. Prefixed(r, n)[1] = r
    BY <2>4, PrefixedFacts
  <2>6. From(w, d.repo, kid)
    BY <1>5, <2>2, <2>3, <2>5
  <2>7. d \in found
    BY DEF found
  <2> QED BY <1>1, <1>5, <2>6, <2>7 DEF NamesInv
<1> QED BY <1>4, <1>5 DEF found

\* kid is what entry j of the repository d has become.
Stands(w, d, j, kid) ==
    LET e == w.yaml[d.repo].direct[j]
    IN  /\ kid.name = Prefixed(d.repo, e.name)
        /\ kid.name \in ToSet(d.requires)
        /\ \A r \in ToSet(e.requires) \cap Siblings(w, d.repo) :
              Prefixed(d.repo, r) \in ToSet(kid.requires)
        /\ Len(d.name) = 1 => kid.parent = d.name

\* What TransitivesRequired says of one dependency of a repository
LEMMA TransitivesOfEnv ==
    ASSUME NEW w, NEW known, NEW cs, NEW td, NEW dd, NEW d, NEW j,
           Walk(w, "env", known, cs, td, dd), Len(cs) = 1,
           d \in Found(cs, Done(td, dd)), d.kind = "repo",
           j \in DOMAIN w.yaml[d.repo].direct
    PROVE  \E kid \in Found(cs, Done(td, dd)) : Stands(w, d, j, kid)
<1> DEFINE found == Found(cs, Done(td, dd))
           fin   == Done(td, dd)
           e     == w.yaml[d.repo].direct[j]
<1>1. WellFormed(w) /\ known \subseteq Usable(w) /\ NamesInv(w, known, found, Heads(cs))
  BY DEF Walk
<1>2. Complete(w, known \ Busy(cs), fin, d)
  BY DEF Walk, DepOK
<1>3. d.repo # App
  BY RefsOfEnv
<1>4. fin \subseteq found
  BY DEF Found
<1> HIDE DEF found, fin, e
<1>5. Prefixed(d.repo, e.name) \in ToSet(d.requires)
  BY <1>2 DEF Complete, e
<1>6. PICK kid \in fin : /\ Child(w, d, Siblings(w, d.repo), e, kid)
                         /\ Single(d.name) => kid.parent = d.name
  BY <1>2 DEF Complete, e
<1>7. /\ kid.name = Prefixed(d.repo, e.name)
      /\ \A r \in ToSet(e.requires) \cap Siblings(w, d.repo) : Prefixed(d.repo, r) \in ToSet(kid.requires)
  BY <1>3, <1>6 DEF Child, RequiresFor, New
<1>8. Len(d.name) = 1 => Single(d.name)
  <2> SUFFICES ASSUME ~Single(d.name) PROVE Len(d.name) = 2
    OBVIOUS
  <2>1. d \in found
    BY DEF found
  <2>2. PICK r \in known \ {App} : From(w, r, d)
    BY <1>1, <2>1 DEF NamesInv
  <2>3. PICK n \in Siblings(w, r) : d.name = Prefixed(r, n)
    BY <2>2 DEF From
  <2>4. Single(n)
    BY <1>1, SiblingsAreSingle
  <2> QED BY <2>3, <2>4, PrefixedFacts
<1>9. Stands(w, d, j, kid)
  BY <1>5, <1>6, <1>7, <1>8 DEF Stands, e
<1> QED BY <1>4, <1>6, <1>9 DEF found

\* What ValidateNames accepts: names and repositories are there once, and what is required is there.
LEMMA AcceptedNames ==
    ASSUME NEW direct, NEW env,
           IsSeq(direct), IsSeq(env), ValidateNames(direct, env)
    PROVE  /\ \A i, j \in DOMAIN (direct \o env) :
                 (direct \o env)[i].name = (direct \o env)[j].name => i = j
           /\ \A i, j \in DOMAIN (direct \o env) :
                 (direct \o env)[i].kind = "repo" /\ (direct \o env)[j].kind = "repo"
                 /\ (direct \o env)[i].repo = (direct \o env)[j].repo => i = j
           /\ \A i \in DOMAIN (direct \o env) :
                 ToSet((direct \o env)[i].requires) \subseteq NamesOf(direct \o env)
           /\ \A i \in DOMAIN direct : \A j \in DOMAIN env : direct[i].name # env[j].name
<1> DEFINE all == direct \o env
<1>1. /\ IsInjective([i \in DOMAIN all |-> all[i].name])
      /\ \A i, j \in DOMAIN all :
            all[i].kind = "repo" /\ all[j].kind = "repo" /\ all[i].repo = all[j].repo => i = j
      /\ \A i \in DOMAIN direct : ToSet(direct[i].requires) \subseteq NamesOf(direct)
      /\ \A i \in DOMAIN env : ToSet(env[i].requires) \subseteq NamesOf(all)
  BY DEF ValidateNames
<1>2. /\ \A i \in DOMAIN direct : i \in DOMAIN all /\ all[i] = direct[i]
      /\ \A i \in DOMAIN env : Len(direct) + i \in DOMAIN all /\ all[Len(direct) + i] = env[i]
      /\ \A i \in DOMAIN all :
            \/ i \in DOMAIN direct
            \/ i - Len(direct) \in DOMAIN env /\ all[i] = env[i - Len(direct)]
  BY ConcatFacts
<1>3. /\ Len(direct) \in Nat /\ DOMAIN direct = 1..Len(direct)
      /\ Len(env) \in Nat /\ DOMAIN env = 1..Len(env)
  BY SeqFacts
<1> HIDE DEF all
<1>4. \A i, j \in DOMAIN all : all[i].name = all[j].name => i = j
  BY <1>1 DEF IsInjective
<1>5. NamesOf(direct) \subseteq NamesOf(all)
  BY <1>2 DEF NamesOf
<1>6. \A i \in DOMAIN all : ToSet(all[i].requires) \subseteq NamesOf(all)
  <2> SUFFICES ASSUME NEW i \in DOMAIN all PROVE ToSet(all[i].requires) \subseteq NamesOf(all)
    OBVIOUS
  <2>1. CASE i \in DOMAIN direct
    <3>1. all[i] = direct[i] /\ ToSet(direct[i].requires) \subseteq NamesOf(direct)
      BY <1>1, <1>2, <2>1
    <3> QED BY <1>5, <3>1
  <2>2. CASE i - Len(direct) \in DOMAIN env /\ all[i] = env[i - Len(direct)]
    BY <1>1, <2>2
  <2> QED BY <1>2, <2>1, <2>2
<1>7. ASSUME NEW i \in DOMAIN direct, NEW j \in DOMAIN env, direct[i].name = env[j].name
      PROVE  FALSE
  <2>1. i \in DOMAIN all /\ all[i] = direct[i]
    BY <1>2
  <2>2. Len(direct) + j \in DOMAIN all /\ all[Len(direct) + j] = env[j]
    BY <1>2
  <2>3. i = Len(direct) + j
    BY <1>4, <1>7, <2>1, <2>2
  <2> QED BY <1>3, <2>3
<1> QED BY <1>1, <1>4, <1>6, <1>7 DEF all

\* No name below the triggering repository is one that is declared.
LEMMA InnerIsNotSingle ==
    ASSUME NEW w, NEW closed,
           WellFormed(w), closed \subseteq Usable(w)
    PROVE  \A n \in Inner(w, closed) : ~Single(n)
BY OwnAreNot DEF Inner

\* When every acyl.yml is well declared, what Get has found is ordered.
LEMMA EnvOrdered ==
    ASSUME NEW w, NEW known, NEW cs, NEW td, NEW dd,
           Walk(w, "env", known, cs, td, dd), Len(cs) = 1, Passed(w, "env", Top(cs)),
           ValidateNames(dd, Top(cs).deps \o td), \A r \in known : WellDeclared(w.yaml[r])
    PROVE  /\ Ordered(Found(cs, Done(td, dd)))
           /\ \A d \in Found(cs, Done(td, dd)) : d.name # <<App>>
<1> DEFINE c == Top(cs)
<1>0. Passed(w, "env", c) /\ ValidateNames(dd, c.deps \o td)
  OBVIOUS
<1>1. /\ WellFormed(w) /\ known \subseteq Usable(w) /\ App \in known
      /\ CallsInv(w, "env", known, cs) /\ IsSeq(td) /\ IsSeq(dd)
      /\ Siblings(w, App) \subseteq NamesOf(dd)
  BY DEF Walk
<1>2. /\ CallOK(w, "env", known, c) /\ c.dep.repo = App /\ IsSeq(c.deps) /\ c.renames = {}
      /\ Busy(cs) = {App}
  BY <1>1, OneCall
<1>3. Found(cs, Done(td, dd)) = ToSet(td) \cup ToSet(dd) \cup ToSet(c.deps)
  BY EnvEnds
<1> DEFINE closed == known \ Busy(cs)
           env    == c.deps \o td
           ds     == DeclaredIn(w, "env", c)
<1>4. ReposIn(c, closed)
  BY <1>1, TopCall, WalkRepos DEF ReposIn
<1>5. IsSeq(env) /\ \A i \in DOMAIN c.deps : i \in DOMAIN env /\ env[i] = c.deps[i]
  BY <1>1, <1>2, ConcatFacts
<1>6. \A i \in DOMAIN dd : \A j \in DOMAIN env : dd[i].name # env[j].name
  <2>1. IsSeq(dd) /\ IsSeq(env) /\ ValidateNames(dd, env)
    BY <1>0, <1>1, <1>5
  <2> HIDE DEF env
  <2> QED BY <2>1, AcceptedNames
<1> HIDE DEF c, env
<1>7. \A i \in DOMAIN c.deps : c.deps[i].name \notin Siblings(w, App)
  BY <1>1, <1>5, <1>6 DEF NamesOf
<1>8. Ends(w, "env", c)
  BY <1>0, <1>2 DEF Ends
<1>9. GraphInv(w, known, closed, ToSet(td), ToSet(dd))
  BY DEF Walk
<1>10. closed \subseteq known /\ App \notin closed
  BY <1>2
<1> HIDE DEF closed, ds
<1>11. /\ \A d \in ToSet(c.deps) : d.name \in NamesOf(ds)
       /\ Ordered((ToSet(td) \cup ToSet(dd)) \cup ToSet(c.deps))
  <2> DEFINE before == Siblings(w, App)
  <2>1. before = IF "env" = "env" THEN Siblings(w, App) ELSE {}
    OBVIOUS
  <2>2. "env" = "env" => \A i \in DOMAIN c.deps : c.deps[i].name \notin Siblings(w, App)
    BY <1>7
  <2>3. "env" # "env" => ToSet(dd) = {}
    OBVIOUS
  <2> HIDE DEF before
  <2>4. \A d \in ToSet(c.deps) : d.name \in NamesOf(ds)
    BY <1>1, <1>2, <1>4, <1>8, <1>9, <1>10, <2>1, <2>2, <2>3, GraphWithList DEF ds
  <2>5. Ordered((ToSet(td) \cup ToSet(dd)) \cup ToSet(c.deps))
    BY <1>1, <1>2, <1>4, <1>8, <1>9, <1>10, <2>1, <2>2, <2>3, GraphWithList DEF ds
  <2> QED BY <2>4, <2>5
<1>12. ASSUME NEW d \in ToSet(td) \cup ToSet(dd) \cup ToSet(c.deps), d.name = <<App>> PROVE FALSE
  <2>1. Single(d.name)
    BY <1>12 DEF Single
  <2>2. d.name \notin Inner(w, closed)
    BY <1>1, <1>10, <2>1, InnerIsNotSingle
  <2>3. d.name \in Siblings(w, App) \cup NamesOf(ds)
    BY <1>9, <1>11, <2>2 DEF GraphInv
  <2>4. ds = w.yaml[App].env
    BY <1>2 DEF ds, DeclaredIn
  <2>5. <<App>> \notin NamesOf(w.yaml[App].direct) \cup NamesOf(w.yaml[App].env)
    <3>1. IsSeq(w.yaml[App].direct) /\ IsSeq(w.yaml[App].env)
      BY <1>1 DEF WellFormed, Usable, IsSeq
    <3>2. WellDeclared(w.yaml[App])
      BY <1>1
    <3> QED BY <3>1, <3>2, WellDeclaredFacts
  <2> QED BY <1>12, <2>3, <2>4, <2>5 DEF Siblings
<1> QED BY <1>3, <1>11, <1>12

\* GenerateCharts, when nothing is missing
ChartsOf(all) ==
    Append([i \in DOMAIN all |-> [title |-> all[i].name, requires |-> ToSet(all[i].requires)]],
           [title |-> <<App>>, requires |-> NamesOf(all)])

\* No two have one name.
Distinct(all) == \A i, j \in DOMAIN all : all[i].name = all[j].name => i = j

\* So are the charts that GenerateCharts makes of it, the application's included.
LEMMA ChartsOrdered ==
    ASSUME NEW all,
           IsSeq(all), Distinct(all), RequiresAmong(all, NamesOf(all)), <<App>> \notin NamesOf(all),
           Ordered(ToSet(all))
    PROVE  /\ Populates(ChartsOf(all))
           /\ IsInjective([i \in DOMAIN ChartsOf(all) |-> ChartsOf(all)[i].title])
<1> DEFINE n    == Len(all)
           deps == [i \in DOMAIN all |->
                       [title |-> all[i].name, requires |-> ToSet(all[i].requires)]]
           last == [title |-> <<App>>, requires |-> NamesOf(all)]
           charts == ChartsOf(all)
<1>0. /\ \A i, j \in DOMAIN all : all[i].name = all[j].name => i = j
      /\ \A i \in DOMAIN all : ToSet(all[i].requires) \subseteq NamesOf(all)
      /\ \A i \in DOMAIN all : all[i].name # <<App>>
  BY DEF Distinct, RequiresAmong, NamesOf
<1>1. n \in Nat /\ DOMAIN all = 1..n
  BY SeqFacts
<1>2. IsSeq(deps) /\ Len(deps) = n /\ DOMAIN deps = 1..n
  <2>1. DOMAIN deps = 1..n
    BY <1>1
  <2> HIDE DEF deps, n
  <2>2. deps = [i \in 1..n |-> deps[i]]
    BY <2>1 DEF deps
  <2> QED BY <1>1, <2>2, SeqOfFunction
<1>3. \A i \in 1..n : deps[i].title = all[i].name /\ deps[i].requires = ToSet(all[i].requires)
  BY <1>1
<1>4. charts = Append(deps, last)
  BY DEF ChartsOf
<1>5. last.title = <<App>> /\ last.requires = NamesOf(all)
  OBVIOUS
<1> HIDE DEF deps, last, n, charts
<1>6. /\ DOMAIN charts = 1..n \cup {n + 1} /\ charts[n + 1] = last
      /\ \A i \in 1..n : charts[i] = deps[i]
  <2>1. DOMAIN charts = DOMAIN deps \cup {Len(deps) + 1}
    BY <1>2, <1>4, AppendFacts
  <2>2. charts[Len(deps) + 1] = last
    BY <1>2, <1>4, AppendFacts
  <2>3. \A i \in DOMAIN deps : Append(deps, last)[i] = deps[i]
    BY <1>2, AppendFacts
  <2> QED BY <1>2, <1>4, <2>1, <2>2, <2>3
<1>7. /\ charts[n + 1].title = <<App>> /\ charts[n + 1].requires = NamesOf(all)
      /\ \A i \in 1..n : /\ charts[i].title = all[i].name
                         /\ charts[i].requires = ToSet(all[i].requires)
  BY <1>3, <1>5, <1>6
<1>8. DOMAIN charts \subseteq Nat
  BY <1>1, <1>6
<1>9. IsInjective([i \in DOMAIN charts |-> charts[i].title])
  <2>1. \A i, j \in DOMAIN charts : charts[i].title = charts[j].title => i = j
    BY <1>0, <1>1, <1>6, <1>7
  <2> QED BY <2>1 DEF IsInjective
<1>10. \A i \in DOMAIN charts : \A t \in charts[i].requires : \E j \in DOMAIN charts : t = charts[j].title
  <2>1. \A i \in DOMAIN charts : charts[i].requires \subseteq NamesOf(all)
    BY <1>0, <1>1, <1>6, <1>7
  <2>2. \A t \in NamesOf(all) : \E j \in 1..n : t = charts[j].title
    BY <1>1, <1>7 DEF NamesOf
  <2> TAKE i \in DOMAIN charts
  <2> TAKE t \in charts[i].requires
  <2>3. t \in NamesOf(all)
    BY <2>1
  <2>4. PICK j \in 1..n : t = charts[j].title
    BY <2>2, <2>3
  <2> QED BY <1>6, <2>4
<1>11. ASSUME NEW S \in (SUBSET DOMAIN charts) \ {{}}
       PROVE  \E i \in S : \A j \in S : charts[j].title \notin charts[i].requires
  <2>1. <<App>> \notin NamesOf(all)
    OBVIOUS
  <2>2. CASE S \subseteq {n + 1}
    <3>1. S = {n + 1}
      BY <2>2
    <3> QED BY <1>7, <2>1, <3>1
  <2>3. CASE ~(S \subseteq {n + 1})
    <3> DEFINE T == {all[i] : i \in S \cap (1..n)}
    <3>1. T \in (SUBSET ToSet(all)) \ {{}}
      <4>1. PICK i \in S : i \in 1..n
        BY <1>6, <2>3
      <4>2. all[i] \in T
        BY <4>1
      <4>3. \A x \in T : x \in ToSet(all)
        BY <1>1 DEF ToSet
      <4> QED BY <4>2, <4>3
    <3>2. PICK d \in T : \A x \in T : x.name \notin ToSet(d.requires)
      BY <3>1 DEF Ordered
    <3>3. PICK i \in S \cap (1..n) : d = all[i]
      BY <3>2
    <3>4. charts[i].requires = ToSet(all[i].requires) /\ charts[i].requires \subseteq NamesOf(all)
      BY <1>0, <1>1, <1>7
    <3>5. ASSUME NEW j \in S PROVE charts[j].title \notin charts[i].requires
      <4>1. CASE j = n + 1
        BY <1>7, <2>1, <3>4, <4>1
      <4>2. CASE j \in 1..n
        BY <1>7, <3>2, <3>3, <3>4, <4>2
      <4> QED BY <1>6, <4>1, <4>2
    <3> QED BY <3>5
  <2> QED BY <2>2, <2>3
<1>12. Populates(charts)
  <2>1. InOrder(charts) /\ Titled(charts)
    BY <1>10, <1>11 DEF InOrder, Titled
  <2> QED BY <1>8, <1>9, <2>1, OrdersPopulate
<1> QED BY <1>9, <1>12 DEF charts

-----------------------------------------------------------------------------
(* Branch matching                                                           *)

\* FirstOf finds the first.
LEMMA FirstOfFacts ==
    ASSUME NEW wanted, NEW branches,
           DOMAIN wanted = 1..3 \/ DOMAIN wanted = 1..1, FirstOf(wanted, branches) # None
    PROVE  \E i \in DOMAIN wanted :
              /\ FirstOf(wanted, branches) = wanted[i] /\ wanted[i] \in branches
              /\ \A j \in DOMAIN wanted : wanted[j] \in branches => i <= j
<1> DEFINE there == {i \in DOMAIN wanted : wanted[i] \in branches}
<1>1. there # {} /\ FirstOf(wanted, branches) = wanted[CHOOSE i \in there : \A j \in there : i <= j]
  BY DEF FirstOf
<1>2. there \subseteq {1, 2, 3}
  OBVIOUS
<1>3. \E i \in there : \A j \in there : i <= j
  <2> HIDE DEF there
  <2>1. CASE 1 \in there
    BY <1>2, <2>1
  <2>2. CASE 1 \notin there /\ 2 \in there
    BY <1>2, <2>2
  <2>3. CASE there = {3}
    BY <2>3
  <2> QED BY <1>1, <1>2, <2>1, <2>2, <2>3
<1> QED BY <1>1, <1>3

\* GetRefForRepo finds a branch of the repository: the source branch, or the default.
LEMMA GetRefForRepoFacts ==
    ASSUME NEW match, NEW default, NEW branches,
           match \in BOOLEAN, GetRefForRepo(match, default, branches) # None
    PROVE  /\ GetRefForRepo(match, default, branches) \in branches
           /\ match /\ Source \in branches => GetRefForRepo(match, default, branches) = Source
           /\ ~(match /\ Source \in branches) /\ default \in branches
                 => GetRefForRepo(match, default, branches) = default
<1>1. CASE match
  <2> DEFINE wanted == <<Source, default, Base>>
  <2>1. /\ DOMAIN wanted = 1..3 /\ wanted[1] = Source /\ wanted[2] = default /\ wanted[3] = Base
    OBVIOUS
  <2>2. GetRefForRepo(match, default, branches) = FirstOf(wanted, branches)
    BY <1>1 DEF GetRefForRepo
  <2> HIDE DEF wanted
  <2>3. PICK i \in DOMAIN wanted :
              /\ FirstOf(wanted, branches) = wanted[i] /\ wanted[i] \in branches
              /\ \A j \in DOMAIN wanted : wanted[j] \in branches => i <= j
    BY <2>1, <2>2, FirstOfFacts
  <2>4. i \in {1, 2, 3} /\ 1 \in DOMAIN wanted /\ 2 \in DOMAIN wanted
    BY <2>1
  <2>5. CASE Source \in branches
    <3>1. i <= 1
      BY <2>1, <2>3, <2>4, <2>5
    <3>2. i = 1
      BY <2>4, <3>1
    <3> QED BY <1>1, <2>1, <2>2, <2>3, <2>5, <3>2
  <2>6. CASE Source \notin branches
    <3>1. i # 1
      BY <2>1, <2>3, <2>6
    <3>2. default \in branches => i = 2
      BY <2>1, <2>3, <2>4, <3>1
    <3> QED BY <2>1, <2>2, <2>3, <2>6, <3>2
  <2> QED BY <2>5, <2>6
<1>2. CASE ~match
  <2> DEFINE wanted == <<default>>
  <2>1. DOMAIN wanted = 1..1 /\ wanted[1] = default
    OBVIOUS
  <2>2. GetRefForRepo(match, default, branches) = FirstOf(wanted, branches)
    BY <1>2 DEF GetRefForRepo
  <2> HIDE DEF wanted
  <2>3. PICK i \in DOMAIN wanted : FirstOf(wanted, branches) = wanted[i] /\ wanted[i] \in branches
    BY <2>1, <2>2, FirstOfFacts
  <2>4. i = 1
    BY <2>1
  <2> QED BY <1>2, <2>1, <2>2, <2>3, <2>4
<1> QED BY <1>1, <1>2

\* That is the branch of a dependency.
LEMMA AtBranchFacts ==
    ASSUME NEW d,
           WellFormed(world), Entry(world, d), d.kind = "repo", BranchOf(d) # None
    PROVE  Taken(world, d, AtBranch(d)) /\ AtBranch(d).repo = d.repo
<1> DEFINE b  == BranchOf(d)
           r  == IF d.repo \in world.overrides THEN "override" ELSE b
           d2 == [d EXCEPT !.branch = b, !.ref = r]
           branches == world.branches[d.repo]
<1>1. AtBranch(d) = d2
  BY DEF AtBranch
<1>2. DOMAIN d = Fields /\ IsSeq(d.requires) /\ d.match \in BOOLEAN /\ d.repo \in DOMAIN world.yaml
  BY DEF Entry
<1>3. None \notin branches
  BY <1>2 DEF WellFormed
<1>4. /\ b \in branches
      /\ d.match /\ Source \in branches => b = Source
      /\ ~(d.match /\ Source \in branches) /\ d.default \in branches => b = d.default
  <2> DEFINE default == IF d.default = None THEN Base ELSE d.default
  <2>1. b = GetRefForRepo(d.match, default, branches)
    BY DEF BranchOf
  <2> HIDE DEF default, branches, b
  <2>2. b # None
    BY DEF b
  <2>3. /\ b \in branches
        /\ d.match /\ Source \in branches => b = Source
        /\ ~(d.match /\ Source \in branches) /\ default \in branches => b = default
    BY <1>2, <2>1, <2>2, GetRefForRepoFacts
  <2>4. d.default \in branches => default = d.default
    BY <1>3 DEF default
  <2> QED BY <2>3, <2>4
<1>5. d.repo \in world.overrides \/ r = b
  OBVIOUS
<1> HIDE DEF b, r, branches
<1>6. /\ DOMAIN d2 = Fields /\ d2.requires = d.requires /\ d2.kind = d.kind /\ d2.name = d.name
      /\ d2.repo = d.repo /\ d2.match = d.match /\ d2.default = d.default
      /\ d2.branch = b /\ d2.ref = r
  BY <1>2 DEF Fields
<1> HIDE DEF d2
<1>7. Chosen(world, d2)
  BY <1>4, <1>5, <1>6 DEF Chosen, branches
<1> QED BY <1>1, <1>2, <1>6, <1>7 DEF Taken, Dependency

-----------------------------------------------------------------------------
(* The state                                                                 *)

\* The operators of Metadata are those of the invariant, in the world that GitHub answers from.
LEMMA Bridge ==
    /\ \A c : /\ Declared(c) = DeclaredIn(world, list, c) /\ Upcoming(c) = NextIn(world, list, c)
              /\ Pending(c) <=> Pends(world, list, c)
    /\ Current = Top(calls)
<1>1. \A c : Declared(c) = DeclaredIn(world, list, c)
  BY DEF Declared, DeclaredIn
<1> QED BY <1>1 DEF Upcoming, NextIn, Pending, Pends, Current, Top

\* The inductive invariant: while Get walks, nothing has been returned and what it
\* has found is good; afterwards the configuration has the properties.
GetInv ==
    IF config = None
    THEN IF calls = <<>> THEN WellFormed(world) /\ NoCalls
         ELSE Walk(world, list, repomap, calls, transitiveDeps, directDeps)
    ELSE /\ NoCalls
         /\ Got => IsSeq(AllDeps)
         /\ Installable /\ TransitivesRequired /\ RefsMatch

\* Some of what the invariant says
LEMMA WalkFacts ==
    ASSUME NEW w, NEW l, NEW known, NEW cs, NEW td, NEW dd,
           Walk(w, l, known, cs, td, dd)
    PROVE  cs # <<>> /\ WellFormed(w) /\ known \subseteq Usable(w) /\ CallsInv(w, l, known, cs)
BY DEF Walk, CallsInv

\* While calls are under way, nothing has been returned.
LEMMA InvWalking ==
    ASSUME GetInv, Walking
    PROVE  Walk(world, list, repomap, calls, transitiveDeps, directDeps) /\ config = None
BY DEF GetInv, Walking

\* A call goes on or has gone through all.
LEMMA NotPending ==
    ASSUME NEW w, NEW l, NEW known, NEW c,
           WellFormed(w), known \subseteq Usable(w), CallOK(w, l, known, c)
    PROVE  Pends(w, l, c) \/ Passed(w, l, c)
<1>1. c.dep.repo \in Usable(w) /\ IsSeq(c.deps)
  BY DEF CallOK
<1>2. Len(c.deps) \in Nat /\ Len(DeclaredIn(w, l, c)) \in Nat
  BY <1>1, DeclaredFacts, SeqFacts
<1> QED BY <1>2 DEF Pends, Passed

\* A failure promises nothing.
LEMMA InvReturnsFailed ==
    ASSUME Returns(Failed), GetInv, UNCHANGED world
    PROVE  GetInv'
<1>1. config' = Failed /\ NoCalls'
  BY DEF Returns, NoCalls
<1>2. ~Got'
  BY <1>1 DEF Got, Failed
<1>3. Installable' /\ TransitivesRequired' /\ RefsMatch'
  BY <1>2 DEF Installable, TransitivesRequired, RefsMatch
<1> QED BY <1>1, <1>2, <1>3, NoneAssumption DEF GetInv

\* Begin keeps the invariant,
LEMMA InvBegin ==
    ASSUME GetInv, Begin, UNCHANGED world
    PROVE  GetInv'
<1>1. WellFormed(world) /\ NoCalls
  BY DEF GetInv, Begin
<1>2. CASE world.yaml[App] = None
  BY <1>2, InvReturnsFailed DEF Begin
<1>3. CASE world.yaml[App] # None
  <2>1. /\ calls' = <<Invoke(Application)>> /\ repomap' = {App} /\ config' = None
        /\ transitiveDeps' = <<>> /\ list' = "direct" /\ directDeps' = <<>>
    BY <1>1, <1>3 DEF Begin, NoCalls
  <2>2. Walk(world, "direct", {App}, <<Invoke(Application)>>, <<>>, <<>>)
    BY <1>1, <1>3, WalkBegins
  <2>3. Walk(world', list', repomap', calls', transitiveDeps', directDeps')
    BY <2>1, <2>2
  <2>4. calls' # <<>>
    BY <2>1
  <2> QED BY <2>1, <2>3, <2>4 DEF GetInv
<1> QED BY <1>2, <1>3

\* and so does a step after which Get still walks:
LEMMA InvWalks ==
    ASSUME Walk(world', list', repomap', calls', transitiveDeps', directDeps'), config' = None
    PROVE  GetInv'
<1>1. calls' # <<>>
  BY WalkFacts
<1> QED BY <1>1 DEF GetInv

\* ProcessRepo,
LEMMA InvProcessRepo ==
    ASSUME GetInv, ProcessRepo, UNCHANGED world
    PROVE  GetInv'
<1> DEFINE c == Top(calls)
           e == NextIn(world, list, c)
           d == AtBranch(e)
<1>1. Walk(world, list, repomap, calls, transitiveDeps, directDeps) /\ config = None
  BY InvWalking DEF ProcessRepo
<1>2. /\ WellFormed(world) /\ repomap \subseteq Usable(world)
      /\ CallsInv(world, list, repomap, calls)
      /\ CallOK(world, list, repomap, c)
  BY <1>1, WalkFacts, TopCall
<1>3. Pends(world, list, c) /\ e.kind = "repo" /\ ~Refused(e)
      /\ calls' = Append(calls, Invoke(d)) /\ repomap' = repomap \cup {e.repo}
      /\ UNCHANGED <<config, transitiveDeps, list, directDeps>>
  BY Bridge DEF ProcessRepo
<1> HIDE DEF c, e
<1>4. Entry(world, e)
  BY <1>2, <1>3, NextEntry DEF e
<1>5. e.repo \notin repomap /\ BranchOf(e) # None /\ world.yaml[e.repo] # None
  BY <1>3 DEF Refused
<1>6. Taken(world, e, d) /\ d.repo = e.repo
  BY <1>2, <1>3, <1>4, <1>5, AtBranchFacts
<1>7. e.repo \in Usable(world) \ repomap
  BY <1>3, <1>4, <1>5 DEF Usable, Entry
<1> HIDE DEF d
<1>8. Walk(world, list, repomap \cup {d.repo}, Append(calls, Invoke(d)), transitiveDeps, directDeps)
  BY <1>1, <1>3, <1>6, <1>7, WalkWithRepo DEF c, e
<1>9. Walk(world', list', repomap', calls', transitiveDeps', directDeps')
  BY <1>3, <1>6, <1>8
<1> QED BY <1>1, <1>3, <1>9, InvWalks

\* ProcessChart,
LEMMA InvProcessChart ==
    ASSUME GetInv, ProcessChart, UNCHANGED world
    PROVE  GetInv'
<1> DEFINE c == Top(calls)
           e == NextIn(world, list, c)
           cs2 == WithTop(calls, Add(c, AtParent(e, c.dep)))
<1>1. Walk(world, list, repomap, calls, transitiveDeps, directDeps) /\ config = None
  BY InvWalking DEF ProcessChart
<1>2. Pends(world, list, c) /\ e.kind # "repo" /\ calls' = cs2
      /\ UNCHANGED <<config, repomap, transitiveDeps, list, directDeps>>
  BY Bridge DEF ProcessChart, WithTop, Top
<1>3. Walk(world, list, repomap, cs2, transitiveDeps, directDeps)
  BY <1>1, <1>2, WalkWithChart
<1>4. Walk(world', list', repomap', calls', transitiveDeps', directDeps')
  BY <1>2, <1>3
<1> QED BY <1>1, <1>2, <1>4, InvWalks

\* Rename,
LEMMA InvRename ==
    ASSUME GetInv, Rename, UNCHANGED world
    PROVE  GetInv'
<1> DEFINE c == Top(calls)
<1>1. Walk(world, list, repomap, calls, transitiveDeps, directDeps) /\ config = None
  BY InvWalking DEF Rename
<1>2. /\ WellFormed(world) /\ repomap \subseteq Usable(world)
      /\ CallsInv(world, list, repomap, calls)
      /\ CallOK(world, list, repomap, c)
  BY <1>1, WalkFacts, TopCall
<1>3. PICK old \in c.renames : calls' = WithTop(calls, Replacing(c, old))
  BY Bridge DEF Rename, WithTop, Top
<1>4. ~Pends(world, list, c) /\ UNCHANGED <<config, repomap, transitiveDeps, list, directDeps>>
  BY Bridge DEF Rename
<1>5. Passed(world, list, c)
  BY <1>2, <1>4, NotPending
<1>6. Walk(world, list, repomap, WithTop(calls, Replacing(c, old)), transitiveDeps, directDeps)
  BY <1>1, <1>3, <1>5, WalkRenames
<1>7. Walk(world', list', repomap', calls', transitiveDeps', directDeps')
  BY <1>3, <1>4, <1>6
<1> QED BY <1>1, <1>4, <1>7, InvWalks

\* Return,
LEMMA InvReturn ==
    ASSUME GetInv, Return, UNCHANGED world
    PROVE  GetInv'
<1> DEFINE c   == Top(calls)
           f   == Callers(calls)
           n   == Len(calls)
           cs2 == WithTop(f, Add(Top(f), c.dep))
<1>1. Walk(world, list, repomap, calls, transitiveDeps, directDeps) /\ config = None
  BY InvWalking DEF Return
<1>2. /\ WellFormed(world) /\ repomap \subseteq Usable(world)
      /\ CallsInv(world, list, repomap, calls)
      /\ CallOK(world, list, repomap, c)
  BY <1>1, WalkFacts, TopCall
<1>3. /\ ~Pends(world, list, c) /\ c.renames = {} /\ n > 1
      /\ transitiveDeps' = transitiveDeps \o c.deps
      /\ calls' = [k \in 1..(n - 1) |-> IF k = n - 1 THEN Add(calls[k], c.dep) ELSE calls[k]]
      /\ UNCHANGED <<config, repomap, list, directDeps>>
  BY Bridge DEF Return
<1>4. Ends(world, list, c)
  BY <1>2, <1>3, NotPending DEF Ends
<1>5. n # 1
  BY <1>2, <1>3, CallsFacts
<1>6. Walk(world, list, repomap, cs2, transitiveDeps \o c.deps, directDeps)
  BY <1>1, <1>4, <1>5, WalkReturns
<1>7. calls' = cs2
  <2>1. CallsInv(world, list, repomap, f)
    BY <1>2, <1>5, CallersFacts
  <2>2. Len(f) = n - 1
    BY <1>2, <1>5, <2>1, CallersFacts
  <2>3. n \in Nat \ {0}
    BY <1>2, CallsFacts
  <2>4. f = [k \in 1..(n - 1) |-> calls[k]]
    BY DEF Callers
  <2> HIDE DEF f, n, c
  <2>5. n - 1 \in 1..(n - 1)
    BY <1>3, <2>3
  <2>6. Top(f) = calls[n - 1]
    BY <2>2, <2>4, <2>5 DEF Top
  <2>7. cs2 = [f EXCEPT ![n - 1] = Add(calls[n - 1], c.dep)]
    BY <2>2, <2>6 DEF WithTop
  <2> QED BY <1>3, <2>4, <2>5, <2>7
<1>8. Walk(world', list', repomap', calls', transitiveDeps', directDeps')
  BY <1>3, <1>6, <1>7
<1> QED BY <1>1, <1>3, <1>8, InvWalks

\* and EndDirect.
LEMMA InvEndDirect ==
    ASSUME GetInv, EndDirect, UNCHANGED world
    PROVE  GetInv'
<1> DEFINE c == Top(calls)
<1>1. Walk(world, list, repomap, calls, transitiveDeps, directDeps) /\ config = None
  BY InvWalking DEF EndDirect
<1>2. /\ WellFormed(world) /\ repomap \subseteq Usable(world)
      /\ CallsInv(world, list, repomap, calls)
      /\ CallOK(world, list, repomap, c)
  BY <1>1, WalkFacts, TopCall
<1>3. /\ ~Pends(world, list, c) /\ Len(calls) = 1 /\ list = "direct"
      /\ directDeps' = c.deps \o transitiveDeps /\ transitiveDeps' = <<>>
      /\ list' = "env" /\ calls' = <<Invoke(Application)>>
      /\ UNCHANGED <<config, repomap>>
  BY Bridge DEF EndDirect
<1>4. Passed(world, "direct", c)
  BY <1>2, <1>3, NotPending
<1>5. Walk(world, "env", repomap, <<Invoke(Application)>>, <<>>, c.deps \o transitiveDeps)
  BY <1>1, <1>3, <1>4, WalkEndsDirect
<1>6. Walk(world', list', repomap', calls', transitiveDeps', directDeps')
  BY <1>3, <1>5
<1> QED BY <1>1, <1>3, <1>6, InvWalks

-----------------------------------------------------------------------------
(* What Get returns has the properties.                                      *)

\* Get accepts what has been found.
Accepts ==
    /\ Walk(world, "env", repomap, calls, transitiveDeps, directDeps)
    /\ Len(calls) = 1 /\ Passed(world, "env", Top(calls))
    /\ ValidateNames(directDeps, Top(calls).deps \o transitiveDeps)
    /\ config' = [ok |-> TRUE, direct |-> directDeps, env |-> Top(calls).deps \o transitiveDeps]
    /\ UNCHANGED world

\* What Get returns is what it has found.
LEMMA AcceptedDeps ==
    ASSUME Accepts
    PROVE  /\ AllDeps' = directDeps \o (Top(calls).deps \o transitiveDeps) /\ IsSeq(AllDeps')
           /\ ToSet(AllDeps') = Found(calls, Done(transitiveDeps, directDeps))
           /\ \A i \in DOMAIN AllDeps' :
                 AllDeps'[i] \in Found(calls, Done(transitiveDeps, directDeps))
           /\ \A d \in Found(calls, Done(transitiveDeps, directDeps)) :
                 \E i \in DOMAIN AllDeps' : d = AllDeps'[i]
<1> DEFINE all   == directDeps \o (Top(calls).deps \o transitiveDeps)
           found == Found(calls, Done(transitiveDeps, directDeps))
<1>1. AllDeps' = all
  BY DEF Accepts, AllDeps
<1>2. IsSeq(all) /\ ToSet(all) = found
  BY EnvEnds DEF Accepts
<1> HIDE DEF all, found
<1>3. IsSeq(AllDeps') /\ ToSet(AllDeps') = found
  BY <1>1, <1>2
<1> QED BY <1>1, <1>3, MembersAreAt DEF all, found

\* It has the properties: of the commits,
LEMMA AcceptedRefs ==
    ASSUME Accepts
    PROVE  RefsMatch'
<1> DEFINE all   == AllDeps'
           found == Found(calls, Done(transitiveDeps, directDeps))
<1>1. \A i \in DOMAIN all : all[i] \in found
  BY AcceptedDeps
<1>2. Walk(world, "env", repomap, calls, transitiveDeps, directDeps) /\ Len(calls) = 1
      /\ world' = world
  BY DEF Accepts
<1> HIDE DEF all, found
<1>3. ASSUME NEW i \in DOMAIN all, all[i].kind = "repo"
      PROVE  /\ Chosen(world, all[i])
             /\ \A k \in DOMAIN all :
                   all[k].kind = "path" /\ all[k].name[1] = all[i].repo /\ Len(all[k].name) = 2
                      => all[k].ref = all[i].ref
  <2> DEFINE d == all[i]
  <2>1. d \in found /\ d.kind = "repo"
    BY <1>1, <1>3
  <2> HIDE DEF d
  <2>2. /\ Chosen(world, d)
        /\ \A kid \in found :
              kid.kind = "path" /\ kid.name[1] = d.repo /\ Len(kid.name) = 2 => kid.ref = d.ref
    BY <1>2, <2>1, RefsOfEnv DEF found
  <2> QED BY <1>1, <2>2 DEF d
<1> QED BY <1>2, <1>3 DEF RefsMatch, Chosen, all

\* of the dependencies of dependencies,
LEMMA AcceptedTransitives ==
    ASSUME Accepts
    PROVE  TransitivesRequired'
<1> DEFINE all   == AllDeps'
           found == Found(calls, Done(transitiveDeps, directDeps))
<1>1. /\ \A i \in DOMAIN all : all[i] \in found
      /\ \A d \in found : \E i \in DOMAIN all : d = all[i]
  BY AcceptedDeps
<1>2. Walk(world, "env", repomap, calls, transitiveDeps, directDeps) /\ Len(calls) = 1
      /\ world' = world
  BY DEF Accepts
<1> HIDE DEF all, found
<1>3. ASSUME NEW i \in DOMAIN all, all[i].kind = "repo",
             NEW j \in DOMAIN world.yaml[all[i].repo].direct
      PROVE  \E k \in DOMAIN all :
                /\ all[k].name = Prefixed(all[i].repo, world.yaml[all[i].repo].direct[j].name)
                /\ all[k].name \in ToSet(all[i].requires)
                /\ \A r \in ToSet(world.yaml[all[i].repo].direct[j].requires)
                               \cap NamesOf(world.yaml[all[i].repo].direct) :
                      Prefixed(all[i].repo, r) \in ToSet(all[k].requires)
                /\ Len(all[i].name) = 1 => all[k].parent = all[i].name
  <2>1. all[i] \in found /\ all[i].kind = "repo" /\ j \in DOMAIN world.yaml[all[i].repo].direct
    BY <1>1, <1>3
  <2>2. PICK kid \in found : Stands(world, all[i], j, kid)
    BY <1>2, <2>1, TransitivesOfEnv DEF found
  <2>3. PICK k \in DOMAIN all : kid = all[k]
    BY <1>1
  <2> QED BY <2>2, <2>3 DEF Stands, Siblings
<1> QED BY <1>2, <1>3 DEF TransitivesRequired, all

\* and of the order of installation.
LEMMA AcceptedCharts ==
    ASSUME Accepts
    PROVE  Installable'
<1> DEFINE all   == AllDeps'
           found == Found(calls, Done(transitiveDeps, directDeps))
           env   == Top(calls).deps \o transitiveDeps
           noRef == \E i \in DOMAIN all : all[i].ref = None
           made  == GenerateCharts(config)'
           repos == {i \in DOMAIN all : all[i].kind = "repo"}
           wellDeclared == \A r \in {App} \cup {all[i].repo : i \in repos} :
                              WellDeclared(world.yaml[r])
<1>1. /\ all = directDeps \o env /\ IsSeq(all) /\ ToSet(all) = found
      /\ \A i \in DOMAIN all : all[i] \in found
      /\ \A d \in found : \E i \in DOMAIN all : d = all[i]
  BY AcceptedDeps
<1>2. /\ Walk(world, "env", repomap, calls, transitiveDeps, directDeps) /\ Len(calls) = 1
      /\ Passed(world, "env", Top(calls)) /\ ValidateNames(directDeps, env) /\ world' = world
      /\ config' = [ok |-> TRUE, direct |-> directDeps, env |-> env]
  BY DEF Accepts
<1>3. IsSeq(directDeps) /\ IsSeq(env)
  BY <1>2, EnvEnds
<1>4. config'.direct \o config'.env = all /\ Got' => TRUE
  OBVIOUS
<1>5. config'.direct \o config'.env = all
  BY <1>1, <1>2
<1> HIDE DEF env, found, all
<1>6. /\ \A i, j \in DOMAIN all : all[i].name = all[j].name => i = j
      /\ \A i, j \in DOMAIN all :
            all[i].kind = "repo" /\ all[j].kind = "repo" /\ all[i].repo = all[j].repo => i = j
      /\ \A i \in DOMAIN all : ToSet(all[i].requires) \subseteq NamesOf(all)
  BY <1>1, <1>2, <1>3, AcceptedNames
<1>7. made = IF noRef THEN Failed
             ELSE [ok |-> TRUE,
                   charts |-> Append([i \in DOMAIN all |->
                                  [title |-> all[i].name, requires |-> ToSet(all[i].requires)]],
                                     [title |-> <<App>>, requires |-> NamesOf(all)])]
  BY <1>5, <1>6 DEF GenerateCharts
<1> HIDE DEF made
<1>8. made.ok <=> ~noRef
  BY <1>7 DEF Failed
<1>9. ASSUME made.ok, wellDeclared
      PROVE  /\ IsInjective([i \in DOMAIN made.charts |-> made.charts[i].title])
             /\ Populates(made.charts)
  <2>1. \A r \in repomap : WellDeclared(world.yaml[r])
    <3>1. \A r \in repomap \ {App} : \E d \in found : d.kind = "repo" /\ d.repo = r
      <4>1. Heads(calls) = {}
        BY <1>2, OneCall DEF Walk
      <4> QED BY <1>2, <4>1 DEF Walk, found
    <3>2. \A r \in repomap \ {App} : \E i \in repos : all[i].repo = r
      BY <1>1, <3>1
    <3> QED BY <1>9, <3>2
  <2>2. Ordered(ToSet(all)) /\ \A i \in DOMAIN all : all[i].name # <<App>>
    <3>1. Ordered(Found(calls, Done(transitiveDeps, directDeps)))
      BY <1>2, <2>1, EnvOrdered DEF env
    <3>2. \A d \in found : d.name # <<App>>
      BY <1>2, <2>1, <3>1, EnvOrdered DEF found, env
    <3> QED BY <1>1, <3>1, <3>2 DEF found
  <2>3. made.charts = ChartsOf(all)
    BY <1>7, <1>8, <1>9 DEF ChartsOf
  <2>4. Distinct(all) /\ RequiresAmong(all, NamesOf(all)) /\ <<App>> \notin NamesOf(all)
    BY <1>6, <2>2 DEF Distinct, RequiresAmong, NamesOf
  <2>5. Populates(ChartsOf(all))
    BY <1>1, <2>2, <2>4, ChartsOrdered
  <2>6. IsInjective([i \in DOMAIN ChartsOf(all) |-> ChartsOf(all)[i].title])
    BY <1>1, <2>2, <2>4, <2>5, ChartsOrdered
  <2> QED BY <2>3, <2>5, <2>6
<1>10. IsInjective([i \in repos |-> all[i].repo])
  BY <1>6 DEF IsInjective
<1>11. \A i \in repos : all[i].repo # App
  <2>1. \A d \in found : d.kind = "repo" => d.repo # App
    BY <1>2, RefsOfEnv DEF found
  <2> QED BY <1>1, <2>1
<1> QED BY <1>2, <1>8, <1>9, <1>10, <1>11 DEF Installable, all, made

\* EndEnv keeps the invariant, since what Get accepts has the properties.
LEMMA InvEndEnv ==
    ASSUME GetInv, EndEnv, UNCHANGED world
    PROVE  GetInv'
<1> DEFINE c   == Top(calls)
           env == c.deps \o transitiveDeps
<1>1. Walk(world, list, repomap, calls, transitiveDeps, directDeps) /\ config = None
  BY InvWalking DEF EndEnv
<1>2. /\ WellFormed(world) /\ repomap \subseteq Usable(world)
      /\ CallsInv(world, list, repomap, calls)
      /\ CallOK(world, list, repomap, c)
  BY <1>1, WalkFacts, TopCall
<1>3. /\ ~Pends(world, list, c) /\ Len(calls) = 1 /\ list = "env"
      /\ Returns(IF ValidateNames(directDeps, env)
                 THEN [ok |-> TRUE, direct |-> directDeps, env |-> env]
                 ELSE Failed)
  BY Bridge DEF EndEnv
<1>4. Passed(world, "env", c)
  BY <1>2, <1>3, NotPending
<1>5. CASE ValidateNames(directDeps, env)
  <2>1. Accepts /\ NoCalls'
    BY <1>1, <1>3, <1>4, <1>5 DEF Accepts, Returns, NoCalls
  <2>2. Installable' /\ TransitivesRequired' /\ RefsMatch' /\ IsSeq(AllDeps')
    BY <2>1, AcceptedCharts, AcceptedTransitives, AcceptedRefs, AcceptedDeps
  <2>3. WellFormed(world')
    BY <1>2
  <2>4. calls' = <<>>
    BY <2>1 DEF NoCalls
  <2> QED BY <2>1, <2>2, <2>3, <2>4 DEF GetInv
<1>6. CASE ~ValidateNames(directDeps, env)
  BY <1>3, <1>6, InvReturnsFailed
<1> QED BY <1>5, <1>6

\* All steps of Get keep it,
LEMMA InvGet ==
    ASSUME GetInv, Get, UNCHANGED world
    PROVE  GetInv'
<1>1. CASE Begin
  BY <1>1, InvBegin
<1>2. CASE Fails
  BY <1>2, InvReturnsFailed DEF Fails
<1>3. CASE Refuse
  BY <1>3, InvReturnsFailed DEF Refuse
<1>4. CASE ProcessRepo
  BY <1>4, InvProcessRepo
<1>5. CASE ProcessChart
  BY <1>5, InvProcessChart
<1>6. CASE Rename
  BY <1>6, InvRename
<1>7. CASE Return
  BY <1>7, InvReturn
<1>8. CASE EndDirect
  BY <1>8, InvEndDirect
<1>9. CASE EndEnv
  BY <1>9, InvEndEnv
<1> QED BY <1>1, <1>2, <1>3, <1>4, <1>5, <1>6, <1>7, <1>8, <1>9 DEF Get

\* and so do StartFetch
LEMMA InvStartFetch ==
    ASSUME GetInv, StartFetch
    PROVE  GetInv'
<1>1. NoCalls /\ UNCHANGED getVars /\ config' = Failed
  BY DEF GetInv, StartFetch
<1>2. NoCalls'
  BY <1>1 DEF NoCalls, getVars
<1>3. ~Got'
  BY <1>1 DEF Got, Failed
<1>4. Installable' /\ TransitivesRequired' /\ RefsMatch'
  BY <1>3 DEF Installable, TransitivesRequired, RefsMatch
<1> QED BY <1>1, <1>2, <1>3, <1>4, NoneAssumption DEF GetInv

\* and the steps of FetchCharts, which leave it alone.
LEMMA InvKept ==
    ASSUME GetInv, UNCHANGED <<world, config, getVars>>
    PROVE  GetInv'
<1>1. /\ world' = world /\ config' = config /\ calls' = calls /\ repomap' = repomap
      /\ transitiveDeps' = transitiveDeps /\ list' = list /\ directDeps' = directDeps
  BY DEF getVars
<1>2. Installable' = Installable
  BY <1>1 DEF Installable, Got, AllDeps
<1>3. TransitivesRequired' = TransitivesRequired
  BY <1>1 DEF TransitivesRequired, Got, AllDeps
<1>4. RefsMatch' = RefsMatch
  BY <1>1 DEF RefsMatch, Got, AllDeps
<1>5. Got' = Got /\ AllDeps' = AllDeps
  BY <1>1 DEF Got, AllDeps
<1> QED BY <1>1, <1>2, <1>3, <1>4, <1>5 DEF GetInv, NoCalls

\* It holds at first.
LEMMA InvInit ==
    ASSUME Init
    PROVE  GetInv
BY WorldsAssumption DEF Init, GetInv, NoCalls

\* Get keeps the invariant, whatever GitHub answers, and however deep the dependencies are.
THEOREM GetInvHolds == MetadataSpec => []GetInv
<1>1. Init => GetInv
  BY InvInit
<1>2. GetInv /\ [Step]_vars => GetInv'
  <2> SUFFICES ASSUME GetInv, [Step]_vars PROVE GetInv'
    OBVIOUS
  <2>1. CASE Get /\ UNCHANGED <<fetchVars, world>>
    BY <2>1, InvGet
  <2>2. CASE StartFetch
    BY <2>2, InvStartFetch
  <2>3. CASE Fetching /\ UNCHANGED <<world, config, getVars>>
    BY <2>3, InvKept
  <2>4. CASE UNCHANGED vars
    BY <2>4, InvKept DEF vars
  <2> QED BY <2>1, <2>2, <2>3, <2>4 DEF Step
<1> QED BY <1>1, <1>2, PTL DEF MetadataSpec

\* The invariant implies the properties.
LEMMA InvGives ==
    ASSUME GetInv
    PROVE  Installable /\ TransitivesRequired /\ RefsMatch
BY DEF GetInv, Installable, TransitivesRequired, RefsMatch, Got

\* What Get accepts can be installed: GenerateCharts refuses it only for a
\* chart_repo_path without a ref, no repository is there twice, and when every acyl.yml
\* is well declared the charts, renamed as they are, can be ordered.
THEOREM InstallableHolds == MetadataSpec => []Installable
BY GetInvHolds, InvGives, PTL

\* The direct dependencies of every repository in the configuration are in it under
\* their new names, required by the repository, and in the order its acyl.yml asks for.
THEOREM TransitivesRequiredHolds == MetadataSpec => []TransitivesRequired
BY GetInvHolds, InvGives, PTL

\* Every repository is used at one commit, of the branch that branch matching selects,
\* and so are the charts it gives by path.
THEOREM RefsMatchHolds == MetadataSpec => []RefsMatch
BY GetInvHolds, InvGives, PTL
-----------------------------------------------------------------------------
(* FetchCharts *)

\* Before the chart of the application is there, nothing else is.
NothingBefore ==
    /\ pc = "idle" => loc = Nil /\ written = {}
    /\ pc \in {"idle", "primary"} => \A i \in Deps : routine[i] = "none"

\* Every location, wherever it is, is that of a chart that has been fetched.
LocationsWritten ==
    /\ loc # Nil => loc \in written
    /\ \A i \in Deps : routine[i] = "fetched" => i \in written
    /\ \A i \in Deps : couts[i] # Zero => couts[i] \in written

\* The inductive invariant
FetchInv == TypeOK /\ AllJoined /\ NothingBefore /\ LocationsWritten

LEMMA FetchInvInit == Idle => FetchInv
<1> SUFFICES ASSUME Idle PROVE FetchInv
  OBVIOUS
<1>1. Deps = {}
  BY DEF Idle, Deps
<1>2. TypeOK
  <2>1. routine = [i \in Deps |-> "none"] /\ couts = [i \in Deps |-> Zero]
    BY DEF Idle
  <2>2. routine \in [Deps -> Working \cup Gone]
    BY <2>1 DEF Gone
  <2>3. couts \in [Deps -> 0..count \cup {Zero}]
    BY <2>1
  <2>4. count \in 0..MaxDeps
    BY ChartFetchAssumption DEF Idle
  <2> QED BY <2>2, <2>3, <2>4 DEF Idle, TypeOK
<1>3. AllJoined /\ NothingBefore /\ LocationsWritten
  BY <1>1 DEF Idle, AllJoined, NothingBefore, LocationsWritten
<1> QED BY <1>2, <1>3 DEF FetchInv

\* The steps of the caller's goroutine
LEMMA FetchInvCall ==
    ASSUME FetchInv, NEW n \in 0..MaxDeps, NEW ds \in SUBSET (1..n), Call(n, ds)
    PROVE  FetchInv'
<1> USE ChartFetchAssumption DEF FetchInv, Call
<1>1. TypeOK'
  BY DEF TypeOK, NothingBefore, Deps, Gone, Ended
<1>2. AllJoined' /\ NothingBefore' /\ LocationsWritten'
  BY DEF AllJoined, NothingBefore, LocationsWritten, Deps
<1> QED BY <1>1, <1>2

LEMMA FetchInvCaller ==
    ASSUME FetchInv, Caller
    PROVE  FetchInv'
<1> USE ChartFetchAssumption DEF FetchInv
<1>1. CASE FetchPrimary
  <2>1. TypeOK'
    BY <1>1 DEF FetchPrimary, TypeOK, Deps, Working
  <2>2. AllJoined' /\ NothingBefore' /\ LocationsWritten'
    BY <1>1 DEF FetchPrimary, TypeOK, AllJoined, NothingBefore,
                LocationsWritten, Deps
  <2> QED BY <2>1, <2>2
<1>2. CASE PrimaryFails
  BY <1>2 DEF PrimaryFails, TypeOK, AllJoined, NothingBefore, LocationsWritten,
              Deps, Gone, Ended
<1>3. CASE Expire
  BY <1>3 DEF Expire, TypeOK, AllJoined, NothingBefore, LocationsWritten, Deps
<1>4. CASE Wait
  BY <1>4 DEF Wait, TypeOK, AllJoined, NothingBefore, LocationsWritten, Deps,
              Ended
<1>5. CASE Finish
  BY <1>5 DEF Finish, TypeOK, AllJoined, NothingBefore, LocationsWritten, Deps,
              Ended
<1> QED BY <1>1, <1>2, <1>3, <1>4, <1>5 DEF Caller

\* A goroutine that takes a step runs, so the caller is waiting for it.
LEMMA WaitedFor ==
    ASSUME FetchInv, NEW i \in Deps, routine[i] \in Working, pc # "panicked"
    PROVE  pc = "waiting"
BY DEF FetchInv, TypeOK, AllJoined, NothingBefore, Working, Gone, Ended

\* The steps of the goroutines
LEMMA FetchInvRoutine ==
    ASSUME FetchInv, NEW i \in Deps, Routine(i)
    PROVE  FetchInv'
<1>1. pc = "waiting" /\ routine[i] \in Working
  BY WaitedFor DEF Routine, Fetch, FetchFails, FetchHangs, HungFails, StoreLoc,
     StoreErr, CheckErr, CheckLoc, WrapError, CopyLoc, Running, Working
<1> USE <1>1 DEF FetchInv
<1>2. CASE Fetch(i)
  <2>1. TypeOK'
    BY <1>2 DEF Fetch, Running, Goto, TypeOK, Deps, Working
  <2>2. AllJoined' /\ NothingBefore' /\ LocationsWritten'
    BY <1>2 DEF Fetch, Running, Goto, TypeOK, AllJoined, NothingBefore,
                LocationsWritten, Deps
  <2> QED BY <2>1, <2>2
<1>3. CASE FetchFails(i) \/ FetchHangs(i) \/ HungFails(i)
  <2>1. TypeOK'
    BY <1>3 DEF FetchFails, FetchHangs, HungFails, Running, Goto, TypeOK, Deps,
                Working
  <2>2. AllJoined' /\ NothingBefore' /\ LocationsWritten'
    BY <1>3 DEF FetchFails, FetchHangs, HungFails, Running, Goto, TypeOK,
                AllJoined, NothingBefore, LocationsWritten, Deps
  <2> QED BY <2>1, <2>2
<1>4. CASE StoreLoc(i)
  <2>1. TypeOK'
    BY <1>4 DEF StoreLoc, Running, Goto, TypeOK, Deps, Working
  <2>2. AllJoined' /\ NothingBefore' /\ LocationsWritten'
    BY <1>4 DEF StoreLoc, Running, Goto, TypeOK, AllJoined, NothingBefore,
                LocationsWritten, Deps
  <2> QED BY <2>1, <2>2
<1>5. CASE StoreErr(i)
  BY <1>5 DEF StoreErr, Running, Goto, TypeOK, AllJoined, NothingBefore,
              LocationsWritten, Deps, Working
<1>6. CASE CheckErr(i) \/ CheckLoc(i)
  <2>1. TypeOK'
    BY <1>6 DEF CheckErr, CheckLoc, Running, Goto, TypeOK, Deps, Working
  <2>2. AllJoined' /\ NothingBefore' /\ LocationsWritten'
    BY <1>6 DEF CheckErr, CheckLoc, Running, Goto, TypeOK, AllJoined,
                NothingBefore, LocationsWritten, Deps
  <2> QED BY <2>1, <2>2
<1>7. CASE WrapError(i)
  <2>1. TypeOK'
    BY <1>7 DEF WrapError, Running, Goto, TypeOK, Deps, Gone
  <2>2. AllJoined' /\ NothingBefore' /\ LocationsWritten'
    BY <1>7 DEF WrapError, Running, Goto, TypeOK, AllJoined, NothingBefore,
                LocationsWritten, Deps
  <2> QED BY <2>1, <2>2
<1>8. CASE CopyLoc(i)
  <2>1. TypeOK'
    BY <1>8 DEF CopyLoc, Running, Goto, TypeOK, Deps, Gone, Ended
  <2>2. AllJoined' /\ NothingBefore' /\ LocationsWritten'
    BY <1>8 DEF CopyLoc, Running, Goto, TypeOK, AllJoined, NothingBefore,
                LocationsWritten, Deps
  <2> QED BY <2>1, <2>2
<1> QED BY <1>2, <1>3, <1>4, <1>5, <1>6, <1>7, <1>8 DEF Routine

\* The goroutines of FetchCharts keep the invariant, for any MaxDeps.
THEOREM FetchInvHolds == Spec => []FetchInv
<1>1. FetchInv /\ [Next]_fetchVars => FetchInv'
  <2> SUFFICES ASSUME FetchInv, [Next]_fetchVars PROVE FetchInv'
    OBVIOUS
  <2>1. CASE Start
    BY <2>1, FetchInvCall DEF Start
  <2>2. CASE Fetching
    BY <2>2, FetchInvCaller, FetchInvRoutine DEF Fetching
  <2>3. CASE UNCHANGED fetchVars
    BY <2>3 DEF fetchVars, FetchInv, TypeOK, AllJoined, NothingBefore,
                LocationsWritten, Deps
  <2> QED BY <2>1, <2>2, <2>3 DEF Next
<1> QED BY FetchInvInit, <1>1, PTL DEF Spec

\* The variables of FetchCharts keep their types.
THEOREM TypeCorrect == Spec => []TypeOK
<1>1. FetchInv => TypeOK
  BY DEF FetchInv
<1> QED BY <1>1, FetchInvHolds, PTL

\* No goroutine runs on after FetchCharts has returned.
THEOREM Joined == Spec => []AllJoined
<1>1. FetchInv => AllJoined
  BY DEF FetchInv
<1> QED BY <1>1, FetchInvHolds, PTL

\* Every location that FetchCharts returns is that of a chart it has fetched.
THEOREM LocationsAreFetched == Spec => []LocationsExist
<1>1. FetchInv => LocationsExist
  BY DEF FetchInv, LocationsWritten, LocationsExist
<1> QED BY <1>1, FetchInvHolds, PTL

\* The steps of Get leave FetchCharts alone, and fetchCharts calls it for a configuration.
LEMMA FetchSteps ==
    ASSUME GetInv, [Step]_vars
    PROVE  [Next]_fetchVars
<1>1. CASE Get /\ UNCHANGED <<fetchVars, world>>
  BY <1>1
<1>2. CASE StartFetch
  <2>1. PICK n, ds : n = Len(config.direct \o config.env) /\ n <= MaxDeps
                     /\ ds \in SUBSET (1..n) /\ Call(n, ds)
    BY <1>2 DEF StartFetch
  <2>2. IsSeq(config.direct \o config.env)
    BY <1>2 DEF StartFetch, GetInv, Got, AllDeps
  <2>3. n \in Nat
    BY <2>1, <2>2, SeqFacts
  <2>4. n <= MaxDeps
    BY <2>1, Zenon
  <2>5. n \in 0..MaxDeps
    BY <2>3, <2>4, ChartFetchAssumption, SMT
  <2> QED BY <2>1, <2>5 DEF Next, Start
<1>3. CASE Fetching /\ UNCHANGED <<world, config, getVars>>
  BY <1>3 DEF Next
<1>4. CASE UNCHANGED vars
  BY <1>4 DEF vars
<1> QED BY <1>1, <1>2, <1>3, <1>4 DEF Step

\* What FetchCharts promises, it promises for the configuration that Get returns.
THEOREM FetchesForGet == MetadataSpec => [](TypeOK /\ AllJoined /\ LocationsExist)
<1>1. MetadataSpec => Spec
  <2>1. Init => Idle
    BY DEF Init
  <2> QED BY <2>1, FetchSteps, GetInvHolds, PTL DEF MetadataSpec, Spec
<1> QED BY <1>1, TypeCorrect, Joined, LocationsAreFetched, PTL
=============================================================================
