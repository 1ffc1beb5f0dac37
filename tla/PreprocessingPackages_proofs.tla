---------------------- MODULE PreprocessingPackages_proofs ---------------------
(***************************************************************************)
(* What Preprocessing makes of a package, for every set of packages: what  *)
(* the checks accept and refuse, and where the files of the package go.    *)
(***************************************************************************)
EXTENDS Preprocessing_proofs, FiniteSetTheorems

(***************************************************************************)
(* Paths and their prefixes.                                               *)
(***************************************************************************)

\* The first i names of a path.
Cut(f, i) == SubSeq(f, 1, i)

\* A cut has the names of the path up to its length, and is its prefix.
LEMMA CutAt ==
    ASSUME NEW f \in Path, NEW i \in 0..Len(f)
    PROVE  /\ Cut(f, i) \in Path /\ Len(Cut(f, i)) = i /\ IsPrefix(Cut(f, i), f)
           /\ \A j \in 1..i : Cut(f, i)[j] = f[j]
<1>1. \A j \in 1..i : f[j] \in Names
  BY DEF Path
<1>2. /\ Cut(f, i) \in Path /\ Len(Cut(f, i)) = i
      /\ \A j \in 1..i : Cut(f, i)[j] = f[j]
  BY <1>1 DEF Cut, Path
<1>3. QED
  BY <1>2, PrefixAt

\* A prefix is a cut of its length.
LEMMA PrefixIsCut ==
    ASSUME NEW s \in Path, NEW f \in Path, IsPrefix(s, f)
    PROVE  s = Cut(f, Len(s)) /\ Len(s) \in 0..Len(f)
<1>1. Len(s) \in 0..Len(f) /\ \A i \in 1..Len(s) : s[i] = f[i]
  BY PrefixAt DEF Path
<1>2. /\ Cut(f, Len(s)) \in Path /\ Len(Cut(f, Len(s))) = Len(s)
      /\ \A i \in 1..Len(s) : Cut(f, Len(s))[i] = f[i]
  BY <1>1, CutAt
<1>3. QED
  BY <1>1, <1>2, SeqEqual DEF Path

\* A path without its last name is a cut, and so are the prefixes of both.
LEMMA FrontPrefixes ==
    ASSUME NEW f \in Path
    PROVE  /\ Len(f) > 0 => Front(f) = Cut(f, Len(f) - 1)
           /\ Len(f) > 0 => Prefixes(Front(f)) = {Cut(f, i) : i \in 0..(Len(f) - 1)}
           /\ Prefixes(f) = {Cut(f, i) : i \in 0..Len(f)}
<1>1. Prefixes(f) = {Cut(f, i) : i \in 0..Len(f)}
  BY DEF Prefixes, Cut
<1>2. ASSUME Len(f) > 0
      PROVE  /\ Front(f) = Cut(f, Len(f) - 1)
             /\ Prefixes(Front(f)) = {Cut(f, i) : i \in 0..(Len(f) - 1)}
  <2> DEFINE g == Front(f)
             n == Len(f) - 1
  <2>1. n \in 0..Len(f) /\ g = Cut(f, n)
    BY <1>2 DEF Front, Cut, Path
  <2>2. g \in Path /\ Len(g) = n /\ \A j \in 1..n : g[j] = f[j]
    BY <2>1, CutAt
  <2>3. ASSUME NEW i \in 0..n PROVE Cut(g, i) = Cut(f, i)
    <3>1. i \in 0..Len(g) /\ i \in 0..Len(f)
      BY <2>1, <2>2
    <3>2. /\ Cut(g, i) \in Path /\ Len(Cut(g, i)) = i /\ \A j \in 1..i : Cut(g, i)[j] = g[j]
          /\ Cut(f, i) \in Path /\ Len(Cut(f, i)) = i /\ \A j \in 1..i : Cut(f, i)[j] = f[j]
      BY <2>2, <3>1, CutAt
    <3>3. \A j \in 1..i : j \in 1..n
      BY <2>1
    <3> QED
      BY <2>2, <3>2, <3>3, SeqEqual DEF Path
  <2>4. Prefixes(g) = {Cut(g, i) : i \in 0..n}
    BY <2>2 DEF Prefixes, Cut
  <2> QED
    BY <2>1, <2>3, <2>4
<1>3. QED
  BY <1>1, <1>2

\* The directories of a package are what is above its files, and its empty
\* directories and what is above them.
LEMMA DirsOf ==
    ASSUME NEW p \in Packages
    PROVE  /\ \A f \in p.files : f \in Path /\ Len(f) \in Nat /\ Len(f) > 0
           /\ \A e \in p.empty : e \in Path /\ Len(e) \in Nat
           /\ <<>> \in Dirs(p)
           /\ \A f \in p.files : \A i \in 0..(Len(f) - 1) : Cut(f, i) \in Dirs(p)
           /\ \A e \in p.empty : \A i \in 0..Len(e) : Cut(e, i) \in Dirs(p)
           /\ \A d \in Dirs(p) :
                 /\ d \in Path
                 /\ \/ d = <<>>
                    \/ \E f \in p.files : Len(d) < Len(f) /\ IsPrefix(d, f)
                    \/ \E e \in p.empty : IsPrefix(d, e)
<1>1. p \in Package /\ \A f \in p.files : f # <<>>
  BY PackageAssumption
<1>2. /\ \A f \in p.files : f \in Path /\ Len(f) \in Nat /\ Len(f) > 0
      /\ \A e \in p.empty : e \in Path /\ Len(e) \in Nat
  <2>1. p.files \in SUBSET Path /\ p.empty \in SUBSET Path
    BY <1>1 DEF Package
  <2>2. \A f \in Path : Len(f) \in Nat /\ (f # <<>> => Len(f) > 0)
    BY DEF Path
  <2> QED
    BY <1>1, <2>1, <2>2
<1>3. \A d : d \in Dirs(p) <=> \/ d = <<>>
                               \/ \E f \in p.files : \E i \in 0..(Len(f) - 1) : d = Cut(f, i)
                               \/ \E e \in p.empty : \E i \in 0..Len(e) : d = Cut(e, i)
  <2>1. \A d : d \in Dirs(p) <=> \/ d = <<>>
                                 \/ \E f \in p.files : d \in Prefixes(Front(f))
                                 \/ \E e \in p.empty : d \in Prefixes(e)
    <3> DEFINE above == UNION {Prefixes(Front(f)) : f \in p.files}
               empty == UNION {Prefixes(e) : e \in p.empty}
    <3>1. \A d : d \in above <=> \E f \in p.files : d \in Prefixes(Front(f))
      BY Zenon
    <3>2. \A d : d \in empty <=> \E e \in p.empty : d \in Prefixes(e)
      BY Zenon
    <3>3. Dirs(p) = {<<>>} \cup above \cup empty
      BY Zenon DEF Dirs
    <3> HIDE DEF above, empty
    <3> QED
      BY <3>1, <3>2, <3>3
  <2>2. ASSUME NEW f \in p.files
        PROVE  \A d : d \in Prefixes(Front(f)) <=> \E i \in 0..(Len(f) - 1) : d = Cut(f, i)
    <3>1. Prefixes(Front(f)) = {Cut(f, i) : i \in 0..(Len(f) - 1)}
      BY <1>2, FrontPrefixes
    <3> QED
      BY <3>1
  <2>3. ASSUME NEW e \in p.empty
        PROVE  \A d : d \in Prefixes(e) <=> \E i \in 0..Len(e) : d = Cut(e, i)
    <3>1. Prefixes(e) = {Cut(e, i) : i \in 0..Len(e)}
      BY <1>2, FrontPrefixes
    <3> QED
      BY <3>1
  <2> QED
    BY <2>1, <2>2, <2>3
<1>4. ASSUME NEW d \in Dirs(p)
      PROVE  /\ d \in Path
             /\ \/ d = <<>>
                \/ \E f \in p.files : Len(d) < Len(f) /\ IsPrefix(d, f)
                \/ \E e \in p.empty : IsPrefix(d, e)
  <2>1. CASE d = <<>>
    BY <2>1 DEF Path
  <2>2. ASSUME NEW f \in p.files, NEW i \in 0..(Len(f) - 1), d = Cut(f, i)
        PROVE  d \in Path /\ Len(d) < Len(f) /\ IsPrefix(d, f)
    BY <1>2, <2>2, CutAt
  <2>3. ASSUME NEW e \in p.empty, NEW i \in 0..Len(e), d = Cut(e, i)
        PROVE  d \in Path /\ IsPrefix(d, e)
    BY <1>2, <2>3, CutAt
  <2>4. \/ d = <<>>
        \/ \E f \in p.files : \E i \in 0..(Len(f) - 1) : d = Cut(f, i)
        \/ \E e \in p.empty : \E i \in 0..Len(e) : d = Cut(e, i)
    BY <1>3
  <2> QED
    BY <2>1, <2>2, <2>3, <2>4
<1>5. QED
  BY <1>2, <1>3, <1>4

(***************************************************************************)
(* The structure.                                                          *)
(***************************************************************************)

Nodes(p) == p.files \cup Dirs(p)
Parts(t) == {ContentPath(t), MetadataPath(t), XSDPath(t)}
                \cup IF t \in AIPs THEN {UpdatedPath, LogicalPath} ELSE {}
Dossier(p, t) == Children(p, ContentPath(t)) \cap Dirs(p)

\* A package has no failures if and only if it passes each of the parts.
LEMMA StructureParts ==
    ASSUME NEW p \in Packages, NEW t
    PROVE  StructureFailures(p, t) = {} <=>
              /\ Nodes(p) # {<<>>}
              /\ \A d \in Dirs(p) : Children(p, d) # {}
              /\ \A n \in Nodes(p) : n # <<>> => Last(n) \notin InvalidNames
              /\ Parts(t) \subseteq Nodes(p)
              /\ \A d \in Children(p, <<>>) \cap Dirs(p) : d[1] \in TopLevel(t)
              /\ t \in {"DigitizedAIP", "DigitizedSIP"} => ~(Cardinality(Dossier(p, t)) > 1)
<1> DEFINE emptied == {d \in Dirs(p) : Children(p, d) = {}}
           invalid == {n \in Nodes(p) \ {<<>>} : Last(n) \in InvalidNames}
           missing == Parts(t) \ Nodes(p)
           extra   == {d \in Children(p, <<>>) \cap Dirs(p) : d[1] \notin TopLevel(t)}
           dossier == IF t \in {"DigitizedAIP", "DigitizedSIP"} /\ Cardinality(Dossier(p, t)) > 1
                      THEN Dossier(p, t) ELSE {}
<1>1. StructureFailures(p, t) = IF Nodes(p) = {<<>>} THEN {<<>>}
                                ELSE emptied \cup invalid \cup missing \cup extra \cup dossier
  BY Zenon DEF StructureFailures, Nodes, Parts, Dossier
<1>2. dossier = {} <=>
         (t \in {"DigitizedAIP", "DigitizedSIP"} => ~(Cardinality(Dossier(p, t)) > 1))
  BY FS_EmptySet
<1>3. emptied = {} <=> \A d \in Dirs(p) : Children(p, d) # {}
  OBVIOUS
<1>4. invalid = {} <=> \A n \in Nodes(p) : n # <<>> => Last(n) \notin InvalidNames
  OBVIOUS
<1>5. missing = {} <=> Parts(t) \subseteq Nodes(p)
  OBVIOUS
<1>6. extra = {} <=> \A d \in Children(p, <<>>) \cap Dirs(p) : d[1] \in TopLevel(t)
  OBVIOUS
<1> HIDE DEF emptied, invalid, missing, extra, dossier
<1>7. QED
  BY <1>1, <1>2, <1>3, <1>4, <1>5, <1>6

\* The node above a node, and a cut as a child.
LEMMA ChildrenAt ==
    ASSUME NEW p \in Packages, NEW f \in Path, NEW i \in 1..Len(f), Cut(f, i) \in Nodes(p)
    PROVE  Cut(f, i) \in Children(p, Cut(f, i - 1))
<1>1. /\ Cut(f, i) \in Path /\ Len(Cut(f, i)) = i /\ \A j \in 1..i : Cut(f, i)[j] = f[j]
      /\ Cut(f, i - 1) \in Path /\ Len(Cut(f, i - 1)) = i - 1
      /\ \A j \in 1..(i - 1) : Cut(f, i - 1)[j] = f[j]
  <2>1. i \in 0..Len(f) /\ i - 1 \in 0..Len(f)
    BY DEF Path
  <2> QED
    BY <2>1, CutAt
<1>2. Front(Cut(f, i)) = Cut(Cut(f, i), i - 1)
  BY <1>1 DEF Front, Cut
<1>3. Cut(Cut(f, i), i - 1) = Cut(f, i - 1)
  <2> DEFINE g == Cut(f, i)
  <2>1. /\ Cut(g, i - 1) \in Path /\ Len(Cut(g, i - 1)) = i - 1
        /\ \A j \in 1..(i - 1) : Cut(g, i - 1)[j] = g[j]
    BY <1>1, CutAt
  <2>2. \A j \in 1..(i - 1) : g[j] = f[j]
    BY <1>1
  <2> QED
    BY <1>1, <2>1, <2>2, SeqEqual DEF Path
<1>4. Cut(f, i) # <<>>
  BY <1>1
<1>5. QED
  BY <1>2, <1>3, <1>4 DEF Children, Nodes

\* A child is one name longer than the directory, which is its prefix.
LEMMA ChildAt ==
    ASSUME NEW p \in Packages, NEW d \in Path, NEW n \in Children(p, d)
    PROVE  n \in Path /\ n \in Nodes(p) /\ Len(n) = Len(d) + 1 /\ IsPrefix(d, n)
<1>1. n \in Path /\ n \in Nodes(p) /\ n # <<>> /\ Front(n) = d
  BY DirsOf DEF Children, Nodes
<1>2. Len(n) > 0 /\ Len(n) - 1 \in 0..Len(n)
  BY <1>1 DEF Path
<1>3. d = Cut(n, Len(n) - 1)
  BY <1>1, <1>2, FrontPrefixes
<1>4. Len(d) = Len(n) - 1 /\ IsPrefix(d, n)
  BY <1>1, <1>2, <1>3, CutAt
<1>5. QED
  BY <1>1, <1>2, <1>4 DEF Path

\* A prefix of a prefix is a prefix.
LEMMA PrefixTransitive ==
    ASSUME NEW a \in Path, NEW b \in Path, NEW c \in Path, IsPrefix(a, b), IsPrefix(b, c)
    PROVE  IsPrefix(a, c)
<1>1. /\ Len(a) \in Nat /\ Len(b) \in Nat /\ Len(c) \in Nat
      /\ Len(a) <= Len(b) /\ \A i \in 1..Len(a) : a[i] = b[i]
      /\ Len(b) <= Len(c) /\ \A i \in 1..Len(b) : b[i] = c[i]
  BY PrefixAt DEF Path
<1>2. QED
  BY <1>1, PrefixAt

\* Every path is a prefix of itself.
LEMMA PrefixReflexive == \A a \in Path : IsPrefix(a, a) /\ a = Cut(a, Len(a))
<1> TAKE a \in Path
<1>1. IsPrefix(a, a)
  BY PrefixAt DEF Path
<1>2. QED
  BY <1>1, PrefixIsCut

\* Every cut of a file's path is a node, and a directory if it is shorter.
LEMMA CutsAreNodes ==
    ASSUME NEW p \in Packages, NEW f \in p.files, NEW i \in 0..Len(f)
    PROVE  Cut(f, i) \in Nodes(p) /\ (i < Len(f) => Cut(f, i) \in Dirs(p))
<1>1. f \in Path /\ Len(f) \in Nat
  BY DirsOf
<1>2. CASE i = Len(f)
  BY <1>1, <1>2, PrefixReflexive DEF Nodes
<1>3. CASE i < Len(f)
  <2>1. i \in 0..(Len(f) - 1)
    BY <1>1, <1>3
  <2> QED
    BY <1>3, <2>1, DirsOf DEF Nodes
<1>4. QED
  BY <1>1, <1>2, <1>3

\* Nothing is in an empty directory, whatever else there is.
LEMMA EmptyIsFound ==
    ASSUME NEW p \in Packages, NEW e \in p.empty
    PROVE  e \in Dirs(p) /\ Children(p, e) = {}
<1>1. e \in Path /\ Len(e) \in Nat
  BY DirsOf
<1>2. e \in Dirs(p)
  <2>1. Len(e) \in 0..Len(e)
    BY <1>1
  <2> QED
    BY <1>1, <2>1, DirsOf, PrefixReflexive
<1>3. ASSUME NEW n \in Children(p, e) PROVE FALSE
  <2>1. n \in Path /\ n \in Nodes(p) /\ Len(n) = Len(e) + 1 /\ IsPrefix(e, n)
    BY <1>1, ChildAt
  <2>2. CASE n \in p.files
    BY <2>1, <2>2, TreeAssumption
  <2>3. ASSUME NEW f \in p.files, IsPrefix(n, f) PROVE FALSE
    <3>1. f \in Path
      BY DirsOf
    <3>2. IsPrefix(e, f)
      BY <1>1, <2>1, <2>3, <3>1, PrefixTransitive
    <3> QED
      BY <3>2, TreeAssumption
  <2>4. ASSUME NEW d \in p.empty, IsPrefix(n, d) PROVE FALSE
    <3>1. d \in Path /\ Len(d) \in Nat /\ Len(n) <= Len(d)
      BY <2>1, <2>4, DirsOf, PrefixAt
    <3>2. IsPrefix(e, d) /\ d # e
      BY <1>1, <2>1, <2>4, <3>1, PrefixTransitive
    <3> QED
      BY <3>2, TreeAssumption
  <2>5. n # <<>>
    BY <1>1, <2>1
  <2> QED
    BY <2>1, <2>2, <2>3, <2>4, <2>5, DirsOf DEF Nodes
<1>4. QED
  BY <1>2, <1>3

\* What WellStructured asks of a package, with its type as a parameter.
Structured(p, t) ==
    LET n == Len(ContentPath(t)) + 1
    IN /\ p.files # {} /\ p.empty = {}
       /\ \A f \in p.files : \A i \in 1..Len(f) : f[i] \notin InvalidNames
       /\ \A f \in p.files : Len(f) > 1 => f[1] \in TopLevel(t)
       /\ {MetadataPath(t), XSDPath(t)} \subseteq p.files \cup Dirs(p)
       /\ Below(ContentPath(t), p.files) # {}
       /\ t \in {"DigitizedAIP", "DigitizedSIP"} =>
             \A f, g \in Below(ContentPath(t), p.files) :
                Len(f) > n /\ Len(g) > n => f[n] = g[n]

\* A package without structure failures is structured.
LEMMA PassedIsStructured ==
    ASSUME NEW p \in Packages, NEW t, StructureFailures(p, t) = {}
    PROVE  Structured(p, t)
<1> DEFINE n == Len(ContentPath(t)) + 1
<1>0. /\ Nodes(p) # {<<>>}
      /\ \A d \in Dirs(p) : Children(p, d) # {}
      /\ \A m \in Nodes(p) : m # <<>> => Last(m) \notin InvalidNames
      /\ Parts(t) \subseteq Nodes(p)
      /\ \A d \in Children(p, <<>>) \cap Dirs(p) : d[1] \in TopLevel(t)
      /\ t \in {"DigitizedAIP", "DigitizedSIP"} => ~(Cardinality(Dossier(p, t)) > 1)
  BY StructureParts
<1>1. p.empty = {}
  BY <1>0, EmptyIsFound
<1>2. p.files # {}
  <2>1. p.files = {} => Dirs(p) = {<<>>}
    BY <1>1, DirsOf
  <2> QED
    BY <1>0, <2>1 DEF Nodes
<1>3. ASSUME NEW f \in p.files PROVE f \in Path /\ Len(f) \in Nat /\ Len(f) > 0
  BY DirsOf
<1>4. ASSUME NEW f \in p.files, NEW i \in 1..Len(f) PROVE f[i] \notin InvalidNames
  <2>1. i \in 0..Len(f) /\ i \in 1..i
    BY <1>3
  <2>2. Cut(f, i) \in Nodes(p) /\ Len(Cut(f, i)) = i /\ Cut(f, i)[i] = f[i]
    BY <1>3, <2>1, CutsAreNodes, CutAt
  <2>3. Cut(f, i) # <<>>
    BY <2>2
  <2> QED
    BY <1>0, <2>2, <2>3 DEF Last
<1>5. ASSUME NEW f \in p.files, Len(f) > 1 PROVE f[1] \in TopLevel(t)
  <2>1. 1 \in 0..Len(f) /\ 1 \in 1..1 /\ 0 \in 0..Len(f) /\ 1 \in 1..Len(f) /\ f \in Path
    BY <1>3, <1>5
  <2>2. /\ Cut(f, 1) \in Dirs(p) /\ Cut(f, 1) \in Nodes(p) /\ Cut(f, 1)[1] = f[1]
        /\ Cut(f, 0) \in Path /\ Len(Cut(f, 0)) = 0
    BY <1>5, <2>1, CutsAreNodes, CutAt
  <2>3. Cut(f, 0) = <<>>
    BY <2>2 DEF Path
  <2>4. Cut(f, 1) \in Children(p, Cut(f, 1 - 1))
    BY <2>1, <2>2, ChildrenAt
  <2>5. Cut(f, 1) \in Children(p, <<>>)
    BY <2>3, <2>4
  <2> QED
    BY <1>0, <2>2, <2>5
<1>6. {MetadataPath(t), XSDPath(t)} \subseteq p.files \cup Dirs(p)
  BY <1>0 DEF Parts, Nodes
<1>7. Below(ContentPath(t), p.files) # {}
  <2>1. ContentPath(t) \in Nodes(p) /\ ContentPath(t) \in Path /\ ContentPath(t) # <<>>
    BY <1>0, PartsType DEF Parts, ContentPath
  <2>2. CASE ContentPath(t) \in p.files
    BY <2>1, <2>2, PrefixReflexive DEF Below
  <2>3. CASE ContentPath(t) \in Dirs(p)
    BY <1>1, <2>1, <2>3, DirsOf DEF Below
  <2> QED
    BY <2>1, <2>2, <2>3 DEF Nodes
<1>8. ASSUME NEW f \in Below(ContentPath(t), p.files), Len(f) > n
      PROVE  /\ Cut(f, n) \in Dossier(p, t) /\ Cut(f, n)[n] = f[n]
  <2>1. /\ f \in p.files /\ IsPrefix(ContentPath(t), f) /\ f \in Path /\ Len(f) \in Nat
        /\ ContentPath(t) \in Path /\ Len(ContentPath(t)) \in Nat
    BY <1>3, PartsType DEF Below, Path
  <2>2. n \in 0..Len(f) /\ n \in 1..n /\ n \in 1..Len(f) /\ n - 1 = Len(ContentPath(t))
    BY <1>8, <2>1
  <2>3. Cut(f, n) \in Dirs(p) /\ Cut(f, n) \in Nodes(p) /\ Cut(f, n)[n] = f[n]
    BY <1>8, <2>1, <2>2, CutsAreNodes, CutAt
  <2>4. ContentPath(t) = Cut(f, n - 1)
    BY <2>1, <2>2, PrefixIsCut
  <2>5. Cut(f, n) \in Children(p, Cut(f, n - 1))
    BY <2>1, <2>2, <2>3, ChildrenAt
  <2> QED
    BY <2>3, <2>4, <2>5 DEF Dossier
<1>9. ASSUME t \in {"DigitizedAIP", "DigitizedSIP"},
             NEW f \in Below(ContentPath(t), p.files), NEW g \in Below(ContentPath(t), p.files),
             Len(f) > n, Len(g) > n
      PROVE  f[n] = g[n]
  <2> SUFFICES ASSUME f[n] # g[n] PROVE FALSE
    OBVIOUS
  <2> DEFINE a == Cut(f, n)
             b == Cut(g, n)
  <2>1. a \in Dossier(p, t) /\ b \in Dossier(p, t) /\ a # b
    BY <1>8, <1>9
  <2>2. IsFiniteSet(Dossier(p, t))
    <3>1. IsFiniteSet(p.files \cup Dirs(p))
      BY TreeAssumption
    <3>2. Dossier(p, t) \in SUBSET (p.files \cup Dirs(p))
      BY DEF Dossier
    <3> QED
      BY <3>1, <3>2, FS_Subset
  <2> HIDE DEF a, b
  <2>3. IsFiniteSet({a} \cup {b}) /\ Cardinality({a} \cup {b}) = 2
    <3>1. IsFiniteSet({a}) /\ Cardinality({a}) = 1
      BY FS_Singleton
    <3>2. /\ IsFiniteSet({a} \cup {b})
          /\ Cardinality({a} \cup {b}) = IF b \in {a} THEN Cardinality({a}) ELSE Cardinality({a}) + 1
      BY <3>1, FS_AddElement, Zenon
    <3>3. b \notin {a}
      BY <2>1
    <3>4. Cardinality({a} \cup {b}) = Cardinality({a}) + 1
      BY <3>2, <3>3, Zenon
    <3> QED
      BY <3>1, <3>2, <3>4
  <2>4. {a} \cup {b} \in SUBSET Dossier(p, t)
    BY <2>1
  <2>5. Cardinality({a} \cup {b}) <= Cardinality(Dossier(p, t))
    BY <2>2, <2>4, FS_Subset, Zenon
  <2>6. Cardinality(Dossier(p, t)) \in Nat
    BY <2>2, FS_CardinalityType
  <2>7. ~(Cardinality(Dossier(p, t)) > 1)
    BY <1>0, <1>9, Zenon
  <2> DEFINE pair == Cardinality({a} \cup {b})
             all  == Cardinality(Dossier(p, t))
  <2>8. pair = 2 /\ pair <= all /\ all \in Nat /\ ~(all > 1)
    BY <2>3, <2>5, <2>6, <2>7, Zenon
  <2> HIDE DEF pair, all, n
  <2> QED
    BY <2>8
<1>10. QED
  BY <1>1, <1>2, <1>4, <1>5, <1>6, <1>7, <1>9 DEF Structured

\* Every directory of a package without empty ones is above a file.
LEMMA DirsAreAboveFiles ==
    ASSUME NEW p \in Packages, p.files # {}, p.empty = {}, NEW d \in Dirs(p)
    PROVE  /\ d \in Path /\ Len(d) \in Nat
           /\ \E f \in p.files : Len(d) < Len(f) /\ IsPrefix(d, f) /\ d = Cut(f, Len(d))
<1>1. /\ d \in Path
      /\ d = <<>> \/ \E f \in p.files : Len(d) < Len(f) /\ IsPrefix(d, f)
  BY DirsOf
<1>2. Len(d) \in Nat
  BY <1>1 DEF Path
<1>3. \E f \in p.files : Len(d) < Len(f) /\ IsPrefix(d, f)
  <2>1. CASE d = <<>>
    <3>1. PICK f \in p.files : f \in Path /\ Len(f) > 0
      BY DirsOf
    <3>2. Len(d) = 0 /\ d \in Path /\ IsPrefix(d, f)
      BY <1>1, <2>1, <3>1, PrefixAt
    <3> QED
      BY <3>1, <3>2
  <2> QED
    BY <1>1, <2>1
<1>4. QED
  BY <1>1, <1>2, <1>3, DirsOf, PrefixIsCut

\* A package that is structured and has its parts passes.
LEMMA StructuredPasses ==
    ASSUME NEW p \in Packages, NEW t, Structured(p, t),
           t \in AIPs => {UpdatedPath, LogicalPath} \subseteq p.files
    PROVE  StructureFailures(p, t) = {}
<1> DEFINE n == Len(ContentPath(t)) + 1
<1>0. /\ p.files # {} /\ p.empty = {}
      /\ \A f \in p.files : \A i \in 1..Len(f) : f[i] \notin InvalidNames
      /\ \A f \in p.files : Len(f) > 1 => f[1] \in TopLevel(t)
      /\ {MetadataPath(t), XSDPath(t)} \subseteq p.files \cup Dirs(p)
      /\ Below(ContentPath(t), p.files) # {}
      /\ t \in {"DigitizedAIP", "DigitizedSIP"} =>
            \A f, g \in Below(ContentPath(t), p.files) :
               Len(f) > n /\ Len(g) > n => f[n] = g[n]
  BY DEF Structured
<1>f. \A f \in p.files : f \in Path /\ Len(f) \in Nat /\ Len(f) > 0 /\ f # <<>>
  <2>1. \A f \in p.files : f \in Path /\ Len(f) \in Nat /\ Len(f) > 0
    BY DirsOf
  <2> QED
    BY <2>1
<1>d. \A d \in Dirs(p) :
         /\ d \in Path /\ Len(d) \in Nat
         /\ \E f \in p.files : Len(d) < Len(f) /\ IsPrefix(d, f) /\ d = Cut(f, Len(d))
  BY <1>0, DirsAreAboveFiles
<1>1. Nodes(p) # {<<>>}
  BY <1>0, <1>f DEF Nodes
<1>2. ASSUME NEW d \in Dirs(p) PROVE Children(p, d) # {}
  <2>1. PICK f \in p.files : Len(d) < Len(f) /\ d = Cut(f, Len(d))
    BY <1>d
  <2> DEFINE i == Len(d) + 1
  <2>2. i \in 0..Len(f) /\ i \in 1..Len(f) /\ i - 1 = Len(d) /\ f \in Path
    BY <1>f, <1>d, <2>1
  <2>3. Cut(f, i) \in Nodes(p)
    BY <2>2, CutsAreNodes
  <2>4. Cut(f, i) \in Children(p, Cut(f, i - 1))
    BY <2>2, <2>3, ChildrenAt
  <2> QED
    BY <2>1, <2>2, <2>4
<1>3. ASSUME NEW m \in Nodes(p), m # <<>> PROVE Last(m) \notin InvalidNames
  <2>1. CASE m \in p.files
    <3>1. Len(m) \in 1..Len(m)
      BY <1>f, <2>1
    <3> QED
      BY <1>0, <2>1, <3>1 DEF Last
  <2>2. CASE m \in Dirs(p)
    <3>1. PICK f \in p.files : Len(m) < Len(f) /\ IsPrefix(m, f)
      BY <1>d, <2>2
    <3>2. /\ m \in Path /\ Len(m) \in Nat /\ f \in Path /\ Len(f) \in Nat
          /\ \A i \in 1..Len(m) : m[i] = f[i]
      BY <1>f, <1>d, <2>2, <3>1, PrefixAt
    <3>3. Len(m) \in 1..Len(m) /\ Len(m) \in 1..Len(f)
      BY <1>3, <3>1, <3>2 DEF Path
    <3> QED
      BY <1>0, <3>2, <3>3 DEF Last
  <2> QED
    BY <2>1, <2>2 DEF Nodes
<1>4. Parts(t) \subseteq Nodes(p)
  <2>1. PICK f \in p.files : IsPrefix(ContentPath(t), f)
    BY <1>0 DEF Below
  <2>2. ContentPath(t) = Cut(f, Len(ContentPath(t))) /\ Len(ContentPath(t)) \in 0..Len(f)
    BY <1>f, <2>1, PartsType, PrefixIsCut
  <2>3. ContentPath(t) \in Nodes(p)
    BY <2>2, CutsAreNodes
  <2> QED
    BY <1>0, <2>3 DEF Parts, Nodes
<1>5. ASSUME NEW d \in Children(p, <<>>) \cap Dirs(p) PROVE d[1] \in TopLevel(t)
  <2>1. Len(d) = 1
    <3>1. <<>> \in Path /\ Len(<<>>) = 0
      BY DEF Path
    <3>2. d \in Children(p, <<>>) /\ d \in Dirs(p)
      OBVIOUS
    <3>3. Len(d) = Len(<<>>) + 1
      BY <3>1, <3>2, ChildAt
    <3> QED
      BY <3>1, <3>3
  <2>2. PICK f \in p.files : Len(d) < Len(f) /\ IsPrefix(d, f)
    BY <1>d
  <2>3. f[1] = d[1] /\ Len(f) > 1
    <3>1. d \in Path /\ f \in Path /\ 1 \in 1..Len(d)
      BY <1>f, <1>d, <2>1
    <3>2. \A i \in 1..Len(d) : d[i] = f[i]
      BY <2>2, <3>1, PrefixAt
    <3> QED
      BY <2>1, <2>2, <3>1, <3>2
  <2> QED
    BY <1>0, <2>3
<1>6. ASSUME NEW a \in Dossier(p, t)
      PROVE  /\ a \in Path /\ Len(a) = n
             /\ \E f \in Below(ContentPath(t), p.files) : Len(f) > n /\ IsPrefix(a, f)
  <2>1. a \in Dirs(p) /\ a \in Children(p, ContentPath(t))
    BY DEF Dossier
  <2>2. a \in Path /\ Len(a) = n /\ IsPrefix(ContentPath(t), a)
    BY <2>1, PartsType, ChildAt
  <2>3. PICK f \in p.files : Len(a) < Len(f) /\ IsPrefix(a, f)
    BY <1>d, <2>1
  <2>4. IsPrefix(ContentPath(t), f)
    BY <1>f, <2>2, <2>3, PartsType, PrefixTransitive
  <2> QED
    BY <2>2, <2>3, <2>4 DEF Below
<1>7. ASSUME t \in {"DigitizedAIP", "DigitizedSIP"}, NEW a \in Dossier(p, t), NEW b \in Dossier(p, t)
      PROVE  a = b
  <2>0. ContentPath(t) \in Path /\ Len(ContentPath(t)) \in Nat
    BY PartsType DEF Path
  <2>1. PICK f \in Below(ContentPath(t), p.files) : Len(f) > n /\ IsPrefix(a, f)
    BY <1>6
  <2>2. PICK g \in Below(ContentPath(t), p.files) : Len(g) > n /\ IsPrefix(b, g)
    BY <1>6
  <2>3. /\ f \in Path /\ g \in Path /\ a \in Path /\ b \in Path /\ Len(a) = n /\ Len(b) = n
        /\ IsPrefix(ContentPath(t), f) /\ IsPrefix(ContentPath(t), g)
    BY <1>6, <1>f DEF Below
  <2>4. /\ \A i \in 1..n : a[i] = f[i] /\ b[i] = g[i]
        /\ \A i \in 1..(n - 1) : f[i] = ContentPath(t)[i] /\ g[i] = ContentPath(t)[i]
    BY <2>0, <2>1, <2>2, <2>3, PrefixAt
  <2>5. f[n] = g[n]
    BY <1>0, <1>7, <2>1, <2>2
  <2>6. \A i \in 1..n : a[i] = b[i]
    BY <2>0, <2>4, <2>5
  <2> QED
    BY <2>3, <2>6, SeqEqual DEF Path
<1>8. t \in {"DigitizedAIP", "DigitizedSIP"} => ~(Cardinality(Dossier(p, t)) > 1)
  <2> SUFFICES ASSUME t \in {"DigitizedAIP", "DigitizedSIP"} PROVE ~(Cardinality(Dossier(p, t)) > 1)
    OBVIOUS
  <2>1. CASE Dossier(p, t) = {}
    BY <2>1, FS_EmptySet
  <2>2. ASSUME NEW a \in Dossier(p, t) PROVE Cardinality(Dossier(p, t)) = 1
    <3>1. Dossier(p, t) = {a}
      BY <1>7
    <3> QED
      BY <3>1, FS_Singleton
  <2> QED
    BY <2>1, <2>2
<1>9. QED
  BY <1>1, <1>2, <1>3, <1>4, <1>5, <1>8, StructureParts

(***************************************************************************)
(* The manifest.                                                           *)
(***************************************************************************)

\* The files the manifest speaks for, as WellListed has them.
Ours(p, t) == IF t \in AIPs THEN {f \in p.files : f[1] = "content"}
                            ELSE p.files \ {MetadataPath(t)}

\* What WellListed asks of a package, with its type as a parameter.
ListedWell(p, t) ==
    /\ ManifestPath(t) \in p.files
    /\ Manifest(p, t).version = "allowed"
    /\ \A e \in Manifest(p, t).entries : e.sum = "match"
    /\ {Root(t) \o e.path : e \in Manifest(p, t).entries} = Ours(p, t)

\* The directory the paths of a manifest start from is a path.
LEMMA RootType ==
    /\ \A t : Root(t) \in Path
    /\ \A t \in AIPs : Root(t) = <<"content">>
    /\ \A t : t \notin AIPs => Root(t) = <<>>
<1>1. <<"content">> \in Path /\ <<>> \in Path
  BY Known DEF Path
<1>2. QED
  BY <1>1 DEF Root

\* The activity verifies the files the manifest is to list.
LEMMA VerifiedIsOurs ==
    ASSUME NEW p \in Packages, NEW t \in Types
    PROVE  Verified(p, t) = Ours(p, t)
<1>f. \A f \in p.files : f \in Path /\ Len(f) \in Nat /\ Len(f) > 0
  BY DirsOf
<1>1. CASE t \in AIPs
  <2>1. Root(t) = <<"content">> /\ Root(t) \in Path /\ Len(Root(t)) = 1 /\ Root(t)[1] = "content"
    BY <1>1, RootType
  <2>2. \A f \in p.files : IsPrefix(Root(t), f) <=> f[1] = "content"
    BY <1>f, <2>1, PrefixAt
  <2>3. t \notin SIPs
    BY <1>1 DEF SIPs
  <2>4. Verified(p, t) = Below(Root(t), p.files)
    BY <2>3 DEF Verified
  <2> QED
    BY <1>1, <2>2, <2>4 DEF Below, Ours
<1>2. CASE t \notin AIPs
  <2>1. Root(t) = <<>> /\ Root(t) \in Path /\ Len(Root(t)) = 0
    BY <1>2, RootType
  <2>2. \A f \in p.files : IsPrefix(Root(t), f)
    BY <1>f, <2>1, PrefixAt
  <2>3. t \in SIPs
    BY <1>2 DEF SIPs
  <2>4. Verified(p, t) = Below(Root(t), p.files) \ {MetadataPath(t)}
    BY <2>3 DEF Verified
  <2> QED
    BY <1>2, <2>2, <2>4 DEF Below, Ours
<1>3. QED
  BY <1>1, <1>2

\* A manifest that is verified without failures lists the files of the package.
LEMMA VerifiedIsListed ==
    ASSUME NEW p \in Packages, NEW t \in Types, ~ManifestBreaks(p, t),
           ~ManifestFails(p, t), ~ChecksumsFail(p, t)
    PROVE  ListedWell(p, t)
<1>1. Verified(p, t) = Ours(p, t)
  BY VerifiedIsOurs
<1>2. /\ ManifestPath(t) \in p.files
      /\ Manifest(p, t).version = "allowed"
      /\ Listed(p, t) = Ours(p, t)
      /\ \A e \in Manifest(p, t).entries : Root(t) \o e.path \in Ours(p, t) =>
            e.sum # "unsupported" /\ e.sum # "differ"
  BY <1>1 DEF ManifestBreaks, ManifestFails, ChecksumsFail
<1>3. \A e \in Manifest(p, t).entries : e.sum \in {"match", "differ", "unsupported"}
  <2>1. p \in Package
    BY PackageAssumption
  <2>2. Manifest(p, t) \in Listing
    BY <2>1 DEF Package, Manifest
  <2> QED
    BY <2>2 DEF Listing, Entry
<1>4. \A e \in Manifest(p, t).entries : Root(t) \o e.path \in Listed(p, t)
  BY DEF Listed
<1>5. QED
  BY <1>2, <1>3, <1>4 DEF ListedWell, Listed

\* A manifest that lists the files of a structured package is verified.
LEMMA ListedIsVerified ==
    ASSUME NEW p \in Packages, NEW t \in Types, ListedWell(p, t), Structured(p, t)
    PROVE  ~ManifestBreaks(p, t) /\ ~ManifestFails(p, t) /\ ~ChecksumsFail(p, t)
<1>1. Verified(p, t) = Ours(p, t)
  BY VerifiedIsOurs
<1>2. Root(t) \in Dirs(p) \cup p.files
  <2>1. CASE t \in AIPs
    <3>1. PICK f \in p.files : IsPrefix(ContentPath(t), f)
      BY DEF Structured, Below
    <3>2. ContentPath(t) = <<"content", "content">> /\ ContentPath(t) \in Path /\ f \in Path
      BY <2>1, DirsOf, PartsType DEF ContentPath
    <3>3. Root(t) = <<"content">> /\ Root(t) \in Path /\ Len(Root(t)) = 1 /\ Root(t)[1] = "content"
      BY <2>1, RootType
    <3>4. IsPrefix(Root(t), f)
      <4>1. Len(ContentPath(t)) = 2 /\ ContentPath(t)[1] = "content"
        BY <3>2
      <4>2. /\ Len(ContentPath(t)) <= Len(f)
            /\ \A i \in 1..Len(ContentPath(t)) : ContentPath(t)[i] = f[i]
        BY <3>1, <3>2, PrefixAt
      <4>3. Len(f) \in Nat
        BY <3>2 DEF Path
      <4>4. 1 <= Len(f) /\ f[1] = "content"
        BY <4>1, <4>2, <4>3
      <4> QED
        BY <3>2, <3>3, <4>4, PrefixAt
    <3>5. Root(t) = Cut(f, Len(Root(t))) /\ Len(Root(t)) \in 0..Len(f)
      BY <3>2, <3>3, <3>4, PrefixIsCut
    <3> QED
      BY <3>5, CutsAreNodes DEF Nodes
  <2>2. CASE t \notin AIPs
    BY <2>2, RootType, DirsOf
  <2> QED
    BY <2>1, <2>2
<1>3. QED
  BY <1>1, <1>2 DEF ListedWell, ManifestBreaks, ManifestFails, ChecksumsFail, Listed

(***************************************************************************)
(* What makes a package sound.                                             *)
(***************************************************************************)

\* What Sound says of a package whose type is known.
LEMMA SoundParts ==
    ASSUME NEW p \in Packages, NEW tool
    PROVE  Sound(p, tool) <=>
              LET t == SipType(p)
              IN /\ p.bag # "without data" /\ p.flaws \cap {"folder", "metadata"} = {}
                 /\ tool => "formats" \notin p.flaws
                 /\ p.bag = "bag" => "bag" \notin p.flaws
                 /\ t \in SIPs => p.flaws \cap {"name", "disallowed"} = {}
                 /\ t \in AIPs => "logical" \notin p.flaws /\ LogicalPath \in p.files
                 /\ Structured(p, t) /\ ListedWell(p, t)
<1> DEFINE t == SipType(p)
<1>1. WellStructured(p) <=> Structured(p, t) /\ (t \in AIPs => LogicalPath \in p.files)
  BY DEF WellStructured, Structured, Content
<1>2. WellListed(p) <=> ListedWell(p, t)
  BY Zenon DEF WellListed, ListedWell, Ours
<1> HIDE DEF t
<1>3. Sound(p, tool) <=>
         /\ p.bag # "without data" /\ p.flaws \cap {"folder", "metadata"} = {}
         /\ tool => "formats" \notin p.flaws
         /\ p.bag = "bag" => "bag" \notin p.flaws
         /\ t \in SIPs => p.flaws \cap {"name", "disallowed"} = {}
         /\ t \in AIPs => "logical" \notin p.flaws
         /\ WellStructured(p) /\ WellListed(p)
  BY Zenon DEF Sound, t
<1>4. QED
  BY <1>1, <1>2, <1>3 DEF t

\* A sound package passes every check that applies to it, and none of them breaks.
LEMMA SoundPasses ==
    ASSUME pkg \in Packages, sip = SipType(pkg), Sound(pkg, verapdf)
    PROVE  /\ \A c \in Checks : Applies(c, sip) => ~Fails(c)
           /\ ~ManifestBreaks(pkg, sip) /\ ~ManifestFails(pkg, sip) /\ ~ChecksumsFail(pkg, sip)
           /\ ContentPath(sip) \in Nodes(pkg)
           /\ pkg.files # {}
<1>1. /\ pkg.bag # "without data" /\ pkg.flaws \cap {"folder", "metadata"} = {}
      /\ verapdf => "formats" \notin pkg.flaws
      /\ pkg.bag = "bag" => "bag" \notin pkg.flaws
      /\ sip \in SIPs => pkg.flaws \cap {"name", "disallowed"} = {}
      /\ sip \in AIPs => "logical" \notin pkg.flaws /\ LogicalPath \in pkg.files
      /\ Structured(pkg, sip) /\ ListedWell(pkg, sip)
  BY SoundParts
<1>2. sip \in Types
  BY SipTypeType
<1>3. ~ManifestBreaks(pkg, sip) /\ ~ManifestFails(pkg, sip) /\ ~ChecksumsFail(pkg, sip)
  BY <1>1, <1>2, ListedIsVerified
<1>4. StructureFailures(pkg, sip) = {}
  <2>1. sip \in AIPs => UpdatedPath \in pkg.files
    BY <1>1 DEF ListedWell, ManifestPath
  <2> QED
    BY <1>1, <2>1, StructuredPasses
<1>5. ContentPath(sip) \in Nodes(pkg)
  BY <1>4, StructureParts DEF Parts
<1>6. ASSUME NEW c \in Checks, Applies(c, sip) PROVE ~Fails(c)
  BY <1>1, <1>4, <1>6 DEF Fails, Finds, Skipped, Applies, Checks
<1>7. QED
  BY <1>1, <1>3, <1>5, <1>6 DEF Structured

\* A package is sound if it came to its place without a flaw and has passed.
LEMMA PassedIsSound ==
    ASSUME pkg \in Packages, sip = SipType(pkg), pkg.bag # "without data",
           "folder" \notin pkg.flaws, pkg.bag = "bag" => "bag" \notin pkg.flaws,
           \A c \in Checks : Applies(c, sip) => ~Fails(c),
           ~ManifestBreaks(pkg, sip), ~ManifestFails(pkg, sip), ~ChecksumsFail(pkg, sip)
    PROVE  Sound(pkg, verapdf)
<1>1. sip \in Types
  BY SipTypeType
<1>2. ListedWell(pkg, sip)
  BY <1>1, VerifiedIsListed
<1>3. /\ ~Fails("structure") /\ ~Fails("formats") /\ ~Fails("metadata") /\ ~Fails("name")
      /\ sip \in SIPs => ~Fails("disallowed")
      /\ sip \in AIPs => ~Fails("logical")
  BY DEF Checks, Applies
<1>4. Structured(pkg, sip)
  BY <1>3, PassedIsStructured DEF Fails, Finds, Skipped
<1>5. (verapdf => "formats" \notin pkg.flaws) /\ "metadata" \notin pkg.flaws
  BY <1>3 DEF Fails, Finds, Skipped
<1>6. sip \in SIPs => "name" \notin pkg.flaws /\ "disallowed" \notin pkg.flaws
  BY <1>3 DEF Fails, Finds, Skipped
<1>7. sip \in AIPs => LogicalPath \in pkg.files /\ "logical" \notin pkg.flaws
  BY <1>3 DEF Fails, Finds, Skipped
<1>8. /\ pkg.flaws \cap {"folder", "metadata"} = {}
      /\ sip \in SIPs => pkg.flaws \cap {"name", "disallowed"} = {}
  BY <1>5, <1>6
<1>9. QED
  BY <1>2, <1>4, <1>5, <1>7, <1>8, SoundParts

(***************************************************************************)
(* The workflow.                                                           *)
(***************************************************************************)

\* What came to its place, until it is judged.
Judged ==
    /\ outcome = "success" /\ pc \notin {"extract", "done"} => "folder" \notin pkg.flaws
    /\ outcome = "success" /\ pc \in {"unbag", "identify"} \cup Checked \cup After =>
          (pkg.bag = "bag" => "bag" \notin pkg.flaws)
    /\ pc \in {"identify"} \cup Checked \cup After => pkg.bag # "without data"
    /\ outcome = "success" /\ pc \in Checked \cup After /\ Rank("manifest") < Rank(pc) =>
          ~ManifestBreaks(pkg, sip) /\ ~ManifestFails(pkg, sip) /\ ~ChecksumsFail(pkg, sip)

\* What is in the way of the files of the restructured package.
Shaped ==
    /\ pc \in {"event", "agent", "restructure"} => files = pkg.files \cup {PremisFile}
    /\ pc = "identifiers" => PipManifestPath(sip) \in files \/ Obstructed(pkg)

Accepted == pc = "done" /\ outcome = "success" => Sound(pkg, verapdf)
Refused  ==
    /\ outcome = "content" => fault \/ ~Sound(pkg, verapdf)
    /\ outcome \in {"system", "error"} => fault \/ ~Sound(pkg, verapdf) \/ Obstructed(pkg)

Judging == Claiming /\ Judged /\ Shaped /\ Accepted /\ Refused

\* Once the checks are over the package is sound.
LEMMA SoundAfterChecks ==
    ASSUME Claiming, Judged, pc \in After
    PROVE  Sound(pkg, verapdf)
<1>1. /\ pkg \in Packages /\ sip = SipType(pkg) /\ outcome = "success" /\ pc # "done"
      /\ pc # "extract"
  BY DEF Claiming, Processing, Placed, After
<1>2. \A c \in Checks : Applies(c, sip) => ~Fails(c)
  BY <1>1, ChecksFirst DEF Claiming, Passed
<1>3. Rank("manifest") < Rank(pc)
  <2>1. Rank("manifest") = 7 /\ Rank(pc) \in 12..16
    BY RankValues, Ranks
  <2> QED
    BY <2>1
<1>4. QED
  BY <1>1, <1>2, <1>3, PassedIsSound DEF Judged

\* The moves of the restructuring, one by one.
UpdatedMove  == [from |-> UpdatedPath, to |-> <<"metadata", Last(UpdatedPath)>>]
LogicalMove  == [from |-> LogicalPath, to |-> <<"metadata", Last(LogicalPath)>>]
ContentMove  == [from |-> ContentPath(sip), to |-> Objects \o <<"content">>]
MetadataMove == [from |-> MetadataPath(sip), to |-> Objects \o <<"header", "metadata.xml">>]

\* What is there after moves: what none of them concerns, and what they moved.
LEMMA MovedIs ==
    ASSUME NEW moves, NEW ps, NEW x
    PROVE  x \in Moved(moves, ps) <=>
              \/ x \in ps /\ \A m \in moves : ~IsPrefix(m.from, x)
              \/ \E m \in moves : \E q \in Below(m.from, ps) : x = Rebased(m.from, m.to, q)
<1> DEFINE rest  == {p \in ps : \A m \in moves : ~IsPrefix(m.from, p)}
           Of(m) == {Rebased(m.from, m.to, p) : p \in Below(m.from, ps)}
           gone  == UNION {Of(m) : m \in moves}
<1>1. Moved(moves, ps) = rest \cup gone
  BY DEF Moved
<1>2. x \in rest <=> x \in ps /\ \A m \in moves : ~IsPrefix(m.from, x)
  OBVIOUS
<1>3. x \in gone <=> \E m \in moves : x \in Of(m)
  <2> HIDE DEF Of
  <2> QED
    OBVIOUS
<1>4. ASSUME NEW m
      PROVE  x \in Of(m) <=> \E q \in Below(m.from, ps) : x = Rebased(m.from, m.to, q)
  OBVIOUS
<1> HIDE DEF rest, Of, gone
<1>5. QED
  BY <1>1, <1>2, <1>3, <1>4

\* The moves as a set.
LEMMA MovesAre ==
    {Moves[i] : i \in 1..Len(Moves)}
        = {ContentMove, MetadataMove} \cup IF sip \in AIPs THEN {UpdatedMove, LogicalMove} ELSE {}
<1>1. Moves = (IF sip \in AIPs THEN <<UpdatedMove, LogicalMove>> ELSE <<>>)
                  \o <<ContentMove, MetadataMove>>
  BY DEF Moves, UpdatedMove, LogicalMove, ContentMove, MetadataMove
<1>2. CASE sip \in AIPs
  <2>1. /\ Len(Moves) = 4 /\ Moves[1] = UpdatedMove /\ Moves[2] = LogicalMove
        /\ Moves[3] = ContentMove /\ Moves[4] = MetadataMove
    BY <1>1, <1>2
  <2>2. 1..4 = {1, 2, 3, 4}
    OBVIOUS
  <2> QED
    BY <1>2, <2>1, <2>2
<1>3. CASE sip \notin AIPs
  <2>1. Len(Moves) = 2 /\ Moves[1] = ContentMove /\ Moves[2] = MetadataMove
    BY <1>1, <1>3
  <2>2. 1..2 = {1, 2}
    OBVIOUS
  <2> QED
    BY <1>3, <2>1, <2>2
<1>4. QED
  BY <1>2, <1>3

\* The file with the identifiers is in its new place, if it is a file.
LEMMA IdentifiersInPlace ==
    ASSUME pkg \in Packages, sip = SipType(pkg), Sound(pkg, verapdf),
           files = pkg.files \cup {PremisFile}, files \in SUBSET Path
    PROVE  PipManifestPath(sip) \in Restructured \/ Obstructed(pkg)
<1> DEFINE moves == {Moves[i] : i \in 1..Len(Moves)}
<1>1. ASSUME NEW m \in moves, m.from \in files, m.from \in Path, m.to \in Path,
             m.to[1] \notin TopLevel(sip)
      PROVE  m.to \in Restructured
  <2>1. m.from \in Below(m.from, files)
    BY <1>1, PrefixReflexive DEF Below
  <2>2. Rebased(m.from, m.to, m.from) = m.to
    <3>1. SubSeq(m.from, Len(m.from) + 1, Len(m.from)) = <<>>
      BY <1>1, SubSeqEmpty DEF Path
    <3>2. m.to \o <<>> = m.to
      BY <1>1, ConcatEmptySeq DEF Path
    <3> QED
      BY <3>1, <3>2 DEF Rebased
  <2>3. m.to \in Moved(moves, files)
    <3> HIDE DEF moves
    <3> QED
      BY <2>1, <2>2, MovedIs
  <2>4. m.to \in AfterMoves(Len(Moves))
    BY <2>3 DEF AfterMoves
  <2> QED
    BY <1>1, <2>4 DEF Restructured, Cleared
<1>2. ListedWell(pkg, sip)
  BY SoundParts
<1>3. CASE sip = "DigitizedAIP"
  <2> DEFINE m == UpdatedMove
  <2>1. m \in moves /\ m.from = UpdatedPath
    BY <1>3, MovesAre DEF AIPs, UpdatedMove
  <2>2. m.from \in files
    BY <1>2, <1>3, <2>1 DEF ListedWell, ManifestPath, AIPs
  <2>3. m.to = <<"metadata", "UpdatedAreldaMetadata.xml">> /\ m.to \in Path
    BY Known DEF UpdatedMove, UpdatedPath, Last, Path
  <2>4. m.to[1] \notin TopLevel(sip)
    BY <2>3 DEF TopLevel
  <2>5. m.to \in Restructured
    BY <1>1, <2>1, <2>2, <2>3, <2>4, PartsType
  <2> QED
    BY <1>3, <2>3, <2>5 DEF PipManifestPath
<1>4. CASE sip # "DigitizedAIP"
  <2> SUFFICES ASSUME MetadataPath(sip) \in pkg.files
               PROVE  PipManifestPath(sip) \in Restructured
    BY <1>4 DEF Obstructed
  <2> DEFINE m == MetadataMove
  <2>1. m \in moves /\ m.from = MetadataPath(sip) /\ m.to = Objects \o <<"header", "metadata.xml">>
    BY MovesAre DEF MetadataMove
  <2>2. m.to \in Path /\ m.to[1] = "objects"
    BY <2>1, PartsType DEF Objects
  <2>3. m.to[1] \notin TopLevel(sip)
    BY <2>2 DEF TopLevel
  <2>4. m.to \in Restructured
    BY <1>1, <2>1, <2>2, <2>3, PartsType
  <2> QED
    BY <1>4, <2>1, <2>4 DEF PipManifestPath
<1>5. QED
  BY <1>3, <1>4

\* An activity that breaks over a package that is sound has an obstacle before it.
LEMMA BreaksOverUnsound ==
    ASSUME Judging, Breaks(pc), pc # "done"
    PROVE  ~Sound(pkg, verapdf) \/ Obstructed(pkg)
<1>0. /\ pkg \in Packages
      /\ pc \in Checked \cup After => sip = SipType(pkg)
      /\ pc \in {"bag", "unbag"} => files = Extracted /\ pkg.bag # "none"
      /\ pc \in {"apis", "objects"} \cup Checked => files = pkg.files
  BY DEF Judging, Claiming, Processing, Placed, Arrived
<1>1. CASE pc = "unbag"
  <2>1. Untagged = {} /\ Untagged = (IF pkg.bag = "bag" THEN InData(pkg.files) ELSE {})
    BY <1>0, <1>1, UntaggedFiles DEF Breaks
  <2>2. pkg.bag \in {"none", "bag", "without data"}
    BY <1>0, PackageType DEF Package
  <2>3. CASE pkg.bag = "without data"
    BY <1>0, <2>3, SoundParts
  <2>4. CASE pkg.bag = "bag"
    <3>1. pkg.files = {}
      BY <2>1, <2>4 DEF InData
    <3> QED
      BY <1>0, <3>1, SoundParts DEF Structured
  <2> QED
    BY <1>0, <1>1, <2>2, <2>3, <2>4
<1>2. CASE pc = "manifest"
  <2>1. pc \in Checked /\ ManifestBreaks(pkg, sip)
    BY <1>2 DEF Breaks, Checked
  <2> QED
    BY <1>0, <2>1, SoundPasses
<1>3. CASE pc = "formats"
  <2>1. pc \in Checked /\ ContentPath(sip) \notin Nodes(pkg)
    BY <1>3 DEF Breaks, Checked, Checks, Nodes
  <2> QED
    BY <1>0, <2>1, SoundPasses
<1>4. CASE pc = "objects"
  BY <1>0, <1>4 DEF Breaks, Obstructed
<1>5. CASE pc = "restructure"
  <2>1. files = pkg.files \cup {PremisFile} /\ <<"objects">> \in files
    BY <1>5 DEF Judging, Shaped, Breaks
  <2>2. <<"objects">> # PremisFile
    BY DEF PremisFile
  <2> QED
    BY <2>1, <2>2 DEF Obstructed
<1>6. CASE pc = "identifiers"
  <2>1. sip = SipType(pkg)
    BY <1>0, <1>6 DEF After
  <2>2. PipManifestPath(sip) \in files \/ Obstructed(pkg)
    BY <1>6 DEF Judging, Shaped
  <2> QED
    BY <1>6, <2>1, <2>2 DEF Breaks, Obstructed
<1>7. QED
  BY <1>1, <1>2, <1>3, <1>4, <1>5, <1>6 DEF Breaks

\* A check that the package passes, or fails if it is not sound.
LEMMA CheckIsJudged ==
    ASSUME Judging, pc \in Checked, pc' = Following(pc, outcome'),
           UNCHANGED <<pkg, verapdf, files, sip, fault>>,
           outcome' = outcome \/ (outcome' = "content" /\ ~Sound(pkg, verapdf)),
           pc = "manifest" /\ outcome' # "content" =>
              ~ManifestBreaks(pkg, sip) /\ ~ManifestFails(pkg, sip) /\ ~ChecksumsFail(pkg, sip)
    PROVE  Judged' /\ Shaped' /\ Accepted' /\ Refused'
<1>0. /\ Judged /\ Refused
      /\ sip \in Types /\ Applies(pc, sip)
      /\ outcome \in {"success", "content"}
      /\ pc \notin {"extract", "done"}
  BY SipTypeType DEF Judging, Claiming, Processing, Placed, Checked, Checks
<1>1. /\ pc' \in Checked \cup After \cup {"done"}
      /\ pc' \in After \cup {"done"} => (outcome' = "content" <=> pc' = "done")
      /\ pc' \in After \cup {"done"} /\ outcome' # "content" => pc' \in {"apis", "objects"}
  BY <1>0, NextStep
<1>2. outcome' = "success" => outcome = "success"
  BY <1>0
<1>3. ASSUME outcome' = "success", pc' \in Checked \cup After, Rank("manifest") < Rank(pc')
      PROVE  ~ManifestBreaks(pkg, sip) /\ ~ManifestFails(pkg, sip) /\ ~ChecksumsFail(pkg, sip)
  <2>1. CASE pc = "manifest"
    BY <1>3, <2>1
  <2>2. CASE pc \in {"structure", "name"}
    <3>1. pc' \in {"name", "manifest"}
      <4>1. NextCheck("structure", sip) = "name" /\ NextCheck("name", sip) = "manifest"
        BY DEF NextCheck
      <4> QED
        BY <2>2, <4>1 DEF Following
    <3>2. Rank("name") = 6 /\ Rank("manifest") = 7
      BY RankValues
    <3> QED
      BY <1>3, <3>1, <3>2
  <2>3. CASE pc \notin {"structure", "name", "manifest"}
    <3>1. pc \in {"disallowed", "formats", "metadata", "logical"}
      BY <2>3 DEF Checked, Checks
    <3>2. Rank("manifest") = 7 /\ Rank(pc) \in {8, 9, 10, 11}
      BY <3>1, RankValues
    <3>3. Rank("manifest") < Rank(pc)
      BY <3>2
    <3> QED
      BY <1>0, <1>2, <1>3, <3>3 DEF Judged
  <2> QED
    BY <2>1, <2>2, <2>3
<1>4. Judged'
  <2>1. pkg' = pkg /\ sip' = sip
    OBVIOUS
  <2>2. outcome' = "success" => "folder" \notin pkg.flaws /\ (pkg.bag = "bag" => "bag" \notin pkg.flaws)
    BY <1>0, <1>2 DEF Judged
  <2>3. pkg.bag # "without data"
    BY <1>0 DEF Judged
  <2> QED
    BY <1>3, <2>1, <2>2, <2>3 DEF Judged
<1>5. pc' \notin {"event", "agent", "restructure", "identifiers"}
  BY <1>1 DEF Checked, Checks, After
<1>6. Shaped'
  BY <1>5 DEF Shaped
<1>7. Accepted'
  BY <1>1 DEF Accepted
<1>8. Refused'
  <2>1. outcome' \in {"success", "content"}
    BY <1>0
  <2>2. outcome' = "content" => fault \/ ~Sound(pkg, verapdf)
    BY <1>0 DEF Refused
  <2>3. pkg' = pkg /\ fault' = fault
    OBVIOUS
  <2> QED
    BY <2>1, <2>2, <2>3 DEF Refused
<1>9. QED
  BY <1>4, <1>6, <1>7, <1>8

\* After the checks, a step that neither fails nor ends.
LEMMA AfterIsJudged ==
    ASSUME Judging, pc \in After, pc' \in After, UNCHANGED <<pkg, verapdf, sip, outcome>>, Shaped'
    PROVE  Judged' /\ Shaped' /\ Accepted' /\ Refused'
<1>0. Judged /\ outcome = "success"
  BY DEF Judging, Claiming, Processing, Placed
<1>1. Rank("manifest") < Rank(pc)
  <2>1. Rank("manifest") = 7 /\ Rank(pc) \in 12..16
    BY RankValues, Ranks
  <2> QED
    BY <2>1
<1>2. pc \notin {"extract", "done"} /\ pc' \notin {"extract", "done"}
  BY DEF After
<1>3. /\ "folder" \notin pkg.flaws /\ (pkg.bag = "bag" => "bag" \notin pkg.flaws)
      /\ pkg.bag # "without data"
      /\ ~ManifestBreaks(pkg, sip) /\ ~ManifestFails(pkg, sip) /\ ~ChecksumsFail(pkg, sip)
  BY <1>0, <1>1, <1>2 DEF Judged
<1>4. pkg' = pkg /\ sip' = sip /\ outcome' = "success"
  BY <1>0
<1>5. Judged'
  BY <1>3, <1>4 DEF Judged
<1>6. Accepted' /\ Refused'
  BY <1>2, <1>4 DEF Accepted, Refused
<1>7. QED
  BY <1>5, <1>6

\* No step breaks the invariant.
LEMMA JudgingStep == Judging /\ [Next]_vars => Judging'
<1> SUFFICES ASSUME Judging, [Next]_vars PROVE Judged' /\ Shaped' /\ Accepted' /\ Refused'
  BY ClaimingStep DEF Judging
<1>0. /\ Claiming /\ Processing /\ Judged /\ Shaped /\ Accepted /\ Refused
      /\ TypeOK /\ Placed /\ Arrived
      /\ pkg \in Packages
      /\ pc # "done" => outcome \in {"success", "content"}
  BY DEF Judging, Claiming, Processing, Placed
<1>b. pkg.bag \in {"none", "bag", "without data"}
  BY <1>0, PackageType DEF Package
<1>1. CASE ExtractSIP
  <2>1. /\ pc = "extract" /\ pc' = "is bag" /\ UNCHANGED <<pkg, verapdf, fault>>
        /\ outcome' = IF "folder" \in pkg.flaws THEN "content" ELSE outcome
    BY <1>1 DEF ExtractSIP, Proceed
  <2>2. Judged' /\ Shaped' /\ Accepted'
    BY <2>1 DEF Judged, Shaped, Accepted, Checked, Checks, After
  <2>3. "folder" \in pkg.flaws => ~Sound(pkg, verapdf)
    BY <1>0, SoundParts
  <2>4. Refused'
    BY <1>0, <2>1, <2>3 DEF Refused
  <2> QED
    BY <2>2, <2>4
<1>2. CASE IsBag
  <2>1. /\ pc = "is bag" /\ UNCHANGED <<pkg, verapdf, outcome, fault>>
        /\ pc' = IF <<"bagit.txt">> \in files THEN "bag" ELSE "identify"
    BY <1>2 DEF IsBag, Proceed
  <2>2. <<"bagit.txt">> \notin files => pkg.bag = "none"
    BY <1>0, <2>1 DEF Arrived, Extracted, Tags
  <2>3. pc' \in {"bag", "identify"} /\ (pc' = "identify" => pkg.bag = "none")
    BY <2>1, <2>2
  <2>4. Judged' /\ Shaped' /\ Accepted'
    BY <1>0, <2>1, <2>3 DEF Judged, Shaped, Accepted, Checked, Checks, After
  <2>5. Refused'
    BY <1>0, <2>1 DEF Refused
  <2> QED
    BY <2>4, <2>5
<1>3. CASE IsBagFails \/ IdentifyFails
  <2>1. pc' = "done" /\ outcome' \in {"error", "content"} /\ fault'
    BY <1>3 DEF IsBagFails, IdentifyFails, Proceed
  <2> QED
    BY <2>1 DEF Judged, Shaped, Accepted, Refused, Checked, Checks, After
<1>4. CASE ValidateBag
  <2>1. /\ pc = "bag" /\ pc' = "unbag" /\ UNCHANGED <<pkg, verapdf, fault>>
        /\ outcome' = IF "bag" \in pkg.flaws THEN "content" ELSE outcome
    BY <1>4 DEF ValidateBag, Proceed
  <2>2. Judged' /\ Shaped' /\ Accepted'
    BY <1>0, <2>1 DEF Judged, Shaped, Accepted, Checked, Checks, After
  <2>3. "bag" \in pkg.flaws => ~Sound(pkg, verapdf)
    <3>1. pkg.bag \in {"bag", "without data"}
      BY <1>0, <1>b, <2>1 DEF Arrived
    <3> QED
      BY <1>0, <3>1, SoundParts
  <2>4. Refused'
    BY <1>0, <2>1, <2>3 DEF Refused
  <2> QED
    BY <2>2, <2>4
<1>5. CASE UnbagSIP
  <2>1. pc = "unbag" /\ Untagged # {} /\ pc' = "identify" /\ UNCHANGED <<pkg, verapdf, outcome, fault>>
    BY <1>5 DEF UnbagSIP, Proceed
  <2>2. pkg.bag # "without data"
    BY <1>0, <2>1, UntaggedFiles DEF Arrived
  <2>3. Judged' /\ Shaped' /\ Accepted'
    BY <1>0, <2>1, <2>2 DEF Judged, Shaped, Accepted, Checked, Checks, After
  <2>4. Refused'
    BY <1>0, <2>1 DEF Refused
  <2> QED
    BY <2>3, <2>4
<1>6. CASE IdentifySIP
  <2>1. pc = "identify" /\ pc' = "structure" /\ UNCHANGED <<pkg, verapdf, outcome, fault>>
    BY <1>6 DEF IdentifySIP, Proceed
  <2>2. ~(Rank("manifest") < Rank("structure"))
    <3>1. Rank("manifest") = 7 /\ Rank("structure") = 5
      BY RankValues
    <3> QED
      BY <3>1
  <2>3. Judged' /\ Shaped' /\ Accepted'
    BY <1>0, <2>1, <2>2 DEF Judged, Shaped, Accepted, Checked, Checks, After
  <2>4. Refused'
    BY <1>0, <2>1 DEF Refused
  <2> QED
    BY <2>3, <2>4
<1>7. ASSUME NEW check \in Checks, Validate(check)
      PROVE  Judged' /\ Shaped' /\ Accepted' /\ Refused'
  <2>1. /\ pc = check /\ pc \in Checked /\ pc # "manifest" /\ pc' = Following(pc, outcome')
        /\ outcome' = IF Fails(check) THEN "content" ELSE outcome
        /\ UNCHANGED <<pkg, verapdf, files, sip, fault>>
    BY <1>7 DEF Validate, Proceed, Checked, Checks
  <2>2. Fails(check) => ~Sound(pkg, verapdf)
    <3>1. sip = SipType(pkg) /\ Applies(check, sip)
      BY <1>0, <2>1 DEF Placed
    <3> QED
      BY <1>0, <3>1, SoundPasses
  <2> QED
    BY <2>1, <2>2, CheckIsJudged
<1>8. CASE VerifyManifest
  <2>1. /\ pc = "manifest" /\ pc \in Checked /\ pc' = Following(pc, outcome')
        /\ ~ManifestBreaks(pkg, sip)
        /\ outcome' = IF ManifestFails(pkg, sip) \/ ChecksumsFail(pkg, sip)
                      THEN "content" ELSE outcome
        /\ UNCHANGED <<pkg, verapdf, files, sip, fault>>
    BY <1>8 DEF VerifyManifest, Proceed, Checked, Breaks
  <2>2. ManifestFails(pkg, sip) \/ ChecksumsFail(pkg, sip) => ~Sound(pkg, verapdf)
    <3>1. sip = SipType(pkg)
      BY <1>0, <2>1 DEF Placed
    <3> QED
      BY <1>0, <3>1, SoundPasses
  <2> QED
    BY <2>1, <2>2, CheckIsJudged
<1>9. ASSUME NEW result \in {"ok", "invalid", "system"}, CreateAPISImportTask(result)
      PROVE  Judged' /\ Shaped' /\ Accepted' /\ Refused'
  <2>1. CASE result = "ok"
    <3>1. /\ pc = "apis" /\ pc' = "objects" /\ UNCHANGED <<pkg, verapdf, sip, outcome>>
      BY <1>9, <2>1 DEF CreateAPISImportTask, Proceed
    <3>2. pc \in After /\ pc' \in After /\ Shaped'
      BY <3>1 DEF After, Shaped
    <3> QED
      BY <3>1, <3>2, AfterIsJudged
  <2>2. CASE result # "ok"
    <3>1. pc' = "done"
      BY <1>9, <2>2 DEF CreateAPISImportTask, Proceed
    <3>2. outcome' \in {"content", "system"}
      BY <1>9, <2>2 DEF CreateAPISImportTask
    <3>3. fault'
      BY <1>9, <2>2, Zenon DEF CreateAPISImportTask
    <3> QED
      BY <3>1, <3>2, <3>3 DEF Judged, Shaped, Accepted, Refused, Checked, Checks, After
  <2> QED
    BY <2>1, <2>2
<1>10. CASE AddPREMISObjects
  <2>1. /\ pc = "objects" /\ pc' = "event" /\ UNCHANGED <<pkg, verapdf, sip, outcome>>
        /\ files' = files \cup {PremisFile}
    BY <1>10 DEF AddPREMISObjects, Proceed
  <2>2. files = pkg.files
    BY <1>0, <2>1 DEF Arrived
  <2>3. pc \in After /\ pc' \in After /\ Shaped'
    BY <2>1, <2>2 DEF After, Shaped
  <2> QED
    BY <2>1, <2>3, AfterIsJudged
<1>11. CASE AddPREMISEvent \/ AddPREMISAgent
  <2>1. /\ pc \in {"event", "agent"} /\ pc' \in {"agent", "event", "restructure"}
        /\ UNCHANGED <<pkg, verapdf, sip, outcome, files>>
    BY <1>11 DEF AddPREMISEvent, AddPREMISAgent, Proceed
  <2>2. pc \in After /\ pc' \in After /\ Shaped'
    BY <1>0, <2>1 DEF After, Shaped
  <2> QED
    BY <2>1, <2>2, AfterIsJudged
<1>12. CASE TransformSIP
  <2>1. /\ pc = "restructure" /\ pc' = "identifiers" /\ UNCHANGED <<pkg, verapdf, sip, outcome>>
        /\ files' = Restructured
    BY <1>12 DEF TransformSIP, Proceed
  <2>2. pc \in After /\ pc' \in After /\ sip = SipType(pkg) /\ Sound(pkg, verapdf)
    BY <1>0, <2>1, SoundAfterChecks DEF After, Placed
  <2>3. files = pkg.files \cup {PremisFile} /\ files \in SUBSET Path
    BY <1>0, <2>1 DEF Shaped, TypeOK
  <2>4. PipManifestPath(sip) \in files' \/ Obstructed(pkg)
    BY <1>0, <2>1, <2>2, <2>3, IdentifiersInPlace
  <2>5. Shaped'
    BY <2>1, <2>4 DEF Shaped
  <2> QED
    BY <2>1, <2>2, <2>5, AfterIsJudged
<1>13. CASE WriteIdentifierFile
  <2>1. pc = "identifiers" /\ pc' = "create bag" /\ UNCHANGED <<pkg, verapdf, sip, outcome>>
    BY <1>13 DEF WriteIdentifierFile, Proceed
  <2>2. pc \in After /\ pc' \in After /\ Shaped'
    BY <2>1 DEF After, Shaped
  <2> QED
    BY <2>1, <2>2, AfterIsJudged
<1>14. CASE CreateBag
  <2>1. pc = "create bag" /\ pc' = "done" /\ UNCHANGED <<pkg, verapdf, sip, outcome, fault>>
    BY <1>14 DEF CreateBag, Proceed
  <2>2. pc \in After /\ outcome = "success" /\ Sound(pkg, verapdf)
    BY <1>0, <2>1, SoundAfterChecks DEF After, Placed
  <2> QED
    BY <2>1, <2>2 DEF Judged, Shaped, Accepted, Refused, Checked, Checks, After
<1>15. CASE ActivityFails
  <2>1. /\ pc # "done" /\ pc' = "done" /\ outcome' = "system" /\ fault' = (fault \/ ~Breaks(pc))
        /\ UNCHANGED <<pkg, verapdf>>
    BY <1>15 DEF ActivityFails, Proceed
  <2>2. Breaks(pc) => ~Sound(pkg, verapdf) \/ Obstructed(pkg)
    BY <2>1, BreaksOverUnsound
  <2>3. Refused'
    BY <2>1, <2>2 DEF Refused
  <2> QED
    BY <2>1, <2>3 DEF Judged, Shaped, Accepted, Checked, Checks, After
<1>16. CASE UNCHANGED vars
  <2>1. UNCHANGED <<pkg, verapdf, files, sip, pc, outcome, fault>>
    BY <1>16 DEF vars
  <2> QED
    BY <1>0, <2>1 DEF Judged, Shaped, Accepted, Refused
<1>17. QED
  BY <1>1, <1>2, <1>3, <1>4, <1>5, <1>6, <1>7, <1>8, <1>9, <1>10, <1>11, <1>12, <1>13, <1>14,
     <1>15, <1>16 DEF Next

\* The invariant holds at the start.
LEMMA JudgingInit == Init => Judging
<1>1. Init => Claiming
  BY ProcessingInit DEF Init, Claiming, Passed, Described, PremisIsTrue, Checked, Checks, After
<1>2. Init => Judged /\ Shaped /\ Accepted /\ Refused
  BY DEF Init, Judged, Shaped, Accepted, Refused, Checked, Checks, After
<1>3. QED
  BY <1>1, <1>2 DEF Judging

\* Whatever files a package has, it is accepted only if it is sound, its PDF/A files
\* included where the worker has veraPDF, and refused
\* only if it is not, or is obstructed, or something else failed: the checks that
\* are applied, in the order they are, amount to the definition of a sound package
\* (preprocessing.go:69-541, validate_structure.go:55-210, verify_manifest.go:38-152).
THEOREM SpecVerdictIsRight == Spec => []VerdictIsRight
<1>1. Init => Judging
  BY JudgingInit
<1>2. Judging /\ [Next]_vars => Judging'
  BY JudgingStep
<1>3. Judging => VerdictIsRight
  <2>1. ASSUME Judging PROVE VerdictIsRight
    <3>1. outcome \in {"success", "content", "system", "error"}
      BY <2>1 DEF Judging, Claiming, Processing, TypeOK
    <3>2. Accepted /\ Refused
      BY <2>1 DEF Judging
    <3> QED
      BY <3>1, <3>2 DEF Accepted, Refused, VerdictIsRight
  <2> QED
    BY <2>1
<1>4. QED
  BY <1>1, <1>2, <1>3, PTL DEF Spec

(***************************************************************************)
(* Where the files go.                                                     *)
(***************************************************************************)

\* The moves, as a set.
MoveSet == {ContentMove, MetadataMove} \cup IF sip \in AIPs THEN {UpdatedMove, LogicalMove} ELSE {}

\* Each move starts in a directory of its own among the top-level ones, and ends
\* in none of these.
LEMMA MovesApart ==
    ASSUME NEW m \in MoveSet
    PROVE  /\ m.from \in Path /\ Len(m.from) > 0 /\ m.from[1] \in TopLevel(sip)
           /\ m.to \in Path /\ Len(m.to) > 0 /\ m.to[1] \in {"objects", "metadata"}
           /\ \A k \in MoveSet : \A f \in Path :
                 IsPrefix(m.from, f) /\ IsPrefix(k.from, f) => k = m
<1>1. m \in {ContentMove, MetadataMove} \/ (sip \in AIPs /\ m \in {UpdatedMove, LogicalMove})
  BY DEF MoveSet
<1>2. /\ m.from \in Path /\ Len(m.from) > 0 /\ m.from[1] \in TopLevel(sip)
      /\ m.to \in Path /\ Len(m.to) > 0 /\ m.to[1] \in {"objects", "metadata"}
  <2>1. CASE m = ContentMove
    <3>1. /\ m.from = ContentPath(sip) /\ m.to = Objects \o <<"content">>
      BY <2>1 DEF ContentMove
    <3>2. Len(m.from) > 0 /\ m.from[1] \in TopLevel(sip)
      BY <3>1 DEF ContentPath, TopLevel
    <3>3. Len(m.to) > 0 /\ m.to[1] = "objects"
      BY <3>1 DEF Objects
    <3> QED
      BY <3>1, <3>2, <3>3, PartsType
  <2>2. CASE m = MetadataMove
    <3>1. m.from = MetadataPath(sip) /\ m.to = Objects \o <<"header", "metadata.xml">>
      BY <2>2 DEF MetadataMove
    <3>2. Len(m.from) > 0 /\ m.from[1] \in TopLevel(sip)
      BY <3>1 DEF MetadataPath, TopLevel
    <3>3. Len(m.to) > 0 /\ m.to[1] = "objects"
      BY <3>1 DEF Objects
    <3> QED
      BY <3>1, <3>2, <3>3, PartsType
  <2>3. CASE sip \in AIPs /\ m = UpdatedMove
    <3>1. m.from = UpdatedPath /\ m.to = <<"metadata", "UpdatedAreldaMetadata.xml">>
      BY <2>3 DEF UpdatedMove, UpdatedPath, Last
    <3>2. Len(m.from) > 0 /\ m.from[1] \in TopLevel(sip) /\ m.from \in Path
      BY <2>3, <3>1, PartsType DEF UpdatedPath, TopLevel
    <3>3. m.to \in Path /\ Len(m.to) > 0 /\ m.to[1] = "metadata"
      BY <3>1, Known DEF Path
    <3> QED
      BY <3>2, <3>3
  <2>4. CASE sip \in AIPs /\ m = LogicalMove
    <3>1. m.from = LogicalPath /\ m.to = <<"metadata", "sip-premis.xml">>
      BY <2>4 DEF LogicalMove, LogicalPath, Last
    <3>2. Len(m.from) > 0 /\ m.from[1] \in TopLevel(sip) /\ m.from \in Path
      BY <2>4, <3>1, PartsType DEF LogicalPath, TopLevel
    <3>3. m.to \in Path /\ Len(m.to) > 0 /\ m.to[1] = "metadata"
      BY <3>1, Known DEF Path
    <3> QED
      BY <3>2, <3>3
  <2> QED
    BY <1>1, <2>1, <2>2, <2>3, <2>4
<1>3. ASSUME NEW f \in Path
      PROVE  /\ IsPrefix(ContentMove.from, f) =>
                   f[1] = "content" /\ (sip \in AIPs => f[2] = "content")
             /\ IsPrefix(MetadataMove.from, f) =>
                   IF sip \in AIPs THEN f[1] = "content" /\ f[2] = "header" ELSE f[1] = "header"
             /\ IsPrefix(UpdatedMove.from, f) =>
                   f[1] = "additional" /\ f[2] = "UpdatedAreldaMetadata.xml"
             /\ IsPrefix(LogicalMove.from, f) =>
                   f[1] = "additional" /\ f[2] = "sip-premis.xml"
  <2>0. ASSUME NEW s \in Path, IsPrefix(s, f), NEW i \in 1..Len(s) PROVE f[i] = s[i]
    BY <2>0, PrefixAt
  <2>1. ASSUME IsPrefix(ContentMove.from, f)
        PROVE  f[1] = "content" /\ (sip \in AIPs => f[2] = "content")
    <3>1. ContentMove.from = ContentPath(sip) /\ ContentPath(sip) \in Path
      BY PartsType DEF ContentMove
    <3>2. IF sip \in AIPs THEN ContentPath(sip) = <<"content", "content">>
                          ELSE ContentPath(sip) = <<"content">>
      BY DEF ContentPath
    <3>3. CASE sip \in AIPs
      <4>1. f[1] = ContentPath(sip)[1] /\ f[2] = ContentPath(sip)[2]
        BY <2>0, <2>1, <3>1, <3>2, <3>3
      <4> QED
        BY <3>2, <3>3, <4>1
    <3>4. CASE sip \notin AIPs
      <4>1. f[1] = ContentPath(sip)[1]
        BY <2>0, <2>1, <3>1, <3>2, <3>4
      <4> QED
        BY <3>2, <3>4, <4>1
    <3> QED
      BY <3>3, <3>4
  <2>2. ASSUME IsPrefix(MetadataMove.from, f)
        PROVE  IF sip \in AIPs THEN f[1] = "content" /\ f[2] = "header" ELSE f[1] = "header"
    <3>1. MetadataMove.from = MetadataPath(sip) /\ MetadataPath(sip) \in Path
      BY PartsType DEF MetadataMove
    <3>2. IF sip \in AIPs
          THEN MetadataPath(sip) = <<"content", "header", "old", "SIP", "metadata.xml">>
          ELSE MetadataPath(sip) = <<"header", "metadata.xml">>
      BY DEF MetadataPath
    <3>3. f[1] = MetadataPath(sip)[1] /\ f[2] = MetadataPath(sip)[2]
      BY <2>0, <2>2, <3>1, <3>2
    <3> QED
      BY <3>2, <3>3
  <2>3. ASSUME IsPrefix(UpdatedMove.from, f)
        PROVE  f[1] = "additional" /\ f[2] = "UpdatedAreldaMetadata.xml"
    <3>1. /\ UpdatedMove.from \in Path
          /\ UpdatedMove.from = <<"additional", "UpdatedAreldaMetadata.xml">>
      BY PartsType DEF UpdatedMove, UpdatedPath
    <3>2. f[1] = UpdatedMove.from[1] /\ f[2] = UpdatedMove.from[2]
      BY <2>0, <2>3, <3>1
    <3> QED
      BY <3>1, <3>2
  <2>4. ASSUME IsPrefix(LogicalMove.from, f)
        PROVE  f[1] = "additional" /\ f[2] = "sip-premis.xml"
    <3>1. LogicalMove.from \in Path /\ LogicalMove.from = <<"additional", "sip-premis.xml">>
      BY PartsType DEF LogicalMove, LogicalPath
    <3>2. f[1] = LogicalMove.from[1] /\ f[2] = LogicalMove.from[2]
      BY <2>0, <2>4, <3>1
    <3> QED
      BY <3>1, <3>2
  <2> QED
    BY <2>1, <2>2, <2>3, <2>4
<1>4. ASSUME NEW k \in MoveSet, NEW f \in Path, IsPrefix(m.from, f), IsPrefix(k.from, f)
      PROVE  k = m
  <2>1. k \in {ContentMove, MetadataMove} \/ (sip \in AIPs /\ k \in {UpdatedMove, LogicalMove})
    BY DEF MoveSet
  <2> QED
    BY <1>1, <1>3, <1>4, <2>1
<1>5. QED
  BY <1>2, <1>4

\* The place of a file is where the move it is subject to takes it.
LEMMA PlaceIs ==
    ASSUME NEW f \in Path, NEW m \in MoveSet, IsPrefix(m.from, f),
           m \in {UpdatedMove, LogicalMove} => f = m.from
    PROVE  /\ PlaceOf(sip, f) = Rebased(m.from, m.to, f)
           /\ PlaceOf(sip, f) \in Path /\ Len(PlaceOf(sip, f)) > 0
           /\ PlaceOf(sip, f)[1] \in {"objects", "metadata"}
<1>1. /\ m.from \in Path /\ m.to \in Path /\ Len(m.to) > 0
      /\ m.to[1] \in {"objects", "metadata"}
      /\ \A k \in MoveSet : IsPrefix(k.from, f) => k = m
  BY MovesApart
<1>2. /\ Rebased(m.from, m.to, f) \in Path /\ Len(Rebased(m.from, m.to, f)) > 0
      /\ Rebased(m.from, m.to, f)[1] = m.to[1]
  <2>1. Len(m.from) <= Len(f) /\ Len(m.from) \in Nat /\ Len(f) \in Nat
    BY <1>1, PrefixAt DEF Path
  <2> DEFINE rest == SubSeq(f, Len(m.from) + 1, Len(f))
             to   == m.to
  <2>2. rest \in Path
    BY <2>1 DEF Path
  <2>3. Rebased(m.from, m.to, f) = to \o rest /\ to \in Path /\ Len(to) > 0
    BY <1>1 DEF Rebased
  <2> HIDE DEF rest, to
  <2>4. to \o rest \in Path /\ Len(to \o rest) > 0 /\ (to \o rest)[1] = to[1]
    BY <2>2, <2>3 DEF Path
  <2> QED
    BY <2>3, <2>4 DEF to
<1>3. PlaceOf(sip, f) = Rebased(m.from, m.to, f)
  <2>1. /\ ContentMove \in MoveSet /\ MetadataMove \in MoveSet
        /\ ContentMove.from = ContentPath(sip) /\ ContentMove.to = Objects \o <<"content">>
        /\ MetadataMove.from = MetadataPath(sip)
        /\ MetadataMove.to = Objects \o <<"header", "metadata.xml">>
    BY DEF MoveSet, ContentMove, MetadataMove
  <2>2. CASE m = ContentMove
    BY <2>1, <2>2 DEF PlaceOf
  <2>3. CASE m = MetadataMove /\ m # ContentMove
    <3>1. ~IsPrefix(ContentPath(sip), f)
      BY <1>1, <2>1, <2>3
    <3> QED
      BY <2>1, <2>3, <3>1 DEF PlaceOf
  <2>4. CASE m \notin {ContentMove, MetadataMove}
    <3>1. ~IsPrefix(ContentPath(sip), f) /\ ~IsPrefix(MetadataPath(sip), f)
      BY <1>1, <2>1, <2>4
    <3>2. m \in {UpdatedMove, LogicalMove} /\ f = m.from
      BY <2>4 DEF MoveSet
    <3>3. m.to = <<"metadata", Last(m.from)>>
      BY <3>2 DEF UpdatedMove, LogicalMove
    <3>4. Rebased(m.from, m.to, f) = m.to
      <4>1. SubSeq(f, Len(f) + 1, Len(f)) = <<>>
        BY SubSeqEmpty DEF Path
      <4>2. m.to \o <<>> = m.to
        BY <1>1, ConcatEmptySeq DEF Path
      <4> QED
        BY <3>2, <4>1, <4>2 DEF Rebased
    <3> QED
      BY <3>1, <3>2, <3>3, <3>4 DEF PlaceOf
  <2> QED
    BY <2>2, <2>3, <2>4
<1>4. QED
  BY <1>1, <1>2, <1>3

\* What is to be preserved of a sound package is what a move applies to.
LEMMA ToPreserveIs ==
    ASSUME pkg \in Packages, sip = SipType(pkg), Sound(pkg, verapdf), NEW f
    PROVE  /\ f \in ToPreserve(pkg, sip) <=>
                 f \in pkg.files /\ \E m \in MoveSet : IsPrefix(m.from, f)
           /\ f \in pkg.files =>
                 \A m \in MoveSet :
                    IsPrefix(m.from, f) /\ m \in {UpdatedMove, LogicalMove} => f = m.from
<1>1. sip \in AIPs => {UpdatedPath, LogicalPath} \subseteq pkg.files
  BY SoundParts DEF ListedWell, ManifestPath
<1>2. ASSUME f \in pkg.files, NEW m \in MoveSet, IsPrefix(m.from, f),
             m \in {UpdatedMove, LogicalMove}
      PROVE  f = m.from
  <2>1. sip \in AIPs /\ m.from \in pkg.files /\ m.from \in Path /\ f \in Path
    <3>1. sip \in AIPs
      <4>1. CASE m = ContentMove
        BY <1>2, <4>1, MovesApart DEF ContentMove, UpdatedMove, LogicalMove, ContentPath, UpdatedPath, LogicalPath
      <4>2. CASE m = MetadataMove
        BY <1>2, <4>2, MovesApart DEF MetadataMove, UpdatedMove, LogicalMove, MetadataPath, UpdatedPath, LogicalPath
      <4> QED
        BY <4>1, <4>2 DEF MoveSet
    <3>2. m.from \in {UpdatedPath, LogicalPath}
      BY <1>2 DEF UpdatedMove, LogicalMove
    <3> QED
      BY <1>1, <1>2, <3>1, <3>2, DirsOf
  <2>2. m.from = Cut(f, Len(m.from)) /\ Len(m.from) \in 0..Len(f)
    BY <1>2, <2>1, PrefixIsCut
  <2>3. Len(m.from) < Len(f) => m.from \in Dirs(pkg)
    BY <1>2, <2>2, CutsAreNodes
  <2>4. ~(Len(m.from) < Len(f))
    BY <2>1, <2>3, TreeAssumption
  <2>5. Len(m.from) = Len(f)
    BY <2>1, <2>2, <2>4 DEF Path
  <2> QED
    BY <2>1, <2>2, <2>5, PrefixReflexive
<1>3. f \in ToPreserve(pkg, sip) <=> f \in pkg.files /\ \E m \in MoveSet : IsPrefix(m.from, f)
  <2>1. /\ ContentMove.from = ContentPath(sip) /\ MetadataMove.from = MetadataPath(sip)
        /\ UpdatedMove.from = UpdatedPath /\ LogicalMove.from = LogicalPath
    BY DEF ContentMove, MetadataMove, UpdatedMove, LogicalMove
  <2>2. (\E m \in MoveSet : IsPrefix(m.from, f)) <=>
           \/ IsPrefix(ContentPath(sip), f) \/ IsPrefix(MetadataPath(sip), f)
           \/ sip \in AIPs /\ (IsPrefix(UpdatedPath, f) \/ IsPrefix(LogicalPath, f))
    BY <2>1 DEF MoveSet
  <2>3. sip \in AIPs /\ f \in pkg.files => /\ IsPrefix(UpdatedPath, f) <=> f = UpdatedPath
                                           /\ IsPrefix(LogicalPath, f) <=> f = LogicalPath
    <3>1. sip \in AIPs => UpdatedMove \in MoveSet /\ LogicalMove \in MoveSet
      BY DEF MoveSet
    <3> QED
      BY <1>2, <2>1, <3>1, PartsType, PrefixReflexive
  <2> QED
    BY <2>2, <2>3 DEF ToPreserve, Below
<1>4. QED
  BY <1>2, <1>3

Kept(p, t)  == {PlaceOf(t, f) : f \in ToPreserve(p, t)}
Stray(p, t) == {f \in p.files : Len(f) = 1 /\ f[1] \notin TopLevel(t)}
Whole(p, t) == Kept(p, t) \cup Stray(p, t) \cup {PremisFile}

\* No move applies to premis.xml.
LEMMA PremisStays == \A m \in MoveSet : ~IsPrefix(m.from, PremisFile)
<1> SUFFICES ASSUME NEW m \in MoveSet, IsPrefix(m.from, PremisFile) PROVE FALSE
  OBVIOUS
<1>1. m.from \in Path /\ Len(m.from) > 0 /\ m.from[1] \in TopLevel(sip) /\ PremisFile \in Path
  BY MovesApart, PartsType
<1>2. 1 \in 1..Len(m.from)
  BY <1>1 DEF Path
<1>3. m.from[1] = PremisFile[1]
  BY <1>1, <1>2, PrefixAt
<1>4. PremisFile[1] \notin TopLevel(sip)
  BY DEF PremisFile, TopLevel
<1>5. QED
  BY <1>1, <1>3, <1>4

\* Whatever moves are made of the restructuring, a file to preserve is where it was
\* or in its place, and in its place after all of them.
LEMMA MovedKeeps ==
    ASSUME pkg \in Packages, sip = SipType(pkg), Sound(pkg, verapdf), pkg.files \subseteq files,
           NEW moves \in SUBSET MoveSet, NEW f \in ToPreserve(pkg, sip)
    PROVE  /\ f \in Moved(moves, files) \/ PlaceOf(sip, f) \in Moved(moves, files)
           /\ moves = MoveSet => PlaceOf(sip, f) \in Moved(moves, files)
           /\ PlaceOf(sip, f)[1] \in {"objects", "metadata"}
           /\ PlaceOf(sip, f) \in Path /\ Len(PlaceOf(sip, f)) > 0
<1>1. PICK m \in MoveSet : IsPrefix(m.from, f)
  BY ToPreserveIs
<1>2. f \in pkg.files /\ f \in Path /\ (m \in {UpdatedMove, LogicalMove} => f = m.from)
  <2>1. f \in pkg.files
    BY ToPreserveIs
  <2> QED
    BY <1>1, <2>1, ToPreserveIs, DirsOf
<1>3. /\ PlaceOf(sip, f) = Rebased(m.from, m.to, f)
      /\ PlaceOf(sip, f)[1] \in {"objects", "metadata"}
      /\ PlaceOf(sip, f) \in Path /\ Len(PlaceOf(sip, f)) > 0
  BY <1>1, <1>2, PlaceIs
<1>4. ASSUME m \in moves PROVE PlaceOf(sip, f) \in Moved(moves, files)
  <2>1. f \in Below(m.from, files)
    BY <1>1, <1>2 DEF Below
  <2> QED
    BY <1>3, <1>4, <2>1, MovedIs
<1>5. ASSUME m \notin moves PROVE f \in Moved(moves, files)
  <2>1. \A k \in moves : ~IsPrefix(k.from, f)
    BY <1>1, <1>2, <1>5, MovesApart
  <2> QED
    BY <1>2, <2>1, MovedIs
<1>6. QED
  BY <1>1, <1>3, <1>4, <1>5

\* Every move is in the set, and all of them are the set.
LEMMA MovesInSet ==
    /\ {Moves[i] : i \in 1..Len(Moves)} = MoveSet
    /\ \A n \in 1..Len(Moves) : {Moves[i] : i \in 1..n} \subseteq MoveSet
<1>1. {Moves[i] : i \in 1..Len(Moves)} = MoveSet
  BY MovesAre DEF MoveSet
<1>2. ASSUME NEW n \in 1..Len(Moves), NEW i \in 1..n PROVE Moves[i] \in MoveSet
  <2>1. Len(Moves) \in Nat
    BY DEF Moves
  <2>2. i \in 1..Len(Moves)
    BY <2>1
  <2> QED
    BY <1>1, <2>2
<1>3. QED
  BY <1>1, <1>2

\* What the restructuring makes of a sound package: the preserved files in their
\* places, premis.xml, and stray files.
LEMMA RestructuredIs ==
    ASSUME pkg \in Packages, sip = SipType(pkg), Sound(pkg, verapdf),
           files = pkg.files \cup {PremisFile}
    PROVE  Restructured = Whole(pkg, sip)
<1>1. Restructured = {x \in Moved(MoveSet, files) : x[1] \notin TopLevel(sip)}
  BY MovesInSet DEF Restructured, Cleared, AfterMoves
<1>2. "objects" \notin TopLevel(sip) /\ "metadata" \notin TopLevel(sip)
  BY DEF TopLevel
<1>3. PremisFile \in Restructured
  <2>1. PremisFile \in Moved(MoveSet, files)
    BY PremisStays, MovedIs
  <2>2. PremisFile[1] = "metadata"
    BY DEF PremisFile
  <2> QED
    BY <1>1, <1>2, <2>1, <2>2
<1>4. ASSUME NEW f \in ToPreserve(pkg, sip) PROVE PlaceOf(sip, f) \in Restructured
  <2>1. PlaceOf(sip, f) \in Moved(MoveSet, files) /\ PlaceOf(sip, f)[1] \in {"objects", "metadata"}
    BY MovedKeeps
  <2> QED
    BY <1>1, <1>2, <2>1
<1>5. ASSUME NEW f \in Stray(pkg, sip) PROVE f \in Restructured
  <2>1. f \in pkg.files /\ f[1] \notin TopLevel(sip) /\ f \in Path
    BY DirsOf DEF Stray
  <2>2. \A m \in MoveSet : ~IsPrefix(m.from, f)
    <3> SUFFICES ASSUME NEW m \in MoveSet, IsPrefix(m.from, f) PROVE FALSE
      OBVIOUS
    <3>1. m.from \in Path /\ Len(m.from) > 0 /\ m.from[1] \in TopLevel(sip)
      BY MovesApart
    <3>2. 1 \in 1..Len(m.from)
      BY <3>1 DEF Path
    <3>3. m.from[1] = f[1]
      BY <2>1, <3>1, <3>2, PrefixAt
    <3> QED
      BY <2>1, <3>1, <3>3
  <2>3. f \in Moved(MoveSet, files)
    BY <2>1, <2>2, MovedIs
  <2> QED
    BY <1>1, <2>1, <2>3
<1>6. ASSUME NEW x \in Restructured PROVE x \in Whole(pkg, sip)
  <2>1. x \in Moved(MoveSet, files) /\ x[1] \notin TopLevel(sip)
    BY <1>1
  <2>2. CASE x \in files /\ \A m \in MoveSet : ~IsPrefix(m.from, x)
    <3>1. CASE x = PremisFile
      BY <3>1 DEF Whole
    <3>2. CASE x \in pkg.files
      <4>1. \A f \in pkg.files : Len(f) > 1 => f[1] \in TopLevel(sip)
        BY SoundParts DEF Structured
      <4>2. Len(x) \in Nat /\ Len(x) > 0
        BY <3>2, DirsOf
      <4>3. ~(Len(x) > 1)
        BY <2>1, <3>2, <4>1, Zenon
      <4>4. Len(x) = 1
        <5>1. \A n \in Nat : n > 0 /\ ~(n > 1) => n = 1
          OBVIOUS
        <5> QED
          BY <4>2, <4>3, <5>1, Zenon
      <4> QED
        BY <2>1, <3>2, <4>4 DEF Whole, Stray
    <3> QED
      BY <2>2, <3>1, <3>2
  <2>3. ASSUME NEW m \in MoveSet, NEW q \in Below(m.from, files), x = Rebased(m.from, m.to, q)
        PROVE  x \in Kept(pkg, sip)
    <3>1. q \in pkg.files /\ IsPrefix(m.from, q) /\ q \in Path
      BY PremisStays, DirsOf DEF Below
    <3>2. q \in ToPreserve(pkg, sip) /\ (m \in {UpdatedMove, LogicalMove} => q = m.from)
      BY <3>1, ToPreserveIs
    <3>3. PlaceOf(sip, q) = Rebased(m.from, m.to, q)
      BY <3>1, <3>2, PlaceIs
    <3>4. x = PlaceOf(sip, q)
      BY <2>3, <3>3, Zenon
    <3> QED
      BY <3>2, <3>4 DEF Kept
  <2> QED
    BY <2>1, <2>2, <2>3, MovedIs, ZenonT(30) DEF Whole
<1>7. QED
  BY <1>3, <1>4, <1>5, <1>6 DEF Whole, Kept

\* The files to preserve are among some files: each as it was or in its place, in
\* the bag or out of it.
Found(p, fs) ==
    \A f \in ToPreserve(p, SipType(p)) :
       LET place == PlaceOf(SipType(p), f)
       IN f \in fs \/ place \in fs \/ <<"data">> \o f \in fs \/ <<"data">> \o place \in fs

\* Nothing is lost where everything to preserve is found.
LEMMA FoundIs ==
    NothingIsLost <=>
       (pc # "extract" /\ files # {} /\ pkg.bag # "without data" => Found(pkg, files))
<1> DEFINE T == ToPreserve(pkg, SipType(pkg))
<1>1. /\ DOMAIN Preserved(pkg) = T
      /\ \A f \in T : Preserved(pkg)[f] = PlaceOf(SipType(pkg), f)
  BY DEF Preserved
<1>2. ASSUME NEW f, NEW g
      PROVE  ({f, g} \cup InData({f, g})) \cap files # {} <=>
                f \in files \/ g \in files \/ <<"data">> \o f \in files \/ <<"data">> \o g \in files
  <2>1. InData({f, g}) = {<<"data">> \o f, <<"data">> \o g}
    BY DEF InData
  <2> DEFINE a == <<"data">> \o f
             b == <<"data">> \o g
  <2>2. InData({f, g}) = {a, b}
    BY <2>1
  <2> HIDE DEF a, b
  <2>3. ({f, g} \cup {a, b}) \cap files # {} <=>
           f \in files \/ g \in files \/ a \in files \/ b \in files
    OBVIOUS
  <2> QED
    BY <2>2, <2>3 DEF a, b
<1>3. Found(pkg, files) <=>
         \A f \in DOMAIN Preserved(pkg) :
            LET places == {f, Preserved(pkg)[f]} IN (places \cup InData(places)) \cap files # {}
  <2> DEFINE Is(f, g) == ({f, g} \cup InData({f, g})) \cap files # {}
             In(f, g) == f \in files \/ g \in files \/ <<"data">> \o f \in files
                            \/ <<"data">> \o g \in files
  <2>1. \A f, g : Is(f, g) <=> In(f, g)
    BY <1>2
  <2>2. Found(pkg, files) <=> \A f \in T : In(f, PlaceOf(SipType(pkg), f))
    BY Zenon DEF Found
  <2> HIDE DEF Is, In, T
  <2>3. (\A f \in T : In(f, PlaceOf(SipType(pkg), f)))
           <=> \A f \in DOMAIN Preserved(pkg) : Is(f, Preserved(pkg)[f])
    BY <1>1, <2>1
  <2> QED
    BY <2>2, <2>3 DEF Is
<1>4. QED
  BY <1>3, Zenon DEF NothingIsLost

\* What is on disk from the restructuring on.
Located ==
    /\ pc = "extract" => files = {}
    /\ pc = "identifiers" => files = Whole(pkg, sip)
    /\ pc = "create bag" => files = Whole(pkg, sip) \cup {IdentifierFile}
    /\ pc = "done" /\ outcome = "success" =>
          files = InData(Whole(pkg, sip) \cup {IdentifierFile}) \cup Tags

\* What is written of the package by the end.
Recorded ==
    /\ pc \in {"event", "agent", "restructure", "identifiers", "create bag"}
          \/ (pc = "done" /\ outcome = "success") =>
             /\ sip = SipType(pkg)
             /\ premis.objects = {OriginalName(f) : f \in Content(pkg)}
    /\ pc = "create bag" \/ (pc = "done" /\ outcome = "success") => ids = Identifiers(pkg, sip)

\* More files do not hide what is found.
LEMMA FoundAmongMore ==
    ASSUME NEW p, NEW fs, NEW gs, fs \subseteq gs, Found(p, fs)
    PROVE  Found(p, gs)
  BY DEF Found

\* The files of the package are all that is to be preserved.
LEMMA FoundInFiles ==
    ASSUME NEW p \in Packages
    PROVE  /\ Found(p, p.files) /\ Found(p, InData(p.files))
           /\ ToPreserve(p, SipType(p)) \subseteq p.files
<1>1. ToPreserve(p, SipType(p)) \subseteq p.files
  BY DEF ToPreserve, Below
<1>2. \A f \in p.files : <<"data">> \o f \in InData(p.files)
  BY DEF InData
<1>3. QED
  BY <1>1, <1>2 DEF Found

\* Bagging keeps what is there.
LEMMA FoundInBag ==
    ASSUME NEW p, NEW fs,
           \A f \in ToPreserve(p, SipType(p)) : f \in fs \/ PlaceOf(SipType(p), f) \in fs
    PROVE  Found(p, InData(fs))
<1>1. \A f \in fs : <<"data">> \o f \in InData(fs)
  BY DEF InData
<1>2. QED
  BY <1>1 DEF Found

\* Until the end nothing is lost.
LEMMA KeptOnTheWay ==
    ASSUME Judging, Located, pc \notin {"extract", "done"}, pkg.bag # "without data"
    PROVE  Found(pkg, files)
<1>0. /\ pkg \in Packages /\ pc \in Steps
      /\ pc \in Checked \cup After => sip = SipType(pkg)
      /\ pc = "is bag" => files = Extracted
      /\ pc \in {"bag", "unbag"} => files = Extracted
      /\ pc \in {"identify", "apis", "objects"} \cup Checked => files = pkg.files
      /\ pc \in {"event", "agent", "restructure"} => files = pkg.files \cup {PremisFile}
  BY DEF Judging, Claiming, Processing, TypeOK, Placed, Arrived, Shaped
<1>1. CASE pc \in {"is bag", "bag", "unbag"}
  <2>1. files = Extracted /\ pkg.bag \in {"none", "bag"}
    BY <1>0, <1>1, PackageType DEF Package
  <2>2. pkg.files \subseteq files \/ InData(pkg.files) \subseteq files
    BY <2>1 DEF Extracted
  <2> QED
    BY <1>0, <2>2, FoundInFiles, FoundAmongMore
<1>2. CASE pc \in {"identify", "apis", "objects", "event", "agent", "restructure"} \cup Checked
  <2>1. pkg.files \subseteq files
    BY <1>0, <1>2
  <2> QED
    BY <1>0, <2>1, FoundInFiles, FoundAmongMore
<1>3. CASE pc \in {"identifiers", "create bag"}
  <2>1. Kept(pkg, sip) \subseteq files /\ sip = SipType(pkg)
    BY <1>0, <1>3 DEF Located, Whole, After
  <2> QED
    BY <2>1 DEF Found, Kept
<1>4. QED
  BY <1>0, <1>1, <1>2, <1>3, StepsPartition DEF Before, After

\* Unbagging that stops on the way has moved each file or left it.
LEMMA KeptUnbagging ==
    ASSUME pkg \in Packages, pkg.bag = "bag", files = Extracted,
           NEW names \in SUBSET {p[2] : p \in Untagged}
    PROVE  Found(pkg, MovedUp(names))
<1> DEFINE moves == {[from |-> <<"data", n>>, to |-> <<n>>] : n \in names}
<1>1. Untagged = InData(pkg.files)
  BY UntaggedFiles
<1>2. names \subseteq Names
  BY <1>1, PackageType, InDataPath DEF InData
<1>3. ASSUME NEW f \in pkg.files
      PROVE  f \in Moved(moves, Untagged) \/ <<"data">> \o f \in Moved(moves, Untagged)
  <2> DEFINE q == <<"data">> \o f
  <2>1. /\ f \in Path /\ Len(f) > 0 /\ q \in Untagged /\ f[1] \in Names
        /\ \A n \in Names : IsPrefix(<<"data", n>>, q) <=> n = f[1]
        /\ Rebased(<<"data", f[1]>>, <<f[1]>>, q) = f
    <3>1. f \in Path /\ Len(f) > 0 /\ f[1] \in Names /\ q \in Untagged
      BY <1>1, PackageType DEF InData
    <3> QED
      BY <3>1, InDataPath
  <2>2. \A m \in moves : \E n \in names : m.from = <<"data", n>> /\ m.to = <<n>>
    OBVIOUS
  <2> HIDE DEF q
  <2>3. CASE f[1] \in names
    <3> DEFINE m == [from |-> <<"data", f[1]>>, to |-> <<f[1]>>]
    <3>1. m \in moves /\ m.from = <<"data", f[1]>> /\ m.to = <<f[1]>>
      BY <2>3
    <3> HIDE DEF m, moves
    <3>2. q \in Below(m.from, Untagged) /\ f = Rebased(m.from, m.to, q)
      BY <2>1, <3>1 DEF Below
    <3> QED
      BY <3>1, <3>2, MovedIs
  <2>4. CASE f[1] \notin names
    <3>1. \A m \in moves : ~IsPrefix(m.from, q)
      BY <1>2, <2>1, <2>2, <2>4
    <3> HIDE DEF moves
    <3> QED
      BY <2>1, <3>1, MovedIs DEF q
  <2> QED
    BY <2>3, <2>4
<1>4. MovedUp(names) = Moved(moves, Untagged)
  BY DEF MovedUp
<1> HIDE DEF moves
<1>5. QED
  BY <1>3, <1>4, FoundInFiles DEF Found

\* Restructuring that stops on the way has moved each file or left it.
LEMMA KeptRestructuring ==
    ASSUME pkg \in Packages, sip = SipType(pkg), Sound(pkg, verapdf),
           files = pkg.files \cup {PremisFile}
    PROVE  /\ \A n \in 1..Len(Moves) : Found(pkg, AfterMoves(n))
           /\ \A dirs \in SUBSET TopLevel(sip) : Found(pkg, Cleared(dirs))
<1>1. pkg.files \subseteq files
  OBVIOUS
<1>2. ASSUME NEW n \in 1..Len(Moves) PROVE Found(pkg, AfterMoves(n))
  <2> DEFINE moves == {Moves[i] : i \in 1..n}
  <2>1. moves \in SUBSET MoveSet /\ AfterMoves(n) = Moved(moves, files)
    BY MovesInSet DEF AfterMoves
  <2> HIDE DEF moves
  <2>2. \A f \in ToPreserve(pkg, sip) : f \in AfterMoves(n) \/ PlaceOf(sip, f) \in AfterMoves(n)
    BY <1>1, <2>1, MovedKeeps
  <2> QED
    BY <2>2 DEF Found
<1>3. ASSUME NEW dirs \in SUBSET TopLevel(sip) PROVE Found(pkg, Cleared(dirs))
  <2>1. Cleared(dirs) = {p \in Moved(MoveSet, files) : p[1] \notin dirs}
    BY MovesInSet DEF Cleared, AfterMoves
  <2>2. "objects" \notin dirs /\ "metadata" \notin dirs
    BY DEF TopLevel
  <2>3. ASSUME NEW f \in ToPreserve(pkg, sip) PROVE PlaceOf(sip, f) \in Cleared(dirs)
    <3>1. /\ PlaceOf(sip, f) \in Moved(MoveSet, files)
          /\ PlaceOf(sip, f)[1] \in {"objects", "metadata"}
      BY <1>1, MovedKeeps
    <3> QED
      BY <2>1, <2>2, <3>1
  <2> QED
    BY <2>3 DEF Found
<1>4. QED
  BY <1>2, <1>3

\* What is extracted has the files, in the bag or out of it.
LEMMA FoundExtracted ==
    ASSUME pkg \in Packages, pkg.bag # "without data"
    PROVE  Found(pkg, Extracted)
<1>1. pkg.bag \in {"none", "bag"}
  BY PackageType DEF Package
<1>2. pkg.files \subseteq Extracted \/ InData(pkg.files) \subseteq Extracted
  BY <1>1 DEF Extracted
<1>3. QED
  BY <1>2, FoundInFiles, FoundAmongMore

\* However the workflow ends, nothing is lost.
LEMMA KeptAtTheEnd ==
    ASSUME Judging, Located, Next, pc # "done", pc' = "done",
           files' # {}, pkg.bag # "without data"
    PROVE  Found(pkg, files')
<1>0. /\ pkg \in Packages
      /\ pc \in Checked \cup After => sip = SipType(pkg)
      /\ pc \in {"bag", "unbag"} => files = Extracted /\ pkg.bag # "none"
      /\ pc \in {"event", "agent", "restructure"} => files = pkg.files \cup {PremisFile}
      /\ pc = "extract" => files = {}
      /\ Claiming /\ Judged
  BY DEF Judging, Claiming, Processing, Placed, Arrived, Shaped, Located
<1>1. ASSUME files \subseteq files' PROVE Found(pkg, files')
  <2>1. CASE pc = "extract" /\ files' = files
    BY <1>0, <2>1
  <2>2. CASE pc # "extract"
    BY <1>1, <2>2, KeptOnTheWay, FoundAmongMore
  <2>3. CASE pc = "extract" /\ files' # files
    <3>1. ActivityFails
      BY <2>3 DEF Next, ExtractSIP, IsBag, IsBagFails, ValidateBag, UnbagSIP, IdentifySIP,
                  IdentifyFails, Validate, VerifyManifest, CreateAPISImportTask,
                  AddPREMISObjects, AddPREMISEvent, AddPREMISAgent, TransformSIP,
                  WriteIdentifierFile, CreateBag, Proceed, Checks
    <3>2. files' = Extracted
      BY <2>3, <3>1 DEF ActivityFails, Disrupted
    <3> QED
      BY <1>0, <3>2, FoundExtracted
  <2> QED
    BY <2>1, <2>2, <2>3
<1>2. ASSUME pc = "create bag", files' = InData(files) \cup Tags
      PROVE  Found(pkg, files')
  <2>1. Kept(pkg, sip) \subseteq files /\ sip = SipType(pkg)
    BY <1>0, <1>2 DEF Located, Whole, After
  <2>2. \A f \in ToPreserve(pkg, SipType(pkg)) : PlaceOf(SipType(pkg), f) \in files
    BY <2>1 DEF Kept
  <2>3. Found(pkg, InData(files))
    BY <2>2, FoundInBag
  <2> QED
    BY <1>2, <2>3, FoundAmongMore
<1>3. CASE ActivityFails
  <2>1. CASE files \subseteq files'
    BY <1>1, <2>1
  <2>2. CASE pc = "extract" /\ files' = Extracted
    BY <1>0, <2>2, FoundExtracted
  <2>3. CASE pc = "unbag" /\ \E names \in SUBSET {p[2] : p \in Untagged} : files' = MovedUp(names)
    <3>1. pkg.bag = "bag" /\ files = Extracted
      BY <1>0, <2>3, PackageType DEF Package
    <3> QED
      BY <1>0, <2>3, <3>1, KeptUnbagging
  <2>4. CASE /\ pc = "restructure"
             /\ \/ \E dirs \in SUBSET TopLevel(sip) : files' = Cleared(dirs)
                \/ \E n \in 1..Len(Moves) : files' = AfterMoves(n)
    <3>1. sip = SipType(pkg) /\ Sound(pkg, verapdf) /\ files = pkg.files \cup {PremisFile}
      BY <1>0, <2>4, SoundAfterChecks DEF After
    <3> QED
      BY <1>0, <2>4, <3>1, KeptRestructuring
  <2>5. CASE pc = "create bag" /\ files' = InData(files) \cup Tags
    BY <1>2, <2>5
  <2>6. Disrupted
    BY <1>3 DEF ActivityFails
  <2> QED
    BY <2>1, <2>2, <2>3, <2>4, <2>5, <2>6 DEF Disrupted
<1>4. CASE CreateBag
  BY <1>2, <1>4 DEF CreateBag
<1>5. CASE IsBagFails \/ IdentifyFails \/ VerifyManifest \/ (\E check \in Checks : Validate(check))
               \/ (\E result \in {"ok", "invalid", "system"} : CreateAPISImportTask(result))
  <2>1. files' = files
    BY <1>5 DEF IsBagFails, IdentifyFails, VerifyManifest, Validate, CreateAPISImportTask
  <2> QED
    BY <1>1, <2>1
<1>6. CASE ExtractSIP \/ IsBag \/ ValidateBag \/ UnbagSIP \/ IdentifySIP
  BY <1>6 DEF ExtractSIP, IsBag, ValidateBag, UnbagSIP, IdentifySIP, Proceed
<1>7. CASE AddPREMISObjects \/ AddPREMISEvent \/ AddPREMISAgent \/ TransformSIP
              \/ WriteIdentifierFile
  BY <1>7 DEF AddPREMISObjects, AddPREMISEvent, AddPREMISAgent, TransformSIP,
              WriteIdentifierFile, Proceed
<1>8. QED
  BY <1>3, <1>4, <1>5, <1>6, <1>7 DEF Next

\* A step before the package for preservation is made, or an end without success.
LEMMA NothingYet ==
    ASSUME pc' \in {"is bag", "bag", "unbag", "identify", "apis", "objects", "done"} \cup Checked,
           pc' = "done" => outcome' # "success"
    PROVE  Located' /\ Recorded'
<1>1. pc' \notin {"extract", "event", "agent", "restructure", "identifiers", "create bag"}
  BY DEF Checked, Checks
<1>2. QED
  BY <1>1 DEF Located, Recorded

\* Every step of the making of that package leaves what Located and Recorded say.
LEMMA LocatedStep ==
    ASSUME Judging, Located, Recorded, Next
    PROVE  Located' /\ Recorded'
<1>0. /\ pkg \in Packages /\ Claiming /\ Judged /\ Shaped /\ Blank
      /\ pc \in Checked \cup After => sip = SipType(pkg)
      /\ pc \in Checked => Applies(pc, sip)
      /\ pc \in {"apis", "objects"} => files = pkg.files
  BY DEF Judging, Claiming, Processing, Placed, Arrived
<1>1. CASE ExtractSIP \/ IsBag \/ IsBagFails \/ ValidateBag \/ UnbagSIP
  <2>1. /\ pc' \in {"is bag", "bag", "unbag", "identify", "done"}
        /\ pc' = "done" => outcome' # "success"
    BY <1>1 DEF ExtractSIP, IsBag, IsBagFails, ValidateBag, UnbagSIP, Proceed
  <2> QED
    BY <2>1, NothingYet
<1>2. CASE IdentifySIP \/ IdentifyFails
  <2>1. pc' \in {"structure", "done"} /\ (pc' = "done" => outcome' # "success")
    BY <1>2 DEF IdentifySIP, IdentifyFails, Proceed
  <2> QED
    BY <2>1, NothingYet DEF Checked, Checks
<1>3. CASE VerifyManifest \/ \E check \in Checks : Validate(check)
  <2>1. pc \in Checked /\ pc' = Following(pc, outcome')
    BY <1>3 DEF VerifyManifest, Validate, Proceed, Checked
  <2>2. sip \in Types /\ Applies(pc, sip)
    BY <1>0, <2>1, SipTypeType
  <2>3. /\ pc' \in Checked \cup After \cup {"done"}
        /\ pc' \in After \cup {"done"} => (outcome' = "content" <=> pc' = "done")
        /\ pc' \in After \cup {"done"} /\ outcome' # "content" => pc' \in {"apis", "objects"}
    BY <2>1, <2>2, NextStep
  <2>4. pc' \in {"apis", "objects", "done"} \cup Checked /\ (pc' = "done" => outcome' # "success")
    BY <2>3 DEF After
  <2> QED
    BY <2>4, NothingYet
<1>4. ASSUME NEW result \in {"ok", "invalid", "system"}, CreateAPISImportTask(result)
      PROVE  Located' /\ Recorded'
  <2>1. CASE result = "ok"
    <3>1. pc' = "objects"
      BY <1>4, <2>1 DEF CreateAPISImportTask, Proceed
    <3> QED
      BY <3>1, NothingYet
  <2>2. CASE result # "ok"
    <3>1. pc' = "done" /\ outcome' \in {"content", "system"}
      BY <1>4, <2>2 DEF CreateAPISImportTask, Proceed
    <3> QED
      BY <3>1, NothingYet
  <2> QED
    BY <2>1, <2>2
<1>5. CASE AddPREMISObjects
  <2>1. /\ pc = "objects" /\ pc' = "event" /\ UNCHANGED <<pkg, verapdf, sip>> /\ premis' = WithObjects
    BY <1>5 DEF AddPREMISObjects, Proceed
  <2>2. premis.objects = {} /\ files = pkg.files /\ sip = SipType(pkg)
    BY <1>0, <2>1 DEF Blank, After
  <2>3. premis'.objects = {OriginalName(f) : f \in Content(pkg)}
    <3>1. WithObjects.objects =
             premis.objects \cup {OriginalName(f) : f \in Below(ContentPath(sip), files)}
      <4>1. "objects" \in DOMAIN premis
        BY DEF Judging, Claiming, Processing, TypeOK
      <4> QED
        BY <4>1 DEF WithObjects
    <3> QED
      BY <2>1, <2>2, <3>1 DEF Content
  <2>4. (\A f : OriginalName(f)' = OriginalName(f)) /\ Content(pkg)' = Content(pkg)
    BY <2>1, SameVerdicts
  <2>5. premis'.objects = {OriginalName(f)' : f \in Content(pkg)'} /\ sip' = SipType(pkg')
    BY <2>1, <2>2, <2>3, <2>4
  <2> QED
    BY <2>1, <2>5 DEF Located, Recorded
<1>6. CASE AddPREMISEvent \/ AddPREMISAgent \/ TransformSIP \/ WriteIdentifierFile \/ CreateBag
  <2>1. /\ UNCHANGED <<pkg, verapdf, sip>> /\ pc' # "extract"
        /\ pc \in {"event", "agent", "restructure", "identifiers", "create bag"}
    BY <1>6 DEF AddPREMISEvent, AddPREMISAgent, TransformSIP, WriteIdentifierFile, CreateBag, Proceed
  <2>2. premis'.objects = premis.objects
    <3>1. CASE AddPREMISEvent
      BY <3>1 DEF AddPREMISEvent, WithEvent, Judging, Claiming, Processing, TypeOK
    <3>2. CASE AddPREMISAgent \/ TransformSIP \/ WriteIdentifierFile \/ CreateBag
      BY <3>2 DEF AddPREMISAgent, TransformSIP, WriteIdentifierFile, CreateBag
    <3> QED
      BY <1>6, <3>1, <3>2
  <2>3. (\A f : OriginalName(f)' = OriginalName(f)) /\ Content(pkg)' = Content(pkg)
    BY <2>1, SameVerdicts
  <2>4. premis'.objects = {OriginalName(f)' : f \in Content(pkg)'} /\ sip' = SipType(pkg')
    BY <2>1, <2>2, <2>3 DEF Recorded
  <2>5. pc' = "create bag" \/ pc' = "done" => ids' = Identifiers(pkg', sip')
    <3>1. CASE WriteIdentifierFile
      BY <2>1, <3>1 DEF WriteIdentifierFile
    <3>2. CASE CreateBag
      BY <2>1, <3>2 DEF CreateBag, Recorded
    <3>3. CASE AddPREMISEvent \/ AddPREMISAgent \/ TransformSIP
      BY <3>3 DEF AddPREMISEvent, AddPREMISAgent, TransformSIP, Proceed
    <3> QED
      BY <1>6, <3>1, <3>2, <3>3
  <2>6. Recorded'
    BY <2>4, <2>5 DEF Recorded
  <2>7. Located'
    <3>1. CASE AddPREMISEvent \/ AddPREMISAgent
      BY <3>1 DEF AddPREMISEvent, AddPREMISAgent, Proceed, Located
    <3>2. CASE TransformSIP
      <4>1. pc = "restructure" /\ pc' = "identifiers" /\ files' = Restructured
        BY <3>2 DEF TransformSIP, Proceed
      <4>2. sip = SipType(pkg) /\ Sound(pkg, verapdf) /\ files = pkg.files \cup {PremisFile}
        BY <1>0, <4>1, SoundAfterChecks DEF After, Shaped
      <4>3. files' = Whole(pkg', sip')
        BY <1>0, <2>1, <4>1, <4>2, RestructuredIs
      <4> QED
        BY <4>1, <4>3 DEF Located
    <3>3. CASE WriteIdentifierFile
      <4>1. pc = "identifiers" /\ pc' = "create bag" /\ files' = files \cup {IdentifierFile}
        BY <3>3 DEF WriteIdentifierFile, Proceed
      <4> QED
        BY <2>1, <4>1 DEF Located
    <3>4. CASE CreateBag
      <4>1. pc = "create bag" /\ pc' = "done" /\ files' = InData(files) \cup Tags
        BY <3>4 DEF CreateBag, Proceed
      <4>2. files' = InData(Whole(pkg', sip') \cup {IdentifierFile}) \cup Tags
        BY <2>1, <4>1 DEF Located
      <4> QED
        BY <4>1, <4>2 DEF Located
    <3> QED
      BY <1>6, <3>1, <3>2, <3>3, <3>4
  <2> QED
    BY <2>6, <2>7
<1>7. CASE ActivityFails
  <2>1. pc' = "done" /\ outcome' = "system"
    BY <1>7 DEF ActivityFails, Proceed
  <2> QED
    BY <2>1, NothingYet
<1>8. QED
  BY <1>1, <1>2, <1>3, <1>4, <1>5, <1>6, <1>7 DEF Next

\* The invariant: the workflow ends with everything found, and until then has what
\* the next step makes of it.
Ended   == pc = "done" /\ files # {} /\ pkg.bag # "without data" => Found(pkg, files)
Keeping == Judging /\ Located /\ Recorded /\ Ended

\* No step breaks the invariant.
LEMMA KeepingStep == Keeping /\ [Next]_vars => Keeping'
<1> SUFFICES ASSUME Keeping, [Next]_vars PROVE Keeping'
  OBVIOUS
<1>1. Judging'
  BY JudgingStep DEF Keeping
<1>2. CASE UNCHANGED vars
  <2>1. UNCHANGED <<pkg, verapdf, files, premis, ids, pc, sip, outcome>>
    BY <1>2 DEF vars
  <2>2. (\A f : OriginalName(f)' = OriginalName(f)) /\ Content(pkg)' = Content(pkg)
    BY <2>1, SameVerdicts
  <2>3. Located' /\ Ended'
    BY <2>1 DEF Keeping, Located, Ended
  <2>4. {OriginalName(f)' : f \in Content(pkg)'} = {OriginalName(f) : f \in Content(pkg)}
    BY <2>2
  <2>5. Recorded'
    BY <2>1, <2>4 DEF Keeping, Recorded
  <2> QED
    BY <1>1, <2>3, <2>5 DEF Keeping
<1>3. CASE Next
  <2>1. Located' /\ Recorded'
    BY <1>3, LocatedStep DEF Keeping
  <2>2. pc # "done" /\ pkg' = pkg
    BY <1>3 DEF Next, ExtractSIP, IsBag, IsBagFails, ValidateBag, UnbagSIP, IdentifySIP,
                IdentifyFails, Validate, VerifyManifest, CreateAPISImportTask,
                AddPREMISObjects, AddPREMISEvent, AddPREMISAgent, TransformSIP,
                WriteIdentifierFile, CreateBag, ActivityFails, Checks
  <2>3. Ended'
    BY <1>3, <2>2, KeptAtTheEnd DEF Keeping, Ended
  <2> QED
    BY <1>1, <2>1, <2>3 DEF Keeping
<1>4. QED
  BY <1>2, <1>3

\* It holds at the start.
LEMMA KeepingInit == Init => Keeping
<1>1. Init => Judging
  BY JudgingInit
<1>2. Init => Located /\ Recorded /\ Ended
  BY DEF Init, Located, Recorded, Ended
<1>3. QED
  BY <1>1, <1>2 DEF Keeping

\* Whatever files a package has, and wherever the workflow fails or stops, each file
\* to preserve is on disk, as it came or in its place (transform_sip.go:47-95,
\* unbag.go:34-75).
THEOREM SpecNothingIsLost == Spec => []NothingIsLost
<1>1. Keeping => NothingIsLost
  <2> SUFFICES ASSUME Keeping, pc # "extract", files # {}, pkg.bag # "without data"
               PROVE  Found(pkg, files)
    BY FoundIs
  <2>1. CASE pc = "done"
    BY <2>1 DEF Keeping, Ended
  <2>2. CASE pc # "done"
    BY <2>2, KeptOnTheWay DEF Keeping
  <2> QED
    BY <2>1, <2>2
<1>2. QED
  BY <1>1, KeepingInit, KeepingStep, PTL DEF Spec

\* A path in the bag's directory for data.
LEMMA DataAt ==
    ASSUME NEW z \in Path
    PROVE  LET q == <<"data">> \o z
           IN /\ q \in Path /\ Len(q) = Len(z) + 1 /\ q[1] = "data"
              /\ \A i \in 1..Len(z) : q[i + 1] = z[i]
BY Known DEF Path

\* A path that was moved begins with the place of the move.
LEMMA RebasedAt ==
    ASSUME NEW m \in MoveSet, NEW f \in Path, IsPrefix(m.from, f)
    PROVE  LET r == Rebased(m.from, m.to, f)
           IN r \in Path /\ Len(r) >= Len(m.to) /\ \A i \in 1..Len(m.to) : r[i] = m.to[i]
<1> DEFINE rest == SubSeq(f, Len(m.from) + 1, Len(f))
           to   == m.to
<1>1. m.from \in Path /\ to \in Path /\ Len(m.from) <= Len(f)
  BY MovesApart, PrefixAt
<1>2. rest \in Path
  BY <1>1 DEF Path
<1>3. Rebased(m.from, m.to, f) = to \o rest
  BY DEF Rebased
<1> HIDE DEF rest, to
<1>4. /\ to \o rest \in Path /\ Len(to \o rest) >= Len(to)
      /\ \A i \in 1..Len(to) : (to \o rest)[i] = to[i]
  BY <1>1, <1>2 DEF Path
<1>5. QED
  BY <1>3, <1>4 DEF to

\* The places of the moves, and of the content in the bag, name by name.
LEMMA PlacesAt ==
    /\ LET to == Objects \o <<"content">>
       IN to \in Path /\ Len(to) = 3 /\ to[1] = "objects" /\ to[2] = "sip" /\ to[3] = "content"
    /\ LET to == Objects \o <<"header", "metadata.xml">> IN Len(to) = 4 /\ to[3] = "header"
    /\ LET top == <<"data">> \o Objects \o <<"content">>
       IN /\ top \in Path /\ Len(top) = 4 /\ top[1] = "data"
          /\ top[2] = "objects" /\ top[3] = "sip" /\ top[4] = "content"
<1>1. /\ Objects \in Path /\ Len(Objects) = 2 /\ Objects[1] = "objects" /\ Objects[2] = "sip"
  BY PartsType DEF Objects
<1>2. LET to == Objects \o <<"content">>
      IN to \in Path /\ Len(to) = 3 /\ to[1] = "objects" /\ to[2] = "sip" /\ to[3] = "content"
  <2> DEFINE to == Objects \o <<"content">>
  <2>1. to \in Path
    BY PartsType
  <2>2. Len(to) = 3 /\ to[1] = "objects" /\ to[2] = "sip" /\ to[3] = "content"
    BY DEF Objects
  <2> QED
    BY <2>1, <2>2
<1>3. LET to == Objects \o <<"header", "metadata.xml">> IN Len(to) = 4 /\ to[3] = "header"
  BY DEF Objects
<1>4. LET top == <<"data">> \o Objects \o <<"content">>
      IN /\ top \in Path /\ Len(top) = 4 /\ top[1] = "data"
         /\ top[2] = "objects" /\ top[3] = "sip" /\ top[4] = "content"
  <2> DEFINE bag == <<"data">> \o Objects
  <2>1. /\ bag \in Path /\ Len(bag) = 3
        /\ bag[1] = "data" /\ bag[2] = "objects" /\ bag[3] = "sip"
    <3>1. /\ bag \in Path /\ Len(bag) = Len(Objects) + 1 /\ bag[1] = "data"
          /\ \A i \in 1..Len(Objects) : bag[i + 1] = Objects[i]
      BY <1>1, DataAt
    <3> HIDE DEF bag
    <3>2. 1 \in 1..Len(Objects) /\ 2 \in 1..Len(Objects)
      BY <1>1
    <3>3. bag[1 + 1] = Objects[1] /\ bag[2 + 1] = Objects[2]
      BY <3>1, <3>2
    <3> QED
      BY <1>1, <3>1, <3>3
  <2> HIDE DEF bag
  <2>2. /\ bag \o <<"content">> \in Path /\ Len(bag \o <<"content">>) = 4
        /\ \A i \in 1..3 : (bag \o <<"content">>)[i] = bag[i]
        /\ (bag \o <<"content">>)[4] = "content"
    <3> DEFINE end == <<"content">>
    <3>1. end \in Path /\ Len(end) = 1 /\ end[1] = "content"
      BY Known DEF Path
    <3> HIDE DEF end
    <3>2. /\ bag \o end \in Path /\ Len(bag \o end) = Len(bag) + Len(end)
          /\ \A i \in 1..Len(bag) + Len(end) :
                (bag \o end)[i] = IF i <= Len(bag) THEN bag[i] ELSE end[i - Len(bag)]
      BY <2>1, <3>1, ConcatProperties DEF Path
    <3>3. 4 - Len(bag) = 1 /\ \A i \in 1..4 : i <= 3 <=> i \in 1..3
      BY <2>1
    <3>4. Len(bag) + Len(end) = 4
      BY <2>1, <3>1
    <3>5. \A i \in 1..3 : (bag \o end)[i] = bag[i]
      BY <2>1, <3>2, <3>4
    <3>6. (bag \o end)[4] = end[1]
      BY <2>1, <3>2, <3>3, <3>4
    <3> QED
      BY <3>1, <3>2, <3>4, <3>5, <3>6 DEF end
  <2>3. 1 \in 1..3 /\ 2 \in 1..3 /\ 3 \in 1..3
    OBVIOUS
  <2> QED
    BY <2>1, <2>2, <2>3 DEF bag
<1>5. QED
  BY <1>2, <1>3, <1>4

\* The content of a restructured package in its bag is what premis.xml names.
LEMMA ContentInBag ==
    ASSUME pkg \in Packages, sip = SipType(pkg), Sound(pkg, verapdf)
    PROVE  {OriginalName(f) : f \in Content(pkg)} =
              Below(<<"data">> \o Objects \o <<"content">>,
                    InData(Whole(pkg, sip) \cup {IdentifierFile}) \cup Tags)
<1> DEFINE top == <<"data">> \o Objects \o <<"content">>
           fs  == InData(Whole(pkg, sip) \cup {IdentifierFile}) \cup Tags
           to  == Objects \o <<"content">>
<1>1. /\ top \in Path /\ Len(top) = 4 /\ top[1] = "data"
      /\ top[2] = "objects" /\ top[3] = "sip" /\ top[4] = "content"
      /\ to \in Path /\ Len(to) = 3 /\ to[1] = "objects" /\ to[2] = "sip" /\ to[3] = "content"
  BY PlacesAt
<1>2. ContentMove \in MoveSet /\ ContentMove.from = ContentPath(sip) /\ ContentMove.to = to
  BY DEF MoveSet, ContentMove
<1>3. Content(pkg) = Below(ContentPath(sip), pkg.files)
  BY DEF Content
<1>4. ASSUME NEW f \in Content(pkg)
      PROVE  /\ f \in ToPreserve(pkg, sip) /\ f \in Path
             /\ OriginalName(f) = <<"data">> \o PlaceOf(sip, f)
             /\ PlaceOf(sip, f) = Rebased(ContentMove.from, ContentMove.to, f)
  <2>1. f \in pkg.files /\ IsPrefix(ContentMove.from, f) /\ f \in Path
    BY <1>2, <1>3, DirsOf DEF Below
  <2>2. f \in ToPreserve(pkg, sip)
    BY <1>2, <2>1, ToPreserveIs
  <2>3. PlaceOf(sip, f) = Rebased(ContentPath(sip), to, f)
    BY <1>2, <2>1 DEF PlaceOf
  <2> QED
    BY <1>2, <2>1, <2>2, <2>3 DEF OriginalName
<1>5. ASSUME NEW f \in Content(pkg) PROVE OriginalName(f) \in Below(top, fs)
  <2> DEFINE z == PlaceOf(sip, f)
             q == <<"data">> \o z
  <2>1. z \in Whole(pkg, sip) /\ OriginalName(f) = q
    BY <1>4 DEF Whole, Kept
  <2>2. /\ z \in Path /\ Len(z) \in Nat /\ Len(z) >= 3
        /\ z[1] = "objects" /\ z[2] = "sip" /\ z[3] = "content"
    <3>1. f \in Path /\ IsPrefix(ContentMove.from, f)
      BY <1>2, <1>3, <1>4 DEF Below
    <3>2. z = Rebased(ContentMove.from, ContentMove.to, f) /\ ContentMove.to = to
      BY <1>2, <1>4
    <3> HIDE DEF z, to
    <3>3. z \in Path /\ Len(z) >= Len(to) /\ \A i \in 1..Len(to) : z[i] = to[i]
      BY <1>2, <3>1, <3>2, RebasedAt
    <3> QED
      BY <1>1, <3>3 DEF Path
  <2> HIDE DEF z
  <2>3. /\ q \in Path /\ Len(q) = Len(z) + 1 /\ q[1] = "data"
        /\ \A i \in 1..Len(z) : q[i + 1] = z[i]
    BY <2>2, DataAt
  <2> HIDE DEF q
  <2>4. /\ Len(q) >= 4 /\ q[1] = "data" /\ q[2] = "objects" /\ q[3] = "sip" /\ q[4] = "content"
    <3>1. 1 \in 1..Len(z) /\ 2 \in 1..Len(z) /\ 3 \in 1..Len(z)
      BY <2>2
    <3>2. q[1 + 1] = z[1] /\ q[2 + 1] = z[2] /\ q[3 + 1] = z[3]
      BY <2>3, <3>1
    <3> QED
      BY <2>2, <2>3, <3>2
  <2>5. IsPrefix(top, q)
    <3> HIDE DEF top
    <3>1. Len(top) = 4 /\ top[1] = "data" /\ top[2] = "objects" /\ top[3] = "sip" /\ top[4] = "content"
      BY <1>1
    <3>2. \A i \in 1..4 : i = 1 \/ i = 2 \/ i = 3 \/ i = 4
      OBVIOUS
    <3>3. \A i \in 1..Len(top) : top[i] = q[i]
      BY <2>4, <3>1, <3>2
    <3> QED
      BY <1>1, <2>3, <2>4, <3>1, <3>3, PrefixAt
  <2>6. q \in fs
    BY <2>1 DEF InData, q
  <2> QED
    BY <2>1, <2>5, <2>6 DEF Below
<1>6. ASSUME NEW y \in Below(top, fs) PROVE y \in {OriginalName(f) : f \in Content(pkg)}
  <2> DEFINE Begins == Len(y) >= 4 /\ y[1] = "data" /\ y[2] = "objects" /\ y[3] = "sip"
                          /\ y[4] = "content"
  <2>1. y \in fs /\ IsPrefix(top, y)
    BY DEF Below
  <2>2. ASSUME y \in Path PROVE Begins
    <3>1. Len(top) <= Len(y) /\ \A i \in 1..Len(top) : top[i] = y[i]
      BY <1>1, <2>1, <2>2, PrefixAt
    <3> HIDE DEF top
    <3> QED
      BY <1>1, <3>1
  <2>3. CASE y \in Tags
    <3>1. y \in Path
      BY <2>3, InDataType
    <3>2. y[1] # "data"
      BY <2>3 DEF Tags
    <3> QED
      BY <2>2, <3>1, <3>2
  <2>4. ASSUME NEW z \in Whole(pkg, sip) \cup {IdentifierFile}, y = <<"data">> \o z, z \in Path
        PROVE  /\ Len(z) >= 3 /\ Len(z) \in Nat
               /\ z[1] = "objects" /\ z[2] = "sip" /\ z[3] = "content"
    <3>1. /\ y \in Path /\ Len(y) = Len(z) + 1 /\ \A i \in 1..Len(z) : y[i + 1] = z[i]
      BY <2>4, DataAt
    <3>2. Len(z) >= 3 /\ Len(z) \in Nat
      BY <2>2, <2>4, <3>1 DEF Path
    <3>3. 1 \in 1..Len(z) /\ 2 \in 1..Len(z) /\ 3 \in 1..Len(z)
      BY <3>2
    <3>4. y[1 + 1] = z[1] /\ y[2 + 1] = z[2] /\ y[3 + 1] = z[3]
      BY <3>1, <3>3
    <3>5. Begins
      BY <2>2, <3>1
    <3> QED
      BY <3>2, <3>4, <3>5
  <2>5. ASSUME NEW z \in Stray(pkg, sip) \cup {PremisFile, IdentifierFile}, y = <<"data">> \o z
        PROVE  FALSE
    <3>1. z \in Path /\ (z \in {PremisFile, IdentifierFile} \/ Len(z) = 1)
      BY PartsType, DirsOf DEF Stray
    <3>2. Len(z) >= 3 /\ z[1] = "objects"
      BY <2>4, <2>5, <3>1 DEF Whole
    <3>3. PremisFile[1] = "metadata" /\ IdentifierFile[1] = "metadata"
      BY DEF PremisFile, IdentifierFile
    <3>4. z \in {PremisFile, IdentifierFile} => FALSE
      BY <3>2, <3>3
    <3>5. Len(z) # 1
      <4>1. \A n \in Nat : n >= 3 => n # 1
        OBVIOUS
      <4> QED
        BY <2>4, <2>5, <3>1, <4>1 DEF Whole
    <3> QED
      BY <3>1, <3>4, <3>5, Zenon
  <2>6. ASSUME NEW f \in ToPreserve(pkg, sip), y = <<"data">> \o PlaceOf(sip, f)
        PROVE  y \in {OriginalName(g) : g \in Content(pkg)}
    <3>1. PICK m \in MoveSet : IsPrefix(m.from, f)
      BY ToPreserveIs
    <3>2. f \in pkg.files /\ f \in Path /\ (m \in {UpdatedMove, LogicalMove} => f = m.from)
      <4>1. f \in pkg.files
        BY ToPreserveIs
      <4> QED
        BY <3>1, <4>1, ToPreserveIs, DirsOf
    <3> DEFINE z == PlaceOf(sip, f)
    <3>3. z = Rebased(m.from, m.to, f) /\ z \in Path
      BY <3>1, <3>2, PlaceIs
    <3>4. \A i \in 1..Len(m.to) : z[i] = m.to[i]
      BY <3>1, <3>2, <3>3, RebasedAt
    <3>5. z \in Whole(pkg, sip)
      BY DEF Whole, Kept
    <3> HIDE DEF z
    <3>6. z[1] = "objects" /\ z[3] = "content"
      BY <2>4, <2>6, <3>3, <3>5 DEF z
    <3>7. m = ContentMove
      <4>1. m # MetadataMove
        <5>1. MetadataMove.to = Objects \o <<"header", "metadata.xml">>
          BY DEF MetadataMove
        <5>2. Len(MetadataMove.to) = 4 /\ MetadataMove.to[3] = "header"
          BY <5>1, PlacesAt
        <5> QED
          BY <3>4, <3>6, <5>2
      <4>2. m # UpdatedMove
        <5>1. UpdatedMove.to = <<"metadata", Last(UpdatedPath)>>
          BY DEF UpdatedMove
        <5>2. Len(UpdatedMove.to) = 2 /\ UpdatedMove.to[1] = "metadata"
          BY <5>1
        <5> QED
          BY <3>4, <3>6, <5>2
      <4>3. m # LogicalMove
        <5>1. LogicalMove.to = <<"metadata", Last(LogicalPath)>>
          BY DEF LogicalMove
        <5>2. Len(LogicalMove.to) = 2 /\ LogicalMove.to[1] = "metadata"
          BY <5>1
        <5> QED
          BY <3>4, <3>6, <5>2
      <4> QED
        BY <4>1, <4>2, <4>3 DEF MoveSet
    <3>8. f \in Content(pkg)
      BY <1>2, <1>3, <3>1, <3>2, <3>7 DEF Below
    <3> QED
      BY <1>4, <2>6, <3>8
  <2>7. y \in Tags \/ \E z \in Whole(pkg, sip) \cup {IdentifierFile} : y = <<"data">> \o z
    BY <2>1 DEF InData
  <2> QED
    BY <2>3, <2>5, <2>6, <2>7 DEF Whole, Kept
<1>7. QED
  BY <1>5, <1>6

\* Whatever files a sound package has, Enduro gets a bag of the files to preserve in
\* their places, with premis.xml and identifiers.json, and premis.xml names exactly
\* the content in it (transform_sip.go:68-89, premis.go:399-401).
THEOREM SpecBagIsComplete == Spec => []BagIsComplete
<1>1. Keeping => BagIsComplete
  <2> SUFFICES ASSUME Keeping, pc = "done", outcome = "success" PROVE BagIsComplete
    BY DEF BagIsComplete
  <2>1. /\ pkg \in Packages /\ sip = SipType(pkg) /\ Sound(pkg, verapdf)
        /\ files = InData(Whole(pkg, sip) \cup {IdentifierFile}) \cup Tags
        /\ premis.objects = {OriginalName(f) : f \in Content(pkg)}
    BY DEF Keeping, Judging, Claiming, Processing, Placed, Accepted, Located, Recorded
  <2>2. {Preserved(pkg)[f] : f \in DOMAIN Preserved(pkg)} = Kept(pkg, sip)
    BY <2>1 DEF Preserved, Kept
  <2>3. Whole(pkg, sip) \cup {IdentifierFile}
           = Kept(pkg, sip) \cup Stray(pkg, sip) \cup {PremisFile, IdentifierFile}
    BY DEF Whole
  <2>4. premis.objects = Below(<<"data">> \o Objects \o <<"content">>, files)
    BY <2>1, ContentInBag
  <2> QED
    BY <2>1, <2>2, <2>3, <2>4 DEF BagIsComplete, Stray
<1>2. QED
  BY <1>1, KeepingInit, KeepingStep, PTL DEF Spec

\* The names of two paths joined.
LEMMA JoinedAt ==
    ASSUME NEW a \in Path, NEW b \in Path
    PROVE  /\ a \o b \in Path /\ Len(a \o b) = Len(a) + Len(b)
           /\ \A i \in 1..Len(a) + Len(b) :
                 (a \o b)[i] = IF i <= Len(a) THEN a[i] ELSE b[i - Len(a)]
BY ConcatProperties DEF Path

\* The place of a file of the content is that of its path in the manifest.
LEMMA ConvertedIs ==
    ASSUME NEW c \in Path, NEW r \in Path, NEW q \in Path, Len(c) = Len(r) + 1,
           Len(q) > 0, q[1] = "content"
    PROVE  Objects \o q = Rebased(c, Objects \o <<"content">>, r \o q)
<1> DEFINE f    == r \o q
           to   == Objects \o <<"content">>
           rest == SubSeq(f, Len(c) + 1, Len(f))
           k    == Len(r)
           n    == Len(q)
<1>1. /\ k \in Nat /\ n \in Nat /\ n > 0 /\ f \in Path /\ Len(f) = k + n
      /\ \A i \in 1..k + n : f[i] = IF i <= k THEN r[i] ELSE q[i - k]
  BY ConcatProperties DEF Path
<1>2. /\ to \in Path /\ Len(to) = 3 /\ to[1] = "objects" /\ to[2] = "sip" /\ to[3] = "content"
  BY PlacesAt
<1>3. Objects \in Path /\ Len(Objects) = 2 /\ Objects[1] = "objects" /\ Objects[2] = "sip"
  BY PartsType DEF Objects
<1> HIDE DEF f, to
<1>4. rest \in Path /\ Len(rest) = n - 1 /\ \A i \in 1..n - 1 : rest[i] = q[i + 1]
  <2>1. Len(c) + 1 = k + 2 /\ rest = SubSeq(f, k + 2, k + n)
    BY <1>1
  <2> HIDE DEF k, n
  <2>2. /\ SubSeq(f, k + 2, k + n) \in Path /\ Len(SubSeq(f, k + 2, k + n)) = n - 1
        /\ \A i \in 1..n - 1 : SubSeq(f, k + 2, k + n)[i] = f[k + 1 + i]
    BY <1>1 DEF Path
  <2>3. \A i \in 1..n - 1 : /\ k + 1 + i \in 1..k + n /\ ~(k + 1 + i <= k)
                            /\ k + 1 + i - k = i + 1
    BY <1>1
  <2>4. \A i \in 1..n - 1 : f[k + 1 + i] = q[i + 1]
    BY <1>1, <2>3
  <2> QED
    BY <2>1, <2>2, <2>4
<1> HIDE DEF rest, k
<1>5. /\ Objects \o q \in Path /\ Len(Objects \o q) = 2 + n
      /\ \A i \in 1..2 + n : (Objects \o q)[i] = IF i <= 2 THEN Objects[i] ELSE q[i - 2]
  <2>1. /\ Objects \o q \in Path /\ Len(Objects \o q) = Len(Objects) + n
        /\ \A i \in 1..Len(Objects) + n :
              (Objects \o q)[i] = IF i <= Len(Objects) THEN Objects[i] ELSE q[i - Len(Objects)]
    BY <1>3, JoinedAt
  <2> HIDE DEF n
  <2> QED
    BY <1>3, <2>1
<1>6. /\ to \o rest \in Path /\ Len(to \o rest) = 3 + (n - 1)
      /\ \A i \in 1..3 + (n - 1) : (to \o rest)[i] = IF i <= 3 THEN to[i] ELSE rest[i - 3]
  <2>1. /\ to \o rest \in Path /\ Len(to \o rest) = Len(to) + Len(rest)
        /\ \A i \in 1..Len(to) + Len(rest) :
              (to \o rest)[i] = IF i <= Len(to) THEN to[i] ELSE rest[i - Len(to)]
    BY <1>2, <1>4, JoinedAt
  <2> HIDE DEF n
  <2> QED
    BY <1>2, <1>4, <2>1
<1> DEFINE x == Objects \o q
           y == to \o rest
<1>7. x \in Path /\ y \in Path /\ Len(x) = 2 + n /\ Len(y) = 2 + n
  BY <1>1, <1>5, <1>6
<1>8. ASSUME NEW i \in 1..2 + n PROVE x[i] = y[i]
  <2>1. x[i] = IF i <= 2 THEN Objects[i] ELSE q[i - 2]
    BY <1>5
  <2>2. y[i] = IF i <= 3 THEN to[i] ELSE rest[i - 3]
    <3>1. i \in 1..3 + (n - 1)
      BY <1>1
    <3> QED
      BY <1>6, <3>1
  <2> HIDE DEF x, y, n
  <2>3. CASE i = 1
    BY <1>2, <1>3, <2>1, <2>2, <2>3
  <2>4. CASE i = 2
    BY <1>2, <1>3, <2>1, <2>2, <2>4
  <2>5. CASE i = 3
    BY <1>2, <2>1, <2>2, <2>5
  <2>6. CASE i \in 4..2 + n
    <3>1. i - 3 \in 1..n - 1 /\ (i - 3) + 1 = i - 2 /\ ~(i <= 2) /\ ~(i <= 3)
      BY <1>1, <2>6
    <3>2. rest[i - 3] = q[i - 2]
      BY <1>4, <3>1
    <3> QED
      BY <2>1, <2>2, <3>1, <3>2
  <2>7. i = 1 \/ i = 2 \/ i = 3 \/ i \in 4..2 + n
    BY <1>1
  <2> QED
    BY <2>3, <2>4, <2>5, <2>6, <2>7
<1> HIDE DEF x, y, n
<1>9. x = y
  BY <1>1, <1>7, <1>8, SeqEqual DEF Path
<1>10. QED
  BY <1>9 DEF x, y, rest, f, to, Rebased

\* The manifest that names the identifiers is the one that was verified, and lists
\* every file of the content.
LEMMA ContentIsListed ==
    ASSUME pkg \in Packages, sip = SipType(pkg), Sound(pkg, verapdf), sip # "BornDigitalAIP",
           NEW f \in Content(pkg)
    PROVE  \E e \in PipManifest(pkg, sip).entries : e.path \in Path /\ Root(sip) \o e.path = f
<1>1. f \in pkg.files /\ IsPrefix(ContentPath(sip), f) /\ f \in Path /\ ContentPath(sip) \in Path
  BY PartsType, DirsOf DEF Content, Below
<1>2. f[1] = "content"
  <2>1. Len(ContentPath(sip)) > 0 /\ ContentPath(sip)[1] = "content"
    BY DEF ContentPath
  <2>2. 1 \in 1..Len(ContentPath(sip))
    BY <1>1, <2>1 DEF Path
  <2> QED
    BY <1>1, <2>1, <2>2, PrefixAt
<1>3. f \in Ours(pkg, sip)
  <2>1. sip \notin AIPs => MetadataPath(sip)[1] = "header"
    BY DEF MetadataPath
  <2>2. sip \notin AIPs => f # MetadataPath(sip)
    BY <1>2, <2>1
  <2> QED
    BY <1>1, <1>2, <2>2 DEF Ours
<1>4. PipManifest(pkg, sip) = Manifest(pkg, sip)
  <2>1. sip \in AIPs <=> sip = "DigitizedAIP"
    BY DEF AIPs
  <2> QED
    BY <2>1 DEF PipManifest, Manifest
<1>5. PICK e \in Manifest(pkg, sip).entries : Root(sip) \o e.path = f
  <2>1. ListedWell(pkg, sip)
    BY SoundParts
  <2>2. Ours(pkg, sip) = {Root(sip) \o e.path : e \in Manifest(pkg, sip).entries}
    BY <2>1 DEF ListedWell
  <2> QED
    BY <1>3, <2>2
<1>6. e.path \in Path
  <2>1. pkg \in Package
    BY PackageAssumption
  <2>2. Manifest(pkg, sip) \in Listing
    BY <2>1 DEF Package, Manifest
  <2> QED
    BY <2>2 DEF Listing, Entry
<1>7. QED
  BY <1>4, <1>5, <1>6

\* Whatever files a sound package has, every file of its content gets an identifier
\* under the place it is in, except where a born-digital AIP's old manifest is read
\* and for files with the name of a manifest (pips.go:42-56).
THEOREM SpecIdentifiersCoverContent == Spec => []IdentifiersCoverContent
<1>1. Keeping => IdentifiersCoverContent
  <2> SUFFICES ASSUME Keeping, pc = "done", outcome = "success", sip # "BornDigitalAIP",
                      NEW f \in Content(pkg),
                      Last(f) \notin {"metadata.xml", "UpdatedAreldaMetadata.xml"}
               PROVE  \E i \in ids : i.file = Preserved(pkg)[f]
    BY DEF IdentifiersCoverContent
  <2>1. /\ pkg \in Packages /\ sip = SipType(pkg) /\ Sound(pkg, verapdf) /\ ids = Identifiers(pkg, sip)
    BY DEF Keeping, Judging, Claiming, Processing, Placed, Accepted, Recorded
  <2>2. PICK e \in PipManifest(pkg, sip).entries : e.path \in Path /\ Root(sip) \o e.path = f
    BY <2>1, ContentIsListed
  <2> DEFINE q == e.path
             r == Root(sip)
             c == ContentPath(sip)
  <2>3. /\ q \in Path /\ r \in Path /\ c \in Path /\ f \in Path /\ f = r \o q
        /\ Len(c) = Len(r) + 1 /\ c[Len(r) + 1] = "content" /\ IsPrefix(c, f)
        /\ f \in pkg.files
    <3>1. f \in pkg.files /\ IsPrefix(c, f) /\ f \in Path
      BY <2>1, DirsOf DEF Content, Below
    <3>2. Len(c) = Len(r) + 1 /\ c[Len(r) + 1] = "content"
      BY DEF ContentPath, Root
    <3> QED
      BY <2>2, <3>1, <3>2, RootType, PartsType
  <2> HIDE DEF q, r, c
  <2>4. /\ Len(f) = Len(r) + Len(q) /\ Len(q) \in Nat /\ Len(r) \in Nat
        /\ \A i \in 1..Len(r) + Len(q) : f[i] = IF i <= Len(r) THEN r[i] ELSE q[i - Len(r)]
    BY <2>3, ConcatProperties DEF Path
  <2>5. Len(r) + 1 <= Len(f) /\ f[Len(r) + 1] = "content"
    <3>1. Len(c) <= Len(f) /\ \A i \in 1..Len(c) : c[i] = f[i]
      BY <2>3, PrefixAt
    <3>2. Len(r) + 1 \in 1..Len(c)
      BY <2>3, <2>4
    <3> QED
      BY <2>3, <3>1, <3>2
  <2>6. Len(q) > 0 /\ q[1] = "content"
    <3>1. Len(r) + 1 \in 1..Len(r) + Len(q) /\ ~(Len(r) + 1 <= Len(r)) /\ Len(r) + 1 - Len(r) = 1
      BY <2>4, <2>5
    <3>2. Len(q) > 0
      BY <2>4, <2>5
    <3> QED
      BY <2>4, <2>5, <3>1, <3>2
  <2>7. Last(q) = Last(f)
    <3>1. /\ Len(r) + Len(q) \in 1..Len(r) + Len(q) /\ ~(Len(r) + Len(q) <= Len(r))
          /\ Len(r) + Len(q) - Len(r) = Len(q)
      BY <2>4, <2>6
    <3>2. f[Len(f)] = q[Len(q)]
      BY <2>4, <3>1
    <3> QED
      BY <3>2 DEF Last
  <2>8. ConvertSIPPath(q) = Objects \o q
    <3>1. q[1] \in ContentLike
      BY <2>6 DEF ContentLike
    <3>2. Last(q) # "metadata.xml" /\ Last(q) # "UpdatedAreldaMetadata.xml"
      BY <2>7
    <3> QED
      BY <3>1, <3>2, Zenon DEF ConvertSIPPath
  <2>9. Objects \o q = Rebased(c, Objects \o <<"content">>, f)
    BY <2>3, <2>6, ConvertedIs
  <2>10. Preserved(pkg)[f] = Rebased(c, Objects \o <<"content">>, f)
    <3>1. f \in ToPreserve(pkg, sip)
      BY <2>3 DEF ToPreserve, Below, c
    <3>2. Preserved(pkg)[f] = PlaceOf(sip, f)
      BY <2>1, <3>1 DEF Preserved
    <3> QED
      BY <2>3, <3>2 DEF PlaceOf, c
  <2>11. ConvertSIPPath(q) # <<>>
    <3>1. Len(Objects \o q) = Len(Objects) + Len(q) /\ Len(Objects) = 2
      BY <2>3, PartsType, ConcatProperties DEF Objects, Path
    <3>2. Len(Objects \o q) > 0
      BY <2>4, <3>1
    <3>3. Objects \o q # <<>>
      BY <3>2
    <3> QED
      BY <2>8, <3>3
  <2>12. [file |-> ConvertSIPPath(q), source |-> q] \in ids
    BY <2>1, <2>11 DEF Identifiers, q
  <2> QED
    BY <2>8, <2>9, <2>10, <2>12
<1>2. QED
  BY <1>1, KeepingInit, KeepingStep, PTL DEF Spec
=============================================================================
