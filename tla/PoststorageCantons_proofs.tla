----------------------- MODULE PoststorageCantons_proofs -----------------------
(***************************************************************************)
(* Proofs about PoststorageCantons, for every set of METS files, every set *)
(* of workers and every number of sessions.                                *)
(***************************************************************************)
EXTENDS PoststorageCantons, FiniteSetTheorems, TLAPS

(***************************************************************************)
(* The scan of a METS file.                                                *)
(***************************************************************************)

\* A set of numbers has a least one: the intervals up to its members are finite sets.
LEMMA Least ==
    ASSUME NEW S \in SUBSET Nat, S # {}
    PROVE  \E n \in S : \A m \in S : n <= m
<1> DEFINE T == {0..n : n \in S}
<1>1. T \subseteq FiniteSubsetsOf(Nat) /\ T # {}
  <2>1. \A n \in S : 0..n \in SUBSET Nat /\ IsFiniteSet(0..n)
    BY FS_Interval
  <2> QED
    BY <2>1 DEF FiniteSubsetsOf
<1>2. IsWellFoundedOn(StrictSubsetOrdering(Nat), FiniteSubsetsOf(Nat))
  BY FS_StrictSubsetOrderingWellFounded
<1>3. \E x \in T : \A y \in T : ~(<<y, x>> \in StrictSubsetOrdering(Nat))
  BY <1>1, <1>2, WFMin
<1>4. PICK n \in S : \A m \in S : ~(<<0..m, 0..n>> \in StrictSubsetOrdering(Nat))
  BY <1>3
<1>5. ASSUME NEW m \in S, m < n PROVE FALSE
  <2>1. 0..m \in SUBSET Nat /\ 0..n \in SUBSET Nat /\ 0..m \subseteq 0..n
    BY <1>5
  <2>2. n \in 0..n /\ n \notin 0..m
    BY <1>5
  <2>3. 0..m # 0..n
    BY <2>2
  <2> QED
    BY <1>4, <2>1, <2>3 DEF StrictSubsetOrdering
<1> QED
  BY <1>5

\* A set with zero and the successor of each of its members has all numbers.
LEMMA SetInduction ==
    ASSUME NEW S \in SUBSET Nat, 0 \in S, \A n \in S : n + 1 \in S
    PROVE  S = Nat
<1>1. SUFFICES ASSUME Nat \ S # {} PROVE FALSE
  OBVIOUS
<1>2. PICK n \in Nat \ S : \A m \in Nat \ S : n <= m
  BY <1>1, Least
<1>3. n # 0 /\ n - 1 \in Nat /\ n - 1 \in S
  BY <1>2
<1> QED
  BY <1>2, <1>3

\* The states of a scan: nothing before the first div, then div after div.
Scans(divs, n, f) == f = [i \in 0..n |-> IF i = 0 THEN Outside ELSE ReadDiv(divs, i, f[i - 1])]

\* A scan has states up to any div.
LEMMA ScanExists ==
    ASSUME NEW divs, NEW n \in Nat
    PROVE  \E f : Scans(divs, n, f)
<1> DEFINE S == {k \in Nat : \E f : Scans(divs, k, f)}
<1>1. 0 \in S
  <2>1. Scans(divs, 0, [i \in 0..0 |-> Outside])
    BY DEF Scans
  <2> QED
    BY <2>1
<1>2. ASSUME NEW k \in S PROVE k + 1 \in S
  <2>1. PICK f : Scans(divs, k, f)
    OBVIOUS
  <2> DEFINE h == [i \in 0..(k + 1) |-> IF i = k + 1 THEN ReadDiv(divs, k + 1, f[k]) ELSE f[i]]
  <2>2. k \in Nat /\ k \in 0..k
    OBVIOUS
  <2>3. \A i \in 0..k : f[i] = IF i = 0 THEN Outside ELSE ReadDiv(divs, i, f[i - 1])
    BY <2>1 DEF Scans
  <2>4. ASSUME NEW i \in 0..(k + 1)
        PROVE  h[i] = IF i = 0 THEN Outside ELSE ReadDiv(divs, i, h[i - 1])
    <3>1. CASE i = k + 1
      <4>1. i # 0 /\ i - 1 = k /\ k \in 0..(k + 1) /\ k # k + 1
        BY <2>2, <3>1
      <4>2. h[i] = ReadDiv(divs, i, f[k]) /\ h[i - 1] = f[k]
        BY <3>1, <4>1
      <4> QED
        BY <4>1, <4>2
    <3>2. CASE i # k + 1
      <4>1. i \in 0..k /\ h[i] = f[i]
        BY <2>2, <3>2
      <4>2. i # 0 => i - 1 \in 0..(k + 1) /\ i - 1 # k + 1 /\ h[i - 1] = f[i - 1]
        BY <2>2, <4>1
      <4> QED
        BY <2>3, <4>1, <4>2
    <3> QED
      BY <3>1, <3>2
  <2>5. Scans(divs, k + 1, h)
    BY <2>4 DEF Scans
  <2> QED
    BY <2>2, <2>5
<1>3. S = Nat
  BY <1>1, <1>2, SetInduction
<1> QED
  BY <1>3

\* The states of the scan of a file, and its result.
LEMMA ScanStates ==
    ASSUME NEW divs, Len(divs) \in Nat
    PROVE  \E f : /\ Scan(divs) = f[Len(divs)]
                  /\ f[0] = Outside
                  /\ \A i \in 1..Len(divs) : f[i] = ReadDiv(divs, i, f[i - 1])
<1> DEFINE f == CHOOSE f : f = [i \in 0..Len(divs) |->
                                  IF i = 0 THEN Outside ELSE ReadDiv(divs, i, f[i - 1])]
<1>1. \E h : h = [i \in 0..Len(divs) |-> IF i = 0 THEN Outside ELSE ReadDiv(divs, i, h[i - 1])]
  BY ScanExists DEF Scans
<1>2. f = [i \in 0..Len(divs) |-> IF i = 0 THEN Outside ELSE ReadDiv(divs, i, f[i - 1])]
  BY <1>1, Zenon
<1>3. Scan(divs) = f[Len(divs)]
  BY DEF Scan
<1> HIDE DEF f
<1>4. f[0] = Outside
  BY <1>2
<1>5. \A i \in 1..Len(divs) : f[i] = ReadDiv(divs, i, f[i - 1])
  BY <1>2
<1> QED
  BY <1>3, <1>4, <1>5

\* The files of a METS file, and what the scan knows of it.
Files(mets) == DOMAIN mets.groups \cup {NoFile}
State(mets) == [inHeader: BOOLEAN, inUpdated: BOOLEAN, inOld: BOOLEAN,
                updated: Files(mets), old: Files(mets)]

Below(d, i) == \E j \in DOMAIN d : d[j].label = Header /\ Above(d, j, i)

\* The updated file among the first divs that comes last.
LastUpdated(d, n, file) ==
    \/ file = NoFile /\ \A i \in 1..n : d[i].label # Updated
    \/ \E i \in 1..n : /\ d[i].label = Updated /\ d[i].file = file
                       /\ \A j \in 1..n : d[j].label = Updated => j <= i

\* After a number of divs the scan is inside of nothing but a header above the next
\* div, and has found the last updated file and perhaps one below a header.
Found(d, n, s) ==
    /\ ~s.inUpdated /\ ~s.inOld
    /\ s.inHeader => n < Len(d) /\ Below(d, n + 1)
    /\ LastUpdated(d, n, s.updated)
    /\ \/ s.old = NoFile
       \/ \E i \in 1..n : d[i].label = Old /\ d[i].file = s.old /\ Below(d, i)

\* The divs of a METS file.
LEMMA Divs ==
    ASSUME NEW mets, Document(mets)
    PROVE  LET d == mets.divs IN
           /\ Len(d) \in Nat /\ DOMAIN d = 1..Len(d)
           /\ \A i \in 1..Len(d) :
                 /\ d[i].depth \in Nat /\ d[i].file \in Files(mets)
                 /\ d[i].file # NoFile => Closes(d, i)
                 /\ d[i].label \in {Old, Updated} => d[i].file # NoFile
<1> DEFINE d == mets.divs
           Div == [depth: Nat, label: STRING, file: Files(mets)]
<1>1. d \in Seq(Div) /\ \A x \in Div : x.depth \in Nat /\ x.file \in Files(mets)
  BY DEF Document, Files
<1> HIDE DEF Div
<1>2. Len(d) \in Nat /\ DOMAIN d = 1..Len(d) /\ \A i \in 1..Len(d) : d[i] \in Div
  BY <1>1
<1> QED
  BY <1>1, <1>2 DEF Document

\* What one div does to the state of the scan.
LEMMA DivRead ==
    ASSUME NEW mets, Document(mets), NEW n \in 1..Len(mets.divs), NEW s \in State(mets)
    PROVE  LET d == mets.divs
               r == ReadDiv(d, n, s)
               header == s.inHeader \/ d[n].label = Header
               updated == s.inUpdated \/ d[n].label = Updated
               old == s.inOld \/ (header /\ d[n].label = Old)
           IN /\ r \in State(mets)
              /\ r.inHeader = (header /\ ~Closes(d, n))
              /\ r.inUpdated = (updated /\ ~Closes(d, n))
              /\ r.inOld = (old /\ ~Closes(d, n))
              /\ r.updated = IF d[n].file # NoFile /\ updated THEN d[n].file ELSE s.updated
              /\ r.old = IF d[n].file # NoFile /\ old THEN d[n].file ELSE s.old
<1> DEFINE d == mets.divs
           header == s.inHeader \/ d[n].label = Header
           updated == s.inUpdated \/ d[n].label = Updated
           old == s.inOld \/ (header /\ d[n].label = Old)
           a == StartDiv(s, d[n])
           b == Fptr(a, d[n])
           r == ReadDiv(d, n, s)
<1>1. d[n].file \in Files(mets)
  BY Divs
<1>2. header \in BOOLEAN /\ updated \in BOOLEAN /\ old \in BOOLEAN /\ Closes(d, n) \in BOOLEAN
  BY DEF State, Closes
<1>3. /\ a \in State(mets) /\ a.inHeader = header /\ a.inUpdated = updated /\ a.inOld = old
      /\ a.updated = s.updated /\ a.old = s.old
  BY <1>2 DEF StartDiv, State
<1> HIDE DEF a, header, updated, old
<1>4. /\ b \in State(mets) /\ b.inHeader = header /\ b.inUpdated = updated /\ b.inOld = old
      /\ b.updated = IF d[n].file # NoFile /\ updated THEN d[n].file ELSE s.updated
      /\ b.old = IF d[n].file # NoFile /\ old THEN d[n].file ELSE s.old
  BY <1>1, <1>2, <1>3 DEF Fptr, State
<1>5. r = IF Closes(d, n) THEN EndDiv(b) ELSE b
  BY DEF ReadDiv, a
<1> HIDE DEF b
<1>6. /\ EndDiv(b) \in State(mets)
      /\ ~EndDiv(b).inHeader /\ ~EndDiv(b).inUpdated /\ ~EndDiv(b).inOld
      /\ EndDiv(b).updated = b.updated /\ EndDiv(b).old = b.old
  BY <1>4 DEF EndDiv, State
<1> HIDE DEF r
<1>7. /\ r \in State(mets) /\ r.updated = b.updated /\ r.old = b.old
      /\ r.inHeader = (header /\ ~Closes(d, n))
      /\ r.inUpdated = (updated /\ ~Closes(d, n))
      /\ r.inOld = (old /\ ~Closes(d, n))
  <2>1. CASE Closes(d, n)
    BY <1>2, <1>4, <1>5, <1>6, <2>1 DEF State
  <2>2. CASE ~Closes(d, n)
    BY <1>2, <1>4, <1>5, <2>2 DEF State
  <2> QED
    BY <2>1, <2>2
<1> QED
  BY <1>4, <1>7 DEF r, header, updated, old

\* A header that is open at a div is above it, and above its children.
LEMMA HeaderIsAbove ==
    ASSUME NEW mets, Document(mets), NEW n \in 1..Len(mets.divs), ~Closes(mets.divs, n),
           mets.divs[n].label = Header \/ Below(mets.divs, n)
    PROVE  n < Len(mets.divs) /\ Below(mets.divs, n + 1)
<1> DEFINE d == mets.divs
<1>1. /\ Len(d) \in Nat /\ DOMAIN d = 1..Len(d)
      /\ \A i \in 1..Len(d) : d[i].depth \in Nat
  BY Divs
<1>2. n < Len(d) /\ d[n + 1].depth > d[n].depth
  BY <1>1 DEF Closes
<1>3. PICK j \in 1..Len(d) : d[j].label = Header /\ (j = n \/ Above(d, j, n))
  BY <1>1 DEF Below
<1>4. j < n + 1 /\ d[n].depth >= d[j].depth
  BY <1>1, <1>3 DEF Above
<1>5. ASSUME NEW k \in (j + 1)..(n + 1) PROVE d[k].depth > d[j].depth
  <2>1. CASE k = n + 1
    BY <1>1, <1>2, <1>4, <2>1
  <2>2. CASE k # n + 1
    BY <1>1, <1>3, <2>2 DEF Above
  <2> QED
    BY <2>1, <2>2
<1>6. Above(d, j, n + 1)
  BY <1>4, <1>5 DEF Above
<1> QED
  BY <1>1, <1>2, <1>3, <1>6 DEF Below

\* One div further.
LEMMA FindsOn ==
    ASSUME NEW mets, Document(mets), NEW n \in 1..Len(mets.divs), NEW s \in State(mets),
           Found(mets.divs, n - 1, s)
    PROVE  LET r == ReadDiv(mets.divs, n, s) IN r \in State(mets) /\ Found(mets.divs, n, r)
<1> DEFINE d == mets.divs
           r == ReadDiv(d, n, s)
<1>0. /\ Len(d) \in Nat /\ DOMAIN d = 1..Len(d)
      /\ d[n].file # NoFile => Closes(d, n)
      /\ d[n].label \in {Old, Updated} => d[n].file # NoFile
  BY Divs
<1>1. /\ r \in State(mets)
      /\ r.inHeader = ((s.inHeader \/ d[n].label = Header) /\ ~Closes(d, n))
      /\ r.inUpdated = (d[n].label = Updated /\ ~Closes(d, n))
      /\ r.inOld = ((s.inHeader \/ d[n].label = Header) /\ d[n].label = Old /\ ~Closes(d, n))
      /\ r.updated = IF d[n].file # NoFile /\ d[n].label = Updated THEN d[n].file ELSE s.updated
      /\ r.old = IF d[n].file # NoFile /\ (s.inHeader \/ d[n].label = Header) /\ d[n].label = Old
                 THEN d[n].file ELSE s.old
  BY DivRead DEF Found
<1> HIDE DEF r
<1>2. ~r.inUpdated /\ ~r.inOld
  BY <1>0, <1>1
<1>3. s.inHeader => Below(d, n)
  BY <1>0 DEF Found
<1>4. r.inHeader => n < Len(d) /\ Below(d, n + 1)
  BY <1>1, <1>3, HeaderIsAbove
<1>5. LastUpdated(d, n, r.updated)
  <2>1. CASE d[n].label = Updated
    <3>1. r.updated = d[n].file
      BY <1>0, <1>1, <2>1
    <3> QED
      BY <2>1, <3>1 DEF LastUpdated
  <2>2. CASE d[n].label # Updated
    <3>1. r.updated = s.updated /\ LastUpdated(d, n - 1, s.updated)
      BY <1>1, <2>2 DEF Found
    <3>2. \A i \in 1..n : i = n \/ i \in 1..(n - 1)
      OBVIOUS
    <3>3. \A i \in 1..(n - 1) : i \in 1..n
      OBVIOUS
    <3>4. CASE s.updated = NoFile /\ \A i \in 1..(n - 1) : d[i].label # Updated
      BY <2>2, <3>1, <3>2, <3>4 DEF LastUpdated
    <3>5. CASE \E i \in 1..(n - 1) : /\ d[i].label = Updated /\ d[i].file = s.updated
                                     /\ \A j \in 1..(n - 1) : d[j].label = Updated => j <= i
      BY <2>2, <3>1, <3>2, <3>3, <3>5 DEF LastUpdated
    <3> QED
      BY <3>1, <3>4, <3>5 DEF LastUpdated
  <2> QED
    BY <2>1, <2>2
<1>6. r.old = NoFile \/ \E i \in 1..n : d[i].label = Old /\ d[i].file = r.old /\ Below(d, i)
  <2>1. CASE r.old = s.old
    <3>1. \A i \in 1..(n - 1) : i \in 1..n
      OBVIOUS
    <3> QED
      BY <2>1, <3>1 DEF Found
  <2>2. CASE r.old # s.old
    <3>1. d[n].label = Old /\ (s.inHeader \/ d[n].label = Header) /\ r.old = d[n].file
      BY <1>1, <2>2
    <3>2. s.inHeader
      BY <3>1 DEF Old, Header
    <3> QED
      BY <1>3, <3>1, <3>2
  <2> QED
    BY <2>1, <2>2
<1>7. Found(d, n, r)
  BY <1>2, <1>4, <1>5, <1>6 DEF Found
<1> QED
  BY <1>1, <1>7 DEF r

\* The whole scan.
LEMMA ScanFinds ==
    ASSUME NEW mets, Document(mets)
    PROVE  Scan(mets.divs) \in State(mets) /\ Found(mets.divs, Len(mets.divs), Scan(mets.divs))
<1> DEFINE d == mets.divs
<1>1. Len(d) \in Nat
  BY Divs
<1>2. PICK f : /\ Scan(d) = f[Len(d)]
               /\ f[0] = Outside
               /\ \A i \in 1..Len(d) : f[i] = ReadDiv(d, i, f[i - 1])
  BY <1>1, ScanStates
<1> DEFINE S == {n \in Nat : n <= Len(d) => f[n] \in State(mets) /\ Found(d, n, f[n])}
<1>3. 0 \in S
  <2>1. Outside \in State(mets) /\ Found(d, 0, Outside)
    BY DEF Outside, State, Files, Found, LastUpdated
  <2> QED
    BY <1>2, <2>1
<1>4. ASSUME NEW n \in S PROVE n + 1 \in S
  <2>1. SUFFICES ASSUME n + 1 <= Len(d)
                 PROVE  f[n + 1] \in State(mets) /\ Found(d, n + 1, f[n + 1])
    OBVIOUS
  <2>2. n \in Nat /\ n + 1 \in 1..Len(d) /\ n + 1 - 1 = n
    BY <1>1, <2>1
  <2>3. f[n] \in State(mets) /\ Found(d, n, f[n])
    BY <1>1, <2>1, <2>2
  <2>4. f[n + 1] = ReadDiv(d, n + 1, f[n])
    BY <1>2, <2>2
  <2> QED
    BY <2>2, <2>3, <2>4, FindsOn
<1>5. S = Nat
  BY <1>3, <1>4, SetInduction
<1> QED
  BY <1>1, <1>2, <1>5

\* For any tree of divs, what the scan of the METS file finds and has a path is a file
\* that is wanted of it.
THEOREM ParsesRight ==
    ASSUME NEW mets, Document(mets)
    PROVE  LET found == Parse(mets)
               file == IF found.updated # NoFile THEN found.updated ELSE found.old
           IN file = NoFile \/ file \in Wanted(mets)
<1> DEFINE d == mets.divs
           s == Scan(d)
           u == PathOf(mets.groups, s.updated)
           o == PathOf(mets.groups, s.old)
           old == {i \in Labelled(mets, Old) : Below(d, i)}
<1>1. Found(d, Len(d), s) /\ DOMAIN d = 1..Len(d)
  BY Divs, ScanFinds
<1>2. Parse(mets).updated = u /\ Parse(mets).old = o
  BY DEF Parse
<1>3. /\ u # NoFile => u = s.updated
      /\ o # NoFile => o = s.old
  BY DEF PathOf
<1>4. Wanted(mets) = {d[i].file : i \in IF Labelled(mets, Updated) # {}
                                        THEN Labelled(mets, Updated) ELSE old}
  BY DEF Wanted, Below
<1> HIDE DEF s
<1>5. CASE u # NoFile
  <2>1. s.updated # NoFile
    BY <1>5 DEF PathOf
  <2>2. PICK i \in 1..Len(d) : d[i].label = Updated /\ d[i].file = s.updated
    BY <1>1, <2>1 DEF Found, LastUpdated
  <2>3. i \in Labelled(mets, Updated)
    BY <1>1, <1>5, <2>2 DEF Labelled
  <2> QED
    BY <1>2, <1>3, <1>4, <1>5, <2>2, <2>3
<1>6. CASE u = NoFile /\ o # NoFile
  <2>1. s.old # NoFile
    BY <1>6 DEF PathOf
  <2>2. PICK i \in 1..Len(d) : d[i].label = Old /\ d[i].file = s.old /\ Below(d, i)
    BY <1>1, <2>1 DEF Found
  <2>3. i \in old
    BY <1>1, <1>6, <2>2 DEF Labelled
  <2>4. ASSUME NEW k \in Labelled(mets, Updated) PROVE FALSE
    <3>1. k \in 1..Len(d) /\ d[k].label = Updated
      BY <1>1 DEF Labelled
    <3>2. PICK m \in 1..Len(d) : /\ d[m].label = Updated /\ d[m].file = s.updated
                                 /\ \A j \in 1..Len(d) : d[j].label = Updated => j <= m
      BY <1>1, <3>1 DEF Found, LastUpdated
    <3>3. m = k \/ m > k
      BY <3>1, <3>2
    <3>4. m \in Labelled(mets, Updated)
      BY <1>1, <3>1, <3>2, <3>3 DEF Document
    <3> QED
      BY <1>6, <3>2, <3>4 DEF Labelled
  <2> QED
    BY <1>2, <1>3, <1>4, <1>6, <2>2, <2>3, <2>4
<1> QED
  BY <1>2, <1>5, <1>6

(***************************************************************************)
(* What the steps leave the workflow with.                                 *)
(***************************************************************************)

How == {"ok", "error", "stopped"}

\* A context that has ended stays so.
LEMMA PassedContext ==
    ASSUME NEW c \in Context
    PROVE  Passed(c) \in {"open", "done"} /\ (Passed(c) = "open" <=> c = "open")
BY DEF Passed, Context

\* What every step keeps of the workflow while it goes on.
Keeps(r) == /\ r.attempt = g.attempt /\ r.zipped = g.zipped /\ r.on = g.on
            /\ r.root = Passed(g.root) /\ r.lost = Passed(g.lost)

\* A step ahead.
LEMMA GotoAfter ==
    ASSUME TypeOK, NEW pc \in PC
    PROVE  /\ Goto(pc) \in Workflow /\ Keeps(Goto(pc)) /\ Goto(pc).pc = pc
           /\ Goto(pc).err = g.err /\ Goto(pc).by = g.by /\ Goto(pc).returned = g.returned
<1> DEFINE s == [g EXCEPT !.pc = pc]
<1>1. g \in Workflow /\ Passed(g.root) \in Context /\ Passed(g.lost) \in Context
  BY PassedContext DEF TypeOK, Workflow, Context
<1>2. /\ s \in Workflow /\ s.pc = pc /\ s.err = g.err /\ s.by = g.by
      /\ s.returned = g.returned /\ s.attempt = g.attempt /\ s.zipped = g.zipped
      /\ s.on = g.on /\ s.root = g.root /\ s.lost = g.lost
  BY <1>1 DEF Workflow
<1>3. Goto(pc) = [s EXCEPT !.root = Passed(g.root), !.lost = Passed(g.lost)]
  BY DEF Goto, Passed
<1> HIDE DEF s
<1> QED
  BY <1>1, <1>2, <1>3, ZenonT(30) DEF Keeps, Workflow

\* The end of the workflow.
LEMMA ReturnsAfter ==
    ASSUME TypeOK, NEW result \in {"result", "nothing", "error"}, NEW how \in How
    PROVE  /\ Returns(result, how) \in Workflow /\ Keeps(Returns(result, how))
           /\ Returns(result, how).pc = "ended" /\ Returns(result, how).returned = result
           /\ Returns(result, how).by = how /\ Returns(result, how).err = g.err
<1> DEFINE r == Goto("ended")
           s == [r EXCEPT !.returned = result]
<1>1. r \in Workflow /\ Keeps(r) /\ r.pc = "ended" /\ r.err = g.err
  BY GotoAfter DEF PC
<1>2. Returns(result, how) = [s EXCEPT !.by = how]
  BY DEF Returns
<1> HIDE DEF r
<1>3. s \in Workflow /\ Keeps(s) /\ s.pc = "ended" /\ s.returned = result /\ s.err = g.err
  BY <1>1 DEF Workflow, Keeps
<1> HIDE DEF s
<1>4. Returns(result, how) \in Workflow
  BY <1>2, <1>3 DEF Workflow, How
<1> QED
  BY <1>2, <1>3, <1>4 DEF Workflow, Keeps

\* A failure in the session.
LEMMA FailsAfter ==
    ASSUME TypeOK, NEW how \in How
    PROVE  /\ Fails(how) \in Workflow /\ Keeps(Fails(how)) /\ Fails(how).pc = "cleanup"
           /\ Fails(how).by = how /\ Fails(how).returned = g.returned
           /\ Fails(how).err = IF how = "stopped" THEN "stopped" ELSE "plain"
<1> DEFINE r == Goto("cleanup")
           kind == IF how = "stopped" THEN "stopped" ELSE "plain"
           s == [r EXCEPT !.err = kind]
<1>1. r \in Workflow /\ Keeps(r) /\ r.pc = "cleanup" /\ r.returned = g.returned
  BY GotoAfter DEF PC, InSession
<1>2. Fails(how) = [s EXCEPT !.by = how]
  BY DEF Fails
<1>3. kind \in {"plain", "stopped"}
  OBVIOUS
<1> HIDE DEF r, kind
<1>4. s \in Workflow /\ Keeps(s) /\ s.pc = "cleanup" /\ s.err = kind /\ s.returned = g.returned
  BY <1>1, <1>3 DEF Workflow, Keeps
<1> HIDE DEF s
<1>5. Fails(how) \in Workflow
  BY <1>2, <1>4 DEF Workflow, How
<1>6. /\ Keeps(Fails(how)) /\ Fails(how).pc = "cleanup" /\ Fails(how).err = kind
      /\ Fails(how).by = how /\ Fails(how).returned = g.returned
  BY <1>2, <1>4 DEF Workflow, Keeps
<1> QED
  BY <1>5, <1>6 DEF kind

\* The session loop: a stopped session is repeated unless the workflow is canceled.
LEMMA AfterSessionAfter ==
    ASSUME TypeOK, NEW err \in {"none", "plain", "stopped"}, NEW how \in How
    PROVE  LET r == AfterSession(err, how) IN
           /\ r \in Workflow /\ r.attempt = g.attempt /\ r.by = how
           /\ r.root = "open" => g.root = "open"
           /\ \/ r.pc = "retry" /\ err = "stopped" /\ r.returned = g.returned
              \/ r.pc = "ended" /\ r.returned = "nothing"
              \/ r.pc = "ended" /\ r.returned = "error" /\ err = "plain"
              \/ r.pc = "ended" /\ r.returned = "result" /\ err = "none"
<1>1. g \in Workflow /\ g.root \in Context
  BY DEF TypeOK, Workflow
<1>2. \A result \in {"result", "nothing", "error"} :
        LET s == Returns(result, how) IN
        /\ s \in Workflow /\ s.attempt = g.attempt /\ s.by = how /\ s.pc = "ended"
        /\ s.returned = result /\ (s.root = "open" => g.root = "open")
  BY <1>1, ReturnsAfter, PassedContext DEF Keeps
<1>3. CASE err = "stopped" /\ g.root = "open"
  <2> DEFINE s == [[g EXCEPT !.pc = "retry"] EXCEPT !.err = err]
  <2>1. AfterSession(err, how) = [s EXCEPT !.by = how]
    BY <1>3 DEF AfterSession
  <2>2. /\ s \in Workflow /\ s.pc = "retry" /\ s.returned = g.returned
        /\ s.attempt = g.attempt /\ s.root = g.root
    BY <1>1 DEF Workflow, PC
  <2> HIDE DEF s
  <2> QED
    BY <1>3, <2>1, <2>2 DEF Workflow, How
<1>4. CASE err # "none" /\ ~(err = "stopped" /\ g.root = "open")
  <2> DEFINE result == IF err = "stopped" THEN "nothing" ELSE "error"
             s == Returns(result, how)
  <2>1. AfterSession(err, how) = [s EXCEPT !.err = err]
    BY <1>4 DEF AfterSession
  <2>2. /\ s \in Workflow /\ s.attempt = g.attempt /\ s.by = how /\ s.pc = "ended"
        /\ s.returned = result /\ (s.root = "open" => g.root = "open")
    BY <1>2
  <2> HIDE DEF s
  <2>3. LET r == [s EXCEPT !.err = err] IN
        /\ r \in Workflow /\ r.attempt = g.attempt /\ r.by = how /\ r.pc = "ended"
        /\ r.returned = result /\ (r.root = "open" => g.root = "open")
    BY <2>2 DEF Workflow
  <2> QED
    BY <1>4, <2>1, <2>3
<1>5. CASE err = "none"
  <2>1. AfterSession(err, how) = Returns("result", how)
    BY <1>5 DEF AfterSession
  <2> QED
    BY <1>2, <1>5, <2>1
<1> QED
  BY <1>3, <1>4, <1>5

\* A new session, on a worker.
LEMMA SessionAfter ==
    ASSUME TypeOK, NEW w \in Workers
    PROVE  LET r == [Goto("mets") EXCEPT !.on = w, !.lost = "open", !.err = "none",
                                         !.by = "ok", !.zipped = FALSE]
           IN  /\ r \in Workflow /\ r.pc = "mets" /\ r.on = w /\ r.err = "none"
               /\ r.by = "ok" /\ ~r.zipped /\ r.returned = g.returned
<1> DEFINE s == [Goto("mets") EXCEPT !.on = w, !.lost = "open"]
           t == [s EXCEPT !.err = "none", !.by = "ok"]
<1>1. Goto("mets") \in Workflow /\ Goto("mets").pc = "mets" /\ Goto("mets").returned = g.returned
  BY GotoAfter DEF PC, InSession
<1>2. s \in Workflow /\ s.pc = "mets" /\ s.on = w /\ s.returned = g.returned
  BY <1>1 DEF Workflow, Context
<1> HIDE DEF s
<1>3. /\ t \in Workflow /\ t.pc = "mets" /\ t.on = w /\ t.err = "none" /\ t.by = "ok"
      /\ t.returned = g.returned
  BY <1>2 DEF Workflow
<1>4. [Goto("mets") EXCEPT !.on = w, !.lost = "open", !.err = "none",
                           !.by = "ok", !.zipped = FALSE] = [t EXCEPT !.zipped = FALSE]
  BY DEF s
<1> HIDE DEF t
<1> QED
  BY <1>3, <1>4 DEF Workflow

(***************************************************************************)
(* The metadata file.                                                      *)
(***************************************************************************)

\* The file that is chosen is listed in the METS file of the AIP.
LEMMA ChosenIsListed ==
    ASSUME TypeOK
    PROVE  Chosen = NoFile \/ Chosen \in FileIds
<1>1. aip \in AIPs
  BY DEF TypeOK
<1>2. ASSUME NEW file PROVE PathOf(aip.groups, file) \in FileIds \cup {NoFile}
  BY <1>1 DEF PathOf, FileIds
<1>3. Parse(aip).updated \in FileIds \cup {NoFile} /\ Parse(aip).old \in FileIds \cup {NoFile}
  BY <1>2 DEF Parse
<1>4. Chosen = IF Parse(aip).updated # NoFile THEN Parse(aip).updated ELSE Parse(aip).old
  BY <1>1 DEF Chosen, Choice
<1> QED
  BY <1>3, <1>4

\* What may be written into a directory.
LEMMA Contents ==
    ASSUME TypeOK, NEW d \in Directory
    PROVE  /\ \A c \in Content : /\ [d EXCEPT !.mets = c] \in Directory
                                 /\ [d EXCEPT !.metadata = c] \in Directory
                                 /\ [d EXCEPT !.ais = c] \in Directory
           /\ {"none", "part", "METS"} \subseteq Content /\ Bare \in Directory
           /\ Combined(d) \in Content \ {"none"}
           /\ Chosen # NoFile => Chosen \in Content \ {"none", "part", "METS"}
           /\ \A m, c, a \in Content : [mets |-> m, metadata |-> c, ais |-> a] \in Directory
<1>1. Combined(d) \in FileIds \cup {"part"}
  BY DEF Combined
<1>2. "none" \notin FileIds /\ "part" \notin FileIds /\ "METS" \notin FileIds
  BY CantonsAssumption
<1> QED
  BY <1>1, <1>2, ChosenIsListed DEF Directory, Content, Bare

(***************************************************************************)
(* The inductive invariant.                                                *)
(***************************************************************************)

\* A directory that is the METS file and the metadata that was chosen.
Bundle(d) == Chosen # NoFile /\ d = [Bare EXCEPT !.ais = Chosen]

\* Sessions run on workers, and fetch metadata that was found.
Placed ==
    /\ g.pc \in InSession => g.on \in Workers
    /\ g.pc = "metadata" => Chosen # NoFile
    /\ \A w \in Workers : late[w] = "metadata" => Chosen # NoFile

\* Something was combined, zipped and uploaded.
Built ==
    /\ g.pc = "zip" => Here.ais # "none"
    /\ g.pc = "upload" => disk[g.on].zip.ais # "none"
    /\ g.pc = "cleanup" /\ g.err = "none" => bucket # Bare
    /\ g.returned = "result" => bucket # Bare

\* As long as no late download disturbed it, it is what it should be.  The directory
\* of a lost session may be written to, but the steps after the one in which it was
\* lost do not run.
Building ==
    /\ g.lost = "open" =>
          /\ g.pc \in {"metadata", "combine"} => Here.mets = "METS"
          /\ g.pc = "combine" => Chosen # NoFile /\ Here.metadata = Chosen
          /\ g.pc = "zip" => Bundle(Here)
    /\ g.pc = "upload" /\ g.lost # "done" => Bundle(disk[g.on].zip)
    /\ bucket # Bare => Bundle(bucket)
    /\ upload # Bare => Bundle(upload)

\* Files are on the worker of the session, or on one that has been given up.
Swept ==
    \A w \in Workers :
        disk[w] # Empty /\ w \notin left =>
            g.pc \in InSession /\ g.on = w /\ (disk[w].zip # Bare => g.zipped)

\* A stopped step is told by the error of the handler until the workflow returns.
Told ==
    /\ g.pc = "path" => g.lost = "open"
    /\ g.pc # "ended" => g.returned = ""
    /\ g.pc \in InSession /\ g.by = "stopped" => g.err = "stopped"
    /\ g.pc \in InSession \ {"cleanup"} => g.err = "none"
    /\ g.returned = "error" /\ g.by = "stopped" /\ g.root = "open" => g.attempt = MaxSessions

IInv == TypeOK /\ Placed /\ Built /\ (~disturbed => Building) /\ Swept /\ Told

\* A step of the session that writes to its directory and goes on.
LEMMA Ahead ==
    ASSUME IInv, NEW c \in Directory, NEW pc \in {"parse", "metadata", "combine", "zip"},
           g.pc \in {"mets", "parse", "metadata", "combine"},
           disk' = [disk EXCEPT ![g.on].dir = c], g' = Goto(pc), Locally,
           pc = "metadata" => Chosen # NoFile,
           pc = "zip" => c.ais # "none",
           ~disturbed /\ g.lost = "open" =>
               /\ pc \in {"metadata", "combine"} => c.mets = "METS"
               /\ pc = "combine" => Chosen # NoFile /\ c.metadata = Chosen
               /\ pc = "zip" => Bundle(c)
    PROVE  IInv'
<1>1. /\ TypeOK /\ g.on \in Workers /\ disk \in [Workers -> Disk] /\ g \in Workflow
      /\ g.pc \in InSession /\ pc \in InSession /\ pc \in PC
  BY DEF IInv, TypeOK, Placed, InSession, PC
<1>2. /\ aip' = aip /\ bucket' = bucket /\ upload' = upload /\ late' = late
      /\ left' = left /\ disturbed' = disturbed /\ Chosen' = Chosen
  BY DEF Locally, Elsewhere, Chosen
<1>3. /\ g' \in Workflow /\ g'.pc = pc /\ g'.on = g.on /\ g'.err = g.err /\ g'.by = g.by
      /\ g'.returned = g.returned /\ g'.zipped = g.zipped /\ g'.attempt = g.attempt
      /\ g'.root = Passed(g.root) /\ g'.lost = Passed(g.lost)
  BY <1>1, GotoAfter DEF Keeps
<1>4. /\ (g'.root = "open" => g.root = "open") /\ (g'.lost = "open" => g.lost = "open")
  BY <1>1, <1>3, PassedContext DEF Workflow
<1>5. /\ disk' \in [Workers -> Disk] /\ disk'[g.on].dir = c /\ disk'[g.on].zip = disk[g.on].zip
      /\ \A w \in Workers : w # g.on => disk'[w] = disk[w]
  BY <1>1 DEF Disk
<1>6. Here' = c
  BY <1>3, <1>5 DEF Here
<1>7. TypeOK'
  BY <1>1, <1>2, <1>3, <1>5 DEF TypeOK
<1>8. Placed'
  BY <1>1, <1>2, <1>3 DEF IInv, Placed
<1>9. Built' /\ Told'
  BY <1>1, <1>2, <1>3, <1>4, <1>6 DEF IInv, Built, Told, InSession
<1>10. ~disturbed' => Building'
  BY <1>2, <1>3, <1>4, <1>6 DEF IInv, Building, Bundle
<1>11. Swept'
  <2>1. \A w \in Workers : w # g.on /\ disk'[w] # Empty /\ w \notin left' => FALSE
    BY <1>2, <1>5 DEF IInv, Swept
  <2>2. disk'[g.on].zip # Bare /\ g.on \notin left => g.zipped
    <3>1. disk[g.on].zip # Bare => disk[g.on] # Empty
      BY DEF Empty
    <3> QED
      BY <1>1, <1>5, <3>1 DEF IInv, Swept
  <2> QED
    BY <1>1, <1>2, <1>3, <2>1, <2>2 DEF Swept
<1> QED
  BY <1>7, <1>8, <1>9, <1>10, <1>11 DEF IInv

\* A step of the session that fails, whatever it wrote to the directory.
LEMMA Failing ==
    ASSUME IInv, NEW c \in Directory, NEW how \in How,
           g.pc \in {"mets", "parse", "metadata", "combine"},
           disk' = [disk EXCEPT ![g.on].dir = c], g' = Fails(how), Locally
    PROVE  IInv'
<1>1. /\ TypeOK /\ g.on \in Workers /\ disk \in [Workers -> Disk] /\ g \in Workflow
      /\ g.pc \in InSession
  BY DEF IInv, TypeOK, Placed, InSession
<1>2. /\ aip' = aip /\ bucket' = bucket /\ upload' = upload /\ late' = late
      /\ left' = left /\ disturbed' = disturbed /\ Chosen' = Chosen
  BY DEF Locally, Elsewhere, Chosen
<1>3. /\ g' \in Workflow /\ g'.pc = "cleanup" /\ g'.on = g.on /\ g'.by = how
      /\ g'.err = IF how = "stopped" THEN "stopped" ELSE "plain"
      /\ g'.returned = g.returned /\ g'.zipped = g.zipped
  BY <1>1, FailsAfter DEF Keeps
<1>4. /\ disk' \in [Workers -> Disk] /\ disk'[g.on].zip = disk[g.on].zip
      /\ \A w \in Workers : w # g.on => disk'[w] = disk[w]
  BY <1>1 DEF Disk
<1>5. g.returned = ""
  BY DEF IInv, Told
<1>6. TypeOK' /\ Placed' /\ Built' /\ Told'
  <2>1. TypeOK'
    BY <1>1, <1>2, <1>3, <1>4 DEF TypeOK
  <2>2. Placed' /\ Built' /\ Told'
    BY <1>1, <1>2, <1>3, <1>5 DEF IInv, Placed, Built, Told, InSession
  <2> QED
    BY <2>1, <2>2
<1>7. ~disturbed' => Building'
  BY <1>2, <1>3 DEF IInv, Building, Bundle
<1>8. Swept'
  <2>1. \A w \in Workers : w # g.on /\ disk'[w] # Empty /\ w \notin left' => FALSE
    BY <1>2, <1>4 DEF IInv, Swept
  <2>2. disk'[g.on].zip # Bare /\ g.on \notin left => g.zipped
    <3>1. disk[g.on].zip # Bare => disk[g.on] # Empty
      BY DEF Empty
    <3> QED
      BY <1>1, <1>4, <3>1 DEF IInv, Swept
  <2> QED
    BY <1>2, <1>3, <2>1, <2>2 DEF Swept, InSession
<1> QED
  BY <1>6, <1>7, <1>8 DEF IInv

\* The steps that fetch, parse and combine.
LEMMA DirectorySteps ==
    ASSUME IInv, FetchMETS \/ ParseMETS \/ FetchMetadata \/ CombineMD
    PROVE  IInv'
<1>1. TypeOK /\ g.on \in Workers /\ Here \in Directory /\ disk \in [Workers -> Disk]
  <2>1. TypeOK /\ g.on \in Workers
    BY DEF IInv, Placed, FetchMETS, ParseMETS, FetchMetadata, CombineMD, InSession
  <2> QED
    BY <2>1 DEF TypeOK, Disk, Here
<1>2. disk = [disk EXCEPT ![g.on].dir = Here]
  BY <1>1 DEF Here, Disk
<1>3. ASSUME NEW contents \in SUBSET Directory, FailsWith(contents), Locally,
             g.pc \in {"mets", "parse", "metadata", "combine"}
      PROVE  IInv'
  <2>1. PICK how \in {"error", "stopped"}, c \in contents \cup {Here} :
           disk' = [disk EXCEPT ![g.on].dir = c] /\ g' = Fails(how)
    BY <1>3 DEF FailsWith, Dir
  <2> QED
    BY <1>1, <1>3, <2>1, Failing DEF How
<1>4. CASE FetchMETS
  <2>1. {Here} \cup {[Here EXCEPT !.mets = c] : c \in {"part", "METS"}} \in SUBSET Directory
        /\ [Here EXCEPT !.mets = "METS"] \in Directory
    BY <1>1, Contents
  <2> QED
    BY <1>3, <1>4, <2>1, Ahead DEF FetchMETS, Dir
<1>5. CASE ParseMETS
  <2>1. ASSUME Chosen = NoFile, g' = Fails("ok"), disk' = disk
        PROVE  IInv'
    BY <1>1, <1>2, <1>5, <2>1, Failing DEF ParseMETS, How
  <2>2. ASSUME Chosen # NoFile, Here.mets = "METS", g' = Goto("metadata"), disk' = disk
        PROVE  IInv'
    BY <1>1, <1>2, <1>5, <2>2, Ahead DEF ParseMETS
  <2> QED
    BY <1>1, <1>3, <1>5, <2>1, <2>2 DEF ParseMETS
<1>6. CASE FetchMetadata
  <2>1. Chosen # NoFile
    BY <1>6 DEF FetchMetadata, IInv, Placed
  <2>2. Chosen \in Content /\ "part" \in Content
    BY <1>1, <2>1, Contents
  <2>3. {Here} \cup {[Here EXCEPT !.metadata = c] : c \in {"part", Chosen}} \in SUBSET Directory
        /\ [Here EXCEPT !.metadata = Chosen] \in Directory
    BY <1>1, <2>2, Contents
  <2>4. CASE disk' = [disk EXCEPT ![g.on].dir = [Here EXCEPT !.metadata = Chosen]]
             /\ g' = Goto("combine")
    <3> DEFINE c == [Here EXCEPT !.metadata = Chosen]
    <3>1. c.metadata = Chosen /\ c.mets = Here.mets
      BY <1>1 DEF Directory
    <3>2. ~disturbed /\ g.lost = "open" => Here.mets = "METS"
      BY <1>6 DEF IInv, Building, FetchMetadata
    <3>3. c \in Directory /\ disk' = [disk EXCEPT ![g.on].dir = c]
      BY <2>3, <2>4
    <3>4. g.pc = "metadata" /\ Locally
      BY <1>6 DEF FetchMetadata
    <3> HIDE DEF c
    <3> QED
      BY <2>1, <2>4, <3>1, <3>2, <3>3, <3>4, Ahead
  <2> QED
    BY <1>3, <1>6, <2>3, <2>4 DEF FetchMetadata, Dir
<1>7. CASE CombineMD
  <2> DEFINE c == [Bare EXCEPT !.ais = Combined(Here)]
             written == {Here} \cup
                    IF Here.metadata = "none" \/ Here.mets = "none" THEN {}
                    ELSE {[Here EXCEPT !.ais = "part"]} \cup
                         {[mets |-> m, metadata |-> d, ais |-> Combined(Here)]
                            : m \in {"none", Here.mets}, d \in {"none", Here.metadata}}
  <2>1. Combined(Here) \in Content \ {"none"} /\ "part" \in Content /\ "none" \in Content
        /\ Here.mets \in Content /\ Here.metadata \in Content /\ Bare \in Directory
    BY <1>1, Contents DEF Directory
  <2>2. written \in SUBSET Directory
    <3>1. [Here EXCEPT !.ais = "part"] \in Directory
      BY <1>1, <2>1, Contents
    <3>2. \A m \in {"none", Here.mets}, d \in {"none", Here.metadata} :
            [mets |-> m, metadata |-> d, ais |-> Combined(Here)] \in Directory
      BY <2>1 DEF Directory
    <3> QED
      BY <1>1, <3>1, <3>2
  <2>3. c \in Directory /\ c.ais = Combined(Here)
    BY <1>1, <2>1, Contents DEF Bare
  <2>4. ~disturbed /\ g.lost = "open" => Bundle(c)
    <3> SUFFICES ASSUME ~disturbed, g.lost = "open"
                 PROVE  Bundle(c)
      OBVIOUS
    <3>1. Here.mets = "METS" /\ Here.metadata = Chosen /\ Chosen # NoFile
      BY <1>7 DEF IInv, Building, CombineMD
    <3>2. Chosen \in FileIds
      BY <1>1, <3>1, ChosenIsListed
    <3>3. Combined(Here) = Chosen
      BY <3>1, <3>2 DEF Combined
    <3> QED
      BY <3>1, <3>3 DEF Bundle
  <2>5. \/ disk' = [disk EXCEPT ![g.on].dir = c] /\ g' = Goto("zip")
        \/ FailsWith(written)
    BY <1>7 DEF CombineMD, Dir
  <2>6. g.pc = "combine" /\ Locally
    BY <1>7 DEF CombineMD
  <2> HIDE DEF c, written
  <2>7. CASE disk' = [disk EXCEPT ![g.on].dir = c] /\ g' = Goto("zip")
    BY <2>1, <2>3, <2>4, <2>6, <2>7, Ahead
  <2> QED
    BY <1>3, <2>2, <2>5, <2>6, <2>7
<1> QED
  BY <1>4, <1>5, <1>6, <1>7

\* The ZIP holds what is in the directory.
LEMMA ZipStep ==
    ASSUME IInv, ArchiveZip
    PROVE  IInv'
<1>1. /\ TypeOK /\ g.on \in Workers /\ disk \in [Workers -> Disk] /\ g \in Workflow
      /\ g.pc = "zip" /\ g.returned = "" /\ g.err = "none" /\ g.by # "stopped"
  BY DEF IInv, TypeOK, Placed, Told, ArchiveZip, InSession
<1>2. /\ aip' = aip /\ bucket' = bucket /\ upload' = upload /\ late' = late
      /\ disturbed' = disturbed /\ Chosen' = Chosen
  BY DEF ArchiveZip, Elsewhere, Chosen
<1>3. Here \in Directory /\ Broken \in Directory /\ disk[g.on].zip \in Directory
  BY <1>1 DEF Here, Disk, Broken, Directory, Content
<1>4. ASSUME NEW c \in Directory, disk' = [disk EXCEPT ![g.on].zip = c]
      PROVE  /\ disk' \in [Workers -> Disk] /\ disk'[g.on].zip = c
             /\ \A w \in Workers : w # g.on => disk'[w] = disk[w]
  BY <1>1, <1>4 DEF Disk
<1>5. CASE Ends("ok") /\ Zip(Here) /\ g' = [Goto("upload") EXCEPT !.zipped = TRUE] /\ left' = left
  <2>1. /\ Goto("upload") \in Workflow /\ Keeps(Goto("upload")) /\ Goto("upload").pc = "upload"
        /\ Goto("upload").err = g.err /\ Goto("upload").by = g.by
        /\ Goto("upload").returned = g.returned
    BY <1>1, GotoAfter DEF PC, InSession
  <2>2. /\ g' \in Workflow /\ g'.pc = "upload" /\ g'.err = "none" /\ g'.by # "stopped"
        /\ g'.on = g.on /\ g'.zipped /\ g'.returned = "" /\ g'.lost = Passed(g.lost)
    BY <1>1, <1>5, <2>1 DEF Workflow, Keeps
  <2>3. disk' \in [Workers -> Disk] /\ disk'[g.on].zip = Here
        /\ \A w \in Workers : w # g.on => disk'[w] = disk[w]
    BY <1>3, <1>4, <1>5 DEF Zip
  <2>4. g'.lost # "done" => g.lost = "open"
    BY <1>1, <2>2, PassedContext DEF Workflow
  <2>5. TypeOK'
    BY <1>1, <1>2, <1>5, <2>2, <2>3 DEF TypeOK
  <2>6. Placed' /\ Built' /\ Told'
    BY <1>1, <1>2, <2>2, <2>3 DEF IInv, Placed, Built, Told, InSession
  <2>7. ~disturbed' => Building'
    BY <1>1, <1>2, <2>2, <2>3, <2>4 DEF IInv, Building, Bundle
  <2>8. Swept'
    BY <1>1, <1>5, <2>2, <2>3 DEF IInv, Swept, InSession
  <2> QED
    BY <2>5, <2>6, <2>7, <2>8 DEF IInv
<1>6. ASSUME NEW how \in {"error", "stopped"}, NEW c \in Directory, Zip(c), g' = Fails(how),
             left' = left \cup {g.on}
      PROVE  IInv'
  <2>1. /\ g' \in Workflow /\ g'.pc = "cleanup" /\ g'.on = g.on /\ g'.by = how
        /\ g'.err = IF how = "stopped" THEN "stopped" ELSE "plain"
        /\ g'.returned = ""
    BY <1>1, <1>6, FailsAfter DEF Keeps, How
  <2>2. disk' \in [Workers -> Disk] /\ \A w \in Workers : w # g.on => disk'[w] = disk[w]
    BY <1>4, <1>6 DEF Zip
  <2>3. TypeOK'
    BY <1>1, <1>2, <1>6, <2>1, <2>2 DEF TypeOK
  <2>4. Placed' /\ Built' /\ Told'
    BY <1>1, <1>2, <2>1 DEF IInv, Placed, Built, Told, InSession
  <2>5. ~disturbed' => Building'
    BY <1>2, <2>1 DEF IInv, Building, Bundle
  <2>6. Swept'
    BY <1>6, <2>2 DEF IInv, Swept
  <2> QED
    BY <2>3, <2>4, <2>5, <2>6 DEF IInv
<1> QED
  BY <1>3, <1>5, <1>6 DEF ArchiveZip

\* What is uploaded is the ZIP of the session.
LEMMA UploadStep ==
    ASSUME IInv, BucketUpload
    PROVE  IInv'
<1>1. /\ TypeOK /\ g.on \in Workers /\ disk \in [Workers -> Disk] /\ g \in Workflow
      /\ g.pc = "upload" /\ g.returned = "" /\ g.err = "none" /\ g.by # "stopped"
  BY DEF IInv, TypeOK, Placed, Told, BucketUpload, InSession
<1>2. /\ aip' = aip /\ disk' = disk /\ left' = left /\ upload' = upload /\ late' = late
      /\ disturbed' = disturbed /\ Chosen' = Chosen
  BY DEF BucketUpload, Elsewhere, Chosen
<1>3. PICK how \in How :
        /\ Ends(how)
        /\ bucket' \in IF how = "ok" THEN {disk[g.on].zip}
                       ELSE {bucket} \cup IF Runnable THEN {disk[g.on].zip} ELSE {}
        /\ g' = IF how = "ok" THEN Goto("cleanup") ELSE Fails(how)
  BY DEF BucketUpload, How
<1>4. disk[g.on].zip \in Directory /\ disk[g.on].zip # Bare
  <2>1. disk[g.on].zip.ais # "none"
    BY <1>1 DEF IInv, Built
  <2>2. Bare.ais = "none"
    BY DEF Bare
  <2>3. disk[g.on] \in Disk
    BY <1>1
  <2> QED
    BY <2>1, <2>2, <2>3 DEF Disk
<1>5. bucket' = bucket \/ (bucket' = disk[g.on].zip /\ g.lost # "done")
  BY <1>3 DEF Ends, Runnable
<1>6. /\ g' \in Workflow /\ g'.pc = "cleanup" /\ g'.on = g.on
      /\ g'.zipped = g.zipped /\ g'.returned = ""
      /\ g'.by = "stopped" => g'.err = "stopped"
      /\ g'.err = "none" => bucket' # Bare
  <2>1. CASE how = "ok"
    BY <1>1, <1>3, <1>4, <2>1, GotoAfter DEF Keeps, PC, InSession
  <2>2. CASE how # "ok"
    BY <1>1, <1>3, <2>2, FailsAfter DEF Keeps
  <2> QED
    BY <2>1, <2>2
<1>7. TypeOK'
  BY <1>1, <1>2, <1>4, <1>5, <1>6 DEF TypeOK
<1>8. Placed' /\ Built' /\ Told'
  BY <1>1, <1>2, <1>6 DEF IInv, Placed, Built, Told, InSession
<1>9. ~disturbed' => Building'
  <2>1. ~disturbed /\ g.lost # "done" => Bundle(disk[g.on].zip)
    BY <1>1 DEF IInv, Building
  <2> QED
    BY <1>2, <1>5, <1>6, <2>1 DEF IInv, Building, Bundle
<1>10. Swept'
  BY <1>1, <1>2, <1>6 DEF IInv, Swept, InSession
<1> QED
  BY <1>7, <1>8, <1>9, <1>10 DEF IInv

\* The removal at the end of a session, and where the session loop goes.
LEMMA CleanupStep ==
    ASSUME IInv, Cleanup
    PROVE  IInv'
<1>1. /\ TypeOK /\ g.on \in Workers /\ disk \in [Workers -> Disk] /\ g \in Workflow
      /\ g.pc = "cleanup" /\ g.returned = "" /\ (g.by = "stopped" => g.err = "stopped")
  BY DEF IInv, TypeOK, Placed, Told, Cleanup, InSession
<1>2. /\ aip' = aip /\ bucket' = bucket /\ upload' = upload /\ late' = late
      /\ disturbed' = disturbed /\ Chosen' = Chosen
  BY DEF Cleanup, Elsewhere, Chosen
<1>3. PICK err \in {"none", "plain", "stopped"}, how \in How :
        /\ g' = AfterSession(err, how)
        /\ err = "none" => g.err = "none"
        /\ how = "stopped" => err = "stopped"
  <2>1. ASSUME NEW how \in {"error", "stopped"},
               g' = AfterSession(Joined(g.err, how), IF g.by = "stopped" THEN g.by ELSE how)
        PROVE  \E err \in {"none", "plain", "stopped"}, by \in How :
                  /\ g' = AfterSession(err, by)
                  /\ err = "none" => g.err = "none"
                  /\ by = "stopped" => err = "stopped"
    <3> DEFINE by == IF g.by = "stopped" THEN g.by ELSE how
    <3>1. Joined(g.err, how) \in {"plain", "stopped"} /\ by \in How
          /\ (by = "stopped" => Joined(g.err, how) = "stopped")
      BY <1>1 DEF Joined, How
    <3> QED
      BY <2>1, <3>1
  <2>2. ASSUME g' = AfterSession(g.err, g.by)
        PROVE  \E err \in {"none", "plain", "stopped"}, by \in How :
                  /\ g' = AfterSession(err, by)
                  /\ err = "none" => g.err = "none"
                  /\ by = "stopped" => err = "stopped"
    BY <1>1, <2>2 DEF Workflow, How
  <2> QED
    BY <2>1, <2>2 DEF Cleanup
<1>4. /\ g' \in Workflow /\ g'.attempt = g.attempt /\ g'.by = how
      /\ \/ g'.pc = "retry" /\ g'.returned = ""
         \/ g'.pc = "ended" /\ g'.returned = "nothing"
         \/ g'.pc = "ended" /\ g'.returned = "error" /\ err = "plain"
         \/ g'.pc = "ended" /\ g'.returned = "result" /\ err = "none"
  <2>1. LET r == AfterSession(err, how) IN
        /\ r \in Workflow /\ r.attempt = g.attempt /\ r.by = how
        /\ r.root = "open" => g.root = "open"
        /\ \/ r.pc = "retry" /\ err = "stopped" /\ r.returned = g.returned
           \/ r.pc = "ended" /\ r.returned = "nothing"
           \/ r.pc = "ended" /\ r.returned = "error" /\ err = "plain"
           \/ r.pc = "ended" /\ r.returned = "result" /\ err = "none"
    <3>1. TypeOK
      BY <1>1
    <3> QED
      BY <3>1, AfterSessionAfter
  <2> DEFINE r == AfterSession(err, how)
  <2>2. g' = r
    BY <1>3
  <2> HIDE DEF r
  <2>3. r = AfterSession(err, how)
    BY DEF r
  <2>4. /\ r \in Workflow /\ r.attempt = g.attempt /\ r.by = how
        /\ \/ r.pc = "retry" /\ err = "stopped" /\ r.returned = g.returned
           \/ r.pc = "ended" /\ r.returned = "nothing"
           \/ r.pc = "ended" /\ r.returned = "error" /\ err = "plain"
           \/ r.pc = "ended" /\ r.returned = "result" /\ err = "none"
    BY <2>1, <2>3
  <2> QED
    BY <1>1, <2>2, <2>4
<1>5. \/ /\ disk' = [disk EXCEPT ![g.on] = Removed]
         /\ left' = IF g.zipped THEN left \ {g.on} ELSE left
      \/ /\ disk' \in {disk, [disk EXCEPT ![g.on].dir = Bare]}
         /\ left' = left \cup {g.on}
  BY DEF Cleanup
<1>6. Bare \in Directory /\ disk[g.on].zip \in Directory
  BY <1>1 DEF Bare, Directory, Content, Disk
<1>7. disk' \in [Workers -> Disk] /\ \A w \in Workers : w # g.on => disk'[w] = disk[w]
  <2>1. Removed \in Disk
    BY <1>6 DEF Disk, Removed
  <2>2. disk[g.on] \in Disk
    BY <1>1
  <2>3. [disk[g.on] EXCEPT !.dir = Bare] \in Disk
    BY <1>6, <2>2 DEF Disk
  <2>4. [disk EXCEPT ![g.on].dir = Bare] = [disk EXCEPT ![g.on] = [disk[g.on] EXCEPT !.dir = Bare]]
    OBVIOUS
  <2> QED
    BY <1>1, <1>5, <2>1, <2>3, <2>4
<1>8. \A w \in Workers : disk'[w] # Empty => w \in left'
  <2>1. ASSUME NEW w \in Workers, w # g.on, disk'[w] # Empty
        PROVE  w \in left'
    <3>1. w \in left
      BY <1>7, <2>1 DEF IInv, Swept
    <3> QED
      BY <1>5, <2>1, <3>1
  <2>2. ASSUME disk'[g.on] # Empty
        PROVE  g.on \in left'
    <3>1. CASE disk' = [disk EXCEPT ![g.on] = Removed] /\ ~g.zipped /\ left' = left
      <4>1. disk'[g.on] = [dir |-> Bare, zip |-> disk[g.on].zip]
        BY <1>1, <3>1 DEF Removed
      <4>2. disk[g.on].zip # Bare
        BY <2>2, <4>1 DEF Empty
      <4>3. disk[g.on] # Empty
        BY <4>2 DEF Empty
      <4> QED
        BY <1>1, <3>1, <4>2, <4>3 DEF IInv, Swept
    <3>2. CASE disk' = [disk EXCEPT ![g.on] = Removed] /\ g.zipped
      BY <1>1, <2>2, <3>2 DEF Removed, Empty
    <3> QED
      BY <1>5, <3>1, <3>2
  <2> QED
    BY <2>1, <2>2
<1>9. TypeOK'
  <2>1. left' \subseteq Workers
    BY <1>1, <1>5 DEF TypeOK
  <2> QED
    BY <1>1, <1>2, <1>4, <1>7, <2>1 DEF TypeOK
<1>10. Placed' /\ Built' /\ Told' /\ Swept'
  BY <1>1, <1>2, <1>3, <1>4, <1>8 DEF IInv, Placed, Built, Told, Swept, InSession
<1>11. ~disturbed' => Building'
  BY <1>2, <1>4 DEF IInv, Building, Bundle
<1> QED
  BY <1>9, <1>10, <1>11 DEF IInv

\* The steps before, between and after the sessions touch no file.
LEMMA LoopSteps ==
    ASSUME IInv, GetAIPPath \/ CreateSession \/ RetrySession
    PROVE  IInv'
<1>1. /\ TypeOK /\ g \in Workflow /\ g.pc \in {"path", "session", "retry"} /\ g.returned = ""
      /\ g.pc = "path" => g.lost = "open"
  BY DEF IInv, TypeOK, Told, GetAIPPath, CreateSession, RetrySession
<1>2. /\ aip' = aip /\ disk' = disk /\ bucket' = bucket /\ upload' = upload /\ late' = late
      /\ left' = left /\ disturbed' = disturbed /\ Chosen' = Chosen
  BY DEF GetAIPPath, CreateSession, RetrySession, Locally, Elsewhere, Chosen
<1>3. \A w \in Workers : disk[w] # Empty => w \in left
  BY <1>1 DEF IInv, Swept, InSession
<1>4. ASSUME g' \in Workflow, g'.pc \in {"session", "mets", "ended"},
             g'.pc = "mets" => g'.on \in Workers /\ g'.err = "none" /\ g'.by # "stopped",
             g'.returned \in {"", "error"}, g'.pc # "ended" => g'.returned = "",
             g'.by = "stopped" /\ g'.root = "open" /\ g'.returned = "error"
                => g'.attempt = MaxSessions
      PROVE  IInv'
  <2>1. TypeOK' /\ Placed' /\ Built' /\ Told' /\ Swept'
    <3>1. TypeOK' /\ Swept'
      BY <1>1, <1>2, <1>3, <1>4 DEF TypeOK, Swept
    <3>2. Placed' /\ Built' /\ Told'
      BY <1>1, <1>2, <1>4 DEF IInv, Placed, Built, Told, InSession
    <3> QED
      BY <3>1, <3>2
  <2>2. ~disturbed' => Building'
    BY <1>2, <1>4 DEF IInv, Building, Bundle
  <2> QED
    BY <2>1, <2>2 DEF IInv
<1>5. ASSUME g' = Goto("session") PROVE IInv'
  BY <1>1, <1>4, <1>5, GotoAfter DEF PC
<1>6. ASSUME NEW how \in How, g' = Returns("error", how),
             how = "stopped" => g.root # "open" \/ g.attempt = MaxSessions
      PROVE  IInv'
  <2>1. g'.root = "open" => g.root = "open"
    BY <1>1, <1>6, ReturnsAfter, PassedContext DEF Keeps, Workflow
  <2> QED
    BY <1>1, <1>4, <1>6, <2>1, ReturnsAfter, ZenonT(30) DEF Keeps
<1>7. CASE GetAIPPath
  BY <1>1, <1>5, <1>6, <1>7 DEF GetAIPPath, Ends, Stoppable, How
<1>8. CASE CreateSession
  <2>1. ASSUME NEW w \in Workers,
               g' = [Goto("mets") EXCEPT !.on = w, !.lost = "open", !.err = "none",
                                         !.by = "ok", !.zipped = FALSE]
        PROVE  IInv'
    BY <1>1, <1>4, <2>1, SessionAfter
  <2> QED
    BY <1>6, <1>8, <2>1 DEF CreateSession, How
<1>9. CASE RetrySession
  <2>1. CASE g.attempt < MaxSessions
    <3>1. Goto("session") \in Workflow /\ Goto("session").pc = "session"
          /\ Goto("session").returned = ""
      BY <1>1, GotoAfter DEF PC
    <3>2. Goto("session").attempt = g.attempt
      BY <1>1, GotoAfter DEF PC, Keeps
    <3>3. g.attempt + 1 \in 1..MaxSessions
      <4>1. g.attempt \in 1..MaxSessions /\ MaxSessions \in Nat
        BY <1>1, CantonsAssumption DEF Workflow
      <4> QED
        BY <2>1, <4>1
    <3>4. g' = [Goto("session") EXCEPT !.attempt = g.attempt + 1]
      BY <1>9, <2>1, <3>1, <3>2 DEF RetrySession, Workflow
    <3> QED
      BY <1>4, <3>1, <3>3, <3>4 DEF Workflow
  <2>2. CASE ~(g.attempt < MaxSessions)
    <3>1. g.attempt \in 1..MaxSessions /\ MaxSessions \in Nat /\ g.by \in How
      BY <1>1, CantonsAssumption DEF Workflow, How
    <3>2. g.attempt = MaxSessions
      BY <2>2, <3>1
    <3> QED
      BY <1>6, <1>9, <2>2, <3>1, <3>2 DEF RetrySession
  <2> QED
    BY <2>1, <2>2
<1> QED
  BY <1>7, <1>8, <1>9

\* A lost worker, a late answer, and a cancellation.
LEMMA EnvironmentSteps ==
    ASSUME IInv, \/ LoseWorker \/ LateUpload \/ Cancel
                 \/ \E w \in Workers : LateDownload(w)
    PROVE  IInv'
<1>1. /\ TypeOK /\ g \in Workflow /\ disk \in [Workers -> Disk]
      /\ late \in [Workers -> {"", "mets", "metadata"}]
  BY DEF IInv, TypeOK
<1>2. CASE LoseWorker
  <2>1. /\ g.pc \in InSession /\ g.lost = "open" /\ g' = [g EXCEPT !.lost = "closing"]
        /\ aip' = aip /\ disk' = disk /\ bucket' = bucket /\ left' = left
        /\ disturbed' = disturbed /\ Chosen' = Chosen /\ g.on \in Workers
    BY <1>2 DEF LoseWorker, Chosen, IInv, Placed
  <2>2. /\ g' \in Workflow /\ g'.pc = g.pc /\ g'.on = g.on /\ g'.err = g.err /\ g'.by = g.by
        /\ g'.returned = g.returned /\ g'.zipped = g.zipped /\ g'.attempt = g.attempt
        /\ g'.root = g.root /\ g'.lost = "closing"
    BY <1>1, <2>1 DEF Workflow, Context
  <2>3. late' = late \/ (late' = [late EXCEPT ![g.on] = g.pc] /\ g.pc \in {"mets", "metadata"})
    BY <1>2 DEF LoseWorker
  <2>4. upload' = upload \/ (upload' = disk[g.on].zip /\ g.pc = "upload")
    BY <1>2 DEF LoseWorker
  <2>5. TypeOK'
    <3>1. upload' \in Directory
      <4>1. disk[g.on] \in Disk /\ upload \in Directory
        BY <1>1, <2>1 DEF TypeOK
      <4> QED
        BY <2>4, <4>1 DEF Disk
    <3>2. late' \in [Workers -> {"", "mets", "metadata"}]
      BY <1>1, <2>1, <2>3
    <3> QED
      BY <1>1, <2>1, <2>2, <3>1, <3>2 DEF TypeOK
  <2>6. Placed'
    BY <1>1, <2>1, <2>2, <2>3 DEF IInv, Placed
  <2>7. Built' /\ Told'
    BY <2>1, <2>2 DEF IInv, Built, Told, InSession, Here
  <2>8. ~disturbed' => Building'
    BY <2>1, <2>2, <2>4 DEF IInv, Building, Bundle, Here
  <2>9. Swept'
    BY <2>1, <2>2 DEF IInv, Swept
  <2> QED
    BY <2>5, <2>6, <2>7, <2>8, <2>9 DEF IInv
<1>3. CASE LateUpload
  <2>1. /\ aip' = aip /\ g' = g /\ disk' = disk /\ late' = late /\ left' = left
        /\ disturbed' = disturbed /\ Chosen' = Chosen /\ upload # Bare
        /\ bucket' = upload /\ upload' = Bare
    BY <1>3 DEF LateUpload, Chosen
  <2>2. Bare \in Directory
    BY DEF Bare, Directory, Content
  <2>3. TypeOK'
    BY <1>1, <2>1, <2>2 DEF TypeOK
  <2>4. Placed' /\ Built' /\ Told' /\ Swept'
    BY <2>1 DEF IInv, Placed, Built, Told, Swept, Here
  <2>5. ~disturbed' => Building'
    BY <2>1 DEF IInv, Building, Bundle, Here
  <2> QED
    BY <2>3, <2>4, <2>5 DEF IInv
<1>4. CASE Cancel
  <2>1. /\ g.pc # "ended" /\ g' = [g EXCEPT !.root = "closing"]
        /\ aip' = aip /\ disk' = disk /\ bucket' = bucket /\ upload' = upload /\ late' = late
        /\ left' = left /\ disturbed' = disturbed /\ Chosen' = Chosen
    BY <1>4 DEF Cancel, Locally, Elsewhere, Chosen
  <2>2. /\ g' \in Workflow /\ g'.pc = g.pc /\ g'.on = g.on /\ g'.err = g.err /\ g'.by = g.by
        /\ g'.returned = g.returned /\ g'.zipped = g.zipped /\ g'.attempt = g.attempt
        /\ g'.root = "closing" /\ g'.lost = g.lost
    BY <1>1, <2>1 DEF Workflow, Context
  <2>3. TypeOK'
    BY <1>1, <2>1, <2>2 DEF TypeOK
  <2>4. Placed' /\ Built' /\ Told' /\ Swept'
    BY <2>1, <2>2 DEF IInv, Placed, Built, Told, Swept, Here
  <2>5. ~disturbed' => Building'
    BY <2>1, <2>2 DEF IInv, Building, Bundle, Here
  <2> QED
    BY <2>3, <2>4, <2>5 DEF IInv
<1>5. ASSUME NEW w \in Workers, LateDownload(w)
      PROVE  IInv'
  <2>1. /\ aip' = aip /\ g' = g /\ bucket' = bucket /\ upload' = upload
        /\ left' = left \cup {w} /\ Chosen' = Chosen
        /\ disturbed' = (disturbed \/ (g.on = w /\ g.pc \in InSession /\ g.lost = "open"))
    BY <1>5 DEF LateDownload, Chosen
  <2>2. PICK c \in {"part", IF late[w] = "mets" THEN "METS" ELSE Chosen} :
          /\ disk' = [disk EXCEPT ![w].dir = IF late[w] = "mets" THEN [@ EXCEPT !.mets = c]
                                             ELSE [@ EXCEPT !.metadata = c]]
          /\ late' \in {late, [late EXCEPT ![w] = ""]}
    BY <1>5 DEF LateDownload
  <2>3. late[w] \in {"mets", "metadata"}
    BY <1>1, <1>5 DEF LateDownload
  <2>4. disk[w].dir \in Directory /\ disk[w].zip \in Directory /\ disk[w] \in Disk
    BY <1>1 DEF Disk
  <2>5. c \in Content
    <3>1. late[w] = "metadata" => Chosen # NoFile
      BY DEF IInv, Placed
    <3> QED
      BY <1>1, <2>2, <2>3, <2>4, <3>1, Contents
  <2> DEFINE d == IF late[w] = "mets" THEN [disk[w].dir EXCEPT !.mets = c]
                  ELSE [disk[w].dir EXCEPT !.metadata = c]
  <2>6. d \in Directory /\ d.ais = disk[w].dir.ais
    BY <1>1, <2>4, <2>5, Contents DEF Directory
  <2>7. disk' = [disk EXCEPT ![w].dir = d]
    BY <1>1, <2>2
  <2> HIDE DEF d
  <2>8. /\ disk' \in [Workers -> Disk] /\ disk'[w].dir = d /\ disk'[w].zip = disk[w].zip
        /\ \A v \in Workers : v # w => disk'[v] = disk[v]
    BY <1>1, <2>4, <2>6, <2>7 DEF Disk
  <2>9. TypeOK'
    <3>1. late' \in [Workers -> {"", "mets", "metadata"}]
      BY <1>1, <2>2
    <3>2. left' \subseteq Workers /\ disturbed' \in BOOLEAN
      BY <1>1, <2>1 DEF TypeOK
    <3> QED
      BY <1>1, <2>1, <2>8, <3>1, <3>2 DEF TypeOK
  <2>10. Placed' /\ Told'
    BY <1>1, <2>1, <2>2 DEF IInv, Placed, Told
  <2>11. g.pc \in InSession => g.on \in Workers
    BY DEF IInv, Placed
  <2>12. Built'
    <3>1. g.pc = "zip" => Here'.ais = Here.ais
      BY <2>1, <2>6, <2>8, <2>11 DEF Here, InSession
    <3>2. g.pc = "upload" => disk'[g.on].zip = disk[g.on].zip
      BY <2>8, <2>11 DEF InSession
    <3> QED
      BY <2>1, <3>1, <3>2 DEF IInv, Built
  <2>13. ~disturbed' => Building'
    <3> SUFFICES ASSUME ~disturbed'
                 PROVE  Building'
      OBVIOUS
    <3>1. Building /\ ~(g.on = w /\ g.pc \in InSession /\ g.lost = "open")
      BY <2>1 DEF IInv
    <3>2. g.lost = "open" /\ g.pc \in {"metadata", "combine", "zip"} => Here' = Here
      BY <2>1, <2>8, <2>11, <3>1 DEF Here, InSession
    <3>3. g.pc = "upload" => disk'[g.on].zip = disk[g.on].zip
      BY <2>8, <2>11 DEF InSession
    <3> QED
      BY <2>1, <3>1, <3>2, <3>3 DEF Building, Bundle
  <2>14. Swept'
    BY <2>1, <2>8 DEF IInv, Swept
  <2> QED
    BY <2>9, <2>10, <2>12, <2>13, <2>14 DEF IInv
<1> QED
  BY <1>2, <1>3, <1>4, <1>5

\* Every step keeps the invariant.
LEMMA InvStep == IInv /\ [Next]_vars => IInv'
<1> SUFFICES ASSUME IInv, [Next]_vars PROVE IInv'
  OBVIOUS
<1>1. CASE UNCHANGED vars
  <2>1. /\ aip' = aip /\ g' = g /\ disk' = disk /\ bucket' = bucket /\ late' = late
        /\ upload' = upload /\ left' = left /\ disturbed' = disturbed
        /\ Chosen' = Chosen /\ Here' = Here
    BY <1>1 DEF vars, Chosen, Here
  <2>2. TypeOK' /\ Placed' /\ Built' /\ Swept' /\ Told'
    BY <2>1, ZenonT(30) DEF IInv, TypeOK, Placed, Built, Swept, Told
  <2>3. ~disturbed' => Building'
    BY <2>1 DEF IInv, Building, Bundle
  <2> QED
    BY <2>2, <2>3 DEF IInv
<1> QED
  BY <1>1, DirectorySteps, ZipStep, UploadStep, CleanupStep, LoopSteps, EnvironmentSteps
     DEF Next, WorkflowStep, Ended

(***************************************************************************)
(* Theorems.                                                               *)
(***************************************************************************)

\* What the directories, the bucket, late answers and the workflow hold is invariant.
THEOREM Invariant == Spec => []IInv
<1>1. Init => IInv
  <2> SUFFICES ASSUME Init PROVE IInv
    OBVIOUS
  <2>1. /\ g.pc = "path" /\ g.err = "none" /\ g.by = "ok" /\ g.returned = "" /\ g.lost = "open"
        /\ \A w \in Workers : disk[w] = Empty /\ late[w] = ""
        /\ bucket = Bare /\ upload = Bare
    BY DEF Init
  <2>2. g \in Workflow
    <3>1. 1 \in 1..MaxSessions
      BY CantonsAssumption
    <3> QED
      BY <3>1 DEF Init, Workflow, PC, Context
  <2>3. Bare \in Directory /\ Empty \in Disk
    BY DEF Bare, Empty, Directory, Disk, Content
  <2>4. TypeOK
    BY <2>2, <2>3 DEF Init, TypeOK
  <2> QED
    BY <2>1, <2>4 DEF IInv, Placed, Built, Building, Swept, Told, InSession
<1> QED
  BY <1>1, InvStep, PTL DEF Spec

\* The METS file, the workflow, the disks, the bucket and late answers keep their types.
THEOREM TypeCorrect == Spec => []TypeOK
<1>1. IInv => TypeOK
  BY DEF IInv
<1> QED
  BY Invariant, <1>1, PTL

\* The bundle is complete for any METS files that keep to their form: no lost session,
\* late upload, retry or removal spoils it.
THEOREM SpecBundleIsComplete == Spec => []BundleIsComplete
<1>1. IInv => BundleIsComplete
  <2> SUFFICES ASSUME IInv PROVE BundleIsComplete
    OBVIOUS
  <2>1. g.returned = "result" => bucket # Bare
    BY DEF IInv, Built
  <2>2. ASSUME bucket # Bare, ~disturbed
        PROVE  \E file \in Named[aip] : bucket = [Bare EXCEPT !.ais = file]
    <3>1. Chosen # NoFile /\ bucket = [Bare EXCEPT !.ais = Chosen]
      BY <2>2 DEF IInv, Building, Bundle
    <3>2. aip \in AIPs
      BY DEF IInv, TypeOK
    <3>3. Chosen \in Named[aip]
      BY <3>1, <3>2, AIPsAssumption, ParsesRight DEF Choice, Chosen, Named
    <3> QED
      BY <3>1, <3>3
  <2> QED
    BY <2>1, <2>2 DEF BundleIsComplete
<1> QED
  BY Invariant, <1>1, PTL

\* Local files stay behind only where a session was lost or a removal failed.
THEOREM SpecFilesAreRemoved == Spec => []FilesAreRemoved
<1>1. IInv => FilesAreRemoved
  BY DEF IInv, Swept, FilesAreRemoved, InSession
<1> QED
  BY Invariant, <1>1, PTL

\* A lost worker fails the workflow in the last session only.
THEOREM SpecLossIsRetried == Spec => []LossIsRetried
<1>1. IInv => LossIsRetried
  BY DEF IInv, Told, LossIsRetried
<1> QED
  BY Invariant, <1>1, PTL

(***************************************************************************)
(* The way to the end.  The steps of a session are numbered down to its    *)
(* removal, and a session is worth more than all steps of a later one.     *)
(***************************************************************************)
Stage ==
    [pc \in PC |->
       CASE pc = "path" -> 11 [] pc = "session" -> 10 [] pc = "mets" -> 9 [] pc = "parse" -> 8
         [] pc = "metadata" -> 7 [] pc = "combine" -> 6 [] pc = "zip" -> 5 [] pc = "upload" -> 4
         [] pc = "cleanup" -> 3 [] pc = "retry" -> 2 [] pc = "ended" -> 0]

\* The steps the workflow still has at most.
StepsLeft == 12 * (MaxSessions - g.attempt) + Stage[g.pc]

\* The numbers.
LEMMA Stages ==
    /\ Stage["path"] = 11 /\ Stage["session"] = 10 /\ Stage["mets"] = 9 /\ Stage["parse"] = 8
    /\ Stage["metadata"] = 7 /\ Stage["combine"] = 6 /\ Stage["zip"] = 5 /\ Stage["upload"] = 4
    /\ Stage["cleanup"] = 3 /\ Stage["retry"] = 2 /\ Stage["ended"] = 0
<1> DEFINE f(pc) ==
       CASE pc = "path" -> 11 [] pc = "session" -> 10 [] pc = "mets" -> 9 [] pc = "parse" -> 8
         [] pc = "metadata" -> 7 [] pc = "combine" -> 6 [] pc = "zip" -> 5 [] pc = "upload" -> 4
         [] pc = "cleanup" -> 3 [] pc = "retry" -> 2 [] pc = "ended" -> 0
<1>1. /\ f("path") = 11 /\ f("session") = 10 /\ f("mets") = 9 /\ f("parse") = 8
      /\ f("metadata") = 7 /\ f("combine") = 6 /\ f("zip") = 5 /\ f("upload") = 4
      /\ f("cleanup") = 3 /\ f("retry") = 2 /\ f("ended") = 0
  OBVIOUS
<1>2. \A pc \in PC : Stage[pc] = f(pc)
  BY DEF Stage
<1>3. /\ {"path", "session", "mets", "parse", "metadata", "combine", "zip", "upload"} \subseteq PC
      /\ {"cleanup", "retry", "ended"} \subseteq PC
  BY DEF PC, InSession
<1> HIDE DEF f
<1> QED
  BY <1>1, <1>2, <1>3

\* Another step of the same attempt.
LEMMA Nearer ==
    ASSUME TypeOK, g' \in Workflow, g'.attempt = g.attempt, Stage[g'.pc] < Stage[g.pc],
           Stage[g'.pc] \in Nat, Stage[g.pc] \in Nat
    PROVE  StepsLeft' < StepsLeft
<1>1. g \in Workflow
  BY DEF TypeOK
<1>2. MaxSessions \in Nat
  BY CantonsAssumption
<1>3. g.attempt \in Nat
  <2>1. g.attempt \in 1..MaxSessions
    BY <1>1 DEF Workflow
  <2> QED
    BY <1>2, <2>1
<1> QED
  BY <1>2, <1>3 DEF StepsLeft

\* Every step but those of the end has others after it.
LEMMA StageIsNumber ==
    ASSUME NEW pc \in PC
    PROVE  Stage[pc] \in 0..11 /\ (pc # "ended" => Stage[pc] > 0)
<1>1. pc \in {"path", "session", "retry", "ended", "mets", "parse", "metadata", "combine",
              "zip", "upload", "cleanup"}
  BY DEF PC, InSession
<1> QED
  BY <1>1, Stages

\* A step of the session goes on to the next one, or to the removal.
LEMMA SessionGoesOn ==
    ASSUME IInv,
           FetchMETS \/ ParseMETS \/ FetchMetadata \/ CombineMD \/ ArchiveZip \/ BucketUpload
    PROVE  StepsLeft' < StepsLeft
<1>1. TypeOK /\ g \in Workflow
  BY DEF IInv, TypeOK
<1>2. ASSUME NEW pc \in {"parse", "metadata", "combine", "zip", "upload", "cleanup"}, g' = Goto(pc)
      PROVE  g' \in Workflow /\ g'.attempt = g.attempt /\ g'.pc = pc
  <2>1. pc \in PC
    BY DEF PC, InSession
  <2> QED
    BY <1>1, <1>2, <2>1, GotoAfter DEF Keeps
<1>3. ASSUME NEW how \in How, g' = Fails(how)
      PROVE  g' \in Workflow /\ g'.attempt = g.attempt /\ g'.pc = "cleanup"
  BY <1>1, <1>3, FailsAfter DEF Keeps
<1>4. CASE FetchMETS
  BY <1>1, <1>2, <1>3, <1>4, Nearer, Stages DEF FetchMETS, FailsWith, How
<1>5. CASE ParseMETS
  BY <1>1, <1>2, <1>3, <1>5, Nearer, Stages DEF ParseMETS, FailsWith, How
<1>6. CASE FetchMetadata
  BY <1>1, <1>2, <1>3, <1>6, Nearer, Stages DEF FetchMetadata, FailsWith, How
<1>7. CASE CombineMD
  BY <1>1, <1>2, <1>3, <1>7, Nearer, Stages DEF CombineMD, FailsWith, How
<1>8. CASE ArchiveZip
  <2>1. CASE g' = [Goto("upload") EXCEPT !.zipped = TRUE]
    <3>1. Goto("upload") \in Workflow /\ Goto("upload").attempt = g.attempt
          /\ Goto("upload").pc = "upload"
      BY <1>1, GotoAfter DEF Keeps, PC, InSession
    <3>2. g' \in Workflow /\ g'.attempt = g.attempt /\ g'.pc = "upload"
      BY <2>1, <3>1 DEF Workflow
    <3> QED
      BY <1>1, <1>8, <3>2, Nearer, Stages DEF ArchiveZip
  <2>2. CASE \E how \in How : g' = Fails(how)
    BY <1>1, <1>3, <1>8, <2>2, Nearer, Stages DEF ArchiveZip
  <2> QED
    BY <1>8, <2>1, <2>2 DEF ArchiveZip, How
<1>9. CASE BucketUpload
  BY <1>1, <1>2, <1>3, <1>9, Nearer, Stages DEF BucketUpload, How
<1> QED
  BY <1>4, <1>5, <1>6, <1>7, <1>8, <1>9

\* A step before, between or after sessions.
LEMMA LoopGoesOn ==
    ASSUME IInv, GetAIPPath \/ CreateSession \/ Cleanup \/ RetrySession
    PROVE  StepsLeft' < StepsLeft
<1>0. TypeOK /\ g \in Workflow
  BY DEF IInv, TypeOK
<1>1. TypeOK /\ g \in Workflow /\ MaxSessions \in Nat /\ g.attempt \in Nat
  <2>1. g.attempt \in 1..MaxSessions
    BY <1>0 DEF Workflow
  <2>2. MaxSessions \in Nat
    BY CantonsAssumption
  <2> QED
    BY <1>0, <2>1, <2>2
<1>2. ASSUME NEW how \in How, NEW result \in {"result", "nothing", "error"},
             g' = Returns(result, how), g.pc # "ended"
      PROVE  StepsLeft' < StepsLeft
  <2>1. g' \in Workflow /\ g'.attempt = g.attempt /\ g'.pc = "ended"
    BY <1>1, <1>2, ReturnsAfter DEF Keeps
  <2>2. Stage[g.pc] \in Nat /\ Stage[g.pc] > 0
    <3>1. g.pc \in PC
      BY <1>1 DEF Workflow
    <3> QED
      BY <1>2, <3>1, StageIsNumber
  <2> QED
    BY <1>1, <2>1, <2>2, Nearer, Stages
<1>3. CASE GetAIPPath
  <2>1. CASE g' = Goto("session")
    <3>1. g' \in Workflow /\ g'.attempt = g.attempt /\ g'.pc = "session"
      BY <1>1, <2>1, GotoAfter DEF Keeps, PC
    <3> QED
      BY <1>1, <1>3, <3>1, Nearer, Stages DEF GetAIPPath
  <2> QED
    BY <1>2, <1>3, <2>1 DEF GetAIPPath, How
<1>4. CASE CreateSession
  <2>1. ASSUME NEW w \in Workers,
               g' = [Goto("mets") EXCEPT !.on = w, !.lost = "open", !.err = "none",
                                         !.by = "ok", !.zipped = FALSE]
        PROVE  StepsLeft' < StepsLeft
    <3>1. g' \in Workflow /\ g'.pc = "mets"
      BY <1>1, <2>1, SessionAfter
    <3>2. Goto("mets") \in Workflow /\ Goto("mets").attempt = g.attempt
      BY <1>1, GotoAfter DEF Keeps, PC, InSession
    <3>3. g'.attempt = g.attempt
      BY <2>1, <3>2 DEF Workflow
    <3>4. g.pc = "session"
      BY <1>4 DEF CreateSession
    <3> QED
      BY <1>1, <3>1, <3>3, <3>4, Nearer, Stages
  <2> QED
    BY <1>2, <1>4, <2>1 DEF CreateSession, How
<1>5. CASE Cleanup
  <2>1. \E err \in {"none", "plain", "stopped"}, how \in How : g' = AfterSession(err, how)
    BY <1>1, <1>5 DEF Cleanup, Joined, Workflow, How
  <2>2. g' \in Workflow /\ g'.attempt = g.attempt /\ g'.pc \in {"retry", "ended"}
    BY <1>1, <2>1, AfterSessionAfter
  <2> QED
    BY <1>1, <1>5, <2>2, Nearer, Stages DEF Cleanup
<1>6. CASE RetrySession
  <2>1. CASE g.attempt < MaxSessions /\ g' = [Goto("session") EXCEPT !.attempt = @ + 1]
    <3>1. Goto("session") \in Workflow /\ Goto("session").attempt = g.attempt
          /\ Goto("session").pc = "session"
      BY <1>1, GotoAfter DEF Keeps, PC
    <3>2. g'.attempt = g.attempt + 1 /\ g'.pc = "session"
      BY <2>1, <3>1 DEF Workflow
    <3> QED
      BY <1>1, <1>6, <3>2, Stages DEF RetrySession, StepsLeft
  <2>2. CASE g' = Returns("error", g.by)
    BY <1>1, <1>2, <1>6, <2>2 DEF RetrySession, Workflow, How
  <2> QED
    BY <1>6, <2>1, <2>2 DEF RetrySession
<1> QED
  BY <1>3, <1>4, <1>5, <1>6

\* Each step of the workflow leaves it fewer steps, and nothing else that happens (lost workers,
\* late answers, a cancellation) gives it more: at most 12 for each session.
THEOREM SpecWorkflowEndsSoon ==
    Spec => /\ [](StepsLeft \in 0..(12 * MaxSessions))
            /\ [][IF WorkflowStep THEN StepsLeft' < StepsLeft ELSE StepsLeft' = StepsLeft]_vars
<1>1. ASSUME IInv PROVE StepsLeft \in 0..(12 * MaxSessions)
  <2>1. g \in Workflow
    BY <1>1 DEF IInv, TypeOK
  <2>2. g.attempt \in 1..MaxSessions /\ g.pc \in PC
    BY <2>1 DEF Workflow
  <2>3. Stage[g.pc] \in 0..11
    BY <2>2, StageIsNumber
  <2>4. MaxSessions \in Nat
    BY CantonsAssumption
  <2> QED
    BY <2>2, <2>3, <2>4 DEF StepsLeft
<1>2. ASSUME IInv, [Next]_vars
      PROVE  [IF WorkflowStep THEN StepsLeft' < StepsLeft ELSE StepsLeft' = StepsLeft]_vars
  <2>1. CASE WorkflowStep
    BY <1>2, <2>1, SessionGoesOn, LoopGoesOn DEF WorkflowStep
  <2>2. CASE ~WorkflowStep
    <3>1. g'.pc = g.pc /\ g'.attempt = g.attempt
      <4>1. g \in Workflow
        BY <1>2 DEF IInv, TypeOK
      <4> QED
        BY <1>2, <2>2, <4>1 DEF Next, LoseWorker, LateUpload, Cancel, Ended, LateDownload, vars, Workflow
    <3> QED
      BY <2>2, <3>1 DEF StepsLeft
  <2> QED
    BY <2>1, <2>2
<1> QED
  BY Invariant, <1>1, <1>2, PTL DEF Spec
================================================================================
