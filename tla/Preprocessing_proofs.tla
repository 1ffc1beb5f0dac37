-------------------------- MODULE Preprocessing_proofs --------------------------
(***************************************************************************)
(* Theorems about Preprocessing for every set of packages.                 *)
(***************************************************************************)
EXTENDS Preprocessing, SequenceTheorems, TLAPS

(***************************************************************************)
(* The order of the steps.                                                 *)
(***************************************************************************)

\* The place of a step, and of the tasks it opens, among the others.
Places == [extract |-> 0, bag |-> 2, unbag |-> 3, identify |-> 4, structure |-> 5, name |-> 6,
           manifest |-> 7, checksums |-> 7, disallowed |-> 8, formats |-> 9, metadata |-> 10,
           logical |-> 11, apis |-> 12, objects |-> 13, event |-> 13, agent |-> 13,
           premis |-> 13, restructure |-> 14, identifiers |-> 15, done |-> 17]
Rank(s) == IF s = "is bag" THEN 1 ELSE IF s = "create bag" THEN 16 ELSE Places[s]

Before  == {"extract", "is bag", "bag", "unbag", "identify"}
Checked == Checks \cup {"manifest"}
After   == {"apis", "objects", "event", "agent", "restructure", "identifiers", "create bag"}

\* A step is before the checks, a check, or after them.
LEMMA StepsPartition == Steps = Before \cup Checked \cup After \cup {"done"}
  BY DEF Steps, Tasks, Checks, Before, Checked, After

\* The places of the steps.
LEMMA RankValues ==
    /\ Rank("extract") = 0 /\ Rank("is bag") = 1 /\ Rank("bag") = 2 /\ Rank("unbag") = 3
    /\ Rank("identify") = 4 /\ Rank("structure") = 5 /\ Rank("name") = 6
    /\ Rank("manifest") = 7 /\ Rank("checksums") = 7 /\ Rank("disallowed") = 8
    /\ Rank("formats") = 9 /\ Rank("metadata") = 10 /\ Rank("logical") = 11
    /\ Rank("apis") = 12 /\ Rank("objects") = 13 /\ Rank("event") = 13
    /\ Rank("agent") = 13 /\ Rank("premis") = 13 /\ Rank("restructure") = 14
    /\ Rank("identifiers") = 15 /\ Rank("create bag") = 16 /\ Rank("done") = 17
  BY DEF Rank, Places

\* The places of the checks.
LEMMA CheckRank ==
    ASSUME NEW c \in Checked
    PROVE  /\ Rank(c) \in 5..11
           /\ Rank(c) = 5 <=> c = "structure"
           /\ Rank(c) = 6 <=> c = "name"
           /\ Rank(c) = 7 <=> c = "manifest"
           /\ Rank(c) = 8 <=> c = "disallowed"
           /\ Rank(c) = 9 <=> c = "formats"
           /\ Rank(c) = 10 <=> c = "metadata"
           /\ Rank(c) = 11 <=> c = "logical"
  <1>1. \/ c = "structure" /\ Rank(c) = 5
        \/ c = "name" /\ Rank(c) = 6
        \/ c = "manifest" /\ Rank(c) = 7
        \/ c = "disallowed" /\ Rank(c) = 8
        \/ c = "formats" /\ Rank(c) = 9
        \/ c = "metadata" /\ Rank(c) = 10
        \/ c = "logical" /\ Rank(c) = 11
    BY RankValues DEF Checked, Checks
  <1>2. QED
    BY <1>1

\* Later steps have higher ranks.
LEMMA Ranks ==
    /\ \A s \in Steps \cup Tasks : Rank(s) \in 0..17
    /\ \A s \in Before : Rank(s) < 5
    /\ \A s \in Checked : Rank(s) \in 5..11
    /\ \A s \in After : Rank(s) \in 12..16
    /\ \A t \in Tasks : Rank(t) < Rank("done")
    /\ \A s \in Steps : \A t \in Opened(s) : t \in Tasks /\ Rank(t) = Rank(s)
  <1>1. \A s \in Before : Rank(s) \in {0, 1, 2, 3, 4}
    BY RankValues DEF Before
  <1>2. \A s \in Checked : Rank(s) \in {5, 6, 7, 8, 9, 10, 11}
    BY RankValues DEF Checked, Checks
  <1>3. \A s \in After : Rank(s) \in {12, 13, 14, 15, 16}
    BY RankValues DEF After
  <1>4. Rank("done") = 17 /\ Rank("checksums") = 7 /\ Rank("premis") = 13
    BY RankValues
  <1>5. \A t \in Tasks : t \in Before \cup Checked \cup After \cup {"checksums", "premis"}
    BY DEF Tasks, Checks, Before, Checked, After
  <1>6. \A s \in Steps : \A t \in Opened(s) : t \in Tasks /\ Rank(t) = Rank(s)
    BY RankValues DEF Steps, Tasks, Checks, Opened
  <1>7. QED
    BY <1>1, <1>2, <1>3, <1>4, <1>5, <1>6, StepsPartition

\* The check after one is of a higher rank and applies to the type; after the
\* last one processing ends, or goes on if nothing was found.
Applies(check, t) == /\ check = "disallowed" => t \in SIPs
                     /\ check = "logical" => t \in AIPs

\* After a check comes a later step: the next check that applies, or what follows the checks.
LEMMA NextStep ==
    ASSUME sip \in Types, NEW s \in Checked, Applies(s, sip), NEW result
    PROVE  /\ Following(s, result) \in Steps
           /\ Rank(Following(s, result)) > Rank(s)
           /\ Following(s, result) \in Checked \cup After \cup {"done"}
           /\ Following(s, result) \in Checked => Applies(Following(s, result), sip)
           /\ Following(s, result) \in After \cup {"done"} =>
                 /\ result = "content" <=> Following(s, result) = "done"
                 /\ result # "content" => Following(s, result) \in {"apis", "objects"}
           /\ \A c \in Checks :
                 Applies(c, sip) /\ Rank(c) < Rank(Following(s, result)) => Rank(c) < Rank(s) \/ c = s
  <1> DEFINE n == NextCheck(s, sip)
             next == Following(s, result)
  <1>1. \/ n \in Checked /\ Applies(n, sip)
                         /\ n # "" /\ Rank(n) > Rank(s)
                         /\ \A c \in Checks : Applies(c, sip) /\ Rank(c) < Rank(n) =>
                                                 Rank(c) < Rank(s) \/ c = s
        \/ n = "" /\ \A c \in Checks : Applies(c, sip) => Rank(c) < Rank(s) \/ c = s
    <2>1. /\ NextCheck("structure", sip) = "name"
          /\ NextCheck("name", sip) = "manifest"
          /\ NextCheck("manifest", sip) = IF sip \in SIPs THEN "disallowed" ELSE "formats"
          /\ NextCheck("disallowed", sip) = "formats"
          /\ NextCheck("formats", sip) = "metadata"
          /\ NextCheck("metadata", sip) = IF sip \in AIPs THEN "logical" ELSE ""
          /\ NextCheck("logical", sip) = ""
      BY DEF NextCheck
    <2>2. sip \in AIPs <=> sip \notin SIPs
      BY DEF SIPs, AIPs, Types
    <2>4. \/ n \in Checked /\ Applies(n, sip) /\ n # ""
          \/ s \in {"metadata", "logical"} /\ n = ""
      BY <2>1, <2>2 DEF Checked, Checks, Applies
    <2>5. ASSUME n \in Checked
          PROVE  \/ Rank(n) = Rank(s) + 1
                 \/ s = "manifest" /\ Rank(n) = Rank(s) + 2 /\ sip \in AIPs
      <3>1. \/ s = "structure" /\ n = "name"
            \/ s = "name" /\ n = "manifest"
            \/ s = "manifest" /\ n = "disallowed"
            \/ s = "manifest" /\ n = "formats" /\ sip \in AIPs
            \/ s = "disallowed" /\ n = "formats"
            \/ s = "formats" /\ n = "metadata"
            \/ s = "metadata" /\ n = "logical"
        BY <2>1, <2>2, <2>5 DEF Checked, Checks
      <3>2. \/ Rank(s) = 5 /\ Rank(n) = 6
            \/ Rank(s) = 6 /\ Rank(n) = 7
            \/ s = "manifest" /\ Rank(s) = 7 /\ Rank(n) = 8
            \/ s = "manifest" /\ Rank(s) = 7 /\ Rank(n) = 9 /\ sip \in AIPs
            \/ Rank(s) = 8 /\ Rank(n) = 9
            \/ Rank(s) = 9 /\ Rank(n) = 10
            \/ Rank(s) = 10 /\ Rank(n) = 11
        BY <3>1, RankValues
      <3>3. QED
        BY <3>2
    <2>6. ASSUME n \in Checked, NEW c \in Checks, Applies(c, sip), Rank(c) < Rank(n)
          PROVE  Rank(c) < Rank(s) \/ c = s
      <3>1. c \in Checked
        BY DEF Checked
      <3>2. Rank(c) \in Int /\ Rank(s) \in Int /\ Rank(n) \in Int
        BY <2>6, <3>1, CheckRank
      <3>3. CASE Rank(n) = Rank(s) + 1
        <4>1. Rank(c) < Rank(s) \/ Rank(c) = Rank(s)
          BY <2>6, <3>2, <3>3
        <4>2. Rank(c) = Rank(s) => c = s
          BY <3>1, CheckRank
        <4>3. QED
          BY <4>1, <4>2
      <3>4. CASE s = "manifest" /\ Rank(n) = Rank(s) + 2 /\ sip \in AIPs
        <4>1. Rank(s) = 7
          BY <3>4, RankValues
        <4>2. Rank(c) < Rank(s) \/ Rank(c) = 7 \/ Rank(c) = 8
          BY <2>6, <3>2, <3>4, <4>1
        <4>3. Rank(c) # 8
          BY <2>2, <2>6, <3>1, <3>4, CheckRank DEF Applies
        <4>4. Rank(c) = 7 => c = s
          BY <3>1, <3>4, CheckRank
        <4>5. QED
          BY <4>2, <4>3, <4>4
      <3>5. QED
        BY <2>5, <2>6, <3>3, <3>4
    <2>7. ASSUME n = "", NEW c \in Checks, Applies(c, sip)
          PROVE  Rank(c) < Rank(s) \/ c = s
      <3>1. c \in Checked
        BY DEF Checked
      <3>2. s = "logical" \/ (s = "metadata" /\ sip \notin AIPs)
        BY <2>1, <2>4, <2>7
      <3>3. Rank(s) = 11 \/ (Rank(s) = 10 /\ c # "logical")
        BY <2>7, <3>2, RankValues DEF Applies
      <3>4. QED
        BY <3>1, <3>3, CheckRank
    <2>8. Rank(n) > Rank(s) \/ n = ""
      <3>1. ASSUME n \in Checked PROVE Rank(n) > Rank(s)
        <4>1. Rank(s) \in Int /\ Rank(n) \in Int
          BY <3>1, CheckRank
        <4>2. Rank(n) = Rank(s) + 1 \/ Rank(n) = Rank(s) + 2
          BY <2>5, <3>1
        <4>3. QED
          BY <4>1, <4>2
      <3>2. QED
        BY <2>4, <3>1
    <2>9. QED
      BY <2>4, <2>6, <2>7, <2>8
  <1>2. CASE n # ""
    <2>1. next = n
      BY <1>2 DEF Following
    <2>2. n \in Checked
      BY <1>1, <1>2
    <2>3. n \in Steps /\ n \notin After /\ n # "done"
      BY <2>2, StepsPartition DEF Checked, Checks, After
    <2>4. QED
      BY <1>1, <1>2, <2>1, <2>3
  <1>3. CASE n = ""
    <2>1. "" \notin Checked
      BY DEF Checked, Checks
    <2>2. next \in {"done", "apis", "objects"} /\ (next = "done" <=> result = "content")
      BY <1>3 DEF Following
    <2>3. next \in Steps /\ next \notin Checked /\ Rank(next) > Rank(s)
      <3>1. Rank(s) \in 5..11
        BY Ranks
      <3>2. Rank("done") = 17 /\ Rank("apis") = 12 /\ Rank("objects") = 13
        BY RankValues
      <3>3. \A x \in {"done", "apis", "objects"} : x \in Steps /\ x \notin Checked
        BY StepsPartition DEF Checked, Checks, After
      <3>4. QED
        BY <2>2, <3>1, <3>2, <3>3
    <2>4. \A c \in Checks : Applies(c, sip) => Rank(c) < Rank(s) \/ c = s
      BY <1>1, <1>3, <2>1
    <2>5. next \in After \cup {"done"}
      BY <2>2 DEF After
    <2>6. QED
      BY <2>2, <2>3, <2>4, <2>5
  <1>4. QED
    BY <1>2, <1>3

(***************************************************************************)
(* Paths.                                                                  *)
(***************************************************************************)

\* A path moved with its directory is a path.
LEMMA RebasedType ==
    ASSUME NEW from \in Path, NEW to \in Path, NEW p \in Path, Len(from) <= Len(p)
    PROVE  Rebased(from, to, p) \in Path
  BY DEF Rebased, Path

\* Moved files have paths.
LEMMA MovedType ==
    ASSUME NEW moves, \A m \in moves : m.from \in Path /\ m.to \in Path,
           NEW ps \in SUBSET Path
    PROVE  Moved(moves, ps) \in SUBSET Path
  <1>1. ASSUME NEW m \in moves, NEW p \in Below(m.from, ps)
        PROVE  Rebased(m.from, m.to, p) \in Path
    <2>1. p \in Path /\ Len(m.from) <= Len(p)
      BY DEF Below, IsPrefix
    <2>2. QED
      BY <2>1, RebasedType
  <1>2. QED
    BY <1>1 DEF Moved

\* A prefix agrees with the path where it is defined.
LEMMA PrefixAt ==
    ASSUME NEW s \in Path, NEW t \in Path
    PROVE  IsPrefix(s, t) <=> Len(s) <= Len(t) /\ \A i \in 1..Len(s) : s[i] = t[i]
  <1> SUFFICES ASSUME Len(s) <= Len(t)
               PROVE  SubSeq(s, 1, Len(s)) = SubSeq(t, 1, Len(s))
                         <=> \A i \in 1..Len(s) : s[i] = t[i]
    BY DEF IsPrefix
  <1>1. SubSeq(s, 1, Len(s)) = s
    BY SubSeqFull DEF Path
  <1> DEFINE u == SubSeq(t, 1, Len(s))
  <1>2. u \in Path /\ Len(u) = Len(s) /\ \A i \in 1..Len(s) : u[i] = t[i]
    BY DEF Path
  <1>3. ASSUME \A i \in 1..Len(s) : s[i] = t[i] PROVE s = u
    BY <1>2, <1>3, SeqEqual DEF Path
  <1>4. QED
    BY <1>1, <1>2, <1>3

\* Two paths make one.
LEMMA ConcatType ==
    ASSUME NEW p \in Path, NEW q \in Path
    PROVE  p \o q \in Path
  BY DEF Path

\* The names with a meaning are names.
LEMMA Known ==
    /\ "content" \in Names /\ "header" \in Names /\ "old" \in Names /\ "SIP" \in Names
    /\ "additional" \in Names /\ "metadata.xml" \in Names
    /\ "UpdatedAreldaMetadata.xml" \in Names /\ "sip-premis.xml" \in Names
    /\ "data" \in Names /\ "bagit.txt" \in Names /\ "manifest.txt" \in Names
    /\ "objects" \in Names /\ "sip" \in Names /\ "metadata" \in Names
    /\ "premis.xml" \in Names /\ "identifiers.json" \in Names
  BY NamesAssumption DEF KnownNames

\* The places of the parts of a package.
LEMMA PartsType ==
    /\ \A t : ContentPath(t) \in Path /\ MetadataPath(t) \in Path
    /\ UpdatedPath \in Path /\ LogicalPath \in Path
    /\ Objects \in Path /\ Objects \o <<"content">> \in Path
    /\ Objects \o <<"header", "metadata.xml">> \in Path
    /\ PremisFile \in Path /\ IdentifierFile \in Path
  <1>1. ASSUME NEW t PROVE ContentPath(t) \in Path
    <2>1. <<"content", "content">> \in Path /\ <<"content">> \in Path
      BY Known DEF Path
    <2>2. QED
      BY <2>1 DEF ContentPath
  <1>2. ASSUME NEW t PROVE MetadataPath(t) \in Path
    <2>1. <<"content", "header", "old", "SIP", "metadata.xml">> \in Path
      BY Known DEF Path
    <2>2. <<"header", "metadata.xml">> \in Path
      BY Known DEF Path
    <2>3. QED
      BY <2>1, <2>2 DEF MetadataPath
  <1>3. Objects \in Path /\ <<"content">> \in Path /\ <<"header", "metadata.xml">> \in Path
    BY Known DEF Objects, Path
  <1>4. Objects \o <<"content">> \in Path /\ Objects \o <<"header", "metadata.xml">> \in Path
    BY <1>3, ConcatType
  <1>5. UpdatedPath \in Path /\ LogicalPath \in Path
    BY Known DEF UpdatedPath, LogicalPath, Path
  <1>6. PremisFile \in Path /\ IdentifierFile \in Path
    BY Known DEF PremisFile, IdentifierFile, Path
  <1>7. QED
    BY <1>1, <1>2, <1>3, <1>4, <1>5, <1>6

\* The files of a bag have paths.
LEMMA InDataType ==
    ASSUME NEW ps \in SUBSET Path
    PROVE  InData(ps) \in SUBSET Path /\ Tags \in SUBSET Path
  <1>1. <<"data">> \in Path /\ <<"bagit.txt">> \in Path /\ <<"manifest.txt">> \in Path
    BY Known DEF Path
  <1>2. \A p \in ps : <<"data">> \o p \in Path
    BY <1>1, ConcatType
  <1>3. QED
    BY <1>1, <1>2 DEF InData, Tags

\* The original name of a content file is a path.
LEMMA OriginalNameType ==
    ASSUME NEW p \in Below(ContentPath(sip), files), files \in SUBSET Path
    PROVE  OriginalName(p) \in Path
  <1>1. p \in Path /\ Len(ContentPath(sip)) <= Len(p)
    BY DEF Below, IsPrefix
  <1>2. Rebased(ContentPath(sip), Objects \o <<"content">>, p) \in Path
    BY <1>1, PartsType, RebasedType
  <1>3. <<"data">> \in Path
    BY Known DEF Path
  <1>4. QED
    BY <1>2, <1>3, ConcatType DEF OriginalName

\* The moves of the restructuring go from a path to a path.
LEMMA MovesType ==
    ASSUME NEW n \in 1..Len(Moves)
    PROVE  Moves[n].from \in Path /\ Moves[n].to \in Path
  <1> DEFINE metadata == [from |-> UpdatedPath, to |-> <<"metadata", Last(UpdatedPath)>>]
             logical  == [from |-> LogicalPath, to |-> <<"metadata", Last(LogicalPath)>>]
             content  == [from |-> ContentPath(sip), to |-> Objects \o <<"content">>]
             header   == [from |-> MetadataPath(sip),
                          to |-> Objects \o <<"header", "metadata.xml">>]
  <1>1. metadata.from \in Path /\ metadata.to \in Path
    <2>1. <<"metadata", Last(UpdatedPath)>> \in Path
      BY Known DEF Path, Last, UpdatedPath
    <2>2. QED
      BY <2>1, PartsType
  <1>2. logical.from \in Path /\ logical.to \in Path
    <2>1. <<"metadata", Last(LogicalPath)>> \in Path
      BY Known DEF Path, Last, LogicalPath
    <2>2. QED
      BY <2>1, PartsType
  <1>3. content.from \in Path /\ content.to \in Path
    BY PartsType
  <1>4. header.from \in Path /\ header.to \in Path
    BY PartsType
  <1> HIDE DEF metadata, logical, content, header
  <1>5. Moves = (IF sip \in AIPs THEN <<metadata, logical>> ELSE <<>>) \o <<content, header>>
    BY DEF Moves, metadata, logical, content, header
  <1>6. Moves[n] \in {metadata, logical, content, header}
    <2>1. CASE sip \in AIPs
      BY <1>5, <2>1
    <2>2. CASE sip \notin AIPs
      BY <1>5, <2>2
    <2>3. QED
      BY <2>1, <2>2
  <1>7. QED
    BY <1>1, <1>2, <1>3, <1>4, <1>6

\* Some of the moves leave files with paths.
LEMMA AfterMovesType ==
    ASSUME files \in SUBSET Path, NEW n, n <= Len(Moves), n \in Nat
    PROVE  AfterMoves(n) \in SUBSET Path
  <1> DEFINE moves == {Moves[i] : i \in 1..n}
  <1>1. Len(Moves) \in Nat
    BY DEF Moves
  <1>2. \A m \in moves : m.from \in Path /\ m.to \in Path
    BY <1>1, MovesType
  <1>3. Moved(moves, files) \in SUBSET Path
    BY <1>2, MovedType, Zenon
  <1>4. QED
    BY <1>3 DEF AfterMoves

\* The whole restructuring leaves files with paths.
LEMMA RestructuredType ==
    ASSUME files \in SUBSET Path
    PROVE  /\ \A dirs : Cleared(dirs) \in SUBSET Path
           /\ Restructured \in SUBSET Path
  <1>1. Len(Moves) \in Nat
    BY DEF Moves
  <1>2. ASSUME NEW dirs PROVE Cleared(dirs) \in SUBSET Path
    BY <1>1, AfterMovesType DEF Cleared
  <1>3. QED
    BY <1>2 DEF Restructured

(***************************************************************************)
(* The bag of a package.                                                   *)
(***************************************************************************)

\* What is assumed of a package.
LEMMA PackageType ==
    ASSUME pkg \in Packages
    PROVE  /\ pkg \in Package /\ pkg.files \in SUBSET Path
           /\ \A p \in pkg.files : p # <<>> /\ p[1] \notin {"data", "bagit.txt"}
           /\ \A p \in pkg.files : Len(p) > 0 /\ p[1] \in Names
           /\ Extracted \in SUBSET Path
  <1>1. pkg \in Package /\ \A p \in pkg.files : p # <<>> /\ p[1] \notin {"data", "bagit.txt"}
    BY PackageAssumption
  <1>2. pkg.files \in SUBSET Path
    BY <1>1 DEF Package
  <1>3. \A p \in pkg.files : Len(p) > 0 /\ p[1] \in Names
    BY <1>1, <1>2 DEF Path
  <1>4. InData(pkg.files) \in SUBSET Path /\ Tags \in SUBSET Path
    BY <1>2, InDataType
  <1>5. QED
    BY <1>1, <1>2, <1>3, <1>4 DEF Extracted

\* A path in the payload of a bag, and back.
LEMMA InDataPath ==
    ASSUME NEW p \in Path, Len(p) > 0
    PROVE  LET q == <<"data">> \o p
           IN /\ q \in Path /\ Len(q) = Len(p) + 1 /\ q[1] = "data" /\ q[2] = p[1]
              /\ IsPrefix(<<"data">>, q)
              /\ \A n \in Names : IsPrefix(<<"data", n>>, q) <=> n = p[1]
              /\ Rebased(<<"data", p[1]>>, <<p[1]>>, q) = p
  <1> DEFINE q == <<"data">> \o p
  <1>1. q \in Path /\ Len(q) = Len(p) + 1 /\ \A i \in 1..Len(p) : q[i + 1] = p[i]
    BY Known DEF Path
  <1>2. q[1] = "data" /\ q[2] = p[1]
    BY DEF Path
  <1>3. ASSUME NEW n \in Names PROVE IsPrefix(<<"data", n>>, q) <=> n = p[1]
    <2>1. <<"data", n>> \in Path
      BY Known DEF Path
    <2>2. IsPrefix(<<"data", n>>, q)
             <=> 2 <= Len(q) /\ \A i \in 1..2 : <<"data", n>>[i] = q[i]
      BY <1>1, <2>1, PrefixAt
    <2>3. Len(q) >= 2
      BY <1>1 DEF Path
    <2>4. QED
      BY <1>2, <2>2, <2>3
  <1>4. Rebased(<<"data", p[1]>>, <<p[1]>>, q) = p
    <2>1. SubSeq(q, 3, Len(p) + 1) \in Path /\ Len(SubSeq(q, 3, Len(p) + 1)) = Len(p) - 1
      BY <1>1 DEF Path
    <2>2. \A i \in 1..Len(p) - 1 : SubSeq(q, 3, Len(p) + 1)[i] = p[i + 1]
      BY <1>1 DEF Path
    <2> DEFINE r == <<p[1]>> \o SubSeq(q, 3, Len(p) + 1)
    <2>3. r \in Path /\ Len(r) = Len(p) /\ \A i \in 1..Len(p) : r[i] = p[i]
      BY <2>1, <2>2 DEF Path
    <2>4. r = p
      BY <2>3 DEF Path
    <2>5. QED
      BY <1>1, <2>4 DEF Rebased
  <1>5. IsPrefix(<<"data">>, q)
    <2>1. <<"data">> \in Path
      BY Known DEF Path
    <2>2. IsPrefix(<<"data">>, q) <=> 1 <= Len(q) /\ \A i \in 1..1 : <<"data">>[i] = q[i]
      BY <1>1, <2>1, PrefixAt
    <2>3. Len(q) >= 1
      BY <1>1 DEF Path
    <2>4. QED
      BY <1>2, <2>2, <2>3
  <1>6. QED
    BY <1>1, <1>2, <1>3, <1>4, <1>5

\* What is unbagged is the payload.
LEMMA UntaggedFiles ==
    ASSUME pkg \in Packages, pkg.bag # "none", files = Extracted
    PROVE  /\ Untagged = (IF pkg.bag = "bag" THEN InData(pkg.files) ELSE {})
           /\ \A names \in SUBSET {p[2] : p \in Untagged} : MovedUp(names) \in SUBSET Path
           /\ Untagged # {} => Unbagged = pkg.files
  <1>1. \A t \in Tags : ~IsPrefix(<<"data">>, t)
    <2>1. <<"data">> \in Path /\ Tags \in SUBSET Path /\ \A t \in Tags : t[1] # "data"
      BY Known DEF Path, Tags
    <2>2. \A t \in Tags : IsPrefix(<<"data">>, t) => <<"data">>[1] = t[1]
      BY <2>1, PrefixAt
    <2>3. QED
      BY <2>1, <2>2
  <1>2. \A p \in pkg.files : IsPrefix(<<"data">>, <<"data">> \o p)
    BY PackageType, InDataPath
  <1>3. Untagged = IF pkg.bag = "bag" THEN InData(pkg.files) ELSE {}
    BY <1>1, <1>2 DEF Untagged, Below, Extracted, InData
  <1>4. ASSUME NEW names \in SUBSET {p[2] : p \in Untagged}
        PROVE  MovedUp(names) \in SUBSET Path
    <2>1. names \subseteq Names
      BY <1>3, PackageType, InDataPath DEF InData
    <2> DEFINE moves == {[from |-> <<"data", n>>, to |-> <<n>>] : n \in names}
    <2>2. \A m \in moves : m.from \in Path /\ m.to \in Path
      <3>1. \A n \in Names : <<"data", n>> \in Path /\ <<n>> \in Path
        BY Known DEF Path
      <3>2. QED
        BY <2>1, <3>1
    <2>3. Untagged \in SUBSET Path
      BY PackageType DEF Untagged, Below
    <2>4. QED
      BY <2>2, <2>3, MovedType DEF MovedUp
  <1>5. ASSUME Untagged # {} PROVE Unbagged = pkg.files
    <2> DEFINE names == {p[2] : p \in Untagged}
               moves == {[from |-> <<"data", n>>, to |-> <<n>>] : n \in names}
    <2>1. Untagged = InData(pkg.files)
      BY <1>3, <1>5
    <2>2. names = {p[1] : p \in pkg.files} /\ names \subseteq Names
      <3>1. \A p \in pkg.files : (<<"data">> \o p)[2] = p[1] /\ p[1] \in Names
        BY PackageType, InDataPath
      <3>2. names = {(<<"data">> \o p)[2] : p \in pkg.files}
        BY <2>1 DEF InData
      <3>3. QED
        BY <3>1, <3>2
    <2>3. ASSUME NEW p \in pkg.files
          PROVE  /\ <<"data">> \o p \in Untagged
                 /\ \E m \in moves : IsPrefix(m.from, <<"data">> \o p)
                 /\ \A m \in moves : IsPrefix(m.from, <<"data">> \o p) =>
                                       Rebased(m.from, m.to, <<"data">> \o p) = p
      <3>1. p \in Path /\ Len(p) > 0 /\ p[1] \in names
        BY <2>2, PackageType
      <3>2. [from |-> <<"data", p[1]>>, to |-> <<p[1]>>] \in moves
        BY <3>1
      <3>3. ASSUME NEW m \in moves, IsPrefix(m.from, <<"data">> \o p)
            PROVE  Rebased(m.from, m.to, <<"data">> \o p) = p
        <4>1. PICK n \in names : m = [from |-> <<"data", n>>, to |-> <<n>>]
          OBVIOUS
        <4>2. n = p[1]
          BY <2>2, <3>1, <3>3, <4>1, InDataPath
        <4>3. QED
          BY <3>1, <4>1, <4>2, InDataPath
      <3>4. QED
        BY <2>1, <2>2, <3>1, <3>2, <3>3, InDataPath DEF InData
    <2>4. Moved(moves, Untagged) \subseteq pkg.files
      <3>1. SUFFICES ASSUME NEW x \in Moved(moves, Untagged) PROVE x \in pkg.files
        OBVIOUS
      <3>2. \A q \in Untagged : \E p \in pkg.files : q = <<"data">> \o p
        BY <2>1 DEF InData
      <3>3. \A q \in Untagged : \E m \in moves : IsPrefix(m.from, q)
        BY <2>3, <3>2
      <3>4. PICK m \in moves : \E q \in Below(m.from, Untagged) : x = Rebased(m.from, m.to, q)
        BY <3>1, <3>3 DEF Moved
      <3>5. PICK q \in Untagged : IsPrefix(m.from, q) /\ x = Rebased(m.from, m.to, q)
        BY <3>4 DEF Below
      <3>6. QED
        BY <2>3, <3>2, <3>5
    <2>5. pkg.files \subseteq Moved(moves, Untagged)
      BY <2>3 DEF Moved, Below
    <2>6. QED
      BY <2>4, <2>5 DEF Unbagged, MovedUp
  <1>6. QED
    BY <1>3, <1>4, <1>5

(***************************************************************************)
(* Types, and what is on disk until the package is processed.              *)
(***************************************************************************)

\* One task gets the result.
LEMMA SettledTask ==
    \A t, r : DOMAIN Settled(t, r) = {t} /\ Settled(t, r)[t] = r
  BY DEF Settled

\* A check passes or finds the content invalid.
LEMMA VerdictType == \A b : Verdict(b) \in {"ok", "invalid"}
  BY DEF Verdict

\* A step that goes on sets the results it names and leaves the other tasks.
LEMMA ProceedType ==
    ASSUME TypeOK, NEW step \in Steps, NEW results,
           \A t \in DOMAIN results : results[t] \in TaskState, Proceed(results, step)
    PROVE  pc' = step /\ pc' \in Steps /\ tasks' \in [Tasks -> TaskState]
  <1>1. \A t \in Tasks : tasks[t] \in TaskState /\ "open" \in TaskState
    BY DEF TypeOK, TaskState
  <1>2. QED
    BY <1>1 DEF Proceed

\* The same with the result of one task.
LEMMA SettledType ==
    ASSUME TypeOK, NEW step \in Steps, NEW t, NEW r \in TaskState, Proceed(Settled(t, r), step)
    PROVE  pc' = step /\ pc' \in Steps /\ tasks' \in [Tasks -> TaskState]
  <1>1. \A u \in DOMAIN Settled(t, r) : Settled(t, r)[u] \in TaskState
    BY DEF Settled
  <1>2. QED
    BY <1>1, ProceedType

\* The same without results.
LEMMA NoneSettledType ==
    ASSUME TypeOK, NEW step \in Steps, Proceed(<<>>, step)
    PROVE  pc' = step /\ pc' \in Steps /\ tasks' \in [Tasks -> TaskState]
  <1>1. \A u \in DOMAIN <<>> : <<>>[u] \in TaskState
    OBVIOUS
  <1>2. QED
    BY <1>1, ProceedType

\* The steps that some action moves to by name, and the states it gives a task.
LEMMA Named ==
    /\ {"is bag", "bag", "unbag", "identify", "structure", "apis", "objects", "event", "agent",
        "restructure", "identifiers", "create bag", "done"} \subseteq Steps
    /\ {"ok", "invalid", "system"} \subseteq TaskState
  BY DEF Steps, Tasks, Checks, TaskState

\* Every package is taken for one of the types.
LEMMA SipTypeType == \A p : SipType(p) \in Types
  BY Zenon DEF SipType, Types

\* The events of a type are checks that apply to it.
LEMMA EventsType ==
    ASSUME NEW t
    PROVE  /\ Len(EventsOf(t)) \in 1..5
           /\ \A i \in 1..Len(EventsOf(t)) : EventsOf(t)[i] \in Checks /\ Applies(EventsOf(t)[i], t)
  <1>1. CASE t \in SIPs
    BY <1>1 DEF EventsOf, Checks, Applies
  <1>2. CASE t \notin SIPs
    BY <1>2 DEF EventsOf, Checks, Applies
  <1>3. QED
    BY <1>1, <1>2

\* The PIP path of a file is a path.
LEMMA ConvertType ==
    ASSUME NEW p \in Path
    PROVE  ConvertSIPPath(p) \in Path
  <1>1. CASE Last(p) = "UpdatedAreldaMetadata.xml"
    <2>1. ConvertSIPPath(p) = <<"metadata", "UpdatedAreldaMetadata.xml">>
      BY <1>1, Zenon DEF ConvertSIPPath
    <2>2. QED
      BY <2>1, Known DEF Path
  <1>2. CASE Last(p) = "metadata.xml"
    <2>1. ConvertSIPPath(p) = Objects \o <<"header", "metadata.xml">>
      BY <1>2, Zenon DEF ConvertSIPPath
    <2>2. QED
      BY <2>1, PartsType
  <1>3. CASE Last(p) \notin {"UpdatedAreldaMetadata.xml", "metadata.xml"}
    <2>1. ConvertSIPPath(p) = IF p[1] \in ContentLike THEN Objects \o p ELSE <<>>
      BY <1>3, Zenon DEF ConvertSIPPath
    <2>2. Objects \o p \in Path /\ <<>> \in Path
      BY PartsType, ConcatType DEF Path
    <2>3. QED
      BY <2>1, <2>2
  <1>4. QED
    BY <1>1, <1>2, <1>3

\* The identifiers are of files with paths.
LEMMA IdentifiersType ==
    ASSUME pkg \in Package, NEW t
    PROVE  Identifiers(pkg, t) \in SUBSET [file : Path, source : Path]
  <1>1. \A e \in PipManifest(pkg, t).entries : e.path \in Path
    BY DEF PipManifest, Package, Listing, Entry
  <1>2. QED
    BY <1>1, ConvertType DEF Identifiers

\* Objects and events are added to PREMIS in its form.
LEMMA PremisType ==
    ASSUME TypeOK
    PROVE  /\ WithObjects \in [objects : SUBSET Path, claims : SUBSET Claim]
           /\ \A c \in Checks : WithEvent(c) \in [objects : SUBSET Path, claims : SUBSET Claim]
  <1>1. \A p \in Below(ContentPath(sip), files) : OriginalName(p) \in Path
    BY OriginalNameType DEF TypeOK
  <1>2. WithObjects \in [objects : SUBSET Path, claims : SUBSET Claim]
    BY <1>1 DEF WithObjects, TypeOK
  <1>3. ASSUME NEW c \in Checks
        PROVE  WithEvent(c) \in [objects : SUBSET Path, claims : SUBSET Claim]
    <2>1. Linked(c) \in SUBSET Path
      BY <1>1 DEF Linked, TypeOK
    <2>2. {[check |-> c, object |-> o] : o \in Linked(c)} \in SUBSET Claim
      BY <2>1 DEF Claim
    <2>3. QED
      BY <2>2 DEF WithEvent, TypeOK
  <1>4. QED
    BY <1>2, <1>3

Placed ==
    /\ pkg \in Packages
    /\ pc \in Checked \cup After => sip = SipType(pkg)
    /\ pc \in Checked => Applies(pc, sip)
    /\ pc \in After => outcome = "success"
    /\ pc # "done" => outcome \in {"success", "content"}
    /\ pc = "event" => events < Len(EventsOf(sip))

Arrived ==
    /\ pc = "is bag" => files = Extracted
    /\ pc \in {"bag", "unbag"} => files = Extracted /\ pkg.bag # "none"
    /\ pc \in {"identify", "apis", "objects"} \cup Checked => files = pkg.files

Blank ==
    pc \in Before \cup Checked \cup {"apis", "objects"} =>
        premis.objects = {} /\ premis.claims = {} /\ ids = {} /\ events = 0

Processing == TypeOK /\ Placed /\ Arrived /\ Blank

\* The invariant holds at the start.
LEMMA ProcessingInit == Init => Processing
  <1> SUFFICES ASSUME Init PROVE Processing
    OBVIOUS
  <1>1. pkg \in Package
    BY PackageType DEF Init
  <1>2. tasks \in [Tasks -> TaskState]
    BY DEF Init, TaskState
  <1>3. TypeOK
    <2>1. pc \in Steps
      BY DEF Init, Steps, Tasks
    <2>2. premis \in [objects : SUBSET Path, claims : SUBSET Claim]
      BY DEF Init
    <2>3. files \in SUBSET Path /\ ids \in SUBSET [file : Path, source : Path]
      BY DEF Init
    <2>4. sip \in Types \cup {"none"} /\ outcome \in {"success", "content", "system", "error"}
      BY DEF Init
    <2>5. events \in 0..5
      BY DEF Init
    <2>6. fault \in BOOLEAN
      BY Zenon DEF Init
    <2>7. verapdf \in BOOLEAN
      BY Zenon DEF Init
    <2>8. QED
      BY <1>1, <1>2, <2>1, <2>2, <2>3, <2>4, <2>5, <2>6, <2>7 DEF TypeOK
  <1>4. Placed /\ Arrived /\ Blank
    BY DEF Init, Placed, Arrived, Blank, Before, Checked, Checks, After
  <1>5. QED
    BY <1>3, <1>4 DEF Processing

\* A step that keeps the package and the disk and goes on.
LEMMA CheckStep ==
    ASSUME Processing, pc \in Checked, NEW results,
           \A t \in DOMAIN results : results[t] \in {"ok", "invalid"},
           outcome' \in {outcome, "content"},
           Proceed(results, Following(pc, outcome')),
           UNCHANGED <<pkg, verapdf, files, premis, ids, sip, events, fault>>
    PROVE  Processing'
  <1> DEFINE next == Following(pc, outcome')
  <1>1. sip \in Types /\ sip = SipType(pkg) /\ Applies(pc, sip)
    BY SipTypeType DEF Processing, Placed
  <1>2. /\ next \in Steps /\ next \in Checked \cup {"apis", "objects", "done"}
        /\ next \in Checked => Applies(next, sip)
        /\ next \in {"apis", "objects"} => outcome' # "content"
    <2>1. /\ next \in Steps /\ next \in Checked \cup After \cup {"done"}
          /\ next \in Checked => Applies(next, sip)
          /\ next \in After \cup {"done"} =>
                /\ outcome' = "content" <=> next = "done"
                /\ outcome' # "content" => next \in {"apis", "objects"}
      BY <1>1, NextStep
    <2>2. "done" \notin After /\ {"apis", "objects"} \cap Checked = {}
      BY DEF Checked, Checks, After
    <2>3. QED
      BY <2>1, <2>2
  <1>3. pc' = next /\ pc' \in Steps /\ tasks' \in [Tasks -> TaskState]
    BY <1>2, ProceedType DEF Processing, TaskState
  <1>0. outcome' \in {"success", "content"} /\ pc # "done"
    BY DEF Processing, Placed, Checked, Checks
  <1>4. TypeOK'
    BY <1>0, <1>3 DEF Processing, TypeOK
  <1>5. Placed'
    BY <1>0, <1>1, <1>2, <1>3 DEF Processing, Placed, Checked, Checks, After
  <1>6. Arrived' /\ Blank'
    BY <1>2, <1>3 DEF Processing, Arrived, Blank, Before, Checked, Checks
  <1>7. QED
    BY <1>4, <1>5, <1>6 DEF Processing

\* A disrupted step leaves files and metadata of their types.
LEMMA DisruptedType ==
    ASSUME Processing, Disrupted
    PROVE  /\ files' \in SUBSET Path
           /\ premis' \in [objects : SUBSET Path, claims : SUBSET Claim]
           /\ ids' \in SUBSET [file : Path, source : Path]
  <1>1. pkg \in Packages /\ pkg \in Package /\ files \in SUBSET Path
        /\ premis \in [objects : SUBSET Path, claims : SUBSET Claim]
        /\ ids \in SUBSET [file : Path, source : Path]
    BY DEF Processing, TypeOK, Placed
  <1>2. CASE UNCHANGED <<files, premis, ids>>
    BY <1>1, <1>2
  <1>3. CASE UNCHANGED <<premis, ids>> /\ pc = "extract" /\ files' = Extracted
    BY <1>1, <1>3, PackageType
  <1>4. CASE /\ UNCHANGED <<premis, ids>> /\ pc = "unbag"
             /\ \E names \in SUBSET {p[2] : p \in Untagged} : files' = MovedUp(names)
    BY <1>1, <1>4, UntaggedFiles DEF Processing, Arrived
  <1>5. CASE UNCHANGED <<premis, ids>> /\ \E dirs \in SUBSET TopLevel(sip) : files' = Cleared(dirs)
    BY <1>1, <1>5, RestructuredType
  <1>6. CASE UNCHANGED <<premis, ids>> /\ files' = InData(files) \cup Tags
    BY <1>1, <1>6, InDataType
  <1>7. CASE UNCHANGED <<premis, ids>> /\ \E n \in 1..Len(Moves) : files' = AfterMoves(n)
    <2>1. \A n \in 1..Len(Moves) : n \in Nat /\ n <= Len(Moves)
      BY DEF Moves
    <2>2. QED
      BY <1>1, <1>7, <2>1, AfterMovesType
  <1>8. CASE files' = files \cup {PremisFile} /\ premis' = WithObjects /\ UNCHANGED ids
    BY <1>1, <1>8, PartsType, PremisType DEF Processing
  <1>9. CASE pc = "event" /\ premis' = WithEvent(EventsOf(sip)[events + 1]) /\ UNCHANGED <<files, ids>>
    <2>1. events + 1 \in 1..Len(EventsOf(sip))
      BY <1>9, EventsType DEF Processing, TypeOK, Placed
    <2>2. QED
      BY <1>1, <1>9, <2>1, EventsType, PremisType DEF Processing
  <1>10. CASE /\ files' = files \cup {IdentifierFile} /\ ids' = Identifiers(pkg, sip)
              /\ UNCHANGED premis
    BY <1>1, <1>10, PartsType, IdentifiersType
  <1>11. QED
    BY <1>2, <1>3, <1>4, <1>5, <1>6, <1>7, <1>8, <1>9, <1>10 DEF Disrupted

\* Every step keeps the invariant.
LEMMA ProcessingStep == Processing /\ [Next]_vars => Processing'
  <1> SUFFICES ASSUME Processing, [Next]_vars PROVE Processing'
    OBVIOUS
  <1>0. /\ TypeOK /\ Placed /\ Arrived /\ Blank
        /\ pkg \in Packages /\ pkg \in Package /\ pkg.files \in SUBSET Path
        /\ files \in SUBSET Path
    <2>1. TypeOK /\ Placed /\ Arrived /\ Blank
      BY DEF Processing
    <2>2. pkg \in Packages /\ files \in SUBSET Path
      BY <2>1 DEF Placed, TypeOK
    <2>3. QED
      BY <2>1, <2>2, PackageType
  <1>1. CASE ExtractSIP
    <2>1. PICK r \in {"ok", "invalid"} : Proceed(Settled("extract", r), "is bag")
      BY <1>1 DEF ExtractSIP
    <2>2. pc' = "is bag" /\ pc' \in Steps /\ tasks' \in [Tasks -> TaskState]
      BY <1>0, <2>1, Named, SettledType
    <2>3. /\ files' = Extracted /\ Extracted \in SUBSET Path
          /\ pc = "extract" /\ outcome' \in {outcome, "content"} /\ Extracted' = Extracted
          /\ UNCHANGED <<pkg, verapdf, premis, ids, sip, events, fault>>
      BY <1>0, <1>1, PackageType DEF ExtractSIP, Extracted
    <2>4. outcome' \in {"success", "content"}
      BY <1>0, <2>3 DEF Placed
    <2>5. TypeOK'
      BY <1>0, <2>2, <2>3, <2>4 DEF TypeOK
    <2>6. Placed' /\ Arrived' /\ Blank'
      BY <1>0, <2>2, <2>3, <2>4 DEF Placed, Arrived, Blank, Before, Checked, Checks, After
    <2>7. QED
      BY <2>5, <2>6 DEF Processing
  <1>2. CASE IsBag
    <2> DEFINE next == IF <<"bagit.txt">> \in files THEN "bag" ELSE "identify"
    <2>1. next \in Steps /\ Proceed(<<>>, next)
      BY <1>2 DEF IsBag, Steps, Tasks
    <2>2. pc' = next /\ pc' \in Steps /\ tasks' \in [Tasks -> TaskState]
      BY <1>0, <2>1, NoneSettledType
    <2>3. /\ pc = "is bag" /\ files = Extracted
          /\ UNCHANGED <<pkg, verapdf, files, premis, ids, sip, events, outcome, fault>>
      BY <1>0, <1>2 DEF IsBag, Arrived
    <2>4. CASE <<"bagit.txt">> \in files
      <3>1. pkg.bag # "none"
        BY <1>0, <2>3, <2>4, PackageType DEF Extracted
      <3>2. QED
        BY <2>2, <2>3, <2>4, <3>1
           DEF Processing, TypeOK, Placed, Arrived, Blank, Before, Checked, Checks, After, Extracted
    <2>5. CASE <<"bagit.txt">> \notin files
      <3>1. pkg.bag = "none"
        BY <2>3, <2>5 DEF Extracted, Tags
      <3>2. files = pkg.files
        BY <2>3, <3>1 DEF Extracted
      <3>3. QED
        BY <2>2, <2>3, <2>5, <3>2
           DEF Processing, TypeOK, Placed, Arrived, Blank, Before, Checked, Checks, After
    <2>6. QED
      BY <2>4, <2>5
  <1>3. CASE IsBagFails
    <2>1. pc' = "done" /\ pc' \in Steps /\ tasks' \in [Tasks -> TaskState]
      BY <1>0, <1>3, Named, NoneSettledType DEF IsBagFails
    <2>2. /\ outcome' = "error" /\ fault' = TRUE
          /\ UNCHANGED <<pkg, verapdf, files, premis, ids, sip, events>>
      BY <1>3 DEF IsBagFails
    <2>3. TypeOK'
      BY <1>0, <2>1, <2>2 DEF TypeOK
    <2>4. Placed' /\ Arrived' /\ Blank'
      BY <1>0, <2>1, <2>2 DEF Placed, Arrived, Blank, Before, Checked, Checks, After
    <2>5. QED
      BY <2>3, <2>4 DEF Processing
  <1>4. CASE ValidateBag
    <2>1. PICK r \in {"ok", "invalid"} : Proceed(Settled("bag", r), "unbag")
      BY <1>4 DEF ValidateBag
    <2>2. pc' = "unbag" /\ pc' \in Steps /\ tasks' \in [Tasks -> TaskState]
      BY <1>0, <2>1, Named, SettledType
    <2>3. /\ pc = "bag" /\ outcome' \in {outcome, "content"}
          /\ UNCHANGED <<pkg, verapdf, files, premis, ids, sip, events, fault>>
      BY <1>4 DEF ValidateBag
    <2>4. outcome' \in {"success", "content"}
      BY <1>0, <2>3 DEF Placed
    <2>5. TypeOK'
      BY <1>0, <2>2, <2>3, <2>4 DEF TypeOK
    <2>6. Placed' /\ Arrived' /\ Blank'
      BY <1>0, <2>2, <2>3, <2>4
         DEF Placed, Arrived, Blank, Before, Checked, Checks, After, Extracted
    <2>7. QED
      BY <2>5, <2>6 DEF Processing
  <1>5. CASE UnbagSIP
    <2>1. pc' = "identify" /\ pc' \in Steps /\ tasks' \in [Tasks -> TaskState]
      BY <1>0, <1>5, Named, SettledType DEF UnbagSIP
    <2>2. /\ pc = "unbag" /\ files' = pkg.files
          /\ UNCHANGED <<pkg, verapdf, premis, ids, sip, events, outcome, fault>>
      BY <1>0, <1>5, UntaggedFiles DEF UnbagSIP, Arrived
    <2>3. TypeOK'
      BY <1>0, <2>1, <2>2 DEF TypeOK
    <2>4. Placed' /\ Arrived' /\ Blank'
      BY <1>0, <2>1, <2>2 DEF Placed, Arrived, Blank, Before, Checked, Checks, After
    <2>5. QED
      BY <2>3, <2>4 DEF Processing
  <1>6. CASE IdentifySIP
    <2>1. pc' = "structure" /\ pc' \in Steps /\ tasks' \in [Tasks -> TaskState]
      BY <1>0, <1>6, Named, SettledType DEF IdentifySIP
    <2>2. /\ pc = "identify" /\ sip' = SipType(pkg) /\ sip' \in Types
          /\ UNCHANGED <<pkg, verapdf, files, premis, ids, events, outcome, fault>>
      BY <1>6, SipTypeType DEF IdentifySIP
    <2>3. TypeOK'
      BY <1>0, <2>1, <2>2 DEF TypeOK
    <2>4. sip' = SipType(pkg)' /\ (SipType(pkg))' = SipType(pkg')
      BY <2>2
    <2>5. Placed' /\ Arrived' /\ Blank'
      BY <1>0, <2>1, <2>2, <2>4
         DEF Placed, Arrived, Blank, Before, Checked, Checks, After, Applies
    <2>6. QED
      BY <2>3, <2>5 DEF Processing
  <1>7. CASE IdentifyFails
    <2>1. pc' = "done" /\ pc' \in Steps /\ tasks' \in [Tasks -> TaskState]
      BY <1>0, <1>7, Named, SettledType DEF IdentifyFails
    <2>2. /\ outcome' = "content" /\ fault' = TRUE
          /\ UNCHANGED <<pkg, verapdf, files, premis, ids, sip, events>>
      BY <1>7 DEF IdentifyFails
    <2>3. TypeOK'
      BY <1>0, <2>1, <2>2 DEF TypeOK
    <2>4. Placed' /\ Arrived' /\ Blank'
      BY <1>0, <2>1, <2>2 DEF Placed, Arrived, Blank, Before, Checked, Checks, After
    <2>5. QED
      BY <2>3, <2>4 DEF Processing
  <1>8. ASSUME NEW check \in Checks, Validate(check)
        PROVE  Processing'
    <2> DEFINE results == Settled(check, Verdict(Fails(check)))
    <2>1. \A t \in DOMAIN results : results[t] \in {"ok", "invalid"}
      BY VerdictType DEF Settled
    <2>2. /\ pc = check /\ pc \in Checked /\ outcome' \in {outcome, "content"}
          /\ Proceed(results, Following(pc, outcome'))
          /\ UNCHANGED <<pkg, verapdf, files, premis, ids, sip, events, fault>>
      BY <1>8 DEF Validate, Checked
    <2>3. QED
      BY <2>1, <2>2, CheckStep
  <1>9. CASE VerifyManifest
    <2> DEFINE results == [t \in {"manifest", "checksums"} |->
                              Verdict(IF t = "manifest" THEN ManifestFails(pkg, sip)
                                                        ELSE ChecksumsFail(pkg, sip))]
    <2>1. \A t \in DOMAIN results : results[t] \in {"ok", "invalid"}
      BY VerdictType
    <2>2. /\ pc = "manifest" /\ pc \in Checked /\ outcome' \in {outcome, "content"}
          /\ Proceed(results, Following(pc, outcome'))
          /\ UNCHANGED <<pkg, verapdf, files, premis, ids, sip, events, fault>>
      BY <1>9 DEF VerifyManifest, Checked
    <2>3. QED
      BY <2>1, <2>2, CheckStep
  <1>10. ASSUME NEW result \in {"ok", "invalid", "system"}, CreateAPISImportTask(result)
         PROVE  Processing'
    <2> DEFINE next == IF result = "ok" THEN "objects" ELSE "done"
    <2>1. /\ pc = "apis" /\ Proceed(Settled("apis", result), next) /\ next \in Steps
          /\ result \in TaskState
          /\ UNCHANGED <<pkg, verapdf, files, premis, ids, sip, events>>
      BY <1>10 DEF CreateAPISImportTask, Steps, TaskState
    <2>2. pc' = next /\ pc' \in Steps /\ tasks' \in [Tasks -> TaskState]
      BY <1>0, <2>1, SettledType
    <2>3. outcome = "success" /\ sip = SipType(pkg) /\ files = pkg.files /\ events = 0
          /\ premis.objects = {} /\ premis.claims = {} /\ ids = {}
      BY <1>0, <2>1 DEF Placed, Arrived, Blank, After
    <2>4. /\ result = "ok" => outcome' = "success"
          /\ outcome' \in {"success", "content", "system"}
      BY <1>10, <2>3 DEF CreateAPISImportTask
    <2>5. fault' \in BOOLEAN
      BY <1>10, Zenon DEF CreateAPISImportTask
    <2>6. TypeOK'
      BY <1>0, <2>1, <2>2, <2>4, <2>5 DEF TypeOK
    <2>9. SipType(pkg') = SipType(pkg) /\ sip' = SipType(pkg') /\ pkg' \in Packages
      BY <1>0, <2>1, <2>3
    <2>10. /\ files' = pkg'.files /\ events' = 0
           /\ premis'.objects = {} /\ premis'.claims = {} /\ ids' = {}
      BY <2>1, <2>3
    <2>7. Placed' /\ Arrived' /\ Blank'
      BY <2>2, <2>4, <2>9, <2>10
         DEF Placed, Arrived, Blank, Before, Checked, Checks, After
    <2>8. QED
      BY <2>6, <2>7 DEF Processing
  <1>11. CASE AddPREMISObjects
    <2>1. pc' = "event" /\ pc' \in Steps /\ tasks' \in [Tasks -> TaskState]
      BY <1>0, <1>11, Named, NoneSettledType DEF AddPREMISObjects
    <2>2. pc = "objects" /\ outcome = "success" /\ sip = SipType(pkg)
      BY <1>0, <1>11 DEF AddPREMISObjects, Placed, After
    <2>3. /\ files' \in SUBSET Path
          /\ premis' \in [objects : SUBSET Path, claims : SUBSET Claim]
          /\ ids' \in SUBSET [file : Path, source : Path]
          /\ UNCHANGED <<pkg, verapdf, ids, sip, events, outcome, fault>>
      BY <1>0, <1>11, PartsType, PremisType DEF AddPREMISObjects, TypeOK
    <2>7. events = 0 /\ Len(EventsOf(sip)) \in 1..5
      BY <1>0, <2>2, EventsType DEF Blank
    <2>4. TypeOK'
      BY <1>0, <2>1, <2>3, ZenonT(30) DEF TypeOK
    <2>9. /\ SipType(pkg') = SipType(pkg) /\ sip' = SipType(pkg') /\ outcome' = "success"
          /\ pkg' \in Packages
      BY <1>0, <2>2, <2>3
    <2>10. events' < Len(EventsOf(sip'))
      BY <2>3, <2>7
    <2>5. Placed' /\ Arrived' /\ Blank'
      BY <2>1, <2>9, <2>10
         DEF Placed, Arrived, Blank, Before, Checked, Checks, After
    <2>6. QED
      BY <2>4, <2>5 DEF Processing
  <1>12. CASE AddPREMISEvent
    <2> DEFINE next == IF events + 1 = Len(EventsOf(sip)) THEN "agent" ELSE "event"
    <2>1. /\ pc = "event" /\ Proceed(<<>>, next) /\ next \in Steps /\ events' = events + 1
          /\ premis' = WithEvent(EventsOf(sip)[events + 1])
          /\ UNCHANGED <<pkg, verapdf, files, ids, sip, outcome, fault>>
      BY <1>12 DEF AddPREMISEvent, Steps
    <2>2. pc' = next /\ pc' \in Steps /\ tasks' \in [Tasks -> TaskState]
      BY <1>0, <2>1, NoneSettledType
    <2>3. /\ outcome = "success" /\ sip = SipType(pkg)
          /\ events \in Nat /\ events < Len(EventsOf(sip)) /\ Len(EventsOf(sip)) \in 1..5
      BY <1>0, <2>1, EventsType DEF Placed, After, TypeOK
    <2>4. EventsOf(sip)[events + 1] \in Checks
      BY <2>3, EventsType
    <2>5. premis' \in [objects : SUBSET Path, claims : SUBSET Claim]
      BY <1>0, <2>1, <2>4, PremisType
    <2>6. TypeOK'
      <3>1. events' \in 0..5
        BY <2>1, <2>3
      <3> QED
        BY <1>0, <2>1, <2>2, <2>5, <3>1, Zenon DEF TypeOK
    <2>7. next = "event" => events' < Len(EventsOf(sip))
      BY <2>1, <2>3
    <2>10. /\ SipType(pkg') = SipType(pkg) /\ sip' = SipType(pkg') /\ outcome' = "success"
           /\ pkg' \in Packages
           /\ next = "event" => events' < Len(EventsOf(sip'))
      BY <1>0, <2>1, <2>3, <2>7
    <2>8. Placed' /\ Arrived' /\ Blank'
      <3>1. pc' \in {"agent", "event"}
        BY <2>2
      <3>2. pc' = "event" => events' < Len(EventsOf(sip'))
        BY <2>2, <2>10
      <3>3. QED
        BY <2>10, <3>1, <3>2 DEF Placed, Arrived, Blank, Before, Checked, Checks, After
    <2>9. QED
      BY <2>6, <2>8 DEF Processing
  <1>13. CASE AddPREMISAgent
    <2>1. pc' = "restructure" /\ pc' \in Steps /\ tasks' \in [Tasks -> TaskState]
      BY <1>0, <1>13, Named, SettledType DEF AddPREMISAgent
    <2>2. pc = "agent" /\ outcome = "success" /\ sip = SipType(pkg)
      BY <1>0, <1>13 DEF AddPREMISAgent, Placed, After
    <2>3. /\ files' \in SUBSET Path
          /\ premis' \in [objects : SUBSET Path, claims : SUBSET Claim]
          /\ ids' \in SUBSET [file : Path, source : Path]
          /\ UNCHANGED <<pkg, verapdf, files, premis, ids, sip, events, outcome, fault>>
      BY <1>0, <1>13, PartsType DEF AddPREMISAgent, TypeOK
    <2>4. TypeOK'
      BY <1>0, <2>1, <2>3 DEF TypeOK
    <2>9. /\ SipType(pkg') = SipType(pkg) /\ sip' = SipType(pkg') /\ outcome' = "success"
          /\ pkg' \in Packages
      BY <1>0, <2>2, <2>3
    <2>5. Placed' /\ Arrived' /\ Blank'
      BY <2>1, <2>9
         DEF Placed, Arrived, Blank, Before, Checked, Checks, After
    <2>6. QED
      BY <2>4, <2>5 DEF Processing
  <1>14. CASE TransformSIP
    <2>1. pc' = "identifiers" /\ pc' \in Steps /\ tasks' \in [Tasks -> TaskState]
      BY <1>0, <1>14, Named, SettledType DEF TransformSIP
    <2>2. pc = "restructure" /\ outcome = "success" /\ sip = SipType(pkg)
      BY <1>0, <1>14 DEF TransformSIP, Placed, After
    <2>3. /\ files' \in SUBSET Path
          /\ premis' \in [objects : SUBSET Path, claims : SUBSET Claim]
          /\ ids' \in SUBSET [file : Path, source : Path]
          /\ UNCHANGED <<pkg, verapdf, premis, ids, sip, events, outcome, fault>>
      BY <1>0, <1>14, RestructuredType DEF TransformSIP, TypeOK
    <2>4. TypeOK'
      BY <1>0, <2>1, <2>3 DEF TypeOK
    <2>9. /\ SipType(pkg') = SipType(pkg) /\ sip' = SipType(pkg') /\ outcome' = "success"
          /\ pkg' \in Packages
      BY <1>0, <2>2, <2>3
    <2>5. Placed' /\ Arrived' /\ Blank'
      BY <2>1, <2>9
         DEF Placed, Arrived, Blank, Before, Checked, Checks, After
    <2>6. QED
      BY <2>4, <2>5 DEF Processing
  <1>15. CASE WriteIdentifierFile
    <2>1. pc' = "create bag" /\ pc' \in Steps /\ tasks' \in [Tasks -> TaskState]
      BY <1>0, <1>15, Named, SettledType DEF WriteIdentifierFile
    <2>2. pc = "identifiers" /\ outcome = "success" /\ sip = SipType(pkg)
      BY <1>0, <1>15 DEF WriteIdentifierFile, Placed, After
    <2>3. /\ files' \in SUBSET Path
          /\ premis' \in [objects : SUBSET Path, claims : SUBSET Claim]
          /\ ids' \in SUBSET [file : Path, source : Path]
          /\ UNCHANGED <<pkg, verapdf, premis, sip, events, outcome, fault>>
      BY <1>0, <1>15, PartsType, IdentifiersType DEF WriteIdentifierFile, TypeOK
    <2>4. TypeOK'
      BY <1>0, <2>1, <2>3 DEF TypeOK
    <2>9. /\ SipType(pkg') = SipType(pkg) /\ sip' = SipType(pkg') /\ outcome' = "success"
          /\ pkg' \in Packages
      BY <1>0, <2>2, <2>3
    <2>5. Placed' /\ Arrived' /\ Blank'
      BY <2>1, <2>9
         DEF Placed, Arrived, Blank, Before, Checked, Checks, After
    <2>6. QED
      BY <2>4, <2>5 DEF Processing
  <1>16. CASE CreateBag
    <2>1. pc' = "done" /\ pc' \in Steps /\ tasks' \in [Tasks -> TaskState]
      BY <1>0, <1>16, Named, SettledType DEF CreateBag
    <2>2. pc = "create bag" /\ outcome = "success" /\ sip = SipType(pkg)
      BY <1>0, <1>16 DEF CreateBag, Placed, After
    <2>3. /\ files' \in SUBSET Path
          /\ premis' \in [objects : SUBSET Path, claims : SUBSET Claim]
          /\ ids' \in SUBSET [file : Path, source : Path]
          /\ UNCHANGED <<pkg, verapdf, premis, ids, sip, events, outcome, fault>>
      BY <1>0, <1>16, InDataType DEF CreateBag, TypeOK
    <2>4. TypeOK'
      BY <1>0, <2>1, <2>3 DEF TypeOK
    <2>9. /\ SipType(pkg') = SipType(pkg) /\ sip' = SipType(pkg') /\ outcome' = "success"
          /\ pkg' \in Packages
      BY <1>0, <2>2, <2>3
    <2>5. Placed' /\ Arrived' /\ Blank'
      BY <2>1, <2>9
         DEF Placed, Arrived, Blank, Before, Checked, Checks, After
    <2>6. QED
      BY <2>4, <2>5 DEF Processing
  <1>17. CASE ActivityFails
    <2>1. /\ Proceed(Failed(pc), "done") /\ "done" \in Steps
          /\ \A t \in DOMAIN Failed(pc) : Failed(pc)[t] \in TaskState
      BY <1>17 DEF ActivityFails, Steps, Failed, TaskState
    <2>2. pc' = "done" /\ pc' \in Steps /\ tasks' \in [Tasks -> TaskState]
      BY <1>0, <2>1, ProceedType
    <2>3. /\ files' \in SUBSET Path
          /\ premis' \in [objects : SUBSET Path, claims : SUBSET Claim]
          /\ ids' \in SUBSET [file : Path, source : Path]
      BY <1>17, DisruptedType DEF ActivityFails
    <2>4. outcome' = "system" /\ UNCHANGED <<pkg, verapdf, sip, events>>
      BY <1>17 DEF ActivityFails
    <2>5. fault' \in BOOLEAN
      BY <1>17, Zenon DEF ActivityFails
    <2>6. TypeOK'
      BY <1>0, <2>2, <2>3, <2>4, <2>5 DEF TypeOK
    <2>7. Placed' /\ Arrived' /\ Blank'
      BY <1>0, <2>2, <2>4 DEF Placed, Arrived, Blank, Before, Checked, Checks, After
    <2>8. QED
      BY <2>6, <2>7 DEF Processing
  <1>18. CASE UNCHANGED vars
    <2>1. TypeOK'
      BY <1>0, <1>18, ZenonT(30) DEF vars, TypeOK
    <2>2. Placed' /\ Arrived'
      BY <1>0, <1>18 DEF vars, Placed, Arrived, Extracted
    <2>3. Blank'
      BY <1>0, <1>18 DEF vars, Blank
    <2>4. QED
      BY <2>1, <2>2, <2>3 DEF Processing
  <1>19. QED
    BY <1>1, <1>2, <1>3, <1>4, <1>5, <1>6, <1>7, <1>8, <1>9, <1>10, <1>11, <1>12, <1>13,
       <1>14, <1>15, <1>16, <1>17, <1>18 DEF Next

\* For every set of packages the disk, premis.xml, identifiers.json, the tasks and
\* the result keep their types, whatever the activities move, rename and delete
\* and wherever one of them fails (preprocessing.go:50-544).
THEOREM TypeCorrect == Spec => []TypeOK
  <1>1. Init => Processing
    BY ProcessingInit
  <1>2. Processing /\ [Next]_vars => Processing'
    BY ProcessingStep
  <1>3. Processing => TypeOK
    BY DEF Processing
  <1>4. QED
    BY <1>1, <1>2, <1>3, PTL DEF Spec

(***************************************************************************)
(* What is refused.                                                        *)
(***************************************************************************)

\* Every step leaves a refused package untouched.
LEMMA RefusedStep == Processing /\ RefusedIsUntouched /\ [Next]_vars => RefusedIsUntouched'
  <1> SUFFICES ASSUME Processing, RefusedIsUntouched, [Next]_vars,
                      pc' = "done", outcome' = "content"
               PROVE  files' = pkg'.files /\ premis'.objects = {} /\ ids' = {}
    BY DEF RefusedIsUntouched
  <1>0. TypeOK /\ Placed /\ Arrived /\ Blank
    BY DEF Processing
  <1>1. CASE \/ IdentifyFails
             \/ \E check \in Checks : Validate(check)
             \/ VerifyManifest
             \/ \E result \in {"ok", "invalid", "system"} : CreateAPISImportTask(result)
    <2>1. pc \in {"identify", "apis"} \cup Checked /\ UNCHANGED <<pkg, verapdf, files, premis, ids>>
      BY <1>1 DEF IdentifyFails, Validate, VerifyManifest, CreateAPISImportTask, Checked
    <2>2. QED
      BY <1>0, <2>1 DEF Arrived, Blank, Before
  <1>2. CASE ExtractSIP \/ IsBag \/ ValidateBag \/ UnbagSIP \/ IdentifySIP
    BY <1>2 DEF ExtractSIP, IsBag, ValidateBag, UnbagSIP, IdentifySIP, Proceed
  <1>3. CASE \/ AddPREMISObjects \/ AddPREMISEvent \/ AddPREMISAgent
             \/ TransformSIP \/ WriteIdentifierFile
    BY <1>3 DEF AddPREMISObjects, AddPREMISEvent, AddPREMISAgent, TransformSIP,
                WriteIdentifierFile, Proceed
  <1>4. CASE CreateBag
    BY <1>0, <1>4 DEF CreateBag, Placed, After
  <1>5. CASE IsBagFails \/ ActivityFails
    BY <1>5 DEF IsBagFails, ActivityFails
  <1>6. CASE UNCHANGED vars
    BY <1>6 DEF vars, RefusedIsUntouched
  <1>7. QED
    BY <1>1, <1>2, <1>3, <1>4, <1>5, <1>6 DEF Next

\* For every package, one refused for its content has been taken out of its bag
\* and that is all: the result "content" is returned when the package cannot be
\* identified, after the last check and when APIS refuses it, always before
\* something is written (preprocessing.go:166-174, 451-461).
THEOREM SpecRefusedIsUntouched == Spec => []RefusedIsUntouched
  <1>1. Init => Processing /\ RefusedIsUntouched
    BY ProcessingInit DEF Init, RefusedIsUntouched
  <1>2. Processing /\ RefusedIsUntouched /\ [Next]_vars => Processing' /\ RefusedIsUntouched'
    BY ProcessingStep, RefusedStep
  <1>3. QED
    BY <1>1, <1>2, PTL DEF Spec

(***************************************************************************)
(* What premis.xml claims.                                                 *)
(***************************************************************************)

\* The checks that a package without failures has passed, and the objects of
\* premis.xml once they are in it.
Passed ==
    outcome = "success" /\ pc \in Checked \cup After =>
        \A c \in Checks : Applies(c, sip) /\ Rank(c) < Rank(pc) => ~Fails(c)

Described ==
    pc = "event" =>
        /\ Below(ContentPath(sip), files) = Content(pkg)
        /\ premis.objects = {OriginalName(p) : p \in Content(pkg)}

Claiming == Processing /\ Passed /\ Described /\ PremisIsTrue

\* While package and type stay, so do the verdicts.
LEMMA SameVerdicts ==
    ASSUME UNCHANGED <<pkg, verapdf, sip>>
    PROVE  /\ \A c : Fails(c)' <=> Fails(c)
           /\ \A c : (Finds(c)' <=> Finds(c)) /\ (Skipped(c)' <=> Skipped(c))
           /\ \A p : OriginalName(p)' = OriginalName(p)
           /\ Content(pkg)' = Content(pkg)
           /\ \A t : Applies(t, sip') <=> Applies(t, sip)
  BY DEF Fails, Finds, Skipped, OriginalName

\* The file premis.xml is not in the content.
LEMMA PremisFileApart ==
    ASSUME NEW t, NEW ps \in SUBSET Path
    PROVE  Below(ContentPath(t), ps \cup {PremisFile}) = Below(ContentPath(t), ps)
  <1>1. ContentPath(t) \in Path /\ PremisFile \in Path
    BY PartsType
  <1>2. Len(ContentPath(t)) > 0 /\ ContentPath(t)[1] = "content" /\ PremisFile[1] = "metadata"
    BY DEF ContentPath, PremisFile
  <1>3. ~IsPrefix(ContentPath(t), PremisFile)
    BY <1>1, <1>2, PrefixAt
  <1>4. QED
    BY <1>3 DEF Below

\* Every check that applies is of a lower rank than what follows the checks.
LEMMA ChecksFirst ==
    ASSUME NEW s \in After, NEW c \in Checks
    PROVE  Rank(c) < Rank(s)
  <1>1. Rank(c) \in 5..11 /\ Rank(s) \in 12..16
    BY Ranks DEF Checked
  <1>2. QED
    BY <1>1

\* A check whose verdict decides the outcome.
LEMMA CheckPasses ==
    ASSUME Claiming, pc \in Checked, NEW results,
           Proceed(results, Following(pc, outcome')),
           outcome' # "content" => outcome' = outcome /\ (pc \in Checks => ~Fails(pc)),
           UNCHANGED <<pkg, verapdf, files, premis, sip>>
    PROVE  Passed' /\ Described' /\ PremisIsTrue'
  <1>1. Processing /\ Passed /\ Described /\ PremisIsTrue /\ Blank /\ Placed
    BY DEF Claiming, Processing
  <1>2. premis'.objects = {} /\ premis'.claims = {}
    BY <1>1 DEF Blank
  <1>3. PremisIsTrue'
    BY <1>2 DEF PremisIsTrue
  <1>4. sip \in Types /\ Applies(pc, sip) /\ pc' = Following(pc, outcome')
    BY <1>1, SipTypeType DEF Placed, Proceed
  <1>5. ASSUME outcome' = "success", NEW c \in Checks, Applies(c, sip), Rank(c) < Rank(pc')
        PROVE  ~Fails(c)
    <2>1. Rank(c) < Rank(pc) \/ c = pc
      BY <1>4, <1>5, NextStep
    <2>2. QED
      BY <1>1, <1>5, <2>1 DEF Passed
  <1>6. Passed'
    BY <1>5, SameVerdicts DEF Passed
  <1>7. Described'
    <2>1. pc' \in Checked \cup {"apis", "objects", "done"}
      BY <1>4, NextStep
    <2>2. QED
      BY <2>1 DEF Described, Checked, Checks
  <1>8. QED
    BY <1>3, <1>6, <1>7

\* A step that keeps what Claiming is about, and has passed the checks or stops.
LEMMA KeepsClaims ==
    ASSUME Claiming, UNCHANGED <<pkg, verapdf, sip, premis>>, pc' # "event",
           \/ pc' = "done"
           \/ pc' \notin Checked \cup After
           \/ pc' \in After /\ pc \in After
    PROVE  Passed' /\ Described' /\ PremisIsTrue'
  <1>1. Passed /\ PremisIsTrue /\ Placed
    BY DEF Claiming, Processing
  <1>2. PremisIsTrue'
    BY <1>1, SameVerdicts DEF PremisIsTrue
  <1>3. Passed'
    <2>1. CASE pc' = "done" \/ pc' \notin Checked \cup After
      BY <2>1 DEF Passed, Checked, Checks, After
    <2>2. CASE pc' \in After /\ pc \in After
      <3>1. \A c \in Checks : Applies(c, sip) => ~Fails(c)
        BY <1>1, <2>2, ChecksFirst DEF Passed, Placed
      <3>2. QED
        BY <3>1, SameVerdicts DEF Passed
    <2>3. QED
      BY <2>1, <2>2
  <1>4. Described'
    BY DEF Described
  <1>5. QED
    BY <1>2, <1>3, <1>4

\* Every step claims what was checked only.
LEMMA ClaimingStep == Claiming /\ [Next]_vars => Claiming'
  <1> SUFFICES ASSUME Claiming, [Next]_vars
               PROVE  Passed' /\ Described' /\ PremisIsTrue'
    BY ProcessingStep DEF Claiming
  <1>0. /\ Processing /\ Passed /\ Described /\ PremisIsTrue
        /\ TypeOK /\ Placed /\ Arrived /\ Blank
    BY DEF Claiming, Processing
  <1>1. CASE ExtractSIP \/ IsBag \/ IsBagFails \/ ValidateBag \/ UnbagSIP \/ IdentifyFails
    <2>1. pc' \in {"is bag", "bag", "unbag", "identify", "done"} /\ UNCHANGED <<pkg, verapdf, sip, premis>>
      BY <1>1 DEF ExtractSIP, IsBag, IsBagFails, ValidateBag, UnbagSIP, IdentifyFails, Proceed
    <2>2. pc' # "event" /\ (pc' = "done" \/ pc' \notin Checked \cup After)
      BY <2>1 DEF Checked, Checks, After
    <2>3. QED
      BY <2>1, <2>2, KeepsClaims
  <1>2. CASE IdentifySIP
    <2>1. pc = "identify" /\ pc' = "structure" /\ UNCHANGED premis
      BY <1>2 DEF IdentifySIP, Proceed
    <2>2. premis'.objects = {} /\ premis'.claims = {}
      BY <1>0, <2>1 DEF Blank, Before
    <2>3. \A c \in Checks : ~(Rank(c) < Rank("structure"))
      <3>1. \A c \in Checks : Rank(c) \in 5..11 /\ Rank("structure") = 5
        BY CheckRank, RankValues DEF Checked
      <3>2. QED
        BY <3>1
    <2>4. Passed'
      BY <2>1, <2>3 DEF Passed
    <2>5. QED
      BY <2>1, <2>2, <2>4 DEF Described, PremisIsTrue
  <1>3. ASSUME NEW check \in Checks, Validate(check)
        PROVE  Passed' /\ Described' /\ PremisIsTrue'
    <2>1. /\ pc = check /\ pc \in Checked
          /\ Proceed(Settled(check, Verdict(Fails(check))), Following(pc, outcome'))
          /\ outcome' # "content" => outcome' = outcome /\ ~Fails(pc)
          /\ UNCHANGED <<pkg, verapdf, files, premis, sip>>
      BY <1>3 DEF Validate, Checked
    <2>2. QED
      BY <2>1, CheckPasses
  <1>4. CASE VerifyManifest
    <2>1. /\ pc = "manifest" /\ pc \in Checked /\ pc \notin Checks
          /\ Proceed([t \in {"manifest", "checksums"} |->
                         Verdict(IF t = "manifest" THEN ManifestFails(pkg, sip)
                                                   ELSE ChecksumsFail(pkg, sip))],
                     Following(pc, outcome'))
          /\ outcome' # "content" => outcome' = outcome
          /\ UNCHANGED <<pkg, verapdf, files, premis, sip>>
      BY <1>4 DEF VerifyManifest, Checked, Checks
    <2>2. QED
      BY <2>1, CheckPasses
  <1>5. ASSUME NEW result \in {"ok", "invalid", "system"}, CreateAPISImportTask(result)
        PROVE  Passed' /\ Described' /\ PremisIsTrue'
    <2>1. pc = "apis" /\ pc' \in {"objects", "done"} /\ UNCHANGED <<pkg, verapdf, sip, premis>>
      BY <1>5 DEF CreateAPISImportTask, Proceed
    <2>2. QED
      BY <1>0, <2>1, KeepsClaims DEF After
  <1>6. CASE AddPREMISAgent \/ TransformSIP \/ WriteIdentifierFile \/ CreateBag
    <2>1. /\ pc \in After /\ pc' \in {"restructure", "identifiers", "create bag", "done"}
          /\ UNCHANGED <<pkg, verapdf, sip, premis>>
      BY <1>6 DEF AddPREMISAgent, TransformSIP, WriteIdentifierFile, CreateBag, Proceed, After
    <2>2. QED
      BY <1>0, <2>1, KeepsClaims DEF After
  <1>7. CASE AddPREMISObjects
    <2>1. /\ pc = "objects" /\ pc' = "event" /\ files' = files \cup {PremisFile}
          /\ premis' = WithObjects /\ UNCHANGED <<pkg, verapdf, sip>>
      BY <1>7 DEF AddPREMISObjects, Proceed
    <2>2. files = pkg.files /\ sip = SipType(pkg) /\ premis.objects = {} /\ premis.claims = {}
      BY <1>0, <2>1 DEF Arrived, Blank, Placed, After
    <2>3. Content(pkg) = Below(ContentPath(sip), files)
      BY <2>2 DEF Content
    <2>4. /\ premis'.objects = {OriginalName(p) : p \in Content(pkg)}
          /\ premis'.claims = {}
      BY <1>0, <2>1, <2>2, <2>3 DEF WithObjects, TypeOK
    <2>5. Below(ContentPath(sip), files') = Content(pkg)
      BY <1>0, <2>1, <2>3, PremisFileApart DEF TypeOK
    <2>6. Described' /\ PremisIsTrue'
      BY <2>1, <2>4, <2>5, SameVerdicts DEF Described, PremisIsTrue
    <2>7. Passed'
      <3>1. \A c \in Checks : Applies(c, sip) /\ outcome = "success" => ~Fails(c)
        BY <1>0, <2>1, ChecksFirst DEF Passed, After
      <3>2. outcome' = "success" => outcome = "success"
        BY <1>7 DEF AddPREMISObjects
      <3>3. QED
        BY <2>1, <3>1, <3>2, SameVerdicts DEF Passed
    <2>8. QED
      BY <2>6, <2>7
  <1>8. ASSUME pc = "event", premis' = WithEvent(EventsOf(sip)[events + 1]),
               UNCHANGED <<pkg, verapdf, sip>>
        PROVE  PremisIsTrue' /\ premis'.objects = premis.objects
    <2> DEFINE check == EventsOf(sip)[events + 1]
    <2>1. events + 1 \in 1..Len(EventsOf(sip))
      BY <1>0, <1>8, EventsType DEF TypeOK, Placed
    <2>2. check \in Checks /\ Applies(check, sip) /\ outcome = "success"
      BY <1>0, <1>8, <2>1, EventsType DEF Placed, After
    <2>3. ~Fails(check)
      BY <1>0, <1>8, <2>2, ChecksFirst DEF Passed, After
    <2>4. Linked(check) \subseteq premis.objects
      BY <1>0, <1>8 DEF Linked, Described
    <2>5. /\ premis'.objects = premis.objects
          /\ premis'.claims = premis.claims \cup {[check |-> check, object |-> o] : o \in Linked(check)}
      BY <1>0, <1>8 DEF WithEvent, TypeOK
    <2>6. \A c \in premis'.claims : c.object \in premis.objects /\ ~Fails(c.check)
      BY <1>0, <2>3, <2>4, <2>5 DEF PremisIsTrue, Fails
    <2>7. QED
      BY <1>0, <1>8, <2>5, <2>6, SameVerdicts DEF PremisIsTrue, Fails
  <1>9. CASE AddPREMISEvent
    <2>1. /\ pc = "event" /\ pc' \in {"agent", "event"}
          /\ premis' = WithEvent(EventsOf(sip)[events + 1])
          /\ UNCHANGED <<pkg, verapdf, sip, files, outcome>>
      BY <1>9 DEF AddPREMISEvent, Proceed
    <2>2. PremisIsTrue' /\ premis'.objects = premis.objects
      BY <1>8, <2>1
    <2>3. Described'
      BY <1>0, <2>1, <2>2, SameVerdicts DEF Described
    <2>4. Passed'
      <3>1. \A c \in Checks : Applies(c, sip) /\ outcome = "success" => ~Fails(c)
        BY <1>0, <2>1, ChecksFirst DEF Passed, After
      <3>2. QED
        BY <2>1, <3>1, SameVerdicts DEF Passed
    <2>5. QED
      BY <2>2, <2>3, <2>4
  <1>10. CASE ActivityFails
    <2>1. pc' = "done" /\ UNCHANGED <<pkg, verapdf, sip>> /\ Disrupted
      BY <1>10 DEF ActivityFails, Proceed
    <2>2. PremisIsTrue'
      <3>1. CASE UNCHANGED premis
        BY <1>0, <2>1, <3>1, SameVerdicts DEF PremisIsTrue
      <3>2. CASE pc = "objects" /\ premis' = WithObjects
        <4>1. files = pkg.files /\ sip = SipType(pkg) /\ premis.objects = {} /\ premis.claims = {}
          BY <1>0, <3>2 DEF Arrived, Blank, Placed, After
        <4>2. Content(pkg) = Below(ContentPath(sip), files)
          BY <4>1 DEF Content
        <4>3. /\ premis'.objects = {OriginalName(p) : p \in Content(pkg)}
              /\ premis'.claims = {}
          BY <1>0, <3>2, <4>1, <4>2 DEF WithObjects, TypeOK
        <4>4. QED
          BY <2>1, <4>3, SameVerdicts DEF PremisIsTrue
      <3>3. CASE pc = "event" /\ premis' = WithEvent(EventsOf(sip)[events + 1])
        BY <1>8, <2>1, <3>3
      <3>4. QED
        BY <2>1, <3>1, <3>2, <3>3 DEF Disrupted
    <2>3. Passed' /\ Described'
      BY <2>1 DEF Passed, Described, Checked, Checks, After
    <2>4. QED
      BY <2>2, <2>3
  <1>11. CASE UNCHANGED vars
    <2>1. UNCHANGED <<pkg, verapdf, files, premis, sip, pc, outcome>>
      BY <1>11 DEF vars
    <2>2. QED
      BY <1>0, <2>1, SameVerdicts DEF Passed, Described, PremisIsTrue
  <1>12. QED
    BY <1>1, <1>2, <1>3, <1>4, <1>5, <1>6, <1>7, <1>9, <1>10, <1>11 DEF Next

\* Whatever the packages, and wherever an activity fails, an event of premis.xml
\* is about a file of the content and about a check that the package has passed, or
\* about the one check a worker without veraPDF skips: the events carry fixed texts,
\* and only the order of the steps makes the others true, with veraPDF all of them
\* (preprocessing.go:448-487, 848-982, verapdf_validator.go:62-66).
THEOREM SpecPremisIsTrue == Spec => []PremisIsTrue
  <1>1. Init => Claiming
    <2>1. Init => Passed /\ Described /\ PremisIsTrue
      BY DEF Init, Passed, Described, PremisIsTrue, Checked, Checks, After
    <2>2. QED
      BY <2>1, ProcessingInit DEF Claiming
  <1>2. Claiming /\ [Next]_vars => Claiming'
    BY ClaimingStep
  <1>3. Claiming => PremisIsTrue
    BY DEF Claiming
  <1>4. QED
    BY <1>1, <1>2, <1>3, PTL DEF Spec

(***************************************************************************)
(* What the tasks tell.                                                    *)
(***************************************************************************)

\* Until something fails in the system: the open tasks are those of the step,
\* those of later steps have not begun, and one that found the package invalid
\* stays in that state.
Telling ==
    outcome \in {"success", "content"} =>
        /\ \A t \in Tasks : tasks[t] = "open" <=> t \in Opened(pc)
        /\ \A t \in Tasks : Rank(t) > Rank(pc) => tasks[t] = "none"
        /\ \A t \in Tasks : tasks[t] # "system"
        /\ outcome = "content" <=> \E t \in Tasks : tasks[t] = "invalid"

\* A workflow that ends without a system error has told how in its tasks.
LEMMA ToldAtTheEnd ==
    ASSUME Telling, outcome \in {"success", "content"}
    PROVE  TasksTellTheOutcome
  <1> SUFFICES ASSUME pc = "done"
               PROVE  LET told == {tasks[t] : t \in Tasks} \ {"none"}
                      IN  /\ "open" \notin told
                          /\ outcome = IF "system" \in told THEN "system"
                                       ELSE IF "invalid" \in told THEN "content" ELSE "success"
    BY DEF TasksTellTheOutcome
  <1>1. Opened(pc) = {}
    BY DEF Opened, Tasks, Checks
  <1>2. QED
    BY <1>1 DEF Telling

\* A step that settles the open tasks, or leaves them open.
LEMMA GoesOn ==
    ASSUME Processing, Telling, pc # "done", NEW results, NEW step \in Steps,
           Proceed(results, step),
           \/ DOMAIN results = Opened(pc) /\ Rank(pc) < Rank(step)
           \/ DOMAIN results = {} /\ Opened(step) = Opened(pc) /\ Rank(step) = Rank(pc),
           \A t \in DOMAIN results : results[t] \in {"ok", "invalid"},
           outcome' = IF \E t \in DOMAIN results : results[t] = "invalid"
                      THEN "content" ELSE outcome
    PROVE  Telling' /\ outcome' \in {"success", "content"}
  <1>1. outcome \in {"success", "content"} /\ pc \in Steps
    BY DEF Processing, Placed, TypeOK
  <1>2. pc' = step /\ outcome' \in {"success", "content"}
    BY <1>1 DEF Proceed
  <1>3. /\ \A t \in Tasks : Rank(t) \in Int
        /\ Rank(pc) \in Int /\ Rank(step) \in Int /\ Rank(pc) <= Rank(step)
    BY <1>1, Ranks
  <1>4. /\ \A t \in Opened(pc) : t \in Tasks /\ Rank(t) = Rank(pc)
        /\ \A t \in Opened(step) : t \in Tasks /\ Rank(t) = Rank(step)
    BY <1>1, Ranks
  <1>5. \A t \in Opened(step) : t \notin DOMAIN results
    BY <1>3, <1>4
  <1>6. \A t \in Tasks : tasks'[t] = IF t \in DOMAIN results THEN results[t]
                                     ELSE IF t \in Opened(step) THEN "open" ELSE tasks[t]
    BY DEF Proceed
  <1>7. /\ \A t \in Tasks : tasks[t] = "open" <=> t \in Opened(pc)
        /\ \A t \in Tasks : Rank(t) > Rank(pc) => tasks[t] = "none"
        /\ \A t \in Tasks : tasks[t] # "system"
        /\ outcome = "content" <=> \E t \in Tasks : tasks[t] = "invalid"
    BY <1>1 DEF Telling
  <1>8. \A t \in Tasks : tasks'[t] = "open" <=> t \in Opened(step)
    BY <1>5, <1>6, <1>7
  <1>9. ASSUME NEW t \in Tasks, Rank(t) > Rank(step)
        PROVE  tasks'[t] = "none"
    <2>1. Rank(t) > Rank(pc) /\ t \notin Opened(step) /\ t \notin Opened(pc)
      BY <1>3, <1>4, <1>9
    <2>2. t \notin DOMAIN results
      BY <2>1
    <2>3. QED
      BY <1>6, <1>7, <2>1, <2>2
  <1>10. \A t \in Tasks : tasks'[t] # "system"
    BY <1>6, <1>7
  <1>11. outcome' = "content" <=> \E t \in Tasks : tasks'[t] = "invalid"
    <2>1. ASSUME NEW t \in Tasks, tasks[t] = "invalid"
          PROVE  tasks'[t] = "invalid"
      <3>1. t \notin Opened(pc) /\ t \notin DOMAIN results
        BY <1>7, <2>1
      <3>2. t \notin Opened(step)
        <4>1. ~(Rank(t) > Rank(pc))
          BY <1>7, <2>1
        <4>2. QED
          BY <1>3, <1>4, <3>1, <4>1
      <3>3. QED
        BY <1>6, <2>1, <3>1, <3>2
    <2>2. \A t \in DOMAIN results : t \in Tasks /\ tasks'[t] = results[t]
      BY <1>4, <1>6
    <2>3. \A t \in Tasks : tasks'[t] = "invalid" =>
             tasks[t] = "invalid" \/ (t \in DOMAIN results /\ results[t] = "invalid")
      BY <1>6
    <2>4. CASE \E t \in DOMAIN results : results[t] = "invalid"
      BY <2>2, <2>4
    <2>5. CASE ~\E t \in DOMAIN results : results[t] = "invalid"
      BY <1>7, <2>1, <2>3, <2>5
    <2>6. QED
      BY <2>4, <2>5
  <1>12. Telling'
    BY <1>2, <1>8, <1>9, <1>10, <1>11 DEF Telling
  <1>13. QED
    BY <1>2, <1>12

\* A step that ends in a system error fails every open task, and there is one.
LEMMA EndsInSystemError ==
    ASSUME Processing, Telling, pc # "done", NEW results, Opened(pc) # {},
           Proceed(results, "done"), DOMAIN results = Opened(pc),
           \A t \in DOMAIN results : results[t] = "system",
           outcome' = "system"
    PROVE  Telling' /\ TasksTellTheOutcome'
  <1>1. \A t \in Opened(pc) : t \in Tasks
    BY Ranks DEF Processing, TypeOK
  <1>2. \A t \in Tasks : tasks[t] = "open" <=> t \in Opened(pc)
    BY DEF Telling, Processing, Placed
  <1>3. Opened("done") = {}
    BY DEF Opened, Tasks, Checks
  <1>4. \A t \in Tasks : tasks'[t] = IF t \in Opened(pc) THEN "system" ELSE tasks[t]
    BY <1>3 DEF Proceed
  <1>5. PICK t \in Tasks : t \in Opened(pc)
    BY <1>1
  <1>6. tasks'[t] = "system" /\ \A u \in Tasks : tasks'[u] # "open"
    BY <1>2, <1>4, <1>5
  <1>7. QED
    BY <1>6 DEF Telling, TasksTellTheOutcome

Told == Telling /\ (outcome = "system" => TasksTellTheOutcome)

\* The tasks opened by a step, and how the steps that go on by name are ordered.
LEMMA OpenedBy ==
    /\ Opened("is bag") = {}
    /\ Opened("manifest") = {"manifest", "checksums"}
    /\ \A s \in {"objects", "event", "agent"} : Opened(s) = {"premis"}
    /\ \A s \in Checks \cup {"extract", "bag", "unbag", "identify", "apis", "restructure",
                           "identifiers", "create bag"} : Opened(s) = {s}
  BY DEF Opened, Tasks, Checks

\* The order of the steps that the proofs use.
LEMMA Order ==
    /\ Rank("extract") < Rank("is bag") /\ Rank("is bag") < Rank("bag")
    /\ Rank("is bag") < Rank("identify") /\ Rank("bag") < Rank("unbag")
    /\ Rank("unbag") < Rank("identify") /\ Rank("identify") < Rank("structure")
    /\ Rank("identify") < Rank("done") /\ Rank("apis") < Rank("objects")
    /\ Rank("apis") < Rank("done") /\ Rank("agent") < Rank("restructure")
    /\ Rank("restructure") < Rank("identifiers")
    /\ Rank("identifiers") < Rank("create bag") /\ Rank("create bag") < Rank("done")
  <1>1. /\ 0 < 1 /\ 1 < 2 /\ 1 < 4 /\ 2 < 3 /\ 3 < 4 /\ 4 < 5 /\ 4 < 17 /\ 12 < 13 /\ 12 < 17
        /\ 13 < 14 /\ 14 < 15 /\ 15 < 16 /\ 16 < 17
    OBVIOUS
  <1>2. QED
    BY <1>1, RankValues, Zenon

\* The steps that write PREMIS are at one place.
LEMMA SamePlace == Rank("objects") = Rank("event") /\ Rank("event") = Rank("agent")
  BY RankValues

\* One task is settled.
LEMMA OneSettled ==
    ASSUME Processing, Telling, pc # "done", NEW task, Opened(pc) = {task}, NEW step \in Steps,
           Rank(pc) < Rank(step), NEW r \in {"ok", "invalid"}, Proceed(Settled(task, r), step),
           outcome' = IF r = "invalid" THEN "content" ELSE outcome
    PROVE  Told'
  <1>1. DOMAIN Settled(task, r) = {task} /\ Settled(task, r)[task] = r
    BY SettledTask
  <1>2. Telling' /\ outcome' \in {"success", "content"}
    BY <1>1, GoesOn
  <1>3. QED
    BY <1>2 DEF Told

\* Every step tells the outcome with its tasks.
LEMMA ToldStep == Processing /\ Told /\ [Next]_vars => Told'
  <1> SUFFICES ASSUME Processing, Told, [Next]_vars PROVE Told'
    OBVIOUS
  <1>0. Telling /\ TypeOK /\ Placed
    BY DEF Processing, Told
  <1>1. CASE ExtractSIP
    <2>1. PICK r \in {"ok", "invalid"} :
             /\ Proceed(Settled("extract", r), "is bag")
             /\ outcome' = IF r = "invalid" THEN "content" ELSE outcome
      BY <1>1 DEF ExtractSIP
    <2>2. pc = "extract" /\ Opened(pc) = {"extract"}
      BY <1>1, OpenedBy DEF ExtractSIP
    <2>3. QED
      BY <1>0, <2>1, <2>2, Order, Named, OneSettled
  <1>2. CASE IsBag
    <2> DEFINE next == IF <<"bagit.txt">> \in files THEN "bag" ELSE "identify"
    <2>1. pc = "is bag" /\ outcome' = outcome /\ Proceed(<<>>, next)
      BY <1>2 DEF IsBag
    <2>2. next \in Steps /\ Rank(pc) < Rank(next)
      BY <2>1, Named, Order
    <2>3. DOMAIN <<>> = Opened(pc) /\ DOMAIN <<>> = {}
      <3>1. Opened(pc) = {}
        BY <2>1, OpenedBy
      <3>2. DOMAIN <<>> = {}
        OBVIOUS
      <3>3. QED
        BY <3>1, <3>2
    <2>4. Telling' /\ outcome' \in {"success", "content"}
      BY <1>0, <2>1, <2>2, <2>3, GoesOn
    <2>5. QED
      BY <2>4 DEF Told
  <1>3. CASE IsBagFails
    BY <1>3 DEF IsBagFails, Told, Telling
  <1>4. CASE ValidateBag
    <2>1. PICK r \in {"ok", "invalid"} :
             /\ Proceed(Settled("bag", r), "unbag")
             /\ outcome' = IF r = "invalid" THEN "content" ELSE outcome
      BY <1>4 DEF ValidateBag
    <2>2. pc = "bag" /\ Opened(pc) = {"bag"}
      BY <1>4, OpenedBy DEF ValidateBag
    <2>3. QED
      BY <1>0, <2>1, <2>2, Order, Named, OneSettled
  <1>5. CASE UnbagSIP
    <2>1. /\ pc = "unbag" /\ Proceed(Settled("unbag", "ok"), "identify") /\ outcome' = outcome
      BY <1>5 DEF UnbagSIP
    <2>2. Opened(pc) = {"unbag"}
      BY <2>1, OpenedBy
    <2>3. QED
      BY <1>0, <2>1, <2>2, Order, Named, OneSettled
  <1>6. CASE IdentifySIP
    <2>1. /\ pc = "identify" /\ Proceed(Settled("identify", "ok"), "structure")
          /\ outcome' = outcome
      BY <1>6 DEF IdentifySIP
    <2>2. Opened(pc) = {"identify"}
      BY <2>1, OpenedBy
    <2>3. QED
      BY <1>0, <2>1, <2>2, Order, Named, OneSettled
  <1>7. CASE IdentifyFails
    <2>1. /\ pc = "identify" /\ Proceed(Settled("identify", "invalid"), "done")
          /\ outcome' = "content"
      BY <1>7 DEF IdentifyFails
    <2>2. Opened(pc) = {"identify"} /\ Rank(pc) < Rank("done")
      BY <2>1, OpenedBy, Order
    <2>3. QED
      BY <1>0, <2>1, <2>2, Named, OneSettled
  <1>8. ASSUME NEW check \in Checks, Validate(check)
        PROVE  Told'
    <2> DEFINE next == Following(pc, outcome')
               r    == Verdict(Fails(check))
    <2>1. /\ pc = check /\ pc \in Checked /\ pc # "done"
          /\ Proceed(Settled(check, r), next)
          /\ outcome' = IF r = "invalid" THEN "content" ELSE outcome
      BY <1>8 DEF Validate, Checked, Checks, Verdict
    <2>2. r \in {"ok", "invalid"} /\ Opened(pc) = {check}
      BY <2>1, OpenedBy, VerdictType
    <2>3. next \in Steps /\ Rank(pc) < Rank(next)
      <3>1. sip \in Types /\ Applies(pc, sip)
        BY <1>0, <2>1, SipTypeType DEF Placed
      <3>2. next \in Steps /\ Rank(next) > Rank(pc)
        BY <2>1, <3>1, NextStep
      <3>3. QED
        BY <3>2
    <2>4. QED
      BY <1>0, <2>1, <2>2, <2>3, OneSettled
  <1>9. CASE VerifyManifest
    <2> DEFINE next    == Following(pc, outcome')
               manifest == Verdict(ManifestFails(pkg, sip))
               sums     == Verdict(ChecksumsFail(pkg, sip))
               results == [t \in {"manifest", "checksums"} |->
                              Verdict(IF t = "manifest" THEN ManifestFails(pkg, sip)
                                                        ELSE ChecksumsFail(pkg, sip))]
    <2>1. /\ pc = "manifest" /\ pc \in Checked
          /\ Proceed(results, next)
          /\ outcome' = IF ManifestFails(pkg, sip) \/ ChecksumsFail(pkg, sip)
                        THEN "content" ELSE outcome
      BY <1>9 DEF VerifyManifest, Checked
    <2>2. /\ DOMAIN results = {"manifest", "checksums"}
          /\ results["manifest"] = manifest /\ results["checksums"] = sums
      BY DEF Verdict
    <2>3. /\ manifest = "invalid" <=> ManifestFails(pkg, sip)
          /\ sums = "invalid" <=> ChecksumsFail(pkg, sip)
      BY DEF Verdict
    <2>4. next \in Steps /\ Rank(pc) < Rank(next)
      <3>1. sip \in Types /\ Applies(pc, sip)
        BY <1>0, <2>1, SipTypeType DEF Placed
      <3>2. next \in Steps /\ Rank(next) > Rank(pc)
        BY <2>1, <3>1, NextStep
      <3>3. QED
        BY <3>2
    <2>5. /\ DOMAIN results = Opened(pc)
          /\ \A t \in DOMAIN results : results[t] \in {"ok", "invalid"}
      BY <2>1, <2>2, OpenedBy, VerdictType
    <2>6. outcome' = IF \E t \in DOMAIN results : results[t] = "invalid"
                     THEN "content" ELSE outcome
      BY <2>1, <2>2, <2>3
    <2> HIDE DEF results, next
    <2>7. Telling' /\ outcome' \in {"success", "content"}
      BY <1>0, <2>1, <2>4, <2>5, <2>6, GoesOn
    <2>8. QED
      BY <2>7 DEF Told
  <1>10. ASSUME NEW result \in {"ok", "invalid", "system"}, CreateAPISImportTask(result)
         PROVE  Told'
    <2>1. pc = "apis" /\ Opened(pc) = {"apis"} /\ pc # "done"
      BY <1>10, OpenedBy DEF CreateAPISImportTask
    <2>2. CASE result \in {"ok", "invalid"}
      <3> DEFINE next == IF result = "ok" THEN "objects" ELSE "done"
      <3>1. /\ Proceed(Settled("apis", result), next)
            /\ outcome' = IF result = "invalid" THEN "content" ELSE outcome
        BY <1>10, <2>2 DEF CreateAPISImportTask
      <3>2. next \in Steps /\ Rank(pc) < Rank(next)
        BY <2>1, Named, Order
      <3>3. QED
        BY <1>0, <2>1, <2>2, <3>1, <3>2, OneSettled
    <2>3. CASE result = "system"
      <3>1. Proceed(Settled("apis", result), "done") /\ outcome' = "system"
        BY <1>10, <2>3 DEF CreateAPISImportTask
      <3>2. /\ DOMAIN Settled("apis", result) = Opened(pc) /\ Opened(pc) # {}
            /\ \A t \in DOMAIN Settled("apis", result) : Settled("apis", result)[t] = "system"
        BY <2>1, <2>3, SettledTask
      <3>3. QED
        BY <1>0, <2>1, <3>1, <3>2, EndsInSystemError DEF Told
    <2>4. QED
      BY <2>2, <2>3
  <1>11. CASE AddPREMISObjects \/ AddPREMISEvent
    <2>1. PICK step \in {"event", "agent"} : Proceed(<<>>, step)
      BY <1>11 DEF AddPREMISObjects, AddPREMISEvent
    <2>2. pc \in {"objects", "event"} /\ outcome' = outcome
      BY <1>11 DEF AddPREMISObjects, AddPREMISEvent
    <2>3. step \in Steps /\ Opened(step) = Opened(pc) /\ Rank(step) = Rank(pc) /\ pc # "done"
      BY <2>1, <2>2, Named, OpenedBy, SamePlace
    <2>4. DOMAIN <<>> = {}
      OBVIOUS
    <2>5. Telling' /\ outcome' \in {"success", "content"}
      BY <1>0, <2>1, <2>2, <2>3, <2>4, GoesOn
    <2>6. QED
      BY <2>5 DEF Told
  <1>12. CASE AddPREMISAgent
    <2>1. pc = "agent" /\ Proceed(Settled("premis", "ok"), "restructure") /\ outcome' = outcome
      BY <1>12 DEF AddPREMISAgent
    <2>2. Opened(pc) = {"premis"}
      BY <2>1, OpenedBy
    <2>3. QED
      BY <1>0, <2>1, <2>2, Order, Named, OneSettled
  <1>13. CASE TransformSIP
    <2>1. /\ pc = "restructure" /\ Proceed(Settled("restructure", "ok"), "identifiers")
          /\ outcome' = outcome
      BY <1>13 DEF TransformSIP
    <2>2. Opened(pc) = {"restructure"}
      BY <2>1, OpenedBy
    <2>3. QED
      BY <1>0, <2>1, <2>2, Order, Named, OneSettled
  <1>14. CASE WriteIdentifierFile
    <2>1. /\ pc = "identifiers" /\ Proceed(Settled("identifiers", "ok"), "create bag")
          /\ outcome' = outcome
      BY <1>14 DEF WriteIdentifierFile
    <2>2. Opened(pc) = {"identifiers"}
      BY <2>1, OpenedBy
    <2>3. QED
      BY <1>0, <2>1, <2>2, Order, Named, OneSettled
  <1>15. CASE CreateBag
    <2>1. pc = "create bag" /\ Proceed(Settled("create bag", "ok"), "done") /\ outcome' = outcome
      BY <1>15 DEF CreateBag
    <2>2. Opened(pc) = {"create bag"}
      BY <2>1, OpenedBy
    <2>3. QED
      BY <1>0, <2>1, <2>2, Order, Named, OneSettled
  <1>16. CASE ActivityFails
    <2>1. /\ pc \in Steps \ {"is bag", "identify", "apis", "done"}
          /\ Proceed(Failed(pc), "done") /\ outcome' = "system"
      BY <1>16 DEF ActivityFails
    <2>2. /\ DOMAIN Failed(pc) = Opened(pc)
          /\ \A t \in DOMAIN Failed(pc) : Failed(pc)[t] = "system"
      BY DEF Failed
    <2>3. Opened(pc) # {}
      BY <2>1, OpenedBy, ZenonT(30) DEF Steps, Tasks, Checks
    <2>4. QED
      BY <1>0, <2>1, <2>2, <2>3, EndsInSystemError DEF Told
  <1>17. CASE UNCHANGED vars
    BY <1>17 DEF vars, Told, Telling, TasksTellTheOutcome, Opened
  <1>18. QED
    BY <1>1, <1>2, <1>3, <1>4, <1>5, <1>6, <1>7, <1>8, <1>9, <1>10, <1>11, <1>12, <1>13,
       <1>14, <1>15, <1>16, <1>17 DEF Next

\* Whatever the packages, when the workflow ends no task is left in progress and
\* the worst of the tasks is the outcome it returns, although each of nineteen
\* returns settles its tasks by hand (preprocessing.go:50-544).
THEOREM SpecTasksTellTheOutcome == Spec => []TasksTellTheOutcome
  <1>1. Init => Processing /\ Told
    <2>1. ASSUME Init PROVE Told
      <3>1. /\ pc = "extract" /\ outcome = "success" /\ Rank("extract") = 0
            /\ \A t \in Tasks : tasks[t] = IF t = "extract" THEN "open" ELSE "none"
        BY <2>1, RankValues DEF Init
      <3>2. Opened(pc) = {"extract"}
        BY <3>1, OpenedBy
      <3>3. QED
        BY <3>1, <3>2 DEF Told, Telling
    <2>2. QED
      BY <2>1, ProcessingInit
  <1>2. Processing /\ Told /\ [Next]_vars => Processing' /\ Told'
    BY ProcessingStep, ToldStep
  <1>3. Processing /\ Told => TasksTellTheOutcome
    <2>1. ASSUME Processing, Told PROVE TasksTellTheOutcome
      <3>1. outcome \in {"success", "content", "system", "error"}
        BY <2>1 DEF Processing, TypeOK
      <3>2. CASE outcome = "error"
        BY <3>2 DEF TasksTellTheOutcome
      <3>3. QED
        BY <2>1, <3>1, <3>2, ToldAtTheEnd DEF Told
    <2>2. QED
      BY <2>1
  <1>4. QED
    BY <1>1, <1>2, <1>3, PTL DEF Spec
=============================================================================
