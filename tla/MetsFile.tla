------------------------------- MODULE MetsFile -------------------------------
(***************************************************************************)
(* What the activity parse-mets-file (internal/cantons/parse.go) finds in  *)
(* the METS file of an AIP.  The physical structMap is given as its divs   *)
(* in document order, each with its depth, its label and the file its fptr *)
(* points to, or NoFile for a directory.  The fileSec gives a file's group *)
(* by its ID, which here also stands for its path.                         *)
(***************************************************************************)
EXTENDS Integers, Sequences

CONSTANT NoFile

Header  == "header"
Old     == "metadata.xml"
Updated == "UpdatedAreldaMetadata.xml"

Outside == [inHeader |-> FALSE, inUpdated |-> FALSE, inOld |-> FALSE,
            updated |-> NoFile, old |-> NoFile]

StartDiv(s, div) ==
    LET h == s.inHeader \/ div.label = Header IN
    [s EXCEPT !.inHeader = h,
              !.inUpdated = @ \/ div.label = Updated,
              !.inOld = @ \/ (h /\ div.label = Old)]

Fptr(s, div) ==
    IF div.file = NoFile THEN s
    ELSE [s EXCEPT !.updated = IF s.inUpdated THEN div.file ELSE @,
                   !.old = IF s.inOld THEN div.file ELSE @]

\* Faulty: the end of a div is forgotten.
EndDivOpen(s) == s

\* The end of any div, however deep, ends all that the scan is in.
EndDiv(s) == [s EXCEPT !.inHeader = FALSE, !.inUpdated = FALSE, !.inOld = FALSE]

Closes(divs, i) == i = Len(divs) \/ divs[i + 1].depth <= divs[i].depth

ReadDiv(divs, i, s) ==
    LET t == Fptr(StartDiv(s, divs[i]), divs[i]) IN IF Closes(divs, i) THEN EndDiv(t) ELSE t

Scan(divs) ==
    LET f[i \in 0..Len(divs)] ==
            IF i = 0 THEN Outside ELSE ReadDiv(divs, i, f[i - 1])
    IN f[Len(divs)]

\* Only files of the groups for metadata and originals have a path.
PathOf(groups, file) ==
    IF file \in DOMAIN groups /\ groups[file] \in {"metadata", "original"} THEN file ELSE NoFile

Parse(mets) ==
    LET s == Scan(mets.divs)
    IN [updated |-> PathOf(mets.groups, s.updated), old |-> PathOf(mets.groups, s.old)]

(***************************************************************************)
(* The files a search bundle may be made of, by the tree: an updated       *)
(* metadata file or, if there is none, a metadata.xml below the header.    *)
(***************************************************************************)
Above(divs, j, i) == j < i /\ \A k \in (j + 1)..i : divs[k].depth > divs[j].depth

Labelled(mets, label) ==
    {i \in DOMAIN mets.divs :
        mets.divs[i].label = label /\ PathOf(mets.groups, mets.divs[i].file) # NoFile}

Wanted(mets) ==
    LET d == mets.divs
        updated == Labelled(mets, Updated)
        old == {i \in Labelled(mets, Old) :
                  \E j \in DOMAIN d : d[j].label = Header /\ Above(d, j, i)}
    IN {d[i].file : i \in IF updated # {} THEN updated ELSE old}

\* A METS file that keeps to this: files have no divs below them, the files looked
\* for are no directories, and after an updated file with a path there is none without.
Document(mets) ==
    LET d == mets.divs IN
    /\ d \in Seq([depth: Nat, label: STRING, file: DOMAIN mets.groups \cup {NoFile}])
    /\ \A i \in DOMAIN d :
          /\ d[i].file # NoFile => Closes(d, i)
          /\ d[i].label \in {Old, Updated} => d[i].file # NoFile
    /\ \A i \in Labelled(mets, Updated), j \in DOMAIN d :
          j > i /\ d[j].label = Updated => j \in Labelled(mets, Updated)
==============================================================================
