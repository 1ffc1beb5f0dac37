------------------------------ MODULE SipPackage ------------------------------
(***************************************************************************)
(* What preprocessing reads in a submission: its type and the places of    *)
(* its parts (internal/sip/sip.go), its structure                          *)
(* (activities/validate_structure.go), its manifest                        *)
(* (activities/verify_manifest.go, manifest/manifest.go) and what becomes  *)
(* of a path of the manifest in the restructured package (pips/pips.go).   *)
(*                                                                         *)
(* A path is the sequence of names below the package's directory; "sip"    *)
(* is the name of that directory wherever a path contains it.  What a tool *)
(* outside the repository decides of the content is a flaw of the package. *)
(***************************************************************************)
EXTENDS Integers, FiniteSets, SequencesExt

CONSTANTS Names,         \* the names of files and directories
          InvalidNames,  \* those with a character that is not allowed
          Packages       \* the packages that may be submitted

Prozess == "Prozess_Digitalisierung_PREMIS.xml"

Types == {"DigitizedAIP", "DigitizedSIP", "BornDigitalAIP", "BornDigitalSIP"}
AIPs  == {"DigitizedAIP", "BornDigitalAIP"}
SIPs  == Types \ AIPs

\* The names with a meaning to preprocessing.
KnownNames == {"content", "header", "old", "SIP", "xsd", "arelda.xsd", "additional",
               "metadata.xml", "UpdatedAreldaMetadata.xml", "sip-premis.xml",
               "data", "bagit.txt", "manifest.txt", "objects", "sip", "metadata",
               "premis.xml", "identifiers.json"}

ASSUME NamesAssumption == KnownNames \subseteq Names \ InvalidNames

Path == Seq(Names)

\* The file at a listed path has the listed checksum, another one, or the
\* algorithm is unknown.
Entry   == [path: Path, sum: {"match", "differ", "unsupported"}]
Listing == [version: {"allowed", "other", "malformed"}, entries: SUBSET Entry]

\* files and empty (the directories with nothing in them) are the payload when
\* the package is a bag.  metadata and updated are what metadata.xml and
\* UpdatedAreldaMetadata.xml list, pdf the files the format validator knows.
Package == [files: SUBSET Path, empty: SUBSET Path,
            bag: {"none", "bag", "without data"},
            metadata: Listing, updated: Listing, pdf: SUBSET Path,
            flaws: SUBSET {"folder", "bag", "name", "disallowed", "formats",
                           "metadata", "logical"}]

\* The names bagging gives a meaning to are not those of a payload's entries.
ASSUME PackageAssumption ==
    \A p \in Packages : /\ p \in Package
                        /\ \A f \in p.files : f # <<>> /\ f[1] \notin {"data", "bagit.txt"}

-----------------------------------------------------------------------------
Below(dir, paths)     == {p \in paths : IsPrefix(dir, p)}
Rebased(from, to, p)  == to \o SubSeq(p, Len(from) + 1, Len(p))

\* The moves go from directories or files none of which is below another.
Moved(moves, paths) ==
    {p \in paths : \A m \in moves : ~IsPrefix(m.from, p)}
        \cup UNION {{Rebased(m.from, m.to, p) : p \in Below(m.from, paths)} : m \in moves}

Dirs(p) == {<<>>} \cup (UNION {Prefixes(Front(f)) : f \in p.files})
                  \cup (UNION {Prefixes(d) : d \in p.empty})

\* A package is finite, no file is a directory, and nothing is in the empty ones.
ASSUME TreeAssumption ==
    \A p \in Packages : /\ IsFiniteSet(p.files \cup Dirs(p)) /\ p.files \cap Dirs(p) = {}
                        /\ \A d \in p.empty : \A n \in p.files \cup (p.empty \ {d}) :
                              ~IsPrefix(d, n)

\* Where the parts of a package of a type are.
ContentPath(type)  == IF type \in AIPs THEN <<"content", "content">> ELSE <<"content">>
XSDPath(type)      == IF type \in AIPs THEN <<"content", "header", "xsd", "arelda.xsd">>
                                       ELSE <<"header", "xsd", "arelda.xsd">>
MetadataPath(type) == IF type \in AIPs
                      THEN <<"content", "header", "old", "SIP", "metadata.xml">>
                      ELSE <<"header", "metadata.xml">>
UpdatedPath        == <<"additional", "UpdatedAreldaMetadata.xml">>
LogicalPath        == <<"additional", "sip-premis.xml">>
ManifestPath(type) == IF type \in AIPs THEN UpdatedPath ELSE MetadataPath(type)
TopLevel(type)     == IF type \in AIPs THEN {"content", "additional"}
                                       ELSE {"content", "header"}

SipType(p) ==
    LET nodes     == p.files \cup Dirs(p)
        digitized == \E n \in nodes : n # <<>> /\ Last(n) = Prozess
        aip       == <<"additional">> \in nodes
    IN CASE digitized /\ aip   -> "DigitizedAIP"
         [] digitized /\ ~aip  -> "DigitizedSIP"
         [] ~digitized /\ aip  -> "BornDigitalAIP"
         [] ~digitized /\ ~aip -> "BornDigitalSIP"

Content(p) == Below(ContentPath(SipType(p)), p.files)

-----------------------------------------------------------------------------
(* Structure *)

Children(p, dir) == {n \in p.files \cup Dirs(p) : n # <<>> /\ Front(n) = dir}

StructureFailures(p, type) ==
    LET nodes   == p.files \cup Dirs(p)
        Parts   == {ContentPath(type), MetadataPath(type), XSDPath(type)}
                       \cup IF type \in AIPs THEN {UpdatedPath, LogicalPath} ELSE {}
        dossier == Children(p, ContentPath(type)) \cap Dirs(p)
    IN IF nodes = {<<>>} THEN {<<>>}
       ELSE {d \in Dirs(p) : Children(p, d) = {}}
              \cup {n \in nodes \ {<<>>} : Last(n) \in InvalidNames}
              \cup (Parts \ nodes)
              \cup {d \in Children(p, <<>>) \cap Dirs(p) : d[1] \notin TopLevel(type)}
              \cup IF type \in {"DigitizedAIP", "DigitizedSIP"} /\ Cardinality(dossier) > 1
                   THEN dossier ELSE {}

-----------------------------------------------------------------------------
(* Manifest *)

Manifest(p, type) == IF type \in AIPs THEN p.updated ELSE p.metadata

\* The paths of an AIP's manifest are below its directory "content".
Root(type)          == IF type \in AIPs THEN <<"content">> ELSE <<>>
Listed(p, type)     == {Root(type) \o e.path : e \in Manifest(p, type).entries}
\* A SIP's manifest does not list itself.
Verified(p, type)   == Below(Root(type), p.files)
                         \ IF type \in SIPs THEN {MetadataPath(type)} ELSE {}

\* The activity cannot verify the manifest: it returns an error.
ManifestBreaks(p, type) ==
    \/ ManifestPath(type) \notin p.files
    \/ Manifest(p, type).version = "malformed"
    \/ Root(type) \notin Dirs(p) \cup p.files
    \/ \E e \in Manifest(p, type).entries :
          e.sum = "unsupported" /\ Root(type) \o e.path \in Verified(p, type)

ManifestFails(p, type) ==
    \/ Manifest(p, type).version # "allowed"
    \/ Listed(p, type) # Verified(p, type)

ChecksumsFail(p, type) ==
    \E e \in Manifest(p, type).entries :
       e.sum = "differ" /\ Root(type) \o e.path \in Verified(p, type)

-----------------------------------------------------------------------------
(* The restructured package *)

Objects == <<"objects", "sip">>

\* Names that begin with "content".
ContentLike == {"content", "contents"}

\* The empty sequence stands for a file that is not in the restructured package.
ConvertSIPPath(path) ==
    CASE Last(path) = "UpdatedAreldaMetadata.xml" -> <<"metadata", Last(path)>>
      [] Last(path) = "metadata.xml" -> Objects \o <<"header", Last(path)>>
      [] OTHER -> IF path[1] \in ContentLike THEN Objects \o path ELSE <<>>

\* Faulty: metadata.xml names the identifiers of every type.
PipManifestOld(p, type) == p.metadata

\* The manifest that names the identifiers.
PipManifest(p, type)  == IF type = "DigitizedAIP" THEN p.updated ELSE p.metadata
PipManifestPath(type) == IF type = "DigitizedAIP"
                         THEN <<"metadata", "UpdatedAreldaMetadata.xml">>
                         ELSE Objects \o <<"header", "metadata.xml">>

Identifiers(p, type) ==
    {[file |-> ConvertSIPPath(e.path), source |-> e.path] :
        e \in {d \in PipManifest(p, type).entries : ConvertSIPPath(d.path) # <<>>}}
==============================================================================
