--------------------------- MODULE MCPreprocessing ---------------------------
(***************************************************************************)
(* Instances of Preprocessing for TLC: a well-formed package of each type, *)
(* as a bag and not, with up to two edits.                                 *)
(***************************************************************************)
EXTENDS Preprocessing

Dossier(type) == ContentPath(type) \o <<"d1">>

\* A path of the manifest of a package of the type.
InManifest(type, path) == SubSeq(path, Len(Root(type)) + 1, Len(path))

Lists(type, paths) ==
    [version |-> "allowed",
     entries |-> {[path |-> InManifest(type, f), sum |-> "match"] : f \in paths}]

WellFormed(type, bag) ==
    LET content == {Dossier(type) \o <<"a.pdf">>}
                     \cup IF type \in {"DigitizedAIP", "DigitizedSIP"}
                          THEN {Dossier(type) \o <<Prozess>>} ELSE {}
        listed  == content \cup {XSDPath(type)}
                     \cup IF type \in AIPs THEN {MetadataPath(type)} ELSE {}
        updated == IF type \in AIPs THEN {UpdatedPath, LogicalPath} ELSE {MetadataPath(type)}
        old     == {[path |-> <<"content", "d1", "a.pdf">>, sum |-> "match"]}
    IN [files |-> listed \cup updated, empty |-> {}, bag |-> bag,
        metadata |-> IF type \in SIPs THEN Lists(type, listed)
                     ELSE [version |-> "allowed", entries |-> old],
        updated  |-> IF type \in AIPs THEN Lists(type, listed)
                     ELSE [version |-> "malformed", entries |-> {}],
        pdf   |-> {f \in content : Last(f) = "a.pdf"},
        flaws |-> {}]

\* Files that may be there besides.
Extra(type) == {<<"note">>, <<"objects">>, <<"metadata">>, <<"other", "x">>,
                Root(type) \o <<"contents", "x">>,
                ContentPath(type) \o <<"d2", "x">>,
                Dossier(type) \o <<"metadata.xml">>,
                Dossier(type) \o <<"bad name">>}

Edits(type) ==
    {<<"remove", f>> : f \in WellFormed(type, "none").files}
        \cup ({"add", "list"} \X Extra(type))
        \cup {<<"unlist", Dossier(type) \o <<"a.pdf">>>>}
        \cup {<<"nest", f>> : f \in {MetadataPath(type), XSDPath(type)}}
        \cup {<<"sum", <<s>>>> : s \in {"differ", "unsupported"}}
        \cup {<<"version", <<v>>>> : v \in {"other", "malformed"}}
        \cup {<<"flaw", <<f>>>> : f \in {"folder", "bag", "name", "disallowed", "formats",
                                         "metadata", "logical"}}
        \cup {<<"empty", <<"other">>>>, <<"empty", Dossier(type) \o <<"none">>>>}
        \cup IF type \in AIPs THEN {<<"old", <<e>>>> : e \in {"none", "more", "malformed"}}
                              ELSE {}

\* "add" adds a file that the manifest lists, "list" only the entry; "nest" puts
\* a directory with a file in the place of a file.
Edited(type, bag, edits) ==
    LET p == WellFormed(type, bag)
        Of(kind) == {e[2] : e \in {d \in edits : d[1] = kind}}
        m    == Manifest(p, type)
        seen == {f \in Of("add") \cup Of("list") \cup {n \o <<"x">> : n \in Of("nest")} :
                    IsPrefix(Root(type), f)}
        gone == Of("nest") \cup Of("unlist")
        new  == [version |-> IF Of("version") = {} THEN "allowed"
                             ELSE (CHOOSE v \in Of("version") : TRUE)[1],
                 entries |-> {[e EXCEPT !.sum = IF Of("sum") = {} \/ Last(e.path) # "a.pdf"
                                                THEN @ ELSE (CHOOSE s \in Of("sum") : TRUE)[1]] :
                                 e \in {d \in m.entries : Root(type) \o d.path \notin gone}}
                             \cup {[path |-> InManifest(type, f), sum |-> "match"] : f \in seen}]
        old  == [version |-> IF <<"malformed">> \in Of("old") THEN "malformed" ELSE "allowed",
                 entries |-> (IF <<"none">> \in Of("old") THEN {} ELSE p.metadata.entries)
                             \cup IF <<"more">> \in Of("old")
                                  THEN {[path |-> <<"content", "d1", "b">>, sum |-> "match"]}
                                  ELSE {}]
        kept == (p.files \ (Of("remove") \cup Of("nest")))
                    \cup Of("add") \cup {f \o <<"x">> : f \in Of("nest")}
    IN [p EXCEPT !.files = kept,
                 !.empty = {d \in Of("empty") : \A f \in kept : ~IsPrefix(d, f)},
                 !.flaws = {f[1] : f \in Of("flaw")},
                 !.metadata = IF type \in AIPs THEN old ELSE new,
                 !.updated = IF type \in AIPs THEN new ELSE @]

EditSets(type) == {{d, e} : d, e \in Edits(type)} \cup {{}}

MCNames == STRING

MCPackages ==
    UNION {{Edited(type, bag, es) : es \in EditSets(type)} :
              type \in Types, bag \in {"none", "bag"}}
        \cup {[WellFormed(type, "without data") EXCEPT !.files = {}] : type \in SIPs}
==============================================================================
