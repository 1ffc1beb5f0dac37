------------------------- MODULE MCPoststorageCantons -------------------------
(* METS files of AIPs for TLC. *)
EXTENDS PoststorageCantons, TLC

CONSTANTS w1, w2

Div(depth, label, file) == [depth |-> depth, label |-> label, file |-> file]
Mets(divs, groups) == [divs |-> divs, groups |-> groups]
All == ("old" :> "original") @@ ("new" :> "metadata") @@ ("xsd" :> "original")

\* A SIP, an AIP with its old SIP and updated metadata before or after it, a file
\* of that name outside the header, a directory before the file, a file whose
\* group is not searched, and neither.
MCAIPs ==
    {Mets(<<Div(0, Header, NoFile), Div(1, Old, "old"), Div(1, "xsd", NoFile),
            Div(2, "arelda.xsd", "xsd")>>, All),
     Mets(<<Div(0, Header, NoFile), Div(1, "old", NoFile), Div(2, "SIP", NoFile),
            Div(3, Old, "old"), Div(0, "metadata", NoFile), Div(1, Updated, "new"),
            Div(1, "x", "xsd")>>, All),
     Mets(<<Div(0, Updated, "new"), Div(0, Header, NoFile), Div(1, Old, "old")>>, All),
     Mets(<<Div(0, Header, NoFile), Div(1, "x", "xsd"), Div(0, Old, "old")>>, All),
     Mets(<<Div(0, Header, NoFile), Div(1, "xsd", NoFile), Div(2, "arelda.xsd", "xsd"),
            Div(1, Old, "old")>>, All),
     Mets(<<Div(0, Header, NoFile), Div(1, Old, "old"), Div(0, Updated, "new")>>,
          [All EXCEPT !["new"] = "derivative"]),
     Mets(<<Div(0, "content", NoFile), Div(1, "x", "xsd")>>, All)}
===============================================================================
