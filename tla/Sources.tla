-------------------------------- MODULE Sources --------------------------------
(***************************************************************************)
(* Which sources are paths on this machine (source.go).  Shape[s] is what  *)
(* the code's regular expressions and prefixes find in the source s:       *)
(*   getter   a forced getter: "file" (in any case) for file::<path>,      *)
(*            "other" for git::, s3::, ..., "none"                         *)
(*   scheme   a URL scheme: "file", "other", "none"                        *)
(*   lead     how it begins: "slash", "drive" (C:\), "unc" (\\), "dot",    *)
(*            "plain"                                                      *)
(*   uri      what net/url makes of it: "path", "empty" (no path),         *)
(*            "host" (a host that is not this one), "malformed"            *)
(***************************************************************************)
CONSTANTS
  Given,              \* the values of --source and of Request.Source
  Shape

Shapes == [getter : {"none", "file", "other"}, scheme : {"none", "file", "other"},
           lead : {"slash", "drive", "unc", "dot", "plain"},
           uri : {"path", "empty", "host", "malformed"}]

ASSUME ShapeAssumption == Shape \in [Given -> Shapes]

\* A forced getter decides, else a scheme, else the beginning.
isLocalSource(src) ==
  \/ Shape[src].getter = "file"
  \/ /\ Shape[src].getter = "none"
     /\ \/ Shape[src].scheme = "file"
        \/ Shape[src].scheme = "none" /\ Shape[src].lead # "plain"

\* The path of a local source can be told: after file:: it is taken as it is, a
\* file:// URI must be one of this machine.
localSourcePath(src) ==
  Shape[src].getter = "none" /\ Shape[src].scheme = "file" => Shape[src].uri = "path"
===============================================================================
