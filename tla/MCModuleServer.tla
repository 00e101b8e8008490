---------------------------- MODULE MCModuleServer ----------------------------
(* A module with one submodule, which the second archive no longer has.     *)
EXTENDS ModuleServer, TLC

CONSTANTS root, sub, v1, v2, a, b

MCFiles    == {root, sub}
MCContents == {v1, v2}
MCFilesOf  == (v1 :> {root, sub}) @@ (v2 :> {root})
MCCallers  == {a, b}

\* For the properties of one directory.
MCRootOf   == (v1 :> {root}) @@ (v2 :> {root})
===============================================================================
