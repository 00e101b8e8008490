--------------------------- MODULE MCSharedCacheDir ---------------------------
EXTENDS SharedCacheDir, TLC

CONSTANTS main, sub, v1, v2

MCFiles    == {main, sub}
MCContents == {v1, v2}
MCFilesOf  == (v1 :> {main, sub}) @@ (v2 :> {main})
===============================================================================
