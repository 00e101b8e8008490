-------------------------- MODULE MCVersionResolution --------------------------
(* 1.0.0 and 1.0.0+build compare as equal; 2.0.0-rc is the highest.          *)
EXTENDS VersionResolution, TLC

CONSTANTS v100, v100build, v200rc

MCVersions   == {v100, v100build, v200rc}
MCPrecedence == (v100 :> 1) @@ (v100build :> 1) @@ (v200rc :> 2)
MCPrerelease == {v200rc}
===============================================================================
