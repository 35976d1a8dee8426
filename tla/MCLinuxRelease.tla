--------------------------- MODULE MCLinuxRelease ---------------------------
(***************************************************************************)
(* LinuxRelease with two versions and a build of each, which needs a file  *)
(* at run time beside those that are always staged.                        *)
(***************************************************************************)
EXTENDS LinuxRelease, TLC

MCVersion == "b1" :> 1 @@ "b2" :> 2
MCLists   == "b1" :> {"resource"} @@ "b2" :> {"resource"}
=============================================================================
