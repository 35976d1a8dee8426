------------------------------ MODULE MCMacFetch ----------------------------
(***************************************************************************)
(* MacFetch with three locks: two of one revision, of which the second     *)
(* wants another archive of the same name, and one of another revision and *)
(* another commit of depot_tools.  The DEPS of one root name another one,  *)
(* which names the first.                                                  *)
(***************************************************************************)
EXTENDS MacFetch, TLC

MCRevisionOf == "l1" :> "r1" @@ "l2" :> "r1" @@ "l3" :> "r2"
MCToolsOf    == "l1" :> "t1" @@ "l2" :> "t1" @@ "l3" :> "t2"
MCArchiveOf  == "l1" :> "archive" @@ "l2" :> "archive_again" @@ "l3" :> "archive3"
MCItemsOf    == [l \in DOMAIN MCArchiveOf |-> {MCArchiveOf[l], "core"}]
MCNameOf     == "archive" :> "a" @@ "archive_again" :> "a" @@ "archive3" :> "a3" @@ "core" :> "c"
MCDepsOf     == "src" :> {"v8"} @@ "v8" :> {"icu"} @@ "icu" :> {"v8"}
Processes    == Permutations(Commands)
=============================================================================
