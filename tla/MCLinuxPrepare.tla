--------------------------- MODULE MCLinuxPrepare ---------------------------
(***************************************************************************)
(* LinuxPrepare with three locks: two of one Chromium version that share   *)
(* the archive, and one of another version, one of whose inputs has the    *)
(* file name of another lock's.  The recipe of the first lock is any on    *)
(* one path, which may be a path the program itself needs or links.        *)
(***************************************************************************)
EXTENDS LinuxPrepare, TLC

MCItemsOf == "l1" :> {"archive", "core"} @@ "l2" :> {"archive", "core2"}
             @@ "l3" :> {"archive3", "core3"}
MCNameOf  == "archive" :> "a" @@ "core" :> "c" @@ "core2" :> "c2"
             @@ "archive3" :> "a3" @@ "core3" :> "c"
MCVersion == "l1" :> 1 @@ "l2" :> 1 @@ "l3" :> 2

NoPatch == [edits |-> {}, adds |-> {}, drops |-> {}]
On(x)   == {NoPatch, [NoPatch EXCEPT !.edits = {x}], [NoPatch EXCEPT !.adds = {x}],
            [NoPatch EXCEPT !.drops = {x}]}

Plain == [base |-> Paths, pruning |-> {"binary"}, kept |-> {}, domains |-> {}, edited |-> {},
          patches |-> [k \in Layers |-> NoPatch]]

(* A path of the domain list: whether it is there, is pruned, is kept, and *)
(* what two layers of patches do to it.                                    *)
RecipesOn(x) ==
  {[Plain EXCEPT !.base = b, !.domains = {x}, !.pruning = @ \cup q, !.kept = k,
                 !.patches["upstream"] = u, !.patches["local"] = l] :
     b \in {Paths, Paths \ {x}}, q \in {{}, {x}}, k \in SUBSET {x}, u \in On(x), l \in On(x)}

Pruning(x) == [Plain EXCEPT !.pruning = @ \cup {x}]

MCRecipes ==
  "l1" :> {r \in RecipesOn("file") : r.kept \subseteq r.pruning} \cup {Pruning("node"), Pruning("script")}
  @@ "l2" :> {Plain} @@ "l3" :> {Plain}
=============================================================================
