----------------------------- MODULE MCLinuxGates -----------------------------
(***************************************************************************)
(* LinuxGates with interchangeable profiles and builder images: one is     *)
(* told from another by equality alone, and the run checks invariants      *)
(* only.                                                                   *)
(***************************************************************************)
EXTENDS LinuxGates, TLC

Symmetry == Permutations(Profiles) \cup Permutations(Images)

(* The bound: of profile, source and image only one varies among the       *)
(* graphs generated so far.                                                *)
Seen == verified \cup audited \cup ({graph[p] : p \in Profiles} \ {None})

OneVaries ==
  \A g, h \in Seen :
    \/ g.profile = h.profile /\ g.source = h.source
    \/ g.profile = h.profile /\ g.image = h.image
    \/ g.source = h.source /\ g.image = h.image
=============================================================================
