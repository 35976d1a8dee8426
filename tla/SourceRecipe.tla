---------------------------- MODULE SourceRecipe ----------------------------
(***************************************************************************)
(* What happens to a source tree between its extraction and its            *)
(* publication on Linux, and what Gate C asks of it: prepare-source.py     *)
(* (Chromium), prepare-helium.py (Helium) and verify-source.py.            *)
(*                                                                         *)
(* The two programs take the same steps in different orders.  Chromium is  *)
(* patched, pruned and has its domains substituted last.  Helium is pruned *)
(* first and gets two more layers of patches after the substitution.  All  *)
(* of it is done to a temporary tree that nobody else sees, so a step is   *)
(* an operator from trees to trees here, and a preparation the composition *)
(* of its steps.                                                           *)
(*                                                                         *)
(* Abstractions.  A series of patches is its net effect on paths, and fits *)
(* a tree or does not.  An operator returns the set of the trees it may    *)
(* leave: none if the program ends with an error.  The steps of Helium's   *)
(* that edit files in place only (names, translations, version, resources) *)
(* are one set of paths.  Digests and offsets of patches are left out.     *)
(***************************************************************************)
EXTENDS Naturals, FiniteSets

CONSTANTS
  Paths,      \* paths of the source tree
  Manifest,   \* build/rust/known-target-triples.txt
  Unbundler,  \* build/linux/unbundle/replace_gn_files.py
  Links       \* the paths that become links to tools of the image

ASSUME RecipeAssumption == {Manifest, Unbundler} \subseteq Paths /\ Links \subseteq Paths

Series == [edits : SUBSET Paths, adds : SUBSET Paths, drops : SUBSET Paths]
Layers == {"inventory", "upstream", "local"}

(* What the inputs of a lock say: the paths of the archive and of what is  *)
(* unpacked over it, the lists, and the layers of patches.                 *)
Recipe ==
  [base : SUBSET Paths, pruning : SUBSET Paths, kept : SUBSET Paths,
   domains : SUBSET Paths, edited : SUBSET Paths, patches : [Layers -> Series]]

Tree == [files : SUBSET Paths, layers : SUBSET Layers, substituted : SUBSET Paths]
-----------------------------------------------------------------------------
(* The archives, one unpacked over the other. *)
Extracted(r) == [files |-> r.base, layers |-> {}, substituted |-> {}]

(* The dry run of a patch: what it changes is there, what it creates not.  *)
Fits(t, s) == (s.edits \cup s.drops) \subseteq t.files /\ s.adds \cap t.files = {}

WithPatches(t, layer, s) ==
  [t EXCEPT !.files = (@ \cup s.adds) \ s.drops, !.layers = @ \cup {layer}]

(* The patches of a layer, one after the other; the first that does not    *)
(* fit ends the program.                                                   *)
ApplySeries(trees, layer, r) ==
  {WithPatches(t, layer, r.patches[layer]) : t \in {u \in trees : Fits(u, r.patches[layer])}}

(* Of an inventory only the patches whose state is "apply" are in the      *)
(* series; the others are recorded.                                        *)
ApplyInventory(trees, r) == ApplySeries(trees, "inventory", r)

ApplyUpstream(trees, r) == ApplySeries(trees, "upstream", r)

ApplyLocal(trees, r) == ApplySeries(trees, "local", r)

(* What is listed and there is removed. *)
Prune(t, r) == [t EXCEPT !.files = @ \ r.pruning]

(* prune_binaries.py --keep-build-dependencies. *)
PruneKeeping(t, r) == [t EXCEPT !.files = @ \ (r.pruning \ r.kept)]

(* Listed files that are there are rewritten; the others are reported.     *)
Substitute(t, r) == [t EXCEPT !.substituted = r.domains \cap t.files]

(* Names, translations, version and resources are edited where they are.   *)
EditInPlace(trees, r) == {t \in trees : r.edited \subseteq t.files}

(* The Rust target is added to a manifest that must be there, *)
AddRustTarget(trees) == {t \in trees : Manifest \in t.files}

(* tools of the image take the place of files of the tree, *)
AddBuilderLinks(t) == [t EXCEPT !.files = @ \cup Links]

(* and GN files are replaced by a script of the tree. *)
Unbundle(trees) == {t \in trees : Unbundler \in t.files}

Finished(trees) == Unbundle({AddBuilderLinks(t) : t \in AddRustTarget(trees)})
-----------------------------------------------------------------------------
(* Chromium's target by architecture, as the driver passes it, and as Gate *)
(* C approves it.                                                          *)
RustTarget == "x86_64-alpine-linux-musl"
HeliumTarget == "x86_64-unknown-linux-musl"
ApprovedTargets == {"aarch64-unknown-linux-musl", "x86_64-unknown-linux-musl"}

(* What the reports say of a tree u that has been patched and is about to  *)
(* be pruned: whatever is not there is called absent, and allowed to be.   *)
ChromiumFindings(u, r) ==
  [requested |-> r.pruning, removed |-> r.pruning \cap u.files, absent |-> r.pruning \ u.files,
   retained |-> {}, unresolved |-> {}, target |-> RustTarget]

(* Mutant: the tree is pruned before it is patched. *)
ChromiumPrunedFirst(r) ==
  LET base  == Extracted(r)
      ready == ApplyLocal(ApplyUpstream(ApplyInventory({Prune(base, r)}, r), r), r) IN
  {[tree |-> t, findings |-> ChromiumFindings(base, r)] :
     t \in Finished({Substitute(u, r) : u \in ready})}

(* prepare-source.py *)
Chromium(r) ==
  LET ready == ApplyLocal(ApplyUpstream(ApplyInventory({Extracted(r)}, r), r), r) IN
  UNION {{[tree |-> t, findings |-> ChromiumFindings(u, r)] :
            t \in Finished({Substitute(Prune(u, r), r)})} : u \in ready}

(* What the reports say of an archive, of it pruned, and of the tree u     *)
(* whose domains are substituted: here an absent domain is not resolved.   *)
HeliumFindings(base, pruned, u, r) ==
  [requested |-> r.pruning, removed |-> (r.pruning \cap base.files) \ pruned.files,
   absent |-> r.pruning \ base.files, retained |-> r.pruning \cap pruned.files,
   unresolved |-> r.domains \ u.files, target |-> HeliumTarget]

(* The steps after the substitution. *)
Finish(trees, r) == Finished(ApplyInventory(ApplyLocal(EditInPlace(trees, r), r), r))

(* prepare-helium.py *)
Helium(r) ==
  LET base   == Extracted(r)
      pruned == PruneKeeping(base, r) IN
  UNION {{[tree |-> t, findings |-> HeliumFindings(base, pruned, u, r)] :
            t \in Finish({Substitute(u, r)}, r)} : u \in ApplyUpstream({pruned}, r)}

Prepared(product, r) == IF product = "helium" THEN Helium(r) ELSE Chromium(r)
-----------------------------------------------------------------------------
(* Gate C *)

(* Mutant: what was absent when the tree was pruned is not looked for. *)
PruningHoldsOfRemoved(t, f) ==
  /\ f.requested # {}
  /\ f.requested = f.removed \cup f.absent \cup f.retained
  /\ f.removed \cap t.files = {}
  /\ f.retained \subseteq t.files

(* Every requested path is accounted for; what is said to be gone is gone. *)
PruningHolds(t, f) ==
  /\ f.requested # {}
  /\ f.requested = f.removed \cup f.absent \cup f.retained
  /\ (f.removed \cup f.absent) \cap t.files = {}
  /\ f.retained \subseteq t.files

DomainsHold(f) == f.unresolved = {}

ToolchainHolds(f) == f.target \in ApprovedTargets

UnbundleHolds(t) == Unbundler \in t.files
=============================================================================
