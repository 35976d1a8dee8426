------------------------------ MODULE PatchUpdate ------------------------------
(***************************************************************************)
(* Adding local patches to a prepared Helium source tree:                  *)
(* `update_integration` of scripts/prepare-source-driver.py.               *)
(*                                                                         *)
(* metadata/patches.json records the patches the tree carries.  When the   *)
(* disposition lists more, the new ones are applied one after the other,   *)
(* each file kept in a backup directory first; a patch that is refused     *)
(* puts the backup back.  `patch --batch` without `--forward` takes a      *)
(* patch it finds already applied, or a file it is to create that is       *)
(* already there, for one to be reversed, and succeeds: file by file,      *)
(* applying a patch toggles it.                                            *)
(*                                                                         *)
(* Abstractions.  A file is the set of local patches it carries, and a     *)
(* file that a patch creates is there iff it carries that patch.  No other *)
(* patch changes such a file.  Whether hunks of different patches overlap  *)
(* is a matter of the dry run, which may refuse any patch.                 *)
(***************************************************************************)
EXTENDS Sequences, SequencesExt

CONSTANTS
  Files,      \* files of the source tree that local patches change
  Patches,    \* local patches
  Edits,      \* the files each patch changes
  Adds,       \* the files each patch creates
  Lists,      \* the lists of local patches the disposition may hold
  MayHappen   \* the mishaps considered: a patch may be refused or fail half
              \* way ("refuse"), an update may die between two steps ("crash")

ASSUME PatchAssumption ==
  /\ Edits \in [Patches -> SUBSET Files] /\ Adds \in [Patches -> SUBSET Files]
  /\ \A p, q \in Patches : Adds[p] \cap Edits[q] = {} /\ (p # q => Adds[p] \cap Adds[q] = {})
  /\ \A l \in Lists : l \in Seq(Patches) /\ IsInjective(l)
  /\ MayHappen \subseteq {"refuse", "crash"}

VARIABLES
  configured,  \* local_patches of the disposition
  recorded,    \* local_patches of patches.json
  content,     \* the patches each file carries
  pc,          \* where the update is
  job,         \* what it has read, and what is left to do
  clean        \* history: the last update began on the tree the report describes

vars == <<configured, recorded, content, pc, job, clean>>

Resting == {"idle", "updated", "failed"}
Busy    == {"patch", "file", "restore"}

Touched(p) == Edits[p] \cup Adds[p]

(* The files of a tree freshly prepared with a list of patches. *)
Of(list) == [f \in Files |-> {p \in Range(list) : f \in Touched(p)}]

(* origin.is_file() *)
IsFile(f) == (\A p \in Patches : f \notin Adds[p]) \/ content[f] # {}

Toggle(set, p) == IF p \in set THEN set \ {p} ELSE set \cup {p}
-----------------------------------------------------------------------------
(* Mutant: the last recorded patch is taken for a new one. *)
BeginOneEarly ==
  /\ pc \in Resting
  /\ IsStrictPrefix(recorded, configured) /\ recorded # <<>>
  /\ job' = [existing |-> recorded, applied |-> <<>>, files |-> {}, kept |-> {}, backup |-> content,
             todo |-> SubSeq(configured, Len(recorded), Len(configured))]
  /\ clean' = (content = Of(recorded))
  /\ pc' = "patch"
  /\ UNCHANGED <<configured, recorded, content>>

(* The recorded patches must be the first of the configured ones. *)
Begin ==
  /\ pc \in Resting
  /\ IsStrictPrefix(recorded, configured)
  /\ job' = [existing |-> recorded, applied |-> <<>>, files |-> {}, kept |-> {}, backup |-> content,
             todo |-> SubSeq(configured, Len(recorded) + 1, Len(configured))]
  /\ clean' = (content = Of(recorded))
  /\ pc' = "patch"
  /\ UNCHANGED <<configured, recorded, content>>

(* Mutant: only the files of the first new patch are kept. *)
KeepFilesOnce ==
  LET files == Touched(Head(job.todo))
      keep  == {f \in files : IsFile(f) /\ job.applied = <<>>} IN
  /\ pc = "patch" /\ job.todo # <<>>
  /\ job' = [job EXCEPT !.files = files, !.kept = @ \cup keep,
               !.backup = [f \in Files |-> IF f \in keep THEN content[f] ELSE @[f]]]
  /\ pc' = "file"
  /\ UNCHANGED <<configured, recorded, content, clean>>

(* The dry run lists the files; those that are there are copied, over an   *)
(* older copy if an earlier new patch changed them too.                    *)
KeepFiles ==
  LET files == Touched(Head(job.todo))
      keep  == {f \in files : IsFile(f)} IN
  /\ pc = "patch" /\ job.todo # <<>>
  /\ job' = [job EXCEPT !.files = files, !.kept = @ \cup keep,
               !.backup = [f \in Files |-> IF f \in keep THEN content[f] ELSE @[f]]]
  /\ pc' = "file"
  /\ UNCHANGED <<configured, recorded, content, clean>>

PatchFile ==
  /\ pc = "file"
  /\ \E f \in job.files :
       /\ content' = [content EXCEPT ![f] = Toggle(@, Head(job.todo))]
       /\ job' = [job EXCEPT !.files = @ \ {f}]
  /\ UNCHANGED <<configured, recorded, pc, clean>>

Patched ==
  /\ pc = "file" /\ job.files = {}
  /\ job' = [job EXCEPT !.todo = Tail(@), !.applied = Append(@, Head(job.todo))]
  /\ pc' = "patch"
  /\ UNCHANGED <<configured, recorded, content, clean>>

(* The dry run refuses the patch, or the patch fails or is interrupted.    *)
Refused ==
  /\ "refuse" \in MayHappen
  /\ (pc = "patch" /\ job.todo # <<>>) \/ pc = "file"
  /\ pc' = "restore"
  /\ UNCHANGED <<configured, recorded, content, job, clean>>

RestoreFile ==
  /\ pc = "restore"
  /\ \E f \in job.kept :
       /\ content' = [content EXCEPT ![f] = job.backup[f]]
       /\ job' = [job EXCEPT !.kept = @ \ {f}]
  /\ UNCHANGED <<configured, recorded, pc, clean>>

RestoreRecord ==
  /\ pc = "restore" /\ job.kept = {}
  /\ recorded' = job.existing
  /\ pc' = "failed"
  /\ UNCHANGED <<configured, content, job, clean>>

Record ==
  /\ pc = "patch" /\ job.todo = <<>>
  /\ recorded' = job.existing \o job.applied
  /\ pc' = "updated"
  /\ UNCHANGED <<configured, content, job, clean>>

Crash ==
  /\ "crash" \in MayHappen /\ pc \in Busy
  /\ pc' = "idle"
  /\ UNCHANGED <<configured, recorded, content, job, clean>>

Configure ==
  /\ \E l \in Lists \ {configured} : configured' = l
  /\ UNCHANGED <<recorded, content, pc, job, clean>>

(* A source just prepared. *)
Init ==
  /\ configured \in Lists
  /\ recorded = configured
  /\ content = Of(recorded)
  /\ pc = "idle"
  /\ job = [existing |-> recorded, applied |-> <<>>, files |-> {}, kept |-> {}, backup |-> content,
            todo |-> <<>>]
  /\ clean = TRUE

Update == Begin \/ KeepFiles \/ PatchFile \/ Patched \/ Refused \/ RestoreFile
            \/ RestoreRecord \/ Record

Next == Update \/ Crash \/ Configure

Spec == Init /\ [][Next]_vars
-----------------------------------------------------------------------------
(* Properties *)

Jobs == [existing : Seq(Patches), applied : Seq(Patches), todo : Seq(Patches),
         files : SUBSET Files, kept : SUBSET Files, backup : [Files -> SUBSET Patches]]

(* Files carry patches, and the report lists patches. *)
TypeOK ==
  /\ configured \in Lists /\ recorded \in Seq(Patches)
  /\ content \in [Files -> SUBSET Patches]
  /\ pc \in Resting \cup Busy
  /\ job \in Jobs /\ clean \in BOOLEAN
  /\ pc = "file" => job.todo # <<>>

(* Patches that create no file and change different ones. *)
Independent(list) ==
  /\ \A p \in Range(list) : Adds[p] = {}
  /\ \A p, q \in Range(list) : p # q => Edits[p] \cap Edits[q] = {}

(* An update that begins on the tree its report describes is all or        *)
(* nothing: when it reports success the tree is the one a fresh            *)
(* preparation with the recorded patches would have made, and when it      *)
(* fails the one it began on, which the report it puts back describes, if  *)
(* its patches are independent.                                            *)
UpdateIsAllOrNothing ==
  /\ pc = "updated" /\ clean => content = Of(recorded)
  /\ pc = "failed" /\ clean /\ Independent(job.applied \o job.todo) => content = Of(recorded)

(* Whatever fails or dies, no update touches a patch that was recorded     *)
(* before it: not by reversing it, not by putting an older file back.      *)
KeepsRecordedPatches ==
  [][\A p \in Range(recorded), f \in Files : p \in content'[f] <=> p \in content[f]]_vars
=============================================================================
