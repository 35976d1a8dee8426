------------------------------ MODULE MacSource ------------------------------
(***************************************************************************)
(* The Chromium source tree of a macOS work root: `fetch`, `prepare` and   *)
(* `reset` of scripts/macos_backend.py.                                    *)
(*                                                                         *)
(* Three things on disk are meant to agree.  The tree in src/; the record  *)
(* metadata/source-acquired.json, naming the revision the tree was         *)
(* extracted from; and the marker metadata/prepare-macos.json, naming the  *)
(* revision and the overlay series the tree has been patched with.  They   *)
(* are changed one after the other, while the operator edits the lock and  *)
(* the overlay series of the repository.  One lock serializes commands, so *)
(* at most one is in progress; it may die between two steps.               *)
(*                                                                         *)
(* Abstractions.  The lock is the Chromium revision it names; the          *)
(* ungoogled patches, the pruning and the domain substitution turn a       *)
(* "pristine" tree into an "ungoogled" one, and leave it "midway" until    *)
(* all are done.  A removal that stopped leaves a tree with "some" of its  *)
(* files, which takes a patch or refuses it, depending on which are left.  *)
(* The profile edits are idempotent and not represented.  A work root that *)
(* an older backend acquired as a lite archive, which fetch replaces by a  *)
(* Git checkout, is not considered.                                        *)
(* A command that is refused changes nothing and is not a step.            *)
(***************************************************************************)
EXTENDS Naturals, Sequences, SequencesExt

CONSTANTS
  Revisions,  \* Chromium revisions a lock may name
  Reviewed,   \* the revision the overlay has been reviewed for
  Series,     \* the overlay series the operator may configure
  None,       \* no file
  MayHappen   \* the mishaps considered: "crash" of a command between two
              \* steps, "reject" of a patch, "edit" of the series in mid command

ASSUME SourceAssumption ==
  /\ \A s \in Series : s \in Seq(Range(s)) /\ s # <<>> /\ IsInjective(s)
  /\ Reviewed \in Revisions /\ None \notin Revisions
  /\ MayHappen \subseteq {"crash", "reject", "edit"}

VARIABLES
  lock,      \* the revision config/macos.inputs.lock names
  series,    \* the series config/patches/macos-native/series lists
  tree,      \* what src/ holds
  acquired,  \* source-acquired.json
  marker,    \* prepare-macos.json
  pc,        \* the command in progress and where it is
  job,       \* what the command read at its start, and the patches it has left
  mishaps    \* history: what has gone wrong since the last complete reset

inputs == <<lock, series>>
disk   == <<tree, acquired, marker>>
vars   == <<inputs, disk, pc, job, mishaps>>

Patches  == UNION {Range(s) : s \in Series}
Overlays == {<<>>} \cup Series
Bodies   == {"pristine", "midway", "ungoogled"}
Trees    == [base : Revisions, body : Bodies, files : {"all", "some"}, overlay : Seq(Patches)]
Markers  == [base : Revisions, overlay : Overlays]

ASSUME NoneAssumption == None \notin Trees \cup Markers

Resting == {"idle", "fetched", "prepared", "failed"}
Busy    == {"acquire", "patching", "overlay", "rm_source", "rm_metadata"}

(* What find_chromium_root yields of the archive of revision r. *)
Extracted(r) == [base |-> r, body |-> "pristine", files |-> "all", overlay |-> <<>>]

Start == pc \in Resting /\ job' = [base |-> lock, overlay |-> series, todo |-> <<>>]
-----------------------------------------------------------------------------
(* fetch *)

(* A tree that is there is taken as it is, if the record names the lock.   *)
FetchReuse ==
  /\ Start /\ tree # None /\ acquired = lock
  /\ pc' = "fetched"
  /\ UNCHANGED <<inputs, mishaps, disk>>

(* The extracted archive is renamed to src/ before its record is written.  *)
FetchExtract ==
  /\ Start /\ tree = None
  /\ tree' = Extracted(lock)
  /\ pc' = "acquire"
  /\ UNCHANGED <<inputs, mishaps, acquired, marker>>

FetchRecord ==
  /\ pc = "acquire"
  /\ acquired' = job.base
  /\ pc' = "fetched"
  /\ UNCHANGED <<inputs, mishaps, tree, marker, job>>

-----------------------------------------------------------------------------
(* prepare *)

(* Mutant: a marker is no reason not to start over. *)
PrepareFreshAnyway ==
  /\ Start
  /\ tree # None /\ tree.body = "pristine" /\ tree.base = lock
  /\ tree' = [tree EXCEPT !.body = "midway"]
  /\ pc' = "patching"
  /\ UNCHANGED <<inputs, mishaps, acquired, marker>>

(* Every ungoogled patch must apply forward: only a pristine tree takes    *)
(* them.  chrome/VERSION must be the lock's.                               *)
PrepareFresh ==
  /\ Start /\ marker = None
  /\ tree # None /\ tree.body = "pristine" /\ tree.base = lock
  /\ tree' = [tree EXCEPT !.body = "midway"]
  /\ pc' = "patching"
  /\ UNCHANGED <<inputs, mishaps, acquired, marker>>

(* apply_native_overlay refuses a revision it was not reviewed for, with   *)
(* the ungoogled patches already in, and reads the series a second time.   *)
PrepareUngoogled ==
  /\ pc = "patching"
  /\ tree' = [tree EXCEPT !.body = "ungoogled"]
  /\ \/ lock = Reviewed /\ pc' = "overlay" /\ job' = [job EXCEPT !.todo = series]
     \/ lock # Reviewed /\ pc' = "failed" /\ UNCHANGED job
  /\ UNCHANGED <<inputs, mishaps, acquired, marker>>

(* Mutant: one appended patch too many is skipped. *)
PrepareAppendSkipping ==
  /\ pc \in Resting /\ tree # None /\ marker # None
  /\ lock = Reviewed /\ marker.base = lock /\ IsStrictPrefix(marker.overlay, series)
  /\ job' = [base |-> lock, overlay |-> series,
             todo |-> SubSeq(series, Len(marker.overlay) + 2, Len(series))]
  /\ pc' = "overlay"
  /\ UNCHANGED <<inputs, mishaps, disk>>

(* The marker names a proper prefix of the series: a marker that predates  *)
(* the overlay is one with the empty prefix.                               *)
PrepareAppend ==
  /\ pc \in Resting /\ tree # None /\ marker # None
  /\ lock = Reviewed /\ marker.base = lock /\ IsStrictPrefix(marker.overlay, series)
  /\ job' = [base |-> lock, overlay |-> series,
             todo |-> SubSeq(series, Len(marker.overlay) + 1, Len(series))]
  /\ pc' = "overlay"
  /\ UNCHANGED <<inputs, mishaps, disk>>

(* Mutant: patches that are already there are applied once more. *)
PrepareApplyAgain ==
  /\ pc = "overlay" /\ job.todo # <<>>
  /\ tree' = [tree EXCEPT !.overlay = Append(@, Head(job.todo))]
  /\ job' = [job EXCEPT !.todo = Tail(@)]
  /\ UNCHANGED <<inputs, mishaps, acquired, marker, pc>>

(* The dry run refuses a patch that is already there. *)
PrepareApply ==
  /\ pc = "overlay" /\ job.todo # <<>>
  /\ Head(job.todo) \notin Range(tree.overlay)
  /\ tree' = [tree EXCEPT !.overlay = Append(@, Head(job.todo))]
  /\ job' = [job EXCEPT !.todo = Tail(@)]
  /\ UNCHANGED <<inputs, mishaps, acquired, marker, pc>>

PrepareMark ==
  /\ pc = "overlay" /\ job.todo = <<>>
  /\ marker' = [base |-> job.base, overlay |-> job.overlay]
  /\ pc' = "prepared"
  /\ UNCHANGED <<inputs, mishaps, tree, acquired, job>>

(* "unchanged prepared source reused": the marker alone decides. *)
PrepareReuse ==
  /\ Start /\ tree # None
  /\ marker = [base |-> lock, overlay |-> series]
  /\ pc' = "prepared"
  /\ UNCHANGED <<inputs, mishaps, disk>>

(* A rejected patch leaves the tree as it is and the marker unwritten. *)
PrepareReject ==
  /\ \/ pc = "patching" /\ ("reject" \in MayHappen \/ tree.files = "some")
     \/ /\ pc = "overlay" /\ job.todo # <<>>
        /\ \/ "reject" \in MayHappen \/ tree.files = "some"
           \/ Head(job.todo) \in Range(tree.overlay)
  /\ pc' = "failed"
  /\ mishaps' = mishaps \cup {"reject"}
  /\ UNCHANGED <<inputs, disk, job>>

-----------------------------------------------------------------------------
(* reset --yes: the tree goes first, the metadata last, file after file. *)

ResetBegin ==
  /\ Start
  /\ tree' = IF tree = None THEN None ELSE [tree EXCEPT !.files = "some"]
  /\ pc' = "rm_source"
  /\ UNCHANGED <<inputs, mishaps, acquired, marker>>

(* Mutant: the metadata stays. *)
ResetSourceOnly ==
  /\ pc = "rm_source"
  /\ tree' = None
  /\ pc' = "idle"
  /\ UNCHANGED <<inputs, mishaps, acquired, marker, job>>

ResetSource ==
  /\ pc = "rm_source"
  /\ tree' = None
  /\ pc' = "rm_metadata"
  /\ UNCHANGED <<inputs, mishaps, acquired, marker, job>>

ResetMetadata ==
  /\ pc = "rm_metadata"
  /\ \/ acquired # None /\ acquired' = None /\ UNCHANGED <<marker, pc, mishaps>>
     \/ marker # None /\ marker' = None /\ UNCHANGED <<acquired, pc, mishaps>>
     \/ /\ acquired = None /\ marker = None
        /\ pc' = "idle" /\ mishaps' = {}
        /\ UNCHANGED <<acquired, marker>>
  /\ UNCHANGED <<inputs, tree, job>>
-----------------------------------------------------------------------------

Crash ==
  /\ "crash" \in MayHappen /\ pc \in Busy
  /\ pc' = "idle"
  /\ mishaps' = mishaps \cup {"crash"}
  /\ UNCHANGED <<inputs, disk, job>>

EditLock ==
  /\ pc \in Resting
  /\ \E r \in Revisions \ {lock} : lock' = r
  /\ UNCHANGED <<series, disk, pc, job, mishaps>>

EditSeries ==
  /\ \E s \in Series \ {series} : series' = s
  /\ \/ pc \in Resting /\ UNCHANGED mishaps
     \/ pc \in Busy /\ "edit" \in MayHappen /\ mishaps' = mishaps \cup {"edit"}
  /\ UNCHANGED <<lock, disk, pc, job>>

Init ==
  /\ lock \in Revisions /\ series \in Series
  /\ \/ tree = None /\ acquired = None /\ marker = None
     \/ \* A work root prepared before the overlay existed.
        /\ tree = [Extracted(lock) EXCEPT !.body = "ungoogled"]
        /\ acquired = lock
        /\ marker = [base |-> lock, overlay |-> <<>>]
  /\ pc = "idle"
  /\ job = [base |-> lock, overlay |-> series, todo |-> <<>>]
  /\ mishaps = {}

Fetch   == FetchReuse \/ FetchExtract \/ FetchRecord
Prepare == PrepareFresh \/ PrepareUngoogled \/ PrepareAppend \/ PrepareApply
             \/ PrepareMark \/ PrepareReuse \/ PrepareReject
Reset   == ResetBegin \/ ResetSource \/ ResetMetadata

Next == Fetch \/ Prepare \/ Reset \/ Crash \/ EditLock \/ EditSeries

Spec == Init /\ [][Next]_vars
-----------------------------------------------------------------------------
(* Properties *)

(* Every file holds what some command writes to it, and a command that is  *)
(* past its first step has a tree to work on.                              *)
TypeOK ==
  /\ lock \in Revisions /\ series \in Series
  /\ tree \in Trees \cup {None}
  /\ acquired \in Revisions \cup {None}
  /\ marker \in Markers \cup {None}
  /\ pc \in Resting \cup Busy
  /\ job \in [base : Revisions, overlay : Series, todo : Seq(Patches)]
  /\ pc \in {"acquire", "patching", "overlay"} => tree # None
  /\ mishaps \subseteq {"crash", "reject", "edit"}

(* A prepare that reports success leaves the tree the lock and the series  *)
(* it was asked for describe, no patch missing and none too many, through  *)
(* any edits between commands, and whatever went wrong before the last     *)
(* complete reset: reset recovers from everything.                         *)
PreparedIsExact ==
  pc = "prepared" /\ mishaps = {} =>
    tree = [base |-> job.base, body |-> "ungoogled", files |-> "all", overlay |-> job.overlay]

(* A tree whose preparation stopped half way is never named prepared, by   *)
(* this or by a later command.                                             *)
PartialIsUnpublished ==
  tree # None /\ tree.body = "midway" => marker = None

(* No sequence of commands, stopped anywhere, applies an overlay patch to  *)
(* a tree twice: a retried prepare fails instead.                          *)
NoPatchTwice == tree # None => IsInjective(tree.overlay)

(* The marker never claims an overlay patch that the tree lacks, unless    *)
(* the series was edited under a running prepare: a stopped append leaves  *)
(* the tree ahead of the marker, never behind it.                          *)
MarkerIsBehind ==
  "edit" \notin mishaps /\ tree # None /\ tree.body = "ungoogled" /\ marker # None =>
    Range(marker.overlay) \subseteq Range(tree.overlay)
=============================================================================
