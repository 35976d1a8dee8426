----------------------------- MODULE LibraryClosure -----------------------------
(***************************************************************************)
(* Which shared libraries go into a Linux bundle.  stage-runtime.py        *)
(* (copy_system_closure, Helium) and package-runtime.py (bundle_libraries, *)
(* Chromium) copy libraries of the build image into lib/, starting from    *)
(* fixed seeds and what the browser needs and following what each copied   *)
(* library needs.  audit_closure, Chromium's, then asks whether the browser*)
(* and the libraries find what they need in lib/.  audit_tree, Helium's,   *)
(* asks more, and of every ELF file of the tree: one provider for each     *)
(* need, no SONAME twice, no glibc, and the GNU C++ runtime only for       *)
(* graphics libraries and for what FFmpeg is made of.                      *)
(*                                                                         *)
(* The two walks differ.  Helium's pending list holds libraries still to   *)
(* be copied, leaves out what the browser needs and the image lacks, and   *)
(* does not look into a library that the build has put into lib/ itself.   *)
(* Chromium's holds libraries already copied, and refuses at once.         *)
(*                                                                         *)
(* Abstractions.  A library is its file name.  What the musl loader        *)
(* provides is left out of every list of needs.  pending is a set, so that *)
(* any order of the walk is considered.  The tree has two directories, the *)
(* browser's and lib/; its files are no links, can all be read, and have   *)
(* search paths that lead to no other.  What is wrong with a file by itself*)
(* (its class, machine or interpreter, an unsafe search path) is one mark. *)
(* A walk that fails takes its temporary tree with it.                     *)
(***************************************************************************)
CONSTANTS
  Libraries,  \* names of libraries
  Glibc,      \* those of glibc, which no bundle may need
  GnuRuntime, \* those of the GNU C++ runtime
  Graphics,   \* those that GRAPHICS_GNU_PREFIXES allows it in lib/
  Ffmpeg,     \* those of FFMPEG_ROOTS
  Own,        \* the ELF files that the build puts beside the browser
  Browser,    \* the browser executable, one of them
  FileName,   \* the names they have, which may be those of libraries
  NoSoname,   \* what stands for the SONAME of a file without one
  Graphs,     \* what each may need, of which there is one in an instance
  Sonames,    \* the SONAMEs they may have
  Unfits,     \* the sets of files that may be unfit by themselves
  Images,     \* the libraries a build image may have
  Seeds       \* the sets of fixed seeds

Binaries == Libraries \cup Own

ASSUME ClosureAssumption ==
  /\ Glibc \subseteq Libraries
  /\ Browser \in Own /\ Own \cap Libraries = {}
  /\ FileName \in [Own -> Binaries]
  /\ \A x, y \in Own : FileName[x] = FileName[y] => x = y
  /\ Graphs \subseteq [Binaries -> SUBSET Libraries]
  /\ NoSoname \notin Libraries
  /\ Sonames \subseteq [Binaries -> Libraries \cup {NoSoname}]
  /\ Unfits \subseteq SUBSET Binaries
  /\ Images \subseteq SUBSET Libraries
  /\ Seeds \subseteq SUBSET (Libraries \ Glibc)

VARIABLES
  walk,  \* which of the two walks
  needs,    \* what each file of the bundle, or of the image, needs
  soname,   \* the SONAME of each
  unfit,    \* those that are unfit by themselves
  image,    \* what /usr/lib and /lib of the image have
  seeds,    \* SYSTEM_SEEDS and the drivers, or NSS_MODULES
  bundled,  \* what the build has put into lib/ itself
  lib,      \* what is in lib/
  pending,  \* what the walk has yet to look at
  pc        \* where staging is

instance == <<walk, needs, soname, unfit, image, seeds, bundled>>
walkVars     == <<instance, lib, pending, pc>>

WalkInit ==
  /\ walk \in {"chromium", "helium"}
  /\ needs \in Graphs /\ soname \in Sonames /\ unfit \in Unfits
  /\ image \in Images /\ seeds \in Seeds
  /\ bundled \in SUBSET (Libraries \ Glibc)
  /\ walk = "chromium" => bundled = {}
  /\ lib = bundled /\ pending = {}
  /\ pc = "begin"

Refuse == pc' = "refused" /\ UNCHANGED <<lib, pending>>
-----------------------------------------------------------------------------
(* copy_system_closure *)

HeliumBegins ==
  /\ walk = "helium" /\ pc = "begin"
  /\ LET found == (seeds \cup needs[Browser]) \cap image IN
     IF found = {} THEN Refuse ELSE pc' = "copy" /\ pending' = found /\ UNCHANGED lib
  /\ UNCHANGED instance

(* Mutant: a library that the image lacks is left out. *)
HeliumCopiesWhatIsThere(l) ==
  /\ walk = "helium" /\ pc = "copy" /\ l \in pending
  /\ \/ l \in Glibc /\ Refuse
     \/ l \in lib \ Glibc /\ pending' = pending \ {l} /\ UNCHANGED <<lib, pc>>
     \/ /\ l \notin lib \cup Glibc
        /\ pending' = (pending \ {l}) \cup (needs[l] \cap image) /\ lib' = lib \cup {l}
        /\ UNCHANGED pc
  /\ UNCHANGED instance

(* A file of that name in lib/ is taken as it is, copied or not. *)
HeliumCopies(l) ==
  /\ walk = "helium" /\ pc = "copy" /\ l \in pending
  /\ \/ l \in Glibc /\ Refuse
     \/ l \in lib \ Glibc /\ pending' = pending \ {l} /\ UNCHANGED <<lib, pc>>
     \/ l \notin lib \cup Glibc /\ ~(needs[l] \subseteq image) /\ Refuse
     \/ /\ l \notin lib \cup Glibc /\ needs[l] \subseteq image
        /\ pending' = (pending \ {l}) \cup needs[l] /\ lib' = lib \cup {l}
        /\ UNCHANGED pc
  /\ UNCHANGED instance
-----------------------------------------------------------------------------
(* bundle_libraries *)

ChromiumBegins ==
  /\ walk = "chromium" /\ pc = "begin"
  /\ IF seeds \subseteq image
     THEN pc' = "copy" /\ lib' = lib \cup seeds /\ pending' = seeds \cup {Browser}
     ELSE Refuse
  /\ UNCHANGED instance

(* Mutant: only what the browser and the seeds need is copied. *)
ChromiumCopiesOnce(x) ==
  /\ walk = "chromium" /\ pc = "copy" /\ x \in pending
  /\ \/ (needs[x] \cap Glibc # {} \/ ~(needs[x] \subseteq lib \cup image)) /\ Refuse
     \/ /\ needs[x] \cap Glibc = {} /\ needs[x] \subseteq lib \cup image
        /\ lib' = lib \cup needs[x] /\ pending' = pending \ {x}
        /\ UNCHANGED pc
  /\ UNCHANGED instance

(* Mutant: what is copied already is looked at once more. *)
ChromiumCopiesAgain(x) ==
  /\ walk = "chromium" /\ pc = "copy" /\ x \in pending
  /\ \/ (needs[x] \cap Glibc # {} \/ ~(needs[x] \subseteq lib \cup image)) /\ Refuse
     \/ /\ needs[x] \cap Glibc = {} /\ needs[x] \subseteq lib \cup image
        /\ lib' = lib \cup needs[x] /\ pending' = (pending \ {x}) \cup needs[x]
        /\ UNCHANGED pc
  /\ UNCHANGED instance

ChromiumCopies(x) ==
  /\ walk = "chromium" /\ pc = "copy" /\ x \in pending
  /\ \/ (needs[x] \cap Glibc # {} \/ ~(needs[x] \subseteq lib \cup image)) /\ Refuse
     \/ /\ needs[x] \cap Glibc = {} /\ needs[x] \subseteq lib \cup image
        /\ lib' = lib \cup needs[x] /\ pending' = (pending \ {x}) \cup (needs[x] \ lib)
        /\ UNCHANGED pc
  /\ UNCHANGED instance
-----------------------------------------------------------------------------
EndWalk ==
  /\ pc = "copy" /\ pending = {}
  /\ pc' = "copied"
  /\ UNCHANGED <<instance, lib, pending>>

(* audit_tree *)

Elfs == lib \cup Own

Called(x) == IF x \in Own THEN FileName[x] ELSE x

(* _resolve_needed looks in both directories, wherever the file itself is. *)
Providers(n) == {x \in Elfs : Called(x) = n}

Lacks(x)        == \E n \in needs[x] : Providers(n) = {}
TwoProviders(x) == \E n \in needs[x] : \E y, z \in Providers(n) : y # z
NeedsGlibc(x)   == needs[x] \cap Glibc # {}
SharesSoname(x) == soname[x] # NoSoname /\ \E y \in Elfs \ {x} : soname[y] = soname[x]

(* ffmpeg_closure goes by SONAME and not by the name of a file; where two  *)
(* have one, the audit fails whichever it goes to.                         *)
IsFfmpegClosed(S) ==
  /\ \A x \in Elfs : Called(x) \in Ffmpeg => x \in S
  /\ \A x \in S : \A y \in Elfs : soname[y] \in needs[x] => y \in S

InFfmpegClosure(x) == \A S \in SUBSET Elfs : IsFfmpegClosed(S) => x \in S

OutsideRuntime(x) ==
  needs[x] \cap GnuRuntime # {} /\ x \notin lib \cap Graphics /\ ~InFfmpegClosure(x)

Fails(x) ==
  \/ x \in unfit \/ SharesSoname(x) \/ NeedsGlibc(x)
  \/ OutsideRuntime(x) \/ TwoProviders(x) \/ Lacks(x)

AuditTree    == \A x \in Elfs : ~Fails(x)
AuditClosure == \A x \in lib \cup {Browser} : needs[x] \subseteq lib

Audit ==
  /\ pc = "copied"
  /\ pc' = IF (walk = "helium" /\ AuditTree) \/ (walk = "chromium" /\ AuditClosure)
           THEN "staged" ELSE "rejected"
  /\ UNCHANGED <<instance, lib, pending>>

Copy == \E x \in Binaries : HeliumCopies(x) \/ ChromiumCopies(x)

Over == pc \in {"refused", "rejected", "staged"} /\ UNCHANGED walkVars

WalkNext == HeliumBegins \/ ChromiumBegins \/ Copy \/ EndWalk \/ Audit \/ Over

WalkSpec == WalkInit /\ [][WalkNext]_walkVars
-----------------------------------------------------------------------------
(* Properties *)

(* What is in lib/ is a library, and a walk looks at libraries and at the  *)
(* browser.                                                                *)
WalkTypeOK ==
  /\ walk \in {"chromium", "helium"} /\ needs \in Graphs /\ image \in Images
  /\ soname \in Sonames /\ unfit \in Unfits
  /\ seeds \in Seeds /\ bundled \subseteq Libraries /\ lib \subseteq Libraries
  /\ pending \subseteq Binaries
  /\ pc \in {"begin", "copy", "copied", "refused", "rejected", "staged"}

(* What has to be there whatever else is: Helium goes without what its     *)
(* browser needs and the image lacks.                                      *)
Starts ==
  IF walk = "helium" THEN (seeds \cup needs[Browser]) \cap image
                        ELSE seeds \cup needs[Browser]

(* A set that has what is asked for, and with each library of the image    *)
(* all it needs.                                                           *)
IsClosed(S) ==
  /\ bundled \cup Starts \subseteq S
  /\ \A l \in S \ bundled : needs[l] \subseteq S

(* A walk that ends has copied the least closed set: no library is         *)
(* missing, whatever cycles there are and in whatever order it went, and   *)
(* none is there for nothing.                                              *)
LibIsLeastClosure ==
  pc \in {"copied", "staged"} =>
    /\ IsClosed(lib) /\ lib \cap Glibc = {}
    /\ \A S \in SUBSET Libraries : IsClosed(S) => lib \subseteq S

(* A closed set that can be made of the image without glibc. *)
IsPossible(S) ==
  /\ IsClosed(S) /\ Starts \subseteq image \ Glibc
  /\ \A l \in S \ bundled : needs[l] \subseteq image \ Glibc

(* A walk refuses only if there is no bundle it could have made.          *)
(* audit_closure rejects nothing after a walk.  audit_tree finds a library *)
(* missing, or of glibc, only where a file that the build has brought      *)
(* itself needs it: no library that a walk has copied does.  Copied ones   *)
(* it can reject only for what no walk looks at: the GNU C++ runtime       *)
(* outside what is allowed it, a SONAME twice, a need with two providers,  *)
(* or a fault of the file by itself.                                       *)
RefusedForCause ==
  /\ pc = "refused" => Starts = {} \/ ~ \E S \in SUBSET Libraries : IsPossible(S)
  /\ pc = "rejected" =>
       /\ walk = "helium"
       /\ \/ \E x \in bundled \cup Own : Lacks(x) \/ NeedsGlibc(x)
          \/ \E x \in Elfs : \/ x \in unfit \/ SharesSoname(x)
                             \/ OutsideRuntime(x) \/ TwoProviders(x)

(* No cycle keeps a walk going: with each step it has copied more, or has  *)
(* less to look at and has copied as much.                                 *)
ComesToAnEnd ==
  [][pc = "copy" /\ pc' = "copy" =>
       \/ lib \subseteq lib' /\ lib # lib'
       \/ lib' = lib /\ pending' \subseteq pending /\ pending' # pending]_walkVars
=============================================================================
