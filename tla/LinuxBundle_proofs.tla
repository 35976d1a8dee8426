------------------------- MODULE LinuxBundle_proofs --------------------------
(***************************************************************************)
(* Proofs about what a Linux bundle is made of, LibraryClosure, and what   *)
(* becomes of it, LinuxRelease.                                            *)
(*                                                                         *)
(* LibraryClosure, for every set of libraries, every graph of needs, with  *)
(* whatever cycles, and every image: the inductive invariant is that of    *)
(* any worklist.  What has been looked at has its needs in lib/ or on the  *)
(* list (Helium), or in lib/ (Chromium, which lists what it has copied);   *)
(* and nothing is in either place that some closed set could do without.   *)
(* A refusal is then a fact about every closed set, and not about the      *)
(* order of the walk.                                                      *)
(*                                                                         *)
(* LinuxRelease, for every set of builds, versions and files and any       *)
(* bounds: what a command has read of the volume keeps its meaning         *)
(* whatever takes its place, because each command checks what it reads     *)
(* against what it has read before.                                        *)
(***************************************************************************)
EXTENDS LibraryClosure, LinuxRelease, TLAPS

Walking == pc \in {"copy", "copied", "staged", "rejected"}

(* Needs of what Helium has copied are copied or listed, and come from the *)
(* image.                                                                  *)
HeliumInv ==
  walk = "helium" =>
    /\ pending \subseteq Libraries /\ Starts \subseteq lib \cup pending
    /\ \A l \in lib \ bundled : needs[l] \subseteq lib \cup pending
    /\ \A S \in SUBSET Libraries : IsPossible(S) => pending \cap Glibc = {}

(* Needs of what Chromium has looked at are copied.                        *)
ChromiumInv ==
  walk = "chromium" =>
    /\ bundled = {} /\ seeds \subseteq lib /\ pending \subseteq lib \cup {Browser}
    /\ \A x \in (lib \cup {Browser}) \ pending : needs[x] \subseteq lib

(* Nothing is copied or listed that a closed set could do without.         *)
Minimal ==
  \A S \in SUBSET Libraries : IsClosed(S) => lib \cup pending \subseteq S \cup {Browser}

WalkInv ==
  /\ bundled \subseteq lib /\ lib \cap Glibc = {}
  /\ HeliumInv /\ ChromiumInv /\ Minimal

IInv ==
  /\ WalkTypeOK
  /\ walk = "chromium" => bundled = {}
  /\ pc = "begin" => lib = bundled /\ bundled \cap Glibc = {} /\ pending = {}
  /\ pc \in {"copied", "staged", "rejected"} => pending = {}
  /\ Walking => WalkInv
  /\ RefusedForCause

(* Starts and closed sets are of the instance, which no step changes.      *)
LEMMA InstanceStays ==
  ASSUME UNCHANGED instance
  PROVE  /\ Starts' = Starts
         /\ \A S : IsClosed(S)' = IsClosed(S)
         /\ \A S : IsPossible(S)' = IsPossible(S)
BY DEF instance, Starts, IsClosed, IsPossible

(* What the audit asks is of the instance and of lib/.                     *)
LEMMA AuditStays ==
  ASSUME UNCHANGED <<instance, lib>>
  PROVE  RefusedForCause' <=>
           /\ pc' = "refused" => Starts = {} \/ ~ \E S \in SUBSET Libraries : IsPossible(S)
           /\ pc' = "rejected" =>
                /\ walk = "helium"
                /\ \/ \E x \in bundled \cup Own : Lacks(x) \/ NeedsGlibc(x)
                   \/ \E x \in Elfs : \/ x \in unfit \/ SharesSoname(x)
                                      \/ OutsideRuntime(x) \/ TwoProviders(x)
BY InstanceStays
   DEF RefusedForCause, instance, Lacks, NeedsGlibc, SharesSoname, OutsideRuntime,
       TwoProviders, Providers, Called, Elfs, InFfmpegClosure, IsFfmpegClosed

(* The types every step starts from.                                       *)
LEMMA Needs ==
  ASSUME WalkTypeOK
  PROVE  /\ \A x \in Binaries : needs[x] \subseteq Libraries
         /\ seeds \subseteq Libraries \ Glibc /\ Starts \subseteq Libraries
         /\ Browser \in Binaries /\ Browser \notin Libraries /\ Libraries \subseteq Binaries
<1>1. needs \in [Binaries -> SUBSET Libraries]
  BY ClosureAssumption DEF WalkTypeOK, Binaries
<1>2. \A x \in Binaries : needs[x] \subseteq Libraries
  BY <1>1
<1>3. seeds \subseteq Libraries \ Glibc
  BY ClosureAssumption DEF WalkTypeOK
<1>4. Browser \in Binaries /\ Browser \notin Libraries /\ Libraries \subseteq Binaries
  BY ClosureAssumption DEF Binaries
<1>5. Starts \subseteq Libraries
  BY <1>2, <1>3, <1>4 DEF Starts
<1>. QED BY <1>2, <1>3, <1>4, <1>5

LEMMA InitIInv == WalkInit => IInv
BY ClosureAssumption DEF WalkInit, IInv, WalkTypeOK, Walking, RefusedForCause

LEMMA HeliumBeginsIInv == IInv /\ HeliumBegins => IInv'
<1>. SUFFICES ASSUME IInv, HeliumBegins PROVE IInv'
  OBVIOUS
<1>. USE Needs, InstanceStays
<1>1. WalkTypeOK /\ UNCHANGED instance /\ walk = "helium" /\ pc = "begin"
  BY DEF IInv, HeliumBegins
<1>2. CASE Starts = {}
  <2>1. UNCHANGED <<lib, pending>> /\ pc' = "refused"
    BY <1>1, <1>2 DEF HeliumBegins, Starts, Refuse
  <2>. QED BY <1>1, <1>2, <2>1 DEF IInv, WalkTypeOK, instance, Walking, RefusedForCause
<1>3. CASE Starts # {}
  <2>1. pc' = "copy" /\ pending' = Starts /\ lib' = lib /\ lib = bundled
    BY <1>1, <1>3 DEF HeliumBegins, Starts, IInv
  <2>2. WalkTypeOK'
    BY <1>1, <2>1 DEF WalkTypeOK, instance
  <2>3. HeliumInv'
    <3>1. Starts' \subseteq (lib \cup pending)' /\ pending' \subseteq Libraries
      BY <1>1, <2>1
    <3>2. \A S \in SUBSET Libraries : IsPossible(S)' => (pending \cap Glibc)' = {}
      BY <1>1, <2>1 DEF IsPossible
    <3>. QED BY <1>1, <2>1, <3>1, <3>2 DEF HeliumInv, instance
  <2>4. Minimal'
    BY <1>1, <2>1 DEF Minimal, IsClosed
  <2>. QED BY <1>1, <2>1, <2>2, <2>3, <2>4
           DEF IInv, WalkInv, ChromiumInv, instance, RefusedForCause
<1>. QED BY <1>2, <1>3

(* What Helium copies next is in every closed set, and in an image that    *)
(* could make the bundle.                                                  *)
LEMMA HeliumNext ==
  ASSUME IInv, pc = "copy", walk = "helium",
         NEW l \in pending, l \notin lib
  PROVE  /\ l \in Libraries
         /\ \A S \in SUBSET Libraries : IsClosed(S) => needs[l] \subseteq S
         /\ \A S \in SUBSET Libraries : IsPossible(S) => needs[l] \subseteq image \ Glibc
<1>1. WalkTypeOK /\ WalkInv
  BY DEF IInv, Walking
<1>2. l \in Libraries /\ l \notin bundled /\ l # Browser
  BY <1>1, Needs DEF WalkInv, HeliumInv
<1>3. \A S \in SUBSET Libraries : IsClosed(S) => l \in S \ bundled
  BY <1>1, <1>2 DEF WalkInv, Minimal
<1>4. \A S \in SUBSET Libraries : IsClosed(S) => needs[l] \subseteq S
  BY <1>3 DEF IsClosed
<1>5. \A S \in SUBSET Libraries : IsPossible(S) => needs[l] \subseteq image \ Glibc
  BY <1>3 DEF IsPossible
<1>. QED BY <1>2, <1>4, <1>5

LEMMA HeliumCopiesIInv ==
  ASSUME IInv, NEW l \in Binaries, HeliumCopies(l)
  PROVE  IInv'
<1>. USE Needs, InstanceStays
<1>1. /\ WalkTypeOK /\ WalkInv /\ UNCHANGED instance
      /\ walk = "helium" /\ pc = "copy" /\ l \in pending
  BY DEF IInv, Walking, HeliumCopies
<1>2. CASE l \in Glibc /\ Refuse
  <2>1. \A S \in SUBSET Libraries : ~IsPossible(S)
    BY <1>1, <1>2 DEF WalkInv, HeliumInv
  <2>. QED BY <1>1, <1>2, <2>1
           DEF IInv, Refuse, WalkTypeOK, instance, Walking, RefusedForCause
<1>3. CASE l \in lib \ Glibc /\ pending' = pending \ {l} /\ UNCHANGED <<lib, pc>>
  <2>1. WalkTypeOK'
    BY <1>1, <1>3 DEF WalkTypeOK, instance
  <2>2. HeliumInv'
    <3>1. pending' \subseteq pending /\ lib' \cup pending' = lib \cup pending
      BY <1>1, <1>3
    <3>2. \A S \in SUBSET Libraries : IsPossible(S)' => (pending \cap Glibc)' = {}
      BY <1>1, <3>1 DEF WalkInv, HeliumInv
    <3>. QED BY <1>1, <1>3, <3>1, <3>2 DEF WalkInv, HeliumInv, instance
  <2>3. Minimal'
    BY <1>1, <1>3 DEF WalkInv, Minimal
  <2>. QED BY <1>1, <1>3, <2>1, <2>2, <2>3
           DEF IInv, WalkInv, ChromiumInv, instance, Walking, RefusedForCause
<1>4. CASE l \notin lib \cup Glibc /\ ~(needs[l] \subseteq image) /\ Refuse
  <2>1. \A S \in SUBSET Libraries : ~IsPossible(S)
    BY <1>1, <1>4, HeliumNext
  <2>. QED BY <1>1, <1>4, <2>1
           DEF IInv, Refuse, WalkTypeOK, instance, Walking, RefusedForCause
<1>5. CASE /\ l \notin lib \cup Glibc /\ needs[l] \subseteq image
           /\ pending' = (pending \ {l}) \cup needs[l] /\ lib' = lib \cup {l}
           /\ UNCHANGED pc
  <2>1. /\ l \in Libraries
        /\ \A S \in SUBSET Libraries : IsClosed(S) => needs[l] \subseteq S
        /\ \A S \in SUBSET Libraries : IsPossible(S) => needs[l] \subseteq image \ Glibc
    BY <1>1, <1>5, HeliumNext
  <2>2. needs[l] \subseteq Libraries
    BY <1>1, <2>1
  <2>3. WalkTypeOK'
    BY <1>1, <1>5, <2>1, <2>2 DEF WalkTypeOK, instance
  <2>4. HeliumInv'
    <3>1. lib' \cup pending' = lib \cup pending \cup needs[l]
      BY <1>1, <1>5
    <3>2. \A S \in SUBSET Libraries : IsPossible(S)' => (pending \cap Glibc)' = {}
      BY <1>1, <1>5, <2>1 DEF WalkInv, HeliumInv, instance
    <3>3. \A x \in lib' \ bundled : needs[x] \subseteq lib' \cup pending'
      BY <1>1, <1>5, <3>1 DEF WalkInv, HeliumInv
    <3>4. pending' \subseteq Libraries /\ Starts \subseteq lib' \cup pending'
      BY <1>1, <1>5, <2>2, <3>1 DEF WalkInv, HeliumInv
    <3>. QED BY <1>1, <3>2, <3>3, <3>4 DEF HeliumInv, instance
  <2>5. Minimal'
    BY <1>1, <1>5, <2>1 DEF WalkInv, Minimal
  <2>. QED BY <1>1, <1>5, <2>3, <2>4, <2>5
           DEF IInv, WalkInv, ChromiumInv, instance, Walking, RefusedForCause
<1>. QED BY <1>1, <1>2, <1>3, <1>4, <1>5 DEF HeliumCopies

LEMMA ChromiumBeginsIInv == IInv /\ ChromiumBegins => IInv'
<1>. SUFFICES ASSUME IInv, ChromiumBegins PROVE IInv'
  OBVIOUS
<1>. USE Needs, InstanceStays
<1>1. /\ WalkTypeOK /\ UNCHANGED instance /\ walk = "chromium" /\ pc = "begin"
      /\ bundled = {} /\ lib = {} /\ pending = {}
  BY DEF IInv, ChromiumBegins
<1>2. CASE ~(seeds \subseteq image)
  <2>1. UNCHANGED <<lib, pending>> /\ pc' = "refused"
    BY <1>2 DEF ChromiumBegins, Refuse
  <2>2. \A S \in SUBSET Libraries : ~IsPossible(S)
    BY <1>1, <1>2 DEF IsPossible, Starts
  <2>. QED BY <1>1, <2>1, <2>2 DEF IInv, WalkTypeOK, instance, Walking, RefusedForCause
<1>3. CASE seeds \subseteq image
  <2>1. pc' = "copy" /\ lib' = seeds /\ pending' = seeds \cup {Browser}
    BY <1>1, <1>3 DEF ChromiumBegins
  <2>2. WalkTypeOK'
    BY <1>1, <2>1 DEF WalkTypeOK, instance
  <2>3. ChromiumInv' /\ HeliumInv'
    BY <1>1, <2>1 DEF ChromiumInv, HeliumInv, instance
  <2>4. Minimal'
    BY <1>1, <2>1 DEF Minimal, IsClosed, Starts
  <2>. QED BY <1>1, <2>1, <2>2, <2>3, <2>4
           DEF IInv, WalkInv, instance, RefusedForCause
<1>. QED BY <1>2, <1>3

(* What Chromium looks at next needs what every closed set has, and what   *)
(* an image that could make the bundle has.                                *)
LEMMA ChromiumNext ==
  ASSUME IInv, pc = "copy", walk = "chromium", NEW x \in pending
  PROVE  /\ needs[x] \subseteq Libraries
         /\ \A S \in SUBSET Libraries : IsClosed(S) => needs[x] \subseteq S
         /\ \A S \in SUBSET Libraries : IsPossible(S) => needs[x] \subseteq image \ Glibc
<1>1. WalkTypeOK /\ WalkInv /\ bundled = {} /\ x \in Binaries
  BY DEF IInv, Walking, WalkTypeOK
<1>2. needs[x] \subseteq Libraries
  BY <1>1, Needs
<1>3. CASE x = Browser
  <2>1. needs[x] \subseteq Starts
    BY <1>3 DEF Starts
  <2>. QED BY <1>2, <2>1 DEF IsClosed, IsPossible
<1>4. CASE x # Browser
  <2>1. \A S \in SUBSET Libraries : IsClosed(S) => x \in S \ bundled
    BY <1>1, <1>4 DEF WalkInv, Minimal
  <2>. QED BY <1>2, <2>1 DEF IsClosed, IsPossible
<1>. QED BY <1>3, <1>4

LEMMA ChromiumCopiesIInv ==
  ASSUME IInv, NEW x \in Binaries, ChromiumCopies(x)
  PROVE  IInv'
<1>. USE Needs, InstanceStays
<1>1. /\ WalkTypeOK /\ WalkInv /\ UNCHANGED instance /\ bundled = {}
      /\ walk = "chromium" /\ pc = "copy" /\ x \in pending
  BY DEF IInv, Walking, ChromiumCopies
<1>2. /\ needs[x] \subseteq Libraries
      /\ \A S \in SUBSET Libraries : IsClosed(S) => needs[x] \subseteq S
      /\ \A S \in SUBSET Libraries : IsPossible(S) => needs[x] \subseteq image \ Glibc
  BY <1>1, ChromiumNext
<1>3. CASE (needs[x] \cap Glibc # {} \/ ~(needs[x] \subseteq lib \cup image)) /\ Refuse
  <2>1. \A S \in SUBSET Libraries : ~IsPossible(S)
    BY <1>2, <1>3
  <2>. QED BY <1>1, <1>3, <2>1
           DEF IInv, Refuse, WalkTypeOK, instance, Walking, RefusedForCause
<1>4. CASE /\ needs[x] \cap Glibc = {} /\ needs[x] \subseteq lib \cup image
           /\ lib' = lib \cup needs[x] /\ pending' = (pending \ {x}) \cup (needs[x] \ lib)
           /\ UNCHANGED pc
  <2>1. WalkTypeOK'
    BY <1>1, <1>2, <1>4 DEF WalkTypeOK, instance
  <2>2. ChromiumInv'
    <3>1. \A y \in (lib' \cup {Browser}) \ pending' : needs[y] \subseteq lib'
      BY <1>1, <1>4 DEF WalkInv, ChromiumInv
    <3>2. seeds \subseteq lib' /\ pending' \subseteq lib' \cup {Browser}
      BY <1>1, <1>4 DEF WalkInv, ChromiumInv
    <3>. QED BY <1>1, <3>1, <3>2 DEF ChromiumInv, instance
  <2>3. Minimal'
    BY <1>1, <1>2, <1>4 DEF WalkInv, Minimal
  <2>. QED BY <1>1, <1>4, <2>1, <2>2, <2>3
           DEF IInv, WalkInv, HeliumInv, instance, Walking, RefusedForCause
<1>. QED BY <1>3, <1>4 DEF ChromiumCopies

LEMMA EndWalkIInv == IInv /\ EndWalk => IInv'
<1>. SUFFICES ASSUME IInv, EndWalk PROVE IInv'
  OBVIOUS
<1>1. /\ UNCHANGED <<instance, lib, pending>> /\ WalkTypeOK /\ WalkInv
      /\ pending = {} /\ pc' = "copied"
  BY DEF IInv, Walking, EndWalk
<1>2. WalkInv'
  BY <1>1, InstanceStays DEF WalkInv, HeliumInv, ChromiumInv, Minimal, instance
<1>. QED BY <1>1, <1>2 DEF IInv, WalkTypeOK, instance, Walking, RefusedForCause

(* What has been copied lacks nothing, for it has a provider in lib/.      *)
LEMMA CopiedFinds ==
  ASSUME WalkInv, WalkTypeOK, pending = {}
  PROVE  /\ walk = "helium" => \A l \in lib \ bundled : ~Lacks(l) /\ ~NeedsGlibc(l)
         /\ walk = "chromium" => AuditClosure
<1>1. ASSUME walk = "helium", NEW l \in lib \ bundled
      PROVE  ~Lacks(l) /\ ~NeedsGlibc(l)
  <2>1. needs[l] \subseteq lib
    BY <1>1 DEF WalkInv, HeliumInv
  <2>2. \A n \in lib : n \in Providers(n)
    BY ClosureAssumption DEF WalkTypeOK, Providers, Elfs, Called
  <2>. QED BY <2>1, <2>2 DEF Lacks, NeedsGlibc, WalkInv
<1>2. walk = "chromium" => AuditClosure
  BY DEF WalkInv, ChromiumInv, AuditClosure
<1>. QED BY <1>1, <1>2

LEMMA AuditIInv == IInv /\ Audit => IInv'
<1>. SUFFICES ASSUME IInv, Audit PROVE IInv'
  OBVIOUS
<1>1. /\ UNCHANGED <<instance, lib, pending>> /\ WalkTypeOK /\ WalkInv
      /\ pending = {} /\ pc' \in {"staged", "rejected"}
  BY DEF IInv, Walking, Audit
<1>2. WalkInv'
  BY <1>1, InstanceStays DEF WalkInv, HeliumInv, ChromiumInv, Minimal, instance
<1>3. RefusedForCause'
  <2>1. CASE pc' = "staged"
    BY <1>1, <2>1, AuditStays
  <2>2. CASE pc' = "rejected"
    <3>1. walk = "helium" /\ ~AuditTree
      BY <1>1, <2>2, CopiedFinds DEF Audit, WalkTypeOK
    <3>2. PICK x \in Elfs : Fails(x)
      BY <3>1 DEF AuditTree
    <3>3. Lacks(x) \/ NeedsGlibc(x) => x \in bundled \cup Own
      BY <1>1, <3>1, CopiedFinds DEF Elfs
    <3>4. \/ \E y \in bundled \cup Own : Lacks(y) \/ NeedsGlibc(y)
          \/ \E y \in Elfs : \/ y \in unfit \/ SharesSoname(y)
                             \/ OutsideRuntime(y) \/ TwoProviders(y)
      BY <3>2, <3>3 DEF Fails
    <3>. QED BY <1>1, <2>2, <3>1, <3>4, AuditStays
  <2>. QED BY <1>1, <2>1, <2>2
<1>. QED BY <1>1, <1>2, <1>3 DEF IInv, WalkTypeOK, instance, Walking

LEMMA NextIInv == IInv /\ [WalkNext]_walkVars => IInv'
<1>. SUFFICES ASSUME IInv, [WalkNext]_walkVars PROVE IInv'
  OBVIOUS
<1>1. CASE HeliumBegins
  BY <1>1, HeliumBeginsIInv
<1>2. CASE ChromiumBegins
  BY <1>2, ChromiumBeginsIInv
<1>3. CASE Copy
  BY <1>3, HeliumCopiesIInv, ChromiumCopiesIInv DEF Copy
<1>4. CASE EndWalk
  BY <1>4, EndWalkIInv
<1>5. CASE Audit
  BY <1>5, AuditIInv
<1>6. CASE Over \/ UNCHANGED walkVars
  <2>1. UNCHANGED <<instance, lib, pending, pc>>
    BY <1>6 DEF Over, walkVars
  <2>2. WalkInv => WalkInv'
    BY <2>1, InstanceStays DEF WalkInv, HeliumInv, ChromiumInv, Minimal, instance
  <2>3. RefusedForCause'
    BY <2>1, AuditStays DEF IInv, RefusedForCause
  <2>. QED BY <2>1, <2>2, <2>3 DEF IInv, WalkTypeOK, instance, Walking
<1>. QED BY <1>1, <1>2, <1>3, <1>4, <1>5, <1>6 DEF WalkNext

LEMMA Invariance == WalkSpec => []IInv
<1>. QED BY InitIInv, NextIInv, PTL DEF WalkSpec
-----------------------------------------------------------------------------
(* lib/ holds libraries, and the list libraries and the browser.           *)
THEOREM TypeCorrect == WalkSpec => []WalkTypeOK
<1>1. IInv => WalkTypeOK
  BY DEF IInv
<1>. QED BY <1>1, Invariance, PTL

(* A walk that ends has copied the least closed set and nothing of glibc:  *)
(* copy_system_closure and bundle_libraries neither miss a library, however*)
(* deep or cyclic the needs, nor copy one too many.                        *)
THEOREM WalksCopyLeastClosure == WalkSpec => []LibIsLeastClosure
<1>1. IInv => LibIsLeastClosure
  <2>. SUFFICES ASSUME IInv, pc \in {"copied", "staged"}
                PROVE  /\ IsClosed(lib) /\ lib \cap Glibc = {}
                       /\ \A S \in SUBSET Libraries : IsClosed(S) => lib \subseteq S
    BY DEF LibIsLeastClosure
  <2>1. WalkTypeOK /\ WalkInv /\ pending = {} /\ (walk = "chromium" => bundled = {})
    BY DEF IInv, Walking
  <2>2. IsClosed(lib)
    BY <2>1 DEF IsClosed, WalkInv, HeliumInv, ChromiumInv, Starts, WalkTypeOK
  <2>3. \A S \in SUBSET Libraries : IsClosed(S) => lib \subseteq S
    BY <2>1, Needs DEF WalkInv, Minimal, WalkTypeOK
  <2>. QED BY <2>1, <2>2, <2>3 DEF WalkInv
<1>. QED BY <1>1, Invariance, PTL

(* A walk refuses only where no bundle could have been made, in whatever   *)
(* order it goes.  audit_closure rejects nothing after it.  audit_tree     *)
(* finds a library missing, or of glibc, only where a file that the build  *)
(* has brought needs it; what was copied it rejects, if at all, for the GNU*)
(* C++ runtime, a SONAME twice, two providers or a fault of the file alone.*)
THEOREM RefusalsHaveCause == WalkSpec => []RefusedForCause
<1>1. IInv => RefusedForCause
  BY DEF IInv
<1>. QED BY <1>1, Invariance, PTL

(* Each step of a walk copies more, or leaves less to look at.             *)
THEOREM WalksComeToAnEnd == WalkSpec => ComesToAnEnd
<1>1. IInv /\ [WalkNext]_walkVars =>
        [pc = "copy" /\ pc' = "copy" =>
           \/ lib \subseteq lib' /\ lib # lib'
           \/ lib' = lib /\ pending' \subseteq pending /\ pending' # pending]_walkVars
  <2>. SUFFICES ASSUME IInv, WalkNext, pc = "copy", pc' = "copy"
                PROVE  \/ lib \subseteq lib' /\ lib # lib'
                       \/ lib' = lib /\ pending' \subseteq pending /\ pending' # pending
    BY DEF walkVars
  <2>1. PICK x \in Binaries : HeliumCopies(x) \/ ChromiumCopies(x)
    BY DEF WalkNext, HeliumBegins, ChromiumBegins, EndWalk, Audit, Over, Copy
  <2>2. CASE HeliumCopies(x)
    BY <2>2 DEF HeliumCopies, Refuse
  <2>3. CASE ChromiumCopies(x)
    BY <2>3 DEF ChromiumCopies, Refuse
  <2>. QED BY <2>1, <2>2, <2>3
<1>. QED BY <1>1, Invariance, PTL DEF WalkSpec, ComesToAnEnd

-----------------------------------------------------------------------------
(* LinuxRelease *)

Packager == [pc : {"copy", "checksum", "remove", "place"}, run : 1..MaxRuns,
             version : Versions, manifest : Tree, files : Tree]

Acceptance == [run : 0..MaxRuns, version : Versions, of : Report]

Qualifier == [pc : {"digest", "extract", "accept"}, name : Versions,
              report : Report, sum : 1..MaxRuns \cup {None}, run : 0..MaxRuns]

Installer == [pc : {"checksum", "acceptance", "verify", "install"}, name : Versions,
              archive : Bundle, sum : 1..MaxRuns \cup {None},
              acc : Acceptance \cup {None}]

ReleaseTypes ==
  /\ TypeOK
  /\ acceptance \in [Versions -> Acceptance \cup {None}]
  /\ packager \in Packager \cup {None}
  /\ qualifier \in Qualifier \cup {None}
  /\ installer \in Installer \cup {None}
  /\ tester # None => report \in Report
  /\ packager # None /\ packager.pc = "checksum" =>
       archive[packager.version].run \in 1..MaxRuns

(* A tree is of one build, and what is always staged is in it.             *)
IsOneBuild(t) == Required \subseteq DOMAIN t /\ \A f, g \in DOMAIN t : t[f] = t[g]

(* What a packager has copied is what its manifest says, and when it has   *)
(* begun to publish it has copied everything.                              *)
StagesInv ==
  /\ stager # None => IsOneBuild(stager)
  /\ stage # None => IsOneBuild(stage)
  /\ packager # None =>
       /\ IsOneBuild(packager.manifest)
       /\ \A f \in DOMAIN packager.files :
            f \in DOMAIN packager.manifest /\ packager.files[f] = packager.manifest[f]
       /\ packager.pc # "copy" => Copied
  /\ PackagedIsOneStage

(* A test that passed had a browser of its version.                        *)
Passed(r) == r.status = "complete" => Version[r.tested] = r.version

(* What is read of an acceptance, of a report or of an archive stays true  *)
(* of what was read, whatever has taken its place since.                   *)
AcceptedInv ==
  /\ \A v \in Versions : archive[v] # None => archive[v].version = v
  /\ report # None => Passed(report)
  /\ qualifier # None =>
       /\ qualifier.report.status = "complete" /\ Passed(qualifier.report)
       /\ qualifier.pc = "extract" => archive[qualifier.name].version = qualifier.name
       /\ qualifier.pc = "accept" =>
            qualifier.report.version = qualifier.name /\ qualifier.report.closed = "yes"
  /\ AcceptanceIsOfPassingTest
  /\ installer # None /\ installer.pc \in {"verify", "install"} =>
       installer.acc \in Acceptance /\ installer.acc.of.status = "complete"
  /\ InstalledIsAccepted

(* A tree is a function from some of the files to builds.                  *)
LEMMA TreesAreFunctions ==
  /\ \A t \in Tree : /\ DOMAIN t \subseteq Files \cup Required
                             /\ \A f \in DOMAIN t : t[f] \in Builds
  /\ \A F \in SUBSET (Files \cup Required) : \A t \in [F -> Builds] : t \in Tree
BY DEF Tree
(* Every step keeps the types.                                             *)
LEMMA ReleaseTypeStep ==
  ASSUME ReleaseTypes, [Next]_vars
  PROVE  ReleaseTypes'
<1> USE ReleaseAssumption DEF ReleaseAssumption, ReleaseTypes, TypeOK, Packager, Qualifier,
        Installer, Acceptance, Report, Bundle, built,
        artifacts, commands, counters, Packaging,
        Qualifying, Installing, Unpackaged, Untested,
        Unqualified, Uninstalled
<1>1. CASE NewImage
  BY <1>1 DEF NewImage
<1>2. CASE Build
  BY <1>2 DEF Build
<1>3. CASE EnsureRuntimeDeps
  BY <1>3 DEF EnsureRuntimeDeps
<1>4. CASE CollectFiles
  <2> DEFINE F == Required \cup IF product = "helium" THEN deps ELSE {}
  <2>1. out \in Builds /\ F \subseteq Files \cup Required
    BY <1>4 DEF CollectFiles
  <2>2. stager' = [f \in F |-> out]
    BY <1>4 DEF CollectFiles
  <2>3. stager' \in [F -> Builds]
    BY <2>1, <2>2
  <2>4. stager' \in Tree
    BY <2>1, <2>3, TreesAreFunctions
  <2>5. QED
    BY <1>4, <2>4 DEF CollectFiles
<1>5. CASE StageFails
  BY <1>5 DEF StageFails
<1>6. CASE RemoveStage
  BY <1>6 DEF RemoveStage
<1>7. CASE PlaceStage
  BY <1>7 DEF PlaceStage
<1>8. CASE BeginPackage
  <2>1. Nothing \in [{} -> Builds]
    BY DEF Nothing
  <2>2. Nothing \in Tree
    BY <2>1, TreesAreFunctions
  <2>3. stage \in Tree /\ runs + 1 \in 1..MaxRuns
    BY <1>8 DEF BeginPackage
  <2>4. packager' \in Packager /\ packager'.pc = "copy"
    BY <1>8, <2>2, <2>3 DEF BeginPackage
  <2>5. QED
    BY <1>8, <2>4 DEF BeginPackage
<1>9. ASSUME NEW f \in Files \cup Required, CopyStaged(f) PROVE ReleaseTypes'
  <2> DEFINE copied == [g \in DOMAIN packager.files \cup {f} |->
                        IF g = f THEN stage[f] ELSE packager.files[g]]
  <2>1. packager \in Packager /\ stage \in Tree /\ packager.pc = "copy"
    BY <1>9 DEF CopyStaged
  <2>2. packager.files \in Tree /\ f \in DOMAIN stage
    BY <1>9, <2>1 DEF CopyStaged
  <2>3. copied \in [DOMAIN packager.files \cup {f} -> Builds]
    BY <2>1, <2>2, TreesAreFunctions
  <2>4. copied \in Tree
    BY <2>2, <2>3, TreesAreFunctions
  <2>5. packager' = [packager EXCEPT !.files = copied]
    BY <1>9 DEF CopyStaged
  <2>6. packager' \in Packager /\ packager'.pc = "copy"
    BY <2>1, <2>4, <2>5
  <2>7. QED
    BY <1>9, <2>6 DEF CopyStaged
<1>10. CASE PackageFails
  BY <1>10 DEF PackageFails
<1>11. CASE ReplaceArchive
  <2>1. packager \in Packager
    BY <1>11 DEF ReplaceArchive
  <2>2. Made \in Bundle /\ Made.run \in 1..MaxRuns
    BY <2>1 DEF Made
  <2>3. archive' = [archive EXCEPT ![packager.version] = Made]
    BY <1>11 DEF ReplaceArchive
  <2>4. packager' \in Packager /\ packager'.version = packager.version
    BY <1>11, <2>1 DEF ReplaceArchive
  <2>5. /\ archive' \in [Versions -> Bundle \cup {None}]
        /\ archive'[packager'.version].run \in 1..MaxRuns
    BY <2>1, <2>2, <2>3, <2>4
  <2>6. QED
    BY <1>11, <2>4, <2>5 DEF ReplaceArchive
<1>12. CASE ReplaceChecksum
  BY <1>12 DEF ReplaceChecksum
<1>13. CASE RemovePackage
  BY <1>13 DEF RemovePackage
<1>14. CASE PlacePackage
  <2>1. packager \in Packager
    BY <1>14 DEF PlacePackage
  <2>2. Made \in Bundle
    BY <2>1 DEF Made
  <2>3. QED
    BY <1>14, <2>2 DEF PlacePackage
<1>15. CASE BeginTest
  BY <1>15 DEF BeginTest
<1>16. CASE EndTest
  <2>1. report \in Report
    BY <1>16 DEF EndTest
  <2>2. report' \in Report
    BY <1>16, <2>1 DEF EndTest
  <2>3. QED
    BY <1>16, <2>2 DEF EndTest
<1>17. ASSUME NEW v \in Versions, ReadReport(v) PROVE ReleaseTypes'
  BY <1>17 DEF ReadReport
<1>18. CASE DigestArchive
  <2>1. qualifier \in Qualifier /\ qualifier.name \in Versions
    BY <1>18 DEF DigestArchive
  <2>2. archive[qualifier.name] \in Bundle \cup {None}
    BY <2>1
  <2>3. archive[qualifier.name] # None => archive[qualifier.name].run \in 0..MaxRuns
    BY <2>2
  <2>4. qualifier' \in Qualifier \cup {None}
    BY <1>18, <2>1, <2>3 DEF DigestArchive
  <2>5. QED
    BY <1>18, <2>4 DEF DigestArchive
<1>19. CASE ReadManifest
  BY <1>19 DEF ReadManifest
<1>20. CASE WriteAcceptance
  BY <1>20 DEF WriteAcceptance
<1>21. CASE CopyArchive
  BY <1>21 DEF CopyArchive
<1>22. CASE CopyChecksum
  <2>1. installer \in Installer /\ installer.name \in Versions
    BY <1>22 DEF CopyChecksum
  <2>2. checksum[installer.name] \in 1..MaxRuns \cup {None}
    BY <2>1
  <2>3. installer' \in Installer \cup {None}
    BY <1>22, <2>1, <2>2 DEF CopyChecksum
  <2>4. QED
    BY <1>22, <2>3 DEF CopyChecksum
<1>23. CASE CopyAcceptance
  <2>1. installer \in Installer /\ installer.name \in Versions
    BY <1>23 DEF CopyAcceptance
  <2>2. acceptance[installer.name] \in Acceptance \cup {None}
    BY <2>1
  <2>3. installer' \in Installer \cup {None}
    BY <1>23, <2>1, <2>2 DEF CopyAcceptance
  <2>4. QED
    BY <1>23, <2>3 DEF CopyAcceptance
<1>24. CASE Verify
  BY <1>24 DEF Verify
<1>25. CASE Install
  BY <1>25 DEF Install
<1>26. CASE PackageKilled
  BY <1>26 DEF PackageKilled
<1>27. CASE Killed
  BY <1>27 DEF Killed
<1>28. CASE UNCHANGED vars
  BY <1>28 DEF vars, artifacts, commands, counters
<1> HIDE DEF ReleaseTypes
<1>29. QED
  BY ONLY <1>1, <1>2, <1>3, <1>4, <1>5, <1>6, <1>7, <1>8, <1>9, <1>10, <1>11, <1>12,
     <1>13, <1>14, <1>15, <1>16, <1>17, <1>18, <1>19, <1>20, <1>21, <1>22, <1>23, <1>24,
     <1>25, <1>26, <1>27, <1>28, [Next]_vars DEF Next,
     StageRuntime, PackageRuntime, TestFast,
     QualifyPackage, InstallRuntime

(* Every step keeps stages, manifests and bundles of one build.            *)
LEMMA StagesStep ==
  ASSUME ReleaseTypes, StagesInv, [Next]_vars
  PROVE  StagesInv'
<1> USE DEF StagesInv, IsOneBuild, PackagedIsOneStage, Bundles,
        Copied, built, artifacts, commands,
        counters, Packaging, Qualifying, Installing,
        Unpackaged, Untested, Unqualified, Uninstalled
<1>1. CASE NewImage
  BY <1>1 DEF NewImage
<1>2. CASE Build
  BY <1>2 DEF Build
<1>3. CASE EnsureRuntimeDeps
  BY <1>3 DEF EnsureRuntimeDeps
<1>4. CASE CollectFiles
  BY <1>4 DEF CollectFiles
<1>5. CASE StageFails
  BY <1>5 DEF StageFails
<1>6. CASE RemoveStage
  BY <1>6 DEF RemoveStage
<1>7. CASE PlaceStage
  BY <1>7 DEF PlaceStage
<1>8. CASE BeginPackage
  <2>1. /\ packager'.manifest = stage /\ packager'.files = Nothing
        /\ packager'.pc = "copy" /\ stage # None
    BY <1>8 DEF BeginPackage
  <2>2. DOMAIN packager'.files = {}
    BY <2>1 DEF Nothing
  <2>3. QED
    BY <1>8, <2>1, <2>2 DEF BeginPackage
<1>9. ASSUME NEW f \in Files \cup Required, CopyStaged(f) PROVE StagesInv'
  BY <1>9 DEF CopyStaged
<1>10. CASE PackageFails
  BY <1>10 DEF PackageFails
<1>11. CASE ReplaceArchive
  <2>1. /\ packager \in Packager /\ packager' = [packager EXCEPT !.pc = "checksum"]
        /\ Copied /\ packager # None
    BY <1>11 DEF ReplaceArchive, ReleaseTypes
  <2>2. IsOneBuild(Made.files)
    BY <2>1 DEF Made
  <2>3. /\ packager'.manifest = packager.manifest /\ packager'.files = packager.files
        /\ packager.pc = "copy"
    BY <1>11, <2>1 DEF Packager, ReplaceArchive
  <2>4. \A v \in Versions : archive'[v] \in {archive[v], Made}
    BY <1>11 DEF ReplaceArchive, ReleaseTypes, TypeOK
  <2>5. PackagedIsOneStage'
    BY <1>11, <2>2, <2>4 DEF ReplaceArchive
  <2>6. QED
    BY <1>11, <2>1, <2>3, <2>5 DEF ReplaceArchive
<1>12. CASE ReplaceChecksum
  BY <1>12 DEF ReplaceChecksum
<1>13. CASE RemovePackage
  BY <1>13 DEF RemovePackage
<1>14. CASE PlacePackage
  <2>1. packager # None /\ packager.pc = "place"
    BY <1>14 DEF PlacePackage
  <2>2. IsOneBuild(Made.files)
    BY <2>1 DEF Made
  <2>3. QED
    BY <1>14, <2>2 DEF PlacePackage
<1>15. CASE BeginTest
  BY <1>15 DEF BeginTest
<1>16. CASE EndTest
  BY <1>16 DEF EndTest
<1>17. ASSUME NEW v \in Versions, ReadReport(v) PROVE StagesInv'
  BY <1>17 DEF ReadReport
<1>18. CASE DigestArchive
  BY <1>18 DEF DigestArchive
<1>19. CASE ReadManifest
  BY <1>19 DEF ReadManifest
<1>20. CASE WriteAcceptance
  BY <1>20 DEF WriteAcceptance
<1>21. CASE CopyArchive
  <2>1. installer'.archive = archive[lock] /\ lock \in Versions
    BY <1>21 DEF CopyArchive, ReleaseTypes, TypeOK
  <2>2. QED
    BY <1>21, <2>1 DEF CopyArchive
<1>22. CASE CopyChecksum
  BY <1>22 DEF CopyChecksum
<1>23. CASE CopyAcceptance
  BY <1>23 DEF CopyAcceptance
<1>24. CASE Verify
  BY <1>24 DEF Verify
<1>25. CASE Install
  BY <1>25 DEF Install
<1>26. CASE PackageKilled
  BY <1>26 DEF PackageKilled
<1>27. CASE Killed
  BY <1>27 DEF Killed
<1>28. CASE UNCHANGED vars
  BY <1>28 DEF vars, artifacts, commands, counters
<1> HIDE DEF StagesInv
<1>29. QED
  BY ONLY <1>1, <1>2, <1>3, <1>4, <1>5, <1>6, <1>7, <1>8, <1>9, <1>10, <1>11, <1>12,
     <1>13, <1>14, <1>15, <1>16, <1>17, <1>18, <1>19, <1>20, <1>21, <1>22, <1>23, <1>24,
     <1>25, <1>26, <1>27, <1>28, [Next]_vars DEF Next,
     StageRuntime, PackageRuntime, TestFast,
     QualifyPackage, InstallRuntime

(* Every step keeps true what commands have read of artifacts and reports. *)
LEMMA AcceptedStep ==
  ASSUME ReleaseTypes, AcceptedInv, [Next]_vars
  PROVE  AcceptedInv'
<1> USE DEF AcceptedInv, Passed, AcceptanceIsOfPassingTest,
        InstalledIsAccepted, built, artifacts, commands,
        counters, Packaging, Qualifying, Installing,
        Unpackaged, Untested, Unqualified, Uninstalled
<1>1. CASE NewImage
  BY <1>1 DEF NewImage
<1>2. CASE Build
  BY <1>2 DEF Build
<1>3. CASE EnsureRuntimeDeps
  BY <1>3 DEF EnsureRuntimeDeps
<1>4. CASE CollectFiles
  BY <1>4 DEF CollectFiles
<1>5. CASE StageFails
  BY <1>5 DEF StageFails
<1>6. CASE RemoveStage
  BY <1>6 DEF RemoveStage
<1>7. CASE PlaceStage
  BY <1>7 DEF PlaceStage
<1>8. CASE BeginPackage
  BY <1>8 DEF BeginPackage
<1>9. ASSUME NEW f \in Files \cup Required, CopyStaged(f) PROVE AcceptedInv'
  BY <1>9 DEF CopyStaged
<1>10. CASE PackageFails
  BY <1>10 DEF PackageFails
<1>11. CASE ReplaceArchive
  <2>1. packager \in Packager /\ packager.version \in Versions
    BY <1>11 DEF ReplaceArchive, ReleaseTypes, Packager
  <2>2. archive' = [archive EXCEPT ![packager.version] = Made]
    BY <1>11 DEF ReplaceArchive
  <2>3. Made.version = packager.version
    BY DEF Made
  <2>4. \A v \in Versions : archive'[v] = archive[v] \/ archive'[v].version = v
    BY <2>2, <2>3 DEF ReleaseTypes, TypeOK
  <2>5. qualifier # None => qualifier.name \in Versions
    BY DEF ReleaseTypes, Qualifier
  <2>6. QED
    BY <1>11, <2>4, <2>5 DEF ReplaceArchive
<1>12. CASE ReplaceChecksum
  BY <1>12 DEF ReplaceChecksum
<1>13. CASE RemovePackage
  BY <1>13 DEF RemovePackage
<1>14. CASE PlacePackage
  BY <1>14 DEF PlacePackage
<1>15. CASE BeginTest
  BY <1>15 DEF BeginTest
<1>16. CASE EndTest
  <2>1. report \in Report /\ tester # None
    BY <1>16 DEF EndTest, ReleaseTypes
  <2>2. Passed(report')
    BY <1>16, <2>1 DEF EndTest, Report
  <2>3. QED
    BY <1>16, <2>2 DEF EndTest
<1>17. ASSUME NEW v \in Versions, ReadReport(v) PROVE AcceptedInv'
  BY <1>17 DEF ReadReport
<1>18. CASE DigestArchive
  <2>1. qualifier \in Qualifier /\ qualifier.name \in Versions /\ qualifier # None
    BY <1>18 DEF DigestArchive, ReleaseTypes, Qualifier
  <2>2. qualifier' # None =>
          /\ qualifier'.name = qualifier.name /\ qualifier'.report = qualifier.report
          /\ qualifier'.pc = "extract" /\ archive[qualifier.name] # None
    BY <1>18, <2>1 DEF DigestArchive, Qualifier
  <2>3. QED
    BY <1>18, <2>1, <2>2 DEF DigestArchive
<1>19. CASE ReadManifest
  <2>1. qualifier \in Qualifier /\ qualifier.pc = "extract" /\ qualifier # None
    BY <1>19 DEF ReadManifest, ReleaseTypes
  <2>2. qualifier' # None =>
          /\ qualifier'.name = qualifier.name /\ qualifier'.report = qualifier.report
          /\ qualifier'.pc = "accept" /\ qualifier.report.closed = "yes"
          /\ archive[qualifier.name].version = qualifier.report.version
    BY <1>19, <2>1 DEF ReadManifest, ReportChecks, Qualifier
  <2>3. QED
    BY <1>19, <2>1, <2>2 DEF ReadManifest
<1>20. CASE WriteAcceptance
  BY <1>20 DEF WriteAcceptance
<1>21. CASE CopyArchive
  BY <1>21 DEF CopyArchive
<1>22. CASE CopyChecksum
  BY <1>22 DEF CopyChecksum
<1>23. CASE CopyAcceptance
  <2>1. installer \in Installer /\ installer.name \in Versions /\ installer # None
    BY <1>23 DEF CopyAcceptance, ReleaseTypes, Installer
  <2>2. installer' # None =>
          /\ installer'.acc = acceptance[installer.name] /\ installer'.pc = "verify"
          /\ acceptance[installer.name] # None
    BY <1>23, <2>1 DEF CopyAcceptance, Installer
  <2>3. acceptance[installer.name] \in Acceptance \cup {None}
    BY <2>1 DEF ReleaseTypes
  <2>4. QED
    BY <1>23, <2>1, <2>2, <2>3 DEF CopyAcceptance
<1>24. CASE Verify
  <2>1. installer \in Installer /\ installer.pc = "verify" /\ installer # None
    BY <1>24 DEF Verify, ReleaseTypes
  <2>2. installer' # None =>
          /\ installer'.acc = installer.acc /\ installer'.archive = installer.archive
          /\ installer'.pc = "install"
          /\ installer.acc.run = installer.archive.run
          /\ installer.acc.version = installer.archive.version
    BY <1>24, <2>1 DEF Verify, VerifiedArchive, Installer
  <2>3. QED
    BY <1>24, <2>1, <2>2 DEF Verify
<1>25. CASE Install
  BY <1>25 DEF Install
<1>26. CASE PackageKilled
  BY <1>26 DEF PackageKilled
<1>27. CASE Killed
  BY <1>27 DEF Killed
<1>28. CASE UNCHANGED vars
  BY <1>28 DEF vars, artifacts, commands, counters
<1> HIDE DEF AcceptedInv
<1>29. QED
  BY ONLY <1>1, <1>2, <1>3, <1>4, <1>5, <1>6, <1>7, <1>8, <1>9, <1>10, <1>11, <1>12,
     <1>13, <1>14, <1>15, <1>16, <1>17, <1>18, <1>19, <1>20, <1>21, <1>22, <1>23, <1>24,
     <1>25, <1>26, <1>27, <1>28, [Next]_vars DEF Next,
     StageRuntime, PackageRuntime, TestFast,
     QualifyPackage, InstallRuntime

ReleaseInv == ReleaseTypes /\ StagesInv /\ AcceptedInv

(* Every step keeps the invariant, which holds of an empty volume.         *)
LEMMA ReleaseInvStep ==
  ASSUME ReleaseInv, [Next]_vars
  PROVE  ReleaseInv'
BY ReleaseTypeStep, StagesStep, AcceptedStep DEF ReleaseInv

LEMMA ReleaseInvBegins == ASSUME Init PROVE ReleaseInv
<1>1. ReleaseTypes
  BY ReleaseAssumption DEF ReleaseAssumption, Init, ReleaseTypes, TypeOK
<1>2. StagesInv
  BY DEF Init, StagesInv, PackagedIsOneStage, Bundles
<1>3. AcceptedInv
  BY DEF Init, AcceptedInv, AcceptanceIsOfPassingTest,
     InstalledIsAccepted, Installing
<1>4. QED
  BY <1>1, <1>2, <1>3 DEF ReleaseInv

(* The stage, the package, the artifacts and what every command has read   *)
(* of them are always of their kinds.                                      *)
THEOREM ReleaseTypeCorrect == Spec => []TypeOK
<1>1. ReleaseInv => TypeOK
  BY DEF ReleaseInv, ReleaseTypes
<1>2. QED
  BY <1>1, ReleaseInvBegins, ReleaseInvStep, PTL DEF Spec

(* Every archive and every package directory is of one stage, whole, with  *)
(* a stager, a packager, a tester, a qualifier and an installer taking     *)
(* turns as they will, whatever is replaced while it is copied and         *)
(* wherever a packager is killed.                                          *)
THEOREM PackagesAreOneStage == Spec => []PackagedIsOneStage
<1>1. ReleaseInv => PackagedIsOneStage
  BY DEF ReleaseInv, StagesInv
<1>2. QED
  BY <1>1, ReleaseInvBegins, ReleaseInvStep, PTL DEF Spec

(* An acceptance is of the version in its name, and rests on a test that   *)
(* passed, of a browser of that version that was closed in the end: for    *)
(* every order of builds, tests, packages and qualifications.              *)
THEOREM AcceptancesAreOfPassingTests == Spec => []AcceptanceIsOfPassingTest
<1>1. ReleaseInv => AcceptanceIsOfPassingTest
  BY DEF ReleaseInv, AcceptedInv
<1>2. QED
  BY <1>1, ReleaseInvBegins, ReleaseInvStep, PTL DEF Spec

(* What is installed is the archive its acceptance names, of the version   *)
(* accepted, whatever replaced the three artifacts while they were copied. *)
THEOREM InstallsAreAccepted == Spec => []InstalledIsAccepted
<1>1. ReleaseInv => InstalledIsAccepted
  BY DEF ReleaseInv, AcceptedInv
<1>2. QED
  BY <1>1, ReleaseInvBegins, ReleaseInvStep, PTL DEF Spec
=============================================================================
