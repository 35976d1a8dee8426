--------------------------- MODULE LinuxSource_proofs ---------------------------
(***************************************************************************)
(* Proofs about the source of a Linux work volume, and what                *)
(* prepare-source-driver.py does to it.                                    *)
(*                                                                         *)
(* PatchUpdate, for every set of files and patches, whatever the patches   *)
(* share, with refused patches and updates that die anywhere.              *)
(*                                                                         *)
(* LinuxPrepare, for any locks, inputs, recipes and numbers of workers,    *)
(* with commands killed anywhere.  No file of inputs/ that a report rests  *)
(* on is replaced, and none of the tree; the reports of a preparation are  *)
(* written while there is no tree they could be wrong about.               *)
(***************************************************************************)
EXTENDS PatchUpdate, LinuxPrepare, SequenceTheorems, TLAPS

(* A running update works on patches that are not recorded, and what it    *)
(* keeps of a file has the recorded patches the file has.                  *)
OnlyNewPatches ==
  pc \in Busy =>
    /\ job.existing = recorded
    /\ Range(job.todo) \cap Range(recorded) = {}
    /\ \A f \in job.kept, p \in Range(recorded) : p \in job.backup[f] <=> p \in content[f]
-----------------------------------------------------------------------------

(* The head of what is left is a patch of it, and so is all of its tail.   *)
LEMMA HeadAndTail ==
  ASSUME NEW S, NEW s \in Seq(S), s # <<>>
  PROVE  /\ Head(s) \in S /\ Head(s) \in Range(s)
         /\ Tail(s) \in Seq(S) /\ Range(Tail(s)) \subseteq Range(s)
<1>1. /\ Head(s) \in S /\ Tail(s) \in Seq(S) /\ Head(s) = s[1]
      /\ Len(Tail(s)) = Len(s) - 1
      /\ \A i \in 1..Len(Tail(s)) : Tail(s)[i] = s[i + 1]
  BY HeadTailProperties
<1>2. Len(s) \in Nat /\ Len(s) # 0
  BY EmptySeq
<1>3. Head(s) \in Range(s)
  BY <1>1, <1>2 DEF Range
<1>4. ASSUME NEW e \in Range(Tail(s))
      PROVE  e \in Range(s)
  <2>1. PICK i \in 1..Len(Tail(s)) : e = Tail(s)[i]
    BY <1>1, <1>4 DEF Range
  <2>2. e = s[i + 1] /\ i + 1 \in 1..Len(s)
    BY <1>1, <1>2, <2>1
  <2>3. QED BY <2>2 DEF Range
<1>5. QED BY <1>1, <1>3, <1>4

(* What a configured list holds after its first n patches.                 *)
LEMMA RestOfList ==
  ASSUME NEW l \in Lists, NEW n \in Nat
  PROVE  /\ SubSeq(l, n + 1, Len(l)) \in Seq(Patches)
         /\ \A e \in Range(SubSeq(l, n + 1, Len(l))) : \E i \in (n + 1)..Len(l) : e = l[i]
<1>1. l \in Seq(Patches) /\ Len(l) \in Nat
  BY PatchAssumption DEF PatchAssumption
<1>2. \A i \in (n + 1)..Len(l) : l[i] \in Patches
  BY <1>1
<1> DEFINE r == SubSeq(l, n + 1, Len(l))
<1>3. /\ r \in Seq(Patches)
      /\ Len(r) = IF n + 1 <= Len(l) THEN Len(l) - (n + 1) + 1 ELSE 0
      /\ \A i \in 1 .. Len(l) - (n + 1) + 1 : r[i] = l[(n + 1) + i - 1]
  <2>1. n + 1 \in Int /\ Len(l) \in Int
    BY <1>1
  <2>2. QED BY ONLY <1>2, <2>1, SubSeqProperties
<1>4. ASSUME NEW e \in Range(r)
      PROVE  \E i \in (n + 1)..Len(l) : e = l[i]
  <2>1. PICK j \in 1..Len(r) : e = r[j]
    BY <1>3, <1>4 DEF Range
  <2>2. e = l[n + j] /\ n + j \in (n + 1)..Len(l)
    <3> HIDE DEF r
    <3> QED BY <1>1, <1>3, <2>1
  <2>3. QED BY <2>2
<1>5. QED BY <1>3, <1>4

(* A list repeats nothing: after a prefix of it come other patches.        *)
LEMMA RestIsNew ==
  ASSUME NEW l \in Lists, NEW s \in Seq(Patches), IsPrefix(s, l)
  PROVE  Range(SubSeq(l, Len(s) + 1, Len(l))) \cap Range(s) = {}
<1>1. l \in Seq(Patches) /\ IsInjective(l) /\ Len(l) \in Nat /\ Len(s) \in Nat
  BY PatchAssumption DEF PatchAssumption
<1>2. Len(s) <= Len(l) /\ SubSeq(s, 1, Len(s)) = SubSeq(l, 1, Len(s))
  BY DEF IsPrefix
<1>3. \A i \in 1..Len(s) : s[i] = l[i]
  <2>1. \A i \in 1..Len(s) : SubSeq(s, 1, Len(s))[i] = s[i] /\ SubSeq(l, 1, Len(s))[i] = l[i]
    BY <1>1, <1>2
  <2>2. QED BY <1>2, <2>1
<1>4. ASSUME NEW e \in Range(SubSeq(l, Len(s) + 1, Len(l))), e \in Range(s)
      PROVE  FALSE
  <2>1. PICK i \in (Len(s) + 1)..Len(l) : e = l[i]
    BY <1>1, <1>4, RestOfList
  <2>2. PICK j \in 1..Len(s) : e = s[j]
    BY <1>1, <1>4 DEF Range
  <2>3. e = l[j] /\ i # j /\ i \in 1..Len(l) /\ j \in 1..Len(l)
    BY <1>1, <1>2, <1>3, <2>1, <2>2
  <2>4. \A x, y \in 1..Len(l) : l[x] = l[y] => x = y
    <3>1. DOMAIN l = 1..Len(l)
      BY <1>1
    <3>2. QED BY <1>1, <3>1 DEF IsInjective
  <2>5. QED BY <2>1, <2>3, <2>4
<1>5. QED BY <1>4
-----------------------------------------------------------------------------

(* Type correctness of one step. *)
LEMMA TypeStep ==
  ASSUME TypeOK, [Next]_vars
  PROVE  TypeOK'
<1>1. CASE Begin
  <2>1. Len(recorded) \in Nat /\ <<>> \in Seq(Patches)
    BY EmptySeq DEF TypeOK
  <2>2. job' \in Jobs
    BY <1>1, <2>1, RestOfList DEF TypeOK, Begin, Jobs
  <2>3. QED BY <1>1, <2>2 DEF TypeOK, Begin, Busy
<1>2. CASE KeepFiles
  <2>1. Head(job.todo) \in Patches
    BY <1>2, HeadAndTail DEF TypeOK, KeepFiles, Jobs
  <2>2. Touched(Head(job.todo)) \subseteq Files
    BY <2>1, PatchAssumption DEF PatchAssumption, Touched
  <2>3. job' \in Jobs
    BY <1>2, <2>2 DEF TypeOK, KeepFiles, Jobs
  <2>4. job'.todo = job.todo
    BY <1>2 DEF TypeOK, KeepFiles, Jobs
  <2>5. QED BY <1>2, <2>3, <2>4 DEF TypeOK, KeepFiles, Busy
<1>3. CASE PatchFile
  <2>1. Head(job.todo) \in Patches /\ pc = "file" /\ job.todo # <<>>
    BY <1>3, HeadAndTail DEF TypeOK, PatchFile, Jobs
  <2>2. PICK f \in job.files :
          /\ content' = [content EXCEPT ![f] = Toggle(@, Head(job.todo))]
          /\ job' = [job EXCEPT !.files = @ \ {f}]
    BY <1>3 DEF PatchFile
  <2>3. Toggle(content[f], Head(job.todo)) \in SUBSET Patches
    BY <2>1, <2>2 DEF TypeOK, Toggle, Jobs
  <2>4. content' \in [Files -> SUBSET Patches]
    BY <2>2, <2>3 DEF TypeOK
  <2>5. job' \in Jobs /\ job'.todo = job.todo
    BY <2>2 DEF TypeOK, Jobs
  <2>6. QED BY <1>3, <2>1, <2>4, <2>5 DEF TypeOK, PatchFile
<1>4. CASE Patched
  <2>1. job.todo \in Seq(Patches) /\ job.todo # <<>> /\ job.applied \in Seq(Patches)
    BY <1>4 DEF TypeOK, Patched, Jobs
  <2>2. Head(job.todo) \in Patches /\ Tail(job.todo) \in Seq(Patches)
    BY <2>1, HeadAndTail
  <2>3. Append(job.applied, Head(job.todo)) \in Seq(Patches)
    BY ONLY <2>1, <2>2, AppendProperties
  <2>4. job' \in Jobs
    BY <1>4, <2>2, <2>3 DEF TypeOK, Patched, Jobs
  <2>5. QED BY <1>4, <2>4 DEF TypeOK, Patched, Busy
<1>5. CASE RestoreFile
  <2>1. PICK f \in job.kept :
          /\ content' = [content EXCEPT ![f] = job.backup[f]]
          /\ job' = [job EXCEPT !.kept = @ \ {f}]
    BY <1>5 DEF RestoreFile
  <2>2. content' \in [Files -> SUBSET Patches] /\ job' \in Jobs
    BY <2>1 DEF TypeOK, Jobs
  <2>3. QED BY <1>5, <2>2 DEF TypeOK, RestoreFile
<1>6. CASE RestoreRecord
  BY <1>6 DEF TypeOK, RestoreRecord, Resting, Jobs
<1>7. CASE Record
  <2>1. job.existing \in Seq(Patches) /\ job.applied \in Seq(Patches)
    BY DEF TypeOK, Jobs
  <2>2. job.existing \o job.applied \in Seq(Patches)
    BY ONLY <2>1, ConcatProperties
  <2>3. QED BY <1>7, <2>2 DEF TypeOK, Record, Resting
<1>8. CASE Refused \/ Crash
  BY <1>8 DEF TypeOK, Refused, Crash, Resting, Busy
<1>9. CASE Configure \/ UNCHANGED vars
  BY <1>9 DEF TypeOK, Configure, vars
<1>10. QED BY <1>1, <1>2, <1>3, <1>4, <1>5, <1>6, <1>7, <1>8, <1>9 DEF Next, Update

(* Type correctness under every fault. *)
THEOREM TypeCorrect == Spec => []TypeOK
<1>1. Init => TypeOK
  <2>1. <<>> \in Seq(Patches)
    BY EmptySeq
  <2>2. Init => recorded \in Seq(Patches)
    BY PatchAssumption DEF PatchAssumption, Init
  <2>3. Init => content \in [Files -> SUBSET Patches]
    <3>1. ASSUME NEW l \in Seq(Patches)
          PROVE  Of(l) \in [Files -> SUBSET Patches]
      BY DEF Of, Range
    <3>2. QED BY <2>2, <3>1 DEF Init
  <2>4. QED BY <2>1, <2>2, <2>3 DEF Init, TypeOK, Resting, Jobs
<1>2. QED BY <1>1, TypeStep, PTL DEF Spec

(* A step of an update changes files by its new patches only, and never    *)
(* what the backup knows of the recorded ones.                             *)
LEMMA NewPatchesStep ==
  ASSUME TypeOK, OnlyNewPatches, [Next]_vars
  PROVE  /\ OnlyNewPatches'
         /\ \A p \in Range(recorded), f \in Files : p \in content'[f] <=> p \in content[f]
<1> USE DEF OnlyNewPatches
<1>1. CASE Begin
  <2>1. Range(SubSeq(configured, Len(recorded) + 1, Len(configured))) \cap Range(recorded) = {}
    BY <1>1, RestIsNew DEF TypeOK, Begin, IsStrictPrefix
  <2>2. QED BY <1>1, <2>1 DEF Begin
<1>2. CASE KeepFiles
  <2> DEFINE keep == {f \in Touched(Head(job.todo)) : IsFile(f)}
  <2>1. /\ pc \in Busy
        /\ job'.kept = job.kept \cup keep /\ job'.todo = job.todo
        /\ job'.existing = job.existing
        /\ job'.backup = [f \in Files |-> IF f \in keep THEN content[f] ELSE job.backup[f]]
    BY <1>2 DEF TypeOK, KeepFiles, Jobs, Busy
  <2>2. \A f \in job'.kept : f \in Files
    <3>1. Head(job.todo) \in Patches
      BY <1>2, HeadAndTail DEF TypeOK, KeepFiles, Jobs
    <3>2. Touched(Head(job.todo)) \subseteq Files
      BY <3>1, PatchAssumption DEF PatchAssumption, Touched
    <3>3. QED BY <2>1, <3>2 DEF TypeOK, Jobs
  <2>3. \A f \in job'.kept, p \in Range(recorded) : p \in job'.backup[f] <=> p \in content[f]
    BY <2>1, <2>2
  <2>4. QED BY <1>2, <2>1, <2>3 DEF KeepFiles
<1>3. CASE PatchFile
  <2>1. Head(job.todo) \in Range(job.todo) /\ pc \in Busy
    BY <1>3, HeadAndTail DEF TypeOK, PatchFile, Jobs, Busy
  <2>2. Head(job.todo) \notin Range(recorded)
    BY <2>1
  <2>3. PICK f \in job.files :
          /\ content' = [content EXCEPT ![f] = Toggle(@, Head(job.todo))]
          /\ job' = [job EXCEPT !.files = @ \ {f}]
    BY <1>3 DEF PatchFile
  <2>4. \A p \in Range(recorded), g \in Files : p \in content'[g] <=> p \in content[g]
    BY <2>2, <2>3 DEF TypeOK, Toggle
  <2>5. /\ job'.existing = job.existing /\ job'.todo = job.todo
        /\ job'.kept = job.kept /\ job'.backup = job.backup /\ job.kept \subseteq Files
    BY <2>3 DEF TypeOK, Jobs
  <2>6. QED BY <1>3, <2>1, <2>4, <2>5 DEF PatchFile
<1>4. CASE Patched
  <2>1. Range(Tail(job.todo)) \subseteq Range(job.todo) /\ pc \in Busy
    BY <1>4, HeadAndTail DEF TypeOK, Patched, Jobs, Busy
  <2>2. /\ job'.existing = job.existing /\ job'.todo = Tail(job.todo)
        /\ job'.kept = job.kept /\ job'.backup = job.backup
    BY <1>4 DEF TypeOK, Patched, Jobs
  <2>3. QED BY <1>4, <2>1, <2>2 DEF Patched
<1>5. CASE RestoreFile
  <2>1. PICK f \in job.kept :
          /\ content' = [content EXCEPT ![f] = job.backup[f]]
          /\ job' = [job EXCEPT !.kept = @ \ {f}]
    BY <1>5 DEF RestoreFile
  <2>2. pc \in Busy
    BY <1>5 DEF RestoreFile, Busy
  <2>3. \A p \in Range(recorded), g \in Files : p \in content'[g] <=> p \in content[g]
    BY <2>1, <2>2 DEF TypeOK, Jobs
  <2>4. /\ job'.existing = job.existing /\ job'.todo = job.todo
        /\ job'.kept \subseteq job.kept /\ job'.backup = job.backup /\ job.kept \subseteq Files
    BY <2>1 DEF TypeOK, Jobs
  <2>5. QED BY <1>5, <2>2, <2>3, <2>4 DEF RestoreFile
<1>6. CASE RestoreRecord \/ Record \/ Crash
  BY <1>6 DEF RestoreRecord, Record, Crash, Resting, Busy
<1>7. CASE Refused
  BY <1>7 DEF Refused, Busy
<1>8. CASE Configure \/ UNCHANGED vars
  BY <1>8 DEF Configure, vars
<1>9. QED BY <1>1, <1>2, <1>3, <1>4, <1>5, <1>6, <1>7, <1>8 DEF Next, Update

(* An update never reverses, removes or restores away a patch that was     *)
(* recorded before it, wherever it is refused or dies.                     *)
THEOREM RecordedPatchesStay == Spec => KeepsRecordedPatches
<1>1. Init => OnlyNewPatches
  BY DEF Init, OnlyNewPatches, Busy
<1>2. TypeOK /\ OnlyNewPatches /\ [Next]_vars => OnlyNewPatches'
  BY NewPatchesStep
<1>3. TypeOK /\ OnlyNewPatches /\ [Next]_vars
        => [\A p \in Range(recorded), f \in Files : p \in content'[f] <=> p \in content[f]]_vars
  BY NewPatchesStep
<1>4. QED BY <1>1, <1>2, <1>3, TypeCorrect, PTL DEF Spec, KeepsRecordedPatches
-----------------------------------------------------------------------------

(* What the patches that are recorded, and those applied so far, make of a *)
(* file.                                                                   *)
Base(f)    == {p \in Range(job.existing) : f \in Touched(p)}
Carried(f) == {p \in Range(job.existing) \cup Range(job.applied) : f \in Touched(p)}

(* The patches of an update, and whether they are independent.             *)
New == Range(job.applied) \cup Range(job.todo)
Apart ==
  /\ \A p \in New : Adds[p] = {}
  /\ \A p, q \in New : p # q => Edits[p] \cap Edits[q] = {}

(* An update takes each of its patches once. *)
TakenOnce ==
  pc \in Busy => IsInjective(job.todo) /\ Range(job.applied) \cap Range(job.todo) = {}

(* On a tree its report described, an update has done what it has done of  *)
(* its patches, and nothing else.                                          *)
GoesAhead ==
  clean =>
    /\ pc = "patch" => \A f \in Files : content[f] = Carried(f)
    /\ pc = "file" =>
         LET p == Head(job.todo) IN
         /\ job.files \subseteq Touched(p)
         /\ \A f \in Files :
              content[f] = IF f \in Touched(p) \ job.files THEN Carried(f) \cup {p} ELSE Carried(f)
    /\ pc = "updated" => content = Of(recorded)

(* And when its patches are apart, what it has changed is kept as it was.  *)
CanGoBack ==
  clean =>
    /\ pc \in Busy /\ Apart =>
         \A f \in Files : IF f \in job.kept THEN job.backup[f] = Base(f) ELSE content[f] = Base(f)
    /\ pc = "file" /\ Apart => Touched(Head(job.todo)) \subseteq job.kept
    /\ pc = "failed" /\ Apart => content = Of(recorded)
-----------------------------------------------------------------------------

(* What a sequence holds when it grows or shrinks at an end, and when two  *)
(* are put together.                                                       *)
LEMMA RangeOfAppend ==
  ASSUME NEW S, NEW s \in Seq(S), NEW e \in S
  PROVE  Range(Append(s, e)) = Range(s) \cup {e}
<1>1. /\ Len(Append(s, e)) = Len(s) + 1 /\ Len(s) \in Nat
      /\ \A i \in 1..Len(s) : Append(s, e)[i] = s[i]
      /\ Append(s, e)[Len(s) + 1] = e
      /\ DOMAIN Append(s, e) = 1..(Len(s) + 1) /\ DOMAIN s = 1..Len(s)
  BY AppendProperties
<1>2. \A x \in Range(Append(s, e)) : x \in Range(s) \cup {e}
  BY <1>1 DEF Range
<1>3. \A x \in Range(s) : x \in Range(Append(s, e))
  BY <1>1 DEF Range
<1>4. e \in Range(Append(s, e))
  BY <1>1 DEF Range
<1>5. QED BY <1>2, <1>3, <1>4

LEMMA RangeOfTail ==
  ASSUME NEW S, NEW s \in Seq(S), s # <<>>, IsInjective(s)
  PROVE  /\ Range(s) = Range(Tail(s)) \cup {Head(s)}
         /\ Head(s) \notin Range(Tail(s)) /\ IsInjective(Tail(s))
<1>1. /\ Head(s) = s[1] /\ Len(Tail(s)) = Len(s) - 1 /\ Len(s) \in Nat /\ Len(s) # 0
      /\ \A i \in 1..Len(Tail(s)) : Tail(s)[i] = s[i + 1]
      /\ DOMAIN Tail(s) = 1..Len(Tail(s)) /\ DOMAIN s = 1..Len(s)
  BY HeadTailProperties, EmptySeq
<1>2. \A i, j \in 1..Len(s) : s[i] = s[j] => i = j
  BY <1>1 DEF IsInjective
<1>3. \A x \in Range(s) : x \in Range(Tail(s)) \cup {Head(s)}
  <2>1. ASSUME NEW i \in 1..Len(s)
        PROVE  s[i] \in Range(Tail(s)) \cup {Head(s)}
    <3>1. CASE i = 1
      BY <1>1, <3>1
    <3>2. CASE i # 1
      <4>1. i - 1 \in 1..Len(Tail(s)) /\ Tail(s)[i - 1] = s[i]
        BY <1>1, <3>2
      <4>2. QED BY <1>1, <4>1 DEF Range
    <3>3. QED BY <3>1, <3>2
  <2>2. QED BY <1>1, <2>1 DEF Range
<1>4. Head(s) \notin Range(Tail(s))
  <2>1. \A i \in 1..Len(Tail(s)) : Tail(s)[i] # s[1]
    BY <1>1, <1>2
  <2>2. QED BY <1>1, <2>1 DEF Range
<1>5. IsInjective(Tail(s))
  <2>1. \A i, j \in 1..Len(Tail(s)) : Tail(s)[i] = Tail(s)[j] => i = j
    BY <1>1, <1>2
  <2>2. QED BY <1>1, <2>1 DEF IsInjective
<1>6. QED BY <1>3, <1>4, <1>5, HeadAndTail

LEMMA RangeOfConcat ==
  ASSUME NEW S, NEW s \in Seq(S), NEW t \in Seq(S)
  PROVE  Range(s \o t) = Range(s) \cup Range(t)
<1>1. /\ Len(s \o t) = Len(s) + Len(t) /\ Len(s) \in Nat /\ Len(t) \in Nat
      /\ \A i \in 1..(Len(s) + Len(t)) :
            (s \o t)[i] = IF i <= Len(s) THEN s[i] ELSE t[i - Len(s)]
      /\ DOMAIN (s \o t) = 1..(Len(s) + Len(t)) /\ DOMAIN s = 1..Len(s) /\ DOMAIN t = 1..Len(t)
  BY ConcatProperties
<1>2. \A x \in Range(s \o t) : x \in Range(s) \cup Range(t)
  <2>1. ASSUME NEW i \in 1..(Len(s) + Len(t))
        PROVE  (s \o t)[i] \in Range(s) \cup Range(t)
    <3>1. CASE i <= Len(s)
      BY <1>1, <3>1 DEF Range
    <3>2. CASE ~(i <= Len(s))
      <4>1. i - Len(s) \in 1..Len(t) /\ (s \o t)[i] = t[i - Len(s)]
        BY <1>1, <3>2
      <4>2. QED BY <1>1, <4>1 DEF Range
    <3>3. QED BY <3>1, <3>2
  <2>2. QED BY <1>1, <2>1 DEF Range
<1>3. \A x \in Range(s) : x \in Range(s \o t)
  <2>1. \A i \in 1..Len(s) : i \in 1..(Len(s) + Len(t)) /\ (s \o t)[i] = s[i]
    BY <1>1
  <2>2. QED BY <1>1, <2>1 DEF Range
<1>4. \A x \in Range(t) : x \in Range(s \o t)
  <2>1. \A i \in 1..Len(t) : Len(s) + i \in 1..(Len(s) + Len(t)) /\ (s \o t)[Len(s) + i] = t[i]
    BY <1>1
  <2>2. ASSUME NEW i \in 1..Len(t)
        PROVE  t[i] \in Range(s \o t)
    <3>1. Len(s) + i \in DOMAIN (s \o t) /\ t[i] = (s \o t)[Len(s) + i]
      BY <1>1, <2>1
    <3>2. QED BY ONLY <3>1 DEF Range
  <2>3. QED BY <1>1, <2>2 DEF Range
<1>5. QED BY <1>2, <1>3, <1>4

LEMMA RestIsInjective ==
  ASSUME NEW l \in Lists, NEW n \in Nat
  PROVE  IsInjective(SubSeq(l, n + 1, Len(l)))
<1>1. l \in Seq(Patches) /\ Len(l) \in Nat /\ DOMAIN l = 1..Len(l) /\ IsInjective(l)
  BY PatchAssumption DEF PatchAssumption
<1> DEFINE r == SubSeq(l, n + 1, Len(l))
<1>2. /\ r \in Seq(Patches)
      /\ Len(r) = IF n + 1 <= Len(l) THEN Len(l) - (n + 1) + 1 ELSE 0
      /\ \A i \in 1 .. Len(l) - (n + 1) + 1 : r[i] = l[(n + 1) + i - 1]
  <2>1. n + 1 \in Int /\ Len(l) \in Int /\ \A i \in (n + 1)..Len(l) : l[i] \in Patches
    BY <1>1
  <2>2. QED BY ONLY <2>1, SubSeqProperties
<1>3. DOMAIN r = 1..Len(r)
  BY <1>2
<1> HIDE DEF r
<1>4. \A i, j \in 1..Len(r) : r[i] = r[j] => i = j
  <2>1. \A i, j \in 1..Len(l) : l[i] = l[j] => i = j
    BY <1>1 DEF IsInjective
  <2>2. ASSUME NEW i \in 1..Len(r)
        PROVE  n + i \in 1..Len(l) /\ r[i] = l[n + i]
    <3> DEFINE rest == Len(l) - (n + 1) + 1
    <3>1. n + 1 <= Len(l) /\ Len(r) = rest
      <4>1. ~(n + 1 <= Len(l)) => Len(r) = 0
        BY <1>2
      <4>2. n + 1 <= Len(l) => Len(r) = rest
        BY <1>2
      <4>3. n + 1 <= Len(l)
        BY <4>1
      <4>4. QED BY <4>2, <4>3
    <3>2. i \in Nat /\ i \in 1..(Len(l) - (n + 1) + 1)
      BY <1>1, <3>1
    <3>3. r[i] = l[(n + 1) + i - 1] /\ (n + 1) + i - 1 = n + i
      BY <1>2, <3>2
    <3>4. QED BY <1>1, <3>1, <3>2, <3>3
  <2>3. ASSUME NEW i \in 1..Len(r), NEW j \in 1..Len(r), r[i] = r[j]
        PROVE  i = j
    <3>1. n + i = n + j
      BY <2>1, <2>2, <2>3
    <3>2. QED BY <3>1
  <2>4. QED BY <2>3
<1>5. IsInjective(r)
  BY <1>3, <1>4 DEF IsInjective
<1>6. QED BY <1>5 DEF r

(* The independence the property asks for is that of the patches at hand.  *)
LEMMA ApartIs ==
  ASSUME TypeOK
  PROVE  Independent(job.applied \o job.todo) <=> Apart
<1>1. Range(job.applied \o job.todo) = New
  BY RangeOfConcat DEF TypeOK, Jobs, New
<1>2. QED BY <1>1 DEF Independent, Apart

LEMMA TakenOnceStep ==
  ASSUME TypeOK, OnlyNewPatches, TakenOnce, [Next]_vars
  PROVE  TakenOnce'
<1>1. CASE Begin
  <2>1. IsInjective(SubSeq(configured, Len(recorded) + 1, Len(configured)))
    BY RestIsInjective DEF TypeOK
  <2>2. job'.todo = SubSeq(configured, Len(recorded) + 1, Len(configured)) /\ job'.applied = <<>>
    BY <1>1 DEF Begin
  <2>3. Range(job'.applied) = {}
    BY <2>2 DEF Range
  <2>4. QED BY <2>1, <2>2, <2>3 DEF TakenOnce
<1>2. CASE KeepFiles \/ PatchFile \/ RestoreFile
  <2>1. job'.todo = job.todo /\ job'.applied = job.applied /\ pc \in Busy
    BY <1>2 DEF TypeOK, KeepFiles, PatchFile, RestoreFile, Jobs, Busy
  <2>2. QED BY <2>1 DEF TakenOnce
<1>3. CASE Patched
  <2>1. /\ job.todo \in Seq(Patches) /\ job.todo # <<>> /\ job.applied \in Seq(Patches)
        /\ pc \in Busy /\ IsInjective(job.todo)
    BY <1>3 DEF TypeOK, Patched, Jobs, Busy, TakenOnce
  <2>2. job'.todo = Tail(job.todo) /\ job'.applied = Append(job.applied, Head(job.todo))
    BY <1>3 DEF TypeOK, Patched, Jobs
  <2>3. Range(job'.applied) = Range(job.applied) \cup {Head(job.todo)}
    BY <2>1, <2>2, HeadAndTail, RangeOfAppend
  <2>4. QED BY <2>1, <2>2, <2>3, RangeOfTail DEF TakenOnce
<1>4. CASE Refused \/ RestoreRecord \/ Record \/ Crash
  BY <1>4 DEF TakenOnce, Refused, RestoreRecord, Record, Crash, Busy
<1>5. CASE Configure \/ UNCHANGED vars
  BY <1>5 DEF TakenOnce, Configure, vars
<1>6. QED BY <1>1, <1>2, <1>3, <1>4, <1>5 DEF Next, Update

(* The head of what is left belongs neither to the recorded patches nor to *)
(* the applied ones.                                                       *)
LEMMA HeadIsNew ==
  ASSUME TypeOK, OnlyNewPatches, TakenOnce, pc \in Busy, job.todo # <<>>
  PROVE  /\ Head(job.todo) \in Patches /\ Head(job.todo) \in New
         /\ Head(job.todo) \notin Range(job.existing) \cup Range(job.applied)
<1>1. Head(job.todo) \in Patches /\ Head(job.todo) \in Range(job.todo)
  BY HeadAndTail DEF TypeOK, Jobs
<1>2. QED BY <1>1 DEF New, OnlyNewPatches, TakenOnce

(* A step of an update that goes ahead. *)
LEMMA GoesAheadStep ==
  ASSUME TypeOK, OnlyNewPatches, TakenOnce, GoesAhead, [Next]_vars
  PROVE  GoesAhead'
<1>1. CASE Begin
  <2>1. /\ job'.existing = recorded /\ job'.applied = <<>> /\ content' = content
        /\ clean' = (content = Of(recorded)) /\ pc' = "patch"
    BY <1>1 DEF Begin
  <2>2. Range(job'.applied) = {}
    BY <2>1 DEF Range
  <2>3. \A f \in Files : Of(recorded)[f] = Carried(f)'
    BY <2>1, <2>2 DEF Of, Carried
  <2>4. QED BY <2>1, <2>3 DEF GoesAhead
<1>2. CASE KeepFiles
  <2>1. /\ job'.files = Touched(Head(job.todo)) /\ job'.todo = job.todo
        /\ job'.applied = job.applied /\ job'.existing = job.existing
        /\ content' = content /\ clean' = clean /\ pc = "patch" /\ pc' = "file"
    BY <1>2 DEF TypeOK, KeepFiles, Jobs
  <2>2. QED BY <2>1 DEF GoesAhead, Carried
<1>3. CASE PatchFile
  <2> DEFINE p == Head(job.todo)
  <2>1. PICK g \in job.files :
          /\ content' = [content EXCEPT ![g] = Toggle(@, p)]
          /\ job' = [job EXCEPT !.files = @ \ {g}]
    BY <1>3 DEF PatchFile
  <2>2. /\ job'.files = job.files \ {g} /\ job'.todo = job.todo /\ job'.applied = job.applied
        /\ job'.existing = job.existing /\ clean' = clean /\ pc = "file" /\ pc' = "file"
        /\ g \in Files
    BY <1>3, <2>1 DEF TypeOK, PatchFile, Jobs
  <2>3. SUFFICES ASSUME clean PROVE GoesAhead'
    BY <2>2 DEF GoesAhead
  <2>4. p \notin Carried(g)
    BY <2>2, HeadIsNew DEF Carried, Busy, TypeOK
  <2>5. job.files \subseteq Touched(p) /\ content[g] = Carried(g)
    BY <2>1, <2>2, <2>3 DEF GoesAhead
  <2>6. content'[g] = Carried(g) \cup {p} /\ \A f \in Files \ {g} : content'[f] = content[f]
    BY <2>1, <2>2, <2>4, <2>5 DEF TypeOK, Toggle
  <2>7. \A f \in Files : Carried(f)' = Carried(f)
    BY <2>2 DEF Carried
  <2>8. \A f \in Files :
          content'[f] = IF f \in Touched(p) \ job'.files THEN Carried(f) \cup {p} ELSE Carried(f)
    BY <2>1, <2>2, <2>3, <2>5, <2>6 DEF GoesAhead
  <2>9. QED BY <2>2, <2>5, <2>7, <2>8 DEF GoesAhead
<1>4. CASE Patched
  <2> DEFINE p == Head(job.todo)
  <2>1. /\ job.todo \in Seq(Patches) /\ job.todo # <<>> /\ job.applied \in Seq(Patches)
        /\ job.files = {} /\ pc = "file" /\ pc' = "patch" /\ content' = content /\ clean' = clean
        /\ job'.applied = Append(job.applied, p) /\ job'.existing = job.existing
    BY <1>4 DEF TypeOK, Patched, Jobs
  <2>2. Range(job'.applied) = Range(job.applied) \cup {p}
    BY <2>1, HeadAndTail, RangeOfAppend
  <2>3. \A f \in Files : Carried(f)' = IF f \in Touched(p) THEN Carried(f) \cup {p} ELSE Carried(f)
    BY <2>1, <2>2 DEF Carried
  <2>4. QED BY <2>1, <2>3 DEF GoesAhead
<1>5. CASE Record
  <2>1. /\ job.existing \in Seq(Patches) /\ job.applied \in Seq(Patches)
        /\ recorded' = job.existing \o job.applied /\ pc = "patch" /\ pc' = "updated"
        /\ content' = content /\ clean' = clean
    BY <1>5 DEF TypeOK, Record, Jobs
  <2>2. Range(recorded') = Range(job.existing) \cup Range(job.applied)
    BY <2>1, RangeOfConcat
  <2>3. clean => \A f \in Files : content'[f] = Of(recorded')[f]
    BY <2>1, <2>2 DEF GoesAhead, Of, Carried
  <2>4. clean => content' = Of(recorded')
    <3>1. DOMAIN content' = Files /\ DOMAIN Of(recorded') = Files
          /\ content' = [f \in Files |-> content'[f]] /\ Of(recorded') = [f \in Files |-> Of(recorded')[f]]
      BY <2>1 DEF TypeOK, Of
    <3>2. QED BY <2>3, <3>1
  <2>5. QED BY <2>1, <2>4 DEF GoesAhead
<1>6. CASE Refused \/ RestoreFile \/ RestoreRecord \/ Crash
  BY <1>6 DEF GoesAhead, Refused, RestoreFile, RestoreRecord, Crash
<1>7. CASE Configure
  BY <1>7 DEF GoesAhead, Configure, Carried
<1>8. CASE UNCHANGED vars
  BY <1>8 DEF GoesAhead, vars, Carried
<1>9. QED BY <1>1, <1>2, <1>3, <1>4, <1>5, <1>6, <1>7, <1>8 DEF Next, Update

(* Patches that are apart have all their files there to be kept, and none  *)
(* of those applied has changed a file of the next one.                    *)
LEMMA ApartFiles ==
  ASSUME TypeOK, OnlyNewPatches, TakenOnce, pc \in Busy, job.todo # <<>>, Apart,
         NEW f \in Touched(Head(job.todo))
  PROVE  f \in Files /\ IsFile(f) /\ Carried(f) = Base(f)
<1> DEFINE p == Head(job.todo)
<1>1. p \in Patches /\ p \in New /\ p \notin Range(job.applied)
  BY HeadIsNew
<1>2. Adds[p] = {} /\ f \in Edits[p] /\ f \in Files
  BY <1>1, PatchAssumption DEF Apart, Touched, PatchAssumption
<1>3. IsFile(f)
  BY <1>1, <1>2, PatchAssumption DEF PatchAssumption, IsFile
<1>4. ASSUME NEW q \in Range(job.applied)
      PROVE  f \notin Touched(q)
  <2>1. q \in New /\ q # p
    BY <1>1, <1>4 DEF New
  <2>2. Adds[q] = {} /\ Edits[p] \cap Edits[q] = {}
    BY <1>1, <2>1 DEF Apart
  <2>3. QED BY <1>2, <2>2 DEF Touched
<1>5. QED BY <1>2, <1>3, <1>4 DEF Carried, Base

(* A step of an update that can go back. *)
LEMMA CanGoBackStep ==
  ASSUME TypeOK, OnlyNewPatches, TakenOnce, GoesAhead, CanGoBack, [Next]_vars
  PROVE  CanGoBack'
<1>1. CASE Begin
  <2>1. /\ job'.existing = recorded /\ job'.kept = {} /\ content' = content
        /\ clean' = (content = Of(recorded)) /\ pc' = "patch"
    BY <1>1 DEF Begin
  <2>2. \A f \in Files : Of(recorded)[f] = Base(f)'
    BY <2>1 DEF Of, Base
  <2>3. QED BY <2>1, <2>2 DEF CanGoBack
<1>2. CASE KeepFiles
  <2> DEFINE p    == Head(job.todo)
             keep == {f \in Touched(p) : IsFile(f)}
  <2>1. /\ job'.kept = job.kept \cup keep /\ job'.todo = job.todo
        /\ job'.applied = job.applied /\ job'.existing = job.existing
        /\ job'.backup = [f \in Files |-> IF f \in keep THEN content[f] ELSE job.backup[f]]
        /\ content' = content /\ clean' = clean /\ pc = "patch" /\ pc' = "file"
        /\ pc \in Busy /\ job.todo # <<>>
    BY <1>2 DEF TypeOK, KeepFiles, Jobs, Busy
  <2>2. Apart' = Apart /\ \A f \in Files : Base(f)' = Base(f)
    BY <2>1 DEF Apart, New, Base
  <2>3. SUFFICES ASSUME clean, Apart
                 PROVE  /\ \A f \in Files : IF f \in job'.kept THEN job'.backup[f] = Base(f) ELSE content[f] = Base(f)
                        /\ Touched(p) \subseteq job'.kept
    BY <2>1, <2>2 DEF CanGoBack
  <2>4. \A f \in Touched(p) : f \in Files /\ f \in keep /\ Carried(f) = Base(f)
    BY <2>1, <2>3, ApartFiles
  <2>5. \A f \in Files : content[f] = Carried(f)
    BY <2>1, <2>3 DEF GoesAhead
  <2>6. \A f \in Files : IF f \in job.kept THEN job.backup[f] = Base(f) ELSE content[f] = Base(f)
    BY <2>1, <2>3 DEF CanGoBack
  <2>7. QED BY <2>1, <2>4, <2>5, <2>6
<1>3. CASE PatchFile
  <2> DEFINE p == Head(job.todo)
  <2>1. PICK g \in job.files :
          /\ content' = [content EXCEPT ![g] = Toggle(@, p)]
          /\ job' = [job EXCEPT !.files = @ \ {g}]
    BY <1>3 DEF PatchFile
  <2>2. /\ job'.kept = job.kept /\ job'.todo = job.todo /\ job'.applied = job.applied
        /\ job'.existing = job.existing /\ job'.backup = job.backup
        /\ clean' = clean /\ pc = "file" /\ pc' = "file"
        /\ \A f \in Files \ {g} : content'[f] = content[f]
    BY <1>3, <2>1 DEF TypeOK, PatchFile, Jobs
  <2>3. Apart' = Apart /\ \A f \in Files : Base(f)' = Base(f)
    BY <2>2 DEF Apart, New, Base
  <2>4. clean /\ Apart => g \in job.kept
    BY <2>1, <2>2 DEF CanGoBack, GoesAhead
  <2>5. QED BY <2>2, <2>3, <2>4 DEF CanGoBack, Busy
<1>4. CASE Patched
  <2> DEFINE p == Head(job.todo)
  <2>1. /\ job.todo \in Seq(Patches) /\ job.todo # <<>> /\ job.applied \in Seq(Patches)
        /\ pc = "file" /\ pc' = "patch" /\ content' = content /\ clean' = clean
        /\ job'.applied = Append(job.applied, p) /\ job'.todo = Tail(job.todo)
        /\ job'.existing = job.existing /\ job'.kept = job.kept /\ job'.backup = job.backup
    BY <1>4 DEF TypeOK, Patched, Jobs
  <2>2. IsInjective(job.todo)
    BY <2>1 DEF TakenOnce, Busy
  <2>3. New' = New
    BY <2>1, <2>2, HeadAndTail, RangeOfAppend, RangeOfTail DEF New
  <2>4. Apart' = Apart /\ \A f \in Files : Base(f)' = Base(f)
    BY <2>1, <2>3 DEF Apart, Base
  <2>5. QED BY <2>1, <2>4 DEF CanGoBack, Busy
<1>5. CASE RestoreFile
  <2>1. PICK g \in job.kept :
          /\ content' = [content EXCEPT ![g] = job.backup[g]]
          /\ job' = [job EXCEPT !.kept = @ \ {g}]
    BY <1>5 DEF RestoreFile
  <2>2. /\ job'.kept = job.kept \ {g} /\ job'.todo = job.todo /\ job'.applied = job.applied
        /\ job'.existing = job.existing /\ job'.backup = job.backup
        /\ clean' = clean /\ pc = "restore" /\ pc' = "restore" /\ g \in Files
        /\ content'[g] = job.backup[g] /\ \A f \in Files \ {g} : content'[f] = content[f]
    BY <1>5, <2>1 DEF TypeOK, RestoreFile, Jobs
  <2>3. Apart' = Apart /\ \A f \in Files : Base(f)' = Base(f)
    BY <2>2 DEF Apart, New, Base
  <2>4. QED BY <2>1, <2>2, <2>3 DEF CanGoBack, Busy
<1>6. CASE RestoreRecord
  <2>1. /\ job.kept = {} /\ recorded' = job.existing /\ job' = job /\ content' = content
        /\ clean' = clean /\ pc = "restore" /\ pc' = "failed"
    BY <1>6 DEF RestoreRecord
  <2>2. Apart' = Apart
    BY <2>1 DEF Apart, New
  <2>3. clean /\ Apart => \A f \in Files : content[f] = Of(recorded')[f]
    BY <2>1 DEF CanGoBack, Busy, Of, Base
  <2>4. content = [f \in Files |-> content[f]] /\ Of(recorded') = [f \in Files |-> Of(recorded')[f]]
    BY DEF TypeOK, Of
  <2>5. clean /\ Apart => content = Of(recorded')
    BY <2>3, <2>4
  <2>6. QED BY <2>1, <2>2, <2>5 DEF CanGoBack, Busy
<1>7. CASE Refused
  BY <1>7 DEF CanGoBack, Refused, Busy, Apart, New, Base
<1>8. CASE Record \/ Crash
  BY <1>8 DEF CanGoBack, Record, Crash, Busy
<1>9. CASE Configure \/ UNCHANGED vars
  BY <1>9 DEF CanGoBack, Configure, vars, Apart, New, Base
<1>10. QED BY <1>1, <1>2, <1>3, <1>4, <1>5, <1>6, <1>7, <1>8, <1>9 DEF Next, Update

(* An update that begins on the tree its report describes leaves the tree  *)
(* of a fresh preparation when it succeeds, whatever its patches share;    *)
(* and when it fails, at whatever patch and file, the tree it found, if    *)
(* its patches create nothing and change different files.                  *)
THEOREM UpdatesAreAllOrNothing == Spec => []UpdateIsAllOrNothing
<1>1. Init => OnlyNewPatches /\ TakenOnce /\ GoesAhead /\ CanGoBack
  BY DEF Init, OnlyNewPatches, TakenOnce, GoesAhead, CanGoBack, Busy
<1>2. TypeOK /\ OnlyNewPatches /\ TakenOnce /\ GoesAhead /\ CanGoBack /\ [Next]_vars
        => (OnlyNewPatches /\ TakenOnce /\ GoesAhead /\ CanGoBack)'
  BY NewPatchesStep, TakenOnceStep, GoesAheadStep, CanGoBackStep
<1>3. TypeOK /\ GoesAhead /\ CanGoBack => UpdateIsAllOrNothing
  BY ApartIs DEF GoesAhead, CanGoBack, UpdateIsAllOrNothing
<1>4. QED BY <1>1, <1>2, <1>3, TypeCorrect, PTL DEF Spec

-----------------------------------------------------------------------------
(* LinuxPrepare *)

(* The inputs of one lock have different file names, as in both lock files *)
(* of config/: of two with one name the second to come would replace the   *)
(* first.                                                                  *)
NamesDiffer ==
  \A l \in Locks : \A i, j \in ItemsOf[l] : NameOf[i] = NameOf[j] => i = j

AreVerified(l) == \A i \in ItemsOf[l] : Verified(i)

(* What a fetch has done of its lock is verified, and what it downloads is *)
(* not there yet, so that no file a report rests on is replaced.           *)
FetchedInv ==
  /\ FetchReportIsBacked
  /\ task.lock = lock
  /\ command # "fetch" => \A i \in Items : task.state[i] = "done"
  /\ command = "fetch" =>
       \A i \in Items :
         /\ task.state[i] # "done" => i \in ItemsOf[lock]
         /\ task.state[i] = "busy" => inputs[NameOf[i]] = None
         /\ task.state[i] = "done" /\ i \in ItemsOf[lock] => Verified(i)
  /\ command = "stamp" => AreVerified(lock)

(* The preparation of a lock can come to its end.                          *)
CanPrepare(l) ==
  recipe[l] \in Recipe /\ Prepared(product, recipe[l]) # {}

Preparing == {"extract", "records", "rename"}

(* What is prepared, and what is at its final place, is of inputs of its   *)
(* lock and has been through every step.                                   *)
TreeInv ==
  /\ command \in Preparing => source = None
  /\ command \in Preparing /\ product = "helium" => task.made = ItemsOf[lock]
  /\ command \in {"records", "rename"} => CanPrepare(lock)
  /\ source # None =>
       /\ CanPrepare(source.lock)
       /\ product = "helium" => source.made = ItemsOf[source.lock]

Written(k) == records[Reports[k]] = lock

(* The reports and the receipt are written for the tree that is about to   *)
(* be, or just is, at its final place.                                     *)
ReportsInv ==
  /\ command = "records" => task.todo \in 1..6 /\ \A k \in 1..6 : k < task.todo => Written(k)
  /\ command \in {"rename", "receipt"} => \A k \in 1..6 : Written(k)
  /\ command = "receipt" => source # None /\ source.lock = lock
  /\ source # None /\ crashes = 0 /\ command # "receipt" =>
       receipt = source.lock /\ \A k \in 1..6 : records[Reports[k]] = source.lock

(* A command that is over leaves no work undone.                           *)
LEMMA IdleTask == ASSUME PrepareTypeOK PROVE Idle \in Task
BY DEF PrepareTypeOK, Idle, Task

(* Every step keeps the types.                                             *)
LEMMA PrepareTypeStep ==
  ASSUME PrepareTypeOK, [PrepareNext]_prepareVars
  PROVE  PrepareTypeOK'
<1> USE PrepareAssumption DEF PrepareAssumption, PrepareTypeOK, Between,
        Working, volume, setting, Goto
<1>1. CASE BeginFetch
  <2> DEFINE begun == [i \in Items |-> IF i \in ItemsOf[lock] THEN "todo" ELSE "done"]
  <2>1. begun \in [Items -> {"todo", "busy", "done", "failed"}]
    OBVIOUS
  <2>2. task' = [Idle EXCEPT !.state = begun]
    BY <1>1 DEF BeginFetch
  <2>3. task' \in Task
    BY <2>1, <2>2, IdleTask DEF Task
  <2>4. QED
    BY <1>1, <2>3 DEF BeginFetch
<1>2. ASSUME NEW i \in Items, FetchOne(i) PROVE PrepareTypeOK'
  <2>1. task' \in Task
    BY <1>2 DEF FetchOne, Task
  <2>2. QED
    BY <1>2, <2>1 DEF FetchOne
<1>3. ASSUME NEW i \in Items, Downloaded(i) PROVE PrepareTypeOK'
  <2>1. task' \in Task
    BY <1>3 DEF Downloaded, Task
  <2>2. QED
    BY <1>3, <2>1 DEF Downloaded
<1>4. ASSUME NEW i \in Items, DownloadFails(i) PROVE PrepareTypeOK'
  <2>1. task' \in Task
    BY <1>4 DEF DownloadFails, Task
  <2>2. QED
    BY <1>4, <2>1 DEF DownloadFails
<1>5. CASE FetchFails
  BY <1>5, IdleTask DEF FetchFails
<1>6. CASE WriteFetchReport
  BY <1>6 DEF WriteFetchReport, Task
<1>7. CASE WriteFetchStamp
  <2>1. task.lock \in Locks
    BY DEF Task
  <2>2. QED
    BY <1>7, <2>1, IdleTask DEF WriteFetchStamp
<1>8. CASE Reuse
  BY <1>8, IdleTask DEF Reuse
<1>9. CASE BeginPrepare
  <2>1. Found(lock) \subseteq Items
    BY <1>9 DEF BeginPrepare, MayPrepare, Found
  <2>2. task' \in Task
    BY <1>9, <2>1, IdleTask DEF BeginPrepare, Task
  <2>3. QED
    BY <1>9, <2>2 DEF BeginPrepare
<1>10. CASE Transform
  <2>1. task.lock \in Locks
    BY DEF Task
  <2>2. PICK r \in IF recipe[task.lock] = None THEN Recipes[task.lock]
                                               ELSE {recipe[task.lock]} :
          /\ recipe' = [recipe EXCEPT ![task.lock] = r]
          /\ \/ command' = "records" /\ task' = [task EXCEPT !.todo = 1]
             \/ command' = "failed" /\ task' = Idle
    BY <1>10 DEF Transform
  <2>3. r \in Recipe
    BY <2>1, <2>2
  <2>4. recipe' \in [Locks -> Recipe \cup {None}]
    BY <2>2, <2>3
  <2>5. task' \in Task
    BY <2>2, IdleTask DEF Task
  <2>6. QED
    BY <1>10, <2>2, <2>4, <2>5 DEF Transform
<1>11. CASE TransformFails
  BY <1>11, IdleTask DEF TransformFails
<1>12. CASE WriteRecord
  <2>1. task' \in Task /\ task.lock \in Locks
    BY <1>12 DEF WriteRecord, Task
  <2>2. QED
    BY <1>12, <2>1 DEF WriteRecord
<1>13. CASE Rename
  <2>1. source' \in Source
    BY <1>13 DEF Rename, Task, Source
  <2>2. QED
    BY <1>13, <2>1 DEF Rename
<1>14. CASE WriteReceipt
  <2>1. task.lock \in Locks
    BY DEF Task
  <2>2. QED
    BY <1>14, <2>1, IdleTask DEF WriteReceipt
<1>15. CASE GateC
  BY <1>15, IdleTask DEF GateC
<1>16. CASE NewImage
  <2>1. task' \in Task
    BY <1>16, IdleTask DEF NewImage, Task
  <2>2. QED
    BY <1>16, <2>1 DEF NewImage
<1>17. CASE MoveAway
  BY <1>17 DEF MoveAway
<1>18. CASE Killed
  BY <1>18, IdleTask DEF Killed
<1>19. CASE UNCHANGED prepareVars
  BY <1>19 DEF prepareVars
<1> HIDE DEF PrepareTypeOK
<1>20. QED
  BY ONLY <1>1, <1>2, <1>3, <1>4, <1>5, <1>6, <1>7, <1>8, <1>9, <1>10, <1>11, <1>12,
     <1>13, <1>14, <1>15, <1>16, <1>17, <1>18, <1>19, [PrepareNext]_prepareVars DEF
     PrepareNext, Fetch, Prepare

(* No file that a report or a fetch in progress rests on is replaced.      *)
LEMMA FetchedStep ==
  ASSUME PrepareTypeOK, NamesDiffer, FetchedInv, [PrepareNext]_prepareVars
  PROVE  FetchedInv'
<1> USE PrepareAssumption DEF PrepareAssumption, FetchedInv, FetchReportIsBacked,
        AreVerified, Verified, Rest, Between, volume,
        setting, Goto
<1>1. CASE BeginFetch
  <2>1. task' = [Idle EXCEPT !.state =
                      [i \in Items |-> IF i \in ItemsOf[lock] THEN "todo" ELSE "done"]]
    BY <1>1 DEF BeginFetch
  <2>2. /\ task'.lock = lock
        /\ \A i \in Items : task'.state[i] = IF i \in ItemsOf[lock] THEN "todo" ELSE "done"
    BY <2>1, IdleTask DEF Idle, PrepareTypeOK
  <2>3. QED
    BY <1>1, <2>2 DEF BeginFetch
<1>2. ASSUME NEW i \in Items, FetchOne(i) PROVE FetchedInv'
  <2>1. task \in Task /\ command = "fetch" /\ task.state[i] = "todo"
    BY <1>2 DEF FetchOne, PrepareTypeOK
  <2>2. /\ task'.lock = task.lock
        /\ \A j \in Items : j # i => task'.state[j] = task.state[j]
        /\ task'.state[i] = "busy" => inputs[NameOf[i]] = None
        /\ task'.state[i] = "done" => Verified(i)
    BY <1>2, <2>1 DEF FetchOne, Task
  <2>3. QED
    BY <1>2, <2>1, <2>2 DEF FetchOne
<1>3. ASSUME NEW i \in Items, Downloaded(i) PROVE FetchedInv'
  <2>1. task \in Task /\ command = "fetch" /\ task.state[i] = "busy"
    BY <1>3 DEF Downloaded, PrepareTypeOK
  <2>2. /\ task'.lock = task.lock /\ task'.state[i] = "done"
        /\ \A j \in Items : j # i => task'.state[j] = task.state[j]
    BY <1>3, <2>1 DEF Downloaded, Task
  <2>3. /\ inputs' = [inputs EXCEPT ![NameOf[i]] = i]
        /\ inputs[NameOf[i]] = None /\ i \in ItemsOf[lock]
    BY <1>3, <2>1 DEF Downloaded
  <2>4. \A j \in Items : Verified(j) => Verified(j)'
    BY <2>3 DEF PrepareTypeOK
  <2>5. Verified(i)'
    BY <2>3 DEF PrepareTypeOK
  <2>6. \A j \in ItemsOf[lock] : j # i /\ inputs[NameOf[j]] = None => inputs'[NameOf[j]] = None
    BY <2>3 DEF PrepareTypeOK, NamesDiffer
  <2>7. lock \in Locks /\ \A l \in Locks : ItemsOf[l] \subseteq Items
    BY DEF PrepareTypeOK
  <2>8. /\ UNCHANGED <<lock, fetched, stamp>> /\ command' = "fetch"
        /\ fetched \in Locks \cup {None} /\ stamp \in Locks \cup {None}
    BY <1>3, <2>1 DEF Downloaded, PrepareTypeOK
  <2>9. FetchReportIsBacked'
    BY <2>4, <2>7, <2>8
  <2>10. QED
    BY <2>1, <2>2, <2>4, <2>5, <2>6, <2>7, <2>8, <2>9
<1>4. ASSUME NEW i \in Items, DownloadFails(i) PROVE FetchedInv'
  <2>1. task \in Task /\ command = "fetch" /\ task.state[i] = "busy"
    BY <1>4 DEF DownloadFails, PrepareTypeOK
  <2>2. /\ task'.lock = task.lock /\ task'.state[i] = "failed"
        /\ \A j \in Items : j # i => task'.state[j] = task.state[j]
    BY <1>4, <2>1 DEF DownloadFails, Task
  <2>3. QED
    BY <1>4, <2>1, <2>2 DEF DownloadFails
<1>5. CASE FetchFails
  BY <1>5 DEF FetchFails, Idle
<1>6. CASE WriteFetchReport
  <2>1. \A i \in Items : task.state[i] = "done"
    BY <1>6 DEF WriteFetchReport, AreOf
  <2>2. AreVerified(lock)
    BY <1>6, <2>1 DEF WriteFetchReport, PrepareTypeOK
  <2>3. QED
    BY <1>6, <2>1, <2>2 DEF WriteFetchReport
<1>7. CASE WriteFetchStamp
  BY <1>7 DEF WriteFetchStamp, Idle
<1>8. CASE Reuse
  BY <1>8 DEF Reuse, Idle
<1>9. CASE BeginPrepare
  <2>1. task'.lock = lock /\ task'.state = [i \in Items |-> "done"]
    BY <1>9 DEF BeginPrepare, Idle
  <2>2. QED
    BY <1>9, <2>1 DEF BeginPrepare
<1>10. CASE Transform
  <2>1. task \in Task
    BY DEF PrepareTypeOK
  <2>2. /\ task'.lock = lock
        /\ task'.state = task.state \/ task'.state = [i \in Items |-> "done"]
    BY <1>10, <2>1 DEF Transform, Idle, Task
  <2>3. QED
    BY <1>10, <2>2 DEF Transform
<1>11. CASE TransformFails
  BY <1>11 DEF TransformFails, Idle
<1>12. CASE WriteRecord
  <2>1. task \in Task
    BY DEF PrepareTypeOK
  <2>2. task'.lock = task.lock /\ task'.state = task.state
    BY <1>12, <2>1 DEF WriteRecord, Task
  <2>3. QED
    BY <1>12, <2>2 DEF WriteRecord
<1>13. CASE Rename
  BY <1>13 DEF Rename
<1>14. CASE WriteReceipt
  BY <1>14 DEF WriteReceipt, Idle
<1>15. CASE GateC
  BY <1>15 DEF GateC, Idle
<1>16. CASE NewImage
  <2>1. task'.lock = lock' /\ task'.state = [i \in Items |-> "done"]
    BY <1>16 DEF NewImage, Idle
  <2>2. QED
    BY <1>16, <2>1 DEF NewImage
<1>17. CASE MoveAway
  BY <1>17 DEF MoveAway, Rest
<1>18. CASE Killed
  BY <1>18 DEF Killed, Idle
<1>19. CASE UNCHANGED prepareVars
  BY <1>19 DEF prepareVars
<1> HIDE DEF FetchedInv
<1>20. QED
  BY ONLY <1>1, <1>2, <1>3, <1>4, <1>5, <1>6, <1>7, <1>8, <1>9, <1>10, <1>11, <1>12,
     <1>13, <1>14, <1>15, <1>16, <1>17, <1>18, <1>19, [PrepareNext]_prepareVars DEF
     PrepareNext, Fetch, Prepare

(* A tree at its final place, and the recipe it was made by, stay.         *)
LEMMA TreeStep ==
  ASSUME PrepareTypeOK, FetchedInv, TreeInv, [PrepareNext]_prepareVars
  PROVE  TreeInv'
<1> USE PrepareAssumption, NoneAssumption DEF PrepareAssumption, NoneAssumption, TreeInv, CanPrepare,
        Preparing, volume, setting, Goto
<1>1. CASE BeginFetch
  BY <1>1 DEF BeginFetch, Rest
<1>2. ASSUME NEW i \in Items, FetchOne(i) PROVE TreeInv'
  BY <1>2 DEF FetchOne
<1>3. ASSUME NEW i \in Items, Downloaded(i) PROVE TreeInv'
  BY <1>3 DEF Downloaded
<1>4. ASSUME NEW i \in Items, DownloadFails(i) PROVE TreeInv'
  BY <1>4 DEF DownloadFails
<1>5. CASE FetchFails
  BY <1>5 DEF FetchFails
<1>6. CASE WriteFetchReport
  BY <1>6 DEF WriteFetchReport
<1>7. CASE WriteFetchStamp
  BY <1>7 DEF WriteFetchStamp
<1>8. CASE Reuse
  BY <1>8 DEF Reuse, Rest, Between
<1>9. CASE BeginPrepare
  <2>1. /\ task'.made = Found(lock) /\ source = None
        /\ product = "helium" => fetched = lock
        /\ UNCHANGED <<product, lock, recipe, source>> /\ command' = "extract"
    BY <1>9 DEF BeginPrepare, Idle, MayPrepare
  <2>2. product = "helium" => AreVerified(lock)
    BY <2>1 DEF FetchedInv, FetchReportIsBacked, AreVerified, PrepareTypeOK,
       PrepareTypeOK
  <2>3. product = "helium" => Found(lock) = ItemsOf[lock]
    BY <2>2 DEF AreVerified, Found, Verified
  <2>4. QED
    BY <2>1, <2>3
<1>10. CASE Transform
  <2>1. task.lock = lock /\ lock \in Locks /\ task \in Task
    BY DEF FetchedInv, PrepareTypeOK
  <2>2. PICK r \in IF recipe[task.lock] = None THEN Recipes[task.lock]
                                               ELSE {recipe[task.lock]} :
          /\ recipe' = [recipe EXCEPT ![task.lock] = r]
          /\ \/ /\ Prepared(product, r) # {} /\ command' = "records"
                /\ task' = [task EXCEPT !.todo = 1]
             \/ command' = "failed"
    BY <1>10 DEF Transform
  <2>3. r \in Recipe
    BY <2>1, <2>2 DEF PrepareTypeOK
  <2>4. \A l \in Locks : CanPrepare(l) => recipe'[l] = recipe[l]
    BY <2>1, <2>2 DEF PrepareTypeOK
  <2>5. /\ command = "extract" /\ UNCHANGED <<product, lock, source>>
    BY <1>10 DEF Transform
  <2>6. command' = "records" => CanPrepare(lock)' /\ task'.made = task.made
    BY <2>1, <2>2, <2>3, <2>5 DEF PrepareTypeOK, Task
  <2>7. source # None => source.lock \in Locks
    BY DEF PrepareTypeOK, Source
  <2>8. command' \in {"records", "failed"}
    BY <2>2
  <2>9. QED
    BY <2>4, <2>5, <2>6, <2>7, <2>8
<1>11. CASE TransformFails
  BY <1>11 DEF TransformFails
<1>12. CASE WriteRecord
  <2>1. task'.made = task.made
    BY <1>12 DEF WriteRecord, Task, PrepareTypeOK
  <2>2. QED
    BY <1>12, <2>1 DEF WriteRecord
<1>13. CASE Rename
  BY <1>13 DEF Rename, FetchedInv
<1>14. CASE WriteReceipt
  BY <1>14 DEF WriteReceipt
<1>15. CASE GateC
  BY <1>15 DEF GateC, Rest, Between
<1>16. CASE NewImage
  BY <1>16 DEF NewImage, Rest, Between
<1>17. CASE MoveAway
  BY <1>17 DEF MoveAway, Rest, Between
<1>18. CASE Killed
  BY <1>18 DEF Killed
<1>19. CASE UNCHANGED prepareVars
  BY <1>19 DEF prepareVars
<1> HIDE DEF TreeInv
<1>20. QED
  BY ONLY <1>1, <1>2, <1>3, <1>4, <1>5, <1>6, <1>7, <1>8, <1>9, <1>10, <1>11, <1>12,
     <1>13, <1>14, <1>15, <1>16, <1>17, <1>18, <1>19, [PrepareNext]_prepareVars DEF
     PrepareNext, Fetch, Prepare

(* prepare writes six reports, each once.                                  *)
LEMMA ReportsAre ==
  /\ DOMAIN Reports = 1..6 /\ Len(Reports) = 6
  /\ \A j, k \in 1..6 : Reports[j] = Reports[k] => j = k
BY DEF Reports

(* Reports are written under the lock of the tree, one by one.             *)
LEMMA ReportsStep ==
  ASSUME PrepareTypeOK, FetchedInv, TreeInv, ReportsInv, [PrepareNext]_prepareVars
  PROVE  ReportsInv'
<1> USE PrepareAssumption, NoneAssumption DEF PrepareAssumption, NoneAssumption, ReportsInv, Written,
        volume, setting, Goto
<1>1. CASE BeginFetch
  BY <1>1 DEF BeginFetch, Rest, Between
<1>2. ASSUME NEW i \in Items, FetchOne(i) PROVE ReportsInv'
  BY <1>2 DEF FetchOne
<1>3. ASSUME NEW i \in Items, Downloaded(i) PROVE ReportsInv'
  BY <1>3 DEF Downloaded
<1>4. ASSUME NEW i \in Items, DownloadFails(i) PROVE ReportsInv'
  BY <1>4 DEF DownloadFails
<1>5. CASE FetchFails
  BY <1>5 DEF FetchFails
<1>6. CASE WriteFetchReport
  BY <1>6 DEF WriteFetchReport
<1>7. CASE WriteFetchStamp
  BY <1>7 DEF WriteFetchStamp
<1>8. CASE Reuse
  BY <1>8 DEF Reuse, Rest, Between
<1>9. CASE BeginPrepare
  BY <1>9 DEF BeginPrepare
<1>10. CASE Transform
  <2>1. /\ command' \in {"records", "failed"}
        /\ UNCHANGED <<source, receipt, records, lock, crashes>>
    BY <1>10 DEF Transform
  <2>2. command' = "records" => task'.todo = 1
    BY <1>10 DEF Transform, PrepareTypeOK, Task
  <2>3. command = "extract"
    BY <1>10 DEF Transform
  <2>4. QED
    BY <2>1, <2>2, <2>3
<1>11. CASE TransformFails
  BY <1>11 DEF TransformFails
<1>12. CASE WriteRecord
  <2>1. /\ task.todo \in 1..6 /\ task.lock = lock /\ command = "records" /\ source = None
        /\ UNCHANGED <<lock, source, receipt, crashes>>
    BY <1>12 DEF WriteRecord, TreeInv, Preparing, FetchedInv
  <2>2. task'.todo = task.todo + 1
    BY <1>12 DEF WriteRecord, PrepareTypeOK, Task
  <2>3. \A k \in 1..6 : k <= task.todo => Written(k)'
    BY <1>12, <2>1, ReportsAre DEF WriteRecord, PrepareTypeOK
  <2>4. command' = IF task.todo = 6 THEN "rename" ELSE "records"
    BY <1>12, ReportsAre DEF WriteRecord
  <2>5. QED
    BY <2>1, <2>2, <2>3, <2>4
<1>13. CASE Rename
  <2>1. /\ source' = [lock |-> task.lock, made |-> task.made] /\ task.lock = lock
        /\ command = "rename" /\ command' = "receipt" /\ UNCHANGED <<lock, records>>
    BY <1>13 DEF Rename, FetchedInv
  <2>2. source' # None
    BY <2>1 DEF PrepareTypeOK, Task, Source
  <2>3. QED
    BY <2>1, <2>2
<1>14. CASE WriteReceipt
  BY <1>14 DEF WriteReceipt, FetchedInv
<1>15. CASE GateC
  BY <1>15 DEF GateC, Rest, Between
<1>16. CASE NewImage
  BY <1>16 DEF NewImage, Rest, Between
<1>17. CASE MoveAway
  BY <1>17 DEF MoveAway, Rest, Between
<1>18. CASE Killed
  BY <1>18 DEF Killed, PrepareTypeOK
<1>19. CASE UNCHANGED prepareVars
  BY <1>19 DEF prepareVars
<1> HIDE DEF ReportsInv
<1>20. QED
  BY ONLY <1>1, <1>2, <1>3, <1>4, <1>5, <1>6, <1>7, <1>8, <1>9, <1>10, <1>11, <1>12,
     <1>13, <1>14, <1>15, <1>16, <1>17, <1>18, <1>19, [PrepareNext]_prepareVars DEF
     PrepareNext, Fetch, Prepare

(* A layer of patches leaves one tree of one, with what it adds and        *)
(* without what it drops, or none.                                         *)
LEMMA PatchesFit ==
  ASSUME NEW trees, NEW u, trees \subseteq {u}, NEW layer, NEW r
  PROVE  ApplySeries(trees, layer, r)
           \subseteq {WithPatches(u, layer, r.patches[layer])}
BY DEF ApplySeries

(* What a layer of patches makes of one tree.                              *)
LEMMA PatchedIsTree ==
  ASSUME NEW u \in Tree, NEW layer \in Layers, NEW r \in Recipe
  PROVE  LET s == r.patches[layer]
             t == WithPatches(u, layer, s) IN
         /\ t \in Tree /\ t.layers = u.layers \cup {layer}
         /\ t.substituted = u.substituted /\ t.files \subseteq u.files \cup s.adds
<1>1. r.patches[layer] \in Series
  BY DEF Recipe
<1>2. QED
  BY <1>1 DEF WithPatches, Tree, Series

(* The last steps of both programs only add links to a tree.               *)
LEMMA FinishedIsTree ==
  ASSUME NEW trees, trees \subseteq Tree,
         NEW t \in Finished(trees)
  PROVE  \E u \in trees : /\ t \in Tree /\ t.layers = u.layers
                          /\ t.substituted = u.substituted /\ t.files = u.files \cup Links
<1>1. PICK u \in trees : t = AddBuilderLinks(u)
  BY DEF Finished, Unbundle, AddRustTarget
<1>2. QED
  BY <1>1, RecipeAssumption DEF AddBuilderLinks, Tree, RecipeAssumption

(* What prepare-helium.py leaves: files are those of the tree whose domains*)
(* were substituted, before the last patches.                              *)
LEMMA HeliumTree ==
  ASSUME NEW r \in Recipe, NEW o \in Helium(r)
  PROVE  LET adds(l) == r.patches[l].adds
             f == o.findings IN
         \E files \in SUBSET Paths :
           /\ o.tree \in Tree /\ o.tree.layers = Layers
           /\ o.tree.substituted = r.domains \cap files
           /\ files \cap r.pruning \subseteq r.kept \cup adds("upstream")
           /\ o.tree.files
                \subseteq files \cup adds("local") \cup adds("inventory") \cup Links
           /\ f.requested = r.pruning /\ f.retained \subseteq r.kept
           /\ f.unresolved = r.domains \ files
<1> DEFINE base   == Extracted(r)
           pruned == PruneKeeping(base, r)
<1>1. /\ base \in Tree /\ base.layers = {}
      /\ pruned \in Tree /\ pruned.layers = {}
      /\ pruned.files \cap r.pruning \subseteq r.kept
  BY DEF Extracted, PruneKeeping, Tree, Recipe
<1>2. PICK u \in ApplyUpstream({pruned}, r) :
        /\ o.tree \in Finish({Substitute(u, r)}, r)
        /\ o.findings = HeliumFindings(base, pruned, u, r)
  BY DEF Helium
<1>3. u = WithPatches(pruned, "upstream", r.patches["upstream"])
  <2>1. ApplyUpstream({pruned}, r)
          \subseteq {WithPatches(pruned, "upstream", r.patches["upstream"])}
    BY PatchesFit DEF ApplyUpstream
  <2>2. QED
    BY <1>2, <2>1
<1>4. /\ u \in Tree /\ u.layers = {"upstream"}
      /\ u.files \cap r.pruning \subseteq r.kept \cup r.patches["upstream"].adds
  <2>1. "upstream" \in Layers
    BY DEF Layers
  <2>2. /\ u \in Tree /\ u.layers = pruned.layers \cup {"upstream"}
        /\ u.files \subseteq pruned.files \cup r.patches["upstream"].adds
    BY <1>1, <1>3, <2>1, PatchedIsTree
  <2>3. QED
    BY <1>1, <2>2
<1> DEFINE v == Substitute(u, r)
           edited == EditInPlace({v}, r)
<1>5. /\ v \in Tree /\ v.layers = {"upstream"} /\ v.files = u.files
      /\ v.substituted = r.domains \cap u.files
  BY <1>4 DEF Substitute, Tree, Recipe
<1>6. edited \subseteq {v}
  BY DEF EditInPlace
<1> DEFINE L == WithPatches(v, "local", r.patches["local"])
<1>7. ApplyLocal(edited, r) \subseteq {L}
  BY <1>6, PatchesFit DEF ApplyLocal
<1>8. /\ L \in Tree /\ L.layers = {"upstream", "local"}
      /\ L.substituted = r.domains \cap u.files
      /\ L.files \subseteq u.files \cup r.patches["local"].adds
  BY <1>5, PatchedIsTree DEF Layers
<1> DEFINE I == WithPatches(L, "inventory", r.patches["inventory"])
<1>9. ApplyInventory(ApplyLocal(edited, r), r) \subseteq {I}
  BY <1>7, PatchesFit DEF ApplyInventory
<1>10. /\ I \in Tree /\ I.layers = Layers
       /\ I.substituted = r.domains \cap u.files
       /\ I.files \subseteq u.files \cup r.patches["local"].adds
                            \cup r.patches["inventory"].adds
  BY <1>8, PatchedIsTree DEF Layers
<1> HIDE DEF I, L, edited, v
<1>11. o.tree \in Finished(ApplyInventory(ApplyLocal(edited, r), r))
  BY <1>2 DEF Finish, edited, v
<1>12. /\ o.tree \in Tree /\ o.tree.layers = I.layers
       /\ o.tree.substituted = I.substituted /\ o.tree.files = I.files \cup Links
  BY <1>9, <1>10, <1>11, FinishedIsTree
<1>13. /\ o.findings.requested = r.pruning
       /\ o.findings.retained = r.pruning \cap pruned.files
       /\ o.findings.unresolved = r.domains \ u.files
  BY <1>2 DEF HeliumFindings
<1>14. u.files \in SUBSET Paths
  BY <1>4 DEF Tree
<1> HIDE DEF base, pruned
<1>15. QED
  BY <1>1, <1>4, <1>10, <1>12, <1>13, <1>14

(* What prepare-source.py leaves: files are those its domains were         *)
(* substituted in.                                                         *)
LEMMA ChromiumTree ==
  ASSUME NEW r \in Recipe, NEW o \in Chromium(r)
  PROVE  \E files \in SUBSET Paths :
           /\ o.tree \in Tree /\ o.tree.layers = Layers
           /\ files \cap r.pruning = {}
           /\ o.tree.substituted = r.domains \cap files
           /\ o.tree.files = files \cup Links
           /\ o.findings.target = RustTarget
<1> DEFINE base == Extracted(r)
           I == WithPatches(base, "inventory", r.patches["inventory"])
           U == WithPatches(I, "upstream", r.patches["upstream"])
           L == WithPatches(U, "local", r.patches["local"])
           ready == ApplyLocal(ApplyUpstream(ApplyInventory({base}, r), r), r)
<1>1. base \in Tree /\ base.layers = {}
  BY DEF Extracted, Tree, Recipe
<1>2. I \in Tree /\ I.layers = {"inventory"}
  BY <1>1, PatchedIsTree DEF Layers
<1>3. U \in Tree /\ U.layers = {"inventory", "upstream"}
  BY <1>2, PatchedIsTree DEF Layers
<1>4. L \in Tree /\ L.layers = Layers
  BY <1>3, PatchedIsTree DEF Layers
<1>5. ApplyInventory({base}, r) \subseteq {I}
  BY PatchesFit DEF ApplyInventory
<1>6. ApplyUpstream(ApplyInventory({base}, r), r) \subseteq {U}
  BY <1>5, PatchesFit DEF ApplyUpstream
<1>7. ready \subseteq {L}
  BY <1>6, PatchesFit DEF ApplyLocal
<1> DEFINE v == Substitute(Prune(L, r), r)
<1>8. PICK u \in ready :
        /\ o.tree \in Finished({Substitute(Prune(u, r), r)})
        /\ o.findings = ChromiumFindings(u, r)
  BY DEF Chromium
<1> HIDE DEF L, ready
<1>9. /\ v \in Tree /\ v.layers = L.layers /\ v.files = L.files \ r.pruning
      /\ v.substituted = r.domains \cap v.files
  BY <1>4 DEF Substitute, Prune, Tree, Recipe
<1>10. o.tree \in Finished({v})
  BY <1>7, <1>8
<1> HIDE DEF v
<1>11. /\ o.tree \in Tree /\ o.tree.layers = v.layers
       /\ o.tree.substituted = v.substituted /\ o.tree.files = v.files \cup Links
  BY <1>9, <1>10, FinishedIsTree
<1>12. o.findings.target = RustTarget
  BY <1>8 DEF ChromiumFindings
<1>13. v.files \in SUBSET Paths
  BY <1>9 DEF Tree
<1>14. QED
  BY <1>4, <1>9, <1>11, <1>12, <1>13

(* Whatever is prepared has been sanitised.                                *)
LEMMA PreparedIsSanitised ==
  ASSUME NEW r \in Recipe, NEW p,
         NEW o \in Prepared(p, r)
  PROVE  Sanitised(o.tree, r, p)
<1>1. CASE p = "helium"
  <2>1. o \in Helium(r)
    BY <1>1 DEF Prepared
  <2> DEFINE adds(l) == r.patches[l].adds
  <2>2. PICK files \in SUBSET Paths :
          /\ o.tree \in Tree /\ o.tree.layers = Layers
          /\ o.tree.substituted = r.domains \cap files
          /\ files \cap r.pruning \subseteq r.kept \cup adds("upstream")
          /\ o.tree.files
               \subseteq files \cup adds("local") \cup adds("inventory") \cup Links
    BY <2>1, HeliumTree
  <2>3. \A layers : \A l \in layers : adds(l) \subseteq AddedLate(r, layers)
    BY DEF AddedLate
  <2>4. /\ adds("upstream") \subseteq AddedLate(r, Layers)
        /\ adds("local") \subseteq AddedLate(r, Layers)
        /\ adds("inventory") \subseteq AddedLate(r, Layers)
        /\ adds("local") \subseteq AddedLate(r, {"local", "inventory"})
        /\ adds("inventory") \subseteq AddedLate(r, {"local", "inventory"})
    BY <2>3 DEF Layers
  <2> HIDE DEF adds
  <2>5. QED
    BY <1>1, <2>2, <2>4 DEF Sanitised
<1>2. CASE p # "helium"
  <2>1. o \in Chromium(r)
    BY <1>2 DEF Prepared
  <2>2. PICK files \in SUBSET Paths :
          /\ o.tree.layers = Layers
          /\ files \cap r.pruning = {}
          /\ o.tree.substituted = r.domains \cap files
          /\ o.tree.files = files \cup Links
    BY <2>1, ChromiumTree
  <2>3. QED
    BY <1>2, <2>2 DEF Sanitised
<1>3. QED
  BY <1>1, <1>2

-----------------------------------------------------------------------------
PrepareInv == PrepareTypeOK /\ FetchedInv /\ TreeInv /\ ReportsInv

(* Every step keeps the invariant.                                         *)
LEMMA PrepareInvStep ==
  ASSUME NamesDiffer, PrepareInv, [PrepareNext]_prepareVars
  PROVE  PrepareInv'
BY PrepareTypeStep, FetchedStep, TreeStep, ReportsStep DEF PrepareInv

LEMMA PrepareInvBegins == ASSUME PrepareInit PROVE PrepareInv
<1>1. PrepareTypeOK
  BY PrepareAssumption DEF PrepareAssumption, PrepareInit, PrepareTypeOK,
     Idle, Task, Between
<1>2. FetchedInv
  BY DEF PrepareInit, Idle, FetchedInv, FetchReportIsBacked
<1>3. TreeInv /\ ReportsInv
  BY DEF PrepareInit, TreeInv, ReportsInv, Preparing
<1>4. QED
  BY <1>1, <1>2, <1>3 DEF PrepareInv

(* The inputs, the tree, its reports and what the command in progress      *)
(* knows of them are always of their kinds.                                *)
THEOREM PrepareTypeCorrect == PrepareSpec => []PrepareTypeOK
<1>1. PrepareInit => PrepareTypeOK
  BY PrepareInvBegins DEF PrepareInv
<1>2. QED
  BY <1>1, PrepareTypeStep, PTL DEF PrepareSpec

(* The fetch report and the fetch stamp name locks all of whose inputs are *)
(* there and verified: for any locks that name their inputs differently,   *)
(* any number of workers, and downloads that fail or are killed.           *)
THEOREM FetchReportsAreBacked ==
  ASSUME NamesDiffer
  PROVE  PrepareSpec => []FetchReportIsBacked
<1>1. PrepareInv => FetchReportIsBacked
  BY DEF PrepareInv, FetchedInv
<1>2. QED
  BY <1>1, PrepareInvBegins, PrepareInvStep, PTL DEF PrepareSpec

(* A tree at its final place went through every step for its lock, and a   *)
(* Helium tree was made from the inputs of its lock and no others, for any *)
(* lists and patches and wherever commands are killed.                     *)
THEOREM PublishedTreesArePrepared ==
  ASSUME NamesDiffer
  PROVE  PrepareSpec => []PublishedIsPrepared
<1>1. PrepareInv => PublishedIsPrepared
  <2> SUFFICES ASSUME PrepareInv, source # None
               PROVE  /\ Sanitised(TreeOf(source), recipe[source.lock], product)
                      /\ product = "helium" => source.made = ItemsOf[source.lock]
    BY DEF PublishedIsPrepared
  <2>1. CanPrepare(source.lock) /\ (product = "helium" => source.made = ItemsOf[source.lock])
    BY DEF PrepareInv, TreeInv
  <2>2. Outcome(source.lock) \in Prepared(product, recipe[source.lock])
    BY <2>1 DEF Outcome, CanPrepare
  <2>3. QED
    BY <2>1, <2>2, PreparedIsSanitised DEF TreeOf, CanPrepare
<1>2. QED
  BY <1>1, PrepareInvBegins, PrepareInvStep, PTL DEF PrepareSpec

(* Until a command has been killed the receipt and every report of prepare *)
(* are about the tree they lie beside.                                     *)
THEOREM ReportsAreOfTheSource ==
  ASSUME NamesDiffer
  PROVE  PrepareSpec => []ReportsDescribeSource
<1>1. PrepareInv => ReportsDescribeSource
  <2> SUFFICES ASSUME PrepareInv, Rest, source # None, crashes = 0
               PROVE  receipt = source.lock /\ \A r \in DOMAIN records : records[r] = source.lock
    BY DEF ReportsDescribeSource
  <2>1. /\ receipt = source.lock
        /\ \A k \in 1..6 : records[Reports[k]] = source.lock
    BY DEF PrepareInv, ReportsInv, Rest, Between
  <2>2. DOMAIN records = {Reports[k] : k \in 1..6}
    BY ReportsAre DEF PrepareInv, PrepareTypeOK
  <2>3. QED
    BY <2>1, <2>2
<1>2. QED
  BY <1>1, PrepareInvBegins, PrepareInvStep, PTL DEF PrepareSpec

(* What Gate C asks of a Helium tree and of the reports of its own         *)
(* preparation is enough: of what its lock prunes only the kept build      *)
(* dependencies are there, and no domain is left.                          *)
LEMMA GateCIsEnough ==
  ASSUME PrepareInv, source # None, crashes = 0,
         command # "receipt", GateCHolds
  PROVE  LET r == recipe[source.lock]
             t == TreeOf(source) IN
         /\ t.layers = Layers
         /\ t.files \cap r.pruning \subseteq r.kept
         /\ r.domains \cap t.files \subseteq t.substituted \cup Links
         /\ source.made = ItemsOf[source.lock]
<1> DEFINE r == recipe[source.lock]
           o == Outcome(source.lock)
<1>1. \A k \in 1..6 : records[Reports[k]] = source.lock
  BY DEF PrepareInv, ReportsInv
<1>2. /\ records["pruning"] = source.lock /\ records["domain-substitution"] = source.lock
      /\ records["toolchain-selection"] = source.lock
  <2>1. /\ Reports[3] = "pruning" /\ Reports[4] = "domain-substitution"
        /\ Reports[5] = "toolchain-selection"
    BY DEF Reports
  <2>2. QED
    BY <1>1, <2>1
<1>3. /\ PruningHolds(o.tree, o.findings) /\ DomainsHold(o.findings)
      /\ ToolchainHolds(o.findings)
  BY <1>2 DEF GateCHolds, Told, TreeOf
<1>4. CanPrepare(source.lock) /\ (product = "helium" => source.made = ItemsOf[source.lock])
  BY DEF PrepareInv, TreeInv
<1>5. o \in Prepared(product, r) /\ r \in Recipe
  BY <1>4 DEF Outcome, CanPrepare
<1> HIDE DEF o, r
<1>6. product = "helium"
  <2>1. SUFFICES ASSUME product # "helium" PROVE FALSE
    OBVIOUS
  <2>2. o \in Chromium(r)
    BY <1>5, <2>1 DEF Prepared
  <2>3. o.findings.target = RustTarget
    BY <1>5, <2>2, ChromiumTree
  <2>4. QED
    BY <1>3, <2>3 DEF ToolchainHolds, RustTarget, ApprovedTargets
<1>7. o \in Helium(r)
  BY <1>5, <1>6 DEF Prepared
<1>8. PICK files \in SUBSET Paths :
        /\ o.tree.layers = Layers /\ o.tree.substituted = r.domains \cap files
        /\ o.findings.requested = r.pruning /\ o.findings.retained \subseteq r.kept
        /\ o.findings.unresolved = r.domains \ files
  BY <1>5, <1>7, HeliumTree
<1>9. r.domains \subseteq o.tree.substituted
  BY <1>3, <1>8 DEF DomainsHold
<1>10. o.tree.files \cap r.pruning \subseteq r.kept
  BY <1>3, <1>8 DEF PruningHolds
<1>11. QED
  BY <1>4, <1>6, <1>8, <1>9, <1>10 DEF o, r, TreeOf

(* What Gate C has accepted, without a command killed before, is free of   *)
(* everything its lock prunes but the kept build dependencies and has no   *)
(* domain left, though the gate goes by the reports.                       *)
THEOREM AcceptedTreesArePrepared ==
  ASSUME NamesDiffer
  PROVE  PrepareSpec => []AcceptedIsPrepared
<1> DEFINE Inv == PrepareInv /\ AcceptedIsPrepared
<1>1. PrepareInit => Inv
  BY PrepareInvBegins DEF PrepareInit, AcceptedIsPrepared
<1>2. Inv /\ [PrepareNext]_prepareVars => Inv'
  <2> SUFFICES ASSUME Inv, [PrepareNext]_prepareVars PROVE AcceptedIsPrepared'
    BY PrepareInvStep
  <2>1. CASE GateC
    <3>1. /\ UNCHANGED <<source, recipe, product, crashes>> /\ source # None /\ command # "receipt"
          /\ command' = "accepted" => GateCHolds
    BY <2>1 DEF GateC, Goto, setting, volume,
       Rest, Between
    <3>2. TreeOf(source)' = TreeOf(source)
    BY <3>1 DEF TreeOf, Outcome
    <3>3. QED
    BY <3>1, <3>2, GateCIsEnough DEF AcceptedIsPrepared
  <2>2. CASE UNCHANGED prepareVars
    <3>1. UNCHANGED <<source, recipe, product, crashes, command>>
    BY <2>2 DEF prepareVars, volume
    <3>2. TreeOf(source)' = TreeOf(source)
    BY <3>1 DEF TreeOf, Outcome
    <3>3. QED
    BY <3>1, <3>2 DEF AcceptedIsPrepared
  <2>3. ASSUME command' # "accepted" PROVE AcceptedIsPrepared'
    BY <2>3 DEF AcceptedIsPrepared
  <2>4. CASE Fetch
    <3>1. command' # "accepted"
    BY <2>4 DEF Fetch, BeginFetch, FetchOne, Downloaded,
       DownloadFails, FetchFails, WriteFetchReport,
       WriteFetchStamp, Goto
    <3>2. QED
    BY <2>3, <3>1
  <2>5. CASE Prepare
    <3>1. command' # "accepted"
    BY <2>5 DEF Prepare, Reuse, BeginPrepare, Transform,
       TransformFails, WriteRecord, Rename, WriteReceipt,
       Goto
    <3>2. QED
    BY <2>3, <3>1
  <2>6. CASE NewImage \/ MoveAway \/ Killed
    <3>1. command' # "accepted"
    BY <2>6 DEF NewImage, MoveAway, Killed, Goto
    <3>2. QED
    BY <2>3, <3>1
  <2>7. QED
    BY <2>1, <2>2, <2>4, <2>5, <2>6 DEF PrepareNext
<1>3. QED
  BY <1>1, <1>2, PTL DEF PrepareSpec
=============================================================================
