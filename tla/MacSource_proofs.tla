---------------------------- MODULE MacSource_proofs ----------------------------
(***************************************************************************)
(* Proofs about MacSource for every set of revisions and of overlay        *)
(* series, with crashes, rejected patches and edits at any moment.         *)
(***************************************************************************)
EXTENDS MacSource, SequenceTheorems, TLAPS

(* The tree a running prepare works on: half way while the ungoogled       *)
(* patches go in, and no longer half way when the overlay's turn comes.    *)
WorkingTree ==
  /\ pc = "patching" => tree.body = "midway" /\ marker = None
  /\ pc = "overlay" => tree.body # "midway"

(* Between the tree and the patches left to apply, a running prepare has   *)
(* everything its marker will claim, unless the series was edited under    *)
(* it.  A marker cannot survive its tree into the next one that is         *)
(* prepared: the metadata is removed when the tree is gone.                *)
PrepareIsAhead ==
  /\ pc = "rm_metadata" => tree = None
  /\ "edit" \notin mishaps =>
       /\ pc = "patching" => job.overlay = series
       /\ pc = "overlay" /\ tree.body = "ungoogled" =>
            Range(job.overlay) \subseteq Range(tree.overlay \o job.todo)

(* The tree of a preparation of revision r that has patches s in. *)
Prepared(r, s) == [base |-> r, body |-> "ungoogled", files |-> "all", overlay |-> s]

(* While nothing has gone wrong, a marker exactly describes the tree; a    *)
(* tree without a marker is whole and has no overlay; and a running        *)
(* prepare is on its way from there to the tree its marker will describe.  *)
NothingIsAmiss ==
  mishaps = {} =>
    /\ pc \in Resting /\ marker # None => tree = Prepared(marker.base, marker.overlay)
    /\ pc \in Resting \cup {"patching"} /\ tree # None /\ marker = None =>
         tree.files = "all" /\ tree.overlay = <<>>
    /\ pc = "acquire" => marker = None /\ tree = Extracted(job.base)
    /\ pc = "patching" => marker = None /\ tree.base = job.base /\ job.overlay = series
    /\ pc = "overlay" => /\ tree = Prepared(job.base, tree.overlay)
                         /\ tree.overlay \o job.todo = job.overlay
    /\ pc = "prepared" => marker = [base |-> job.base, overlay |-> job.overlay]
-----------------------------------------------------------------------------

(* A configured series is a sequence of patches. *)
LEMMA SeriesAreSequences ==
  ASSUME NEW s \in Series
  PROVE  s \in Seq(Patches)
<1>1. s \in Seq(Range(s))
  BY SourceAssumption DEF SourceAssumption
<1>2. Range(s) \subseteq Patches
  BY DEF Patches
<1>3. QED BY ONLY <1>1, <1>2, SeqMonotonic

(* What is left of a series after any prefix is a sequence of patches. *)
LEMMA RestsAreSequences ==
  ASSUME NEW s \in Series, NEW m \in Nat
  PROVE  SubSeq(s, m + 1, Len(s)) \in Seq(Patches)
<1>1. s \in Seq(Patches) /\ Len(s) \in Nat
  BY SeriesAreSequences
<1>2. \A i \in (m + 1)..Len(s) : s[i] \in Patches
  BY <1>1
<1>3. m + 1 \in Int /\ Len(s) \in Int
  BY <1>1
<1>4. QED BY ONLY <1>2, <1>3, SubSeqProperties

(* What a step leaves in src/: the tree as it was, no tree, an extracted   *)
(* one, one whose body or completeness alone changed, or one with one more *)
(* overlay patch.                                                          *)
LEMMA TreeStep ==
  ASSUME TypeOK, [Next]_vars
  PROVE  \/ tree' = tree
         \/ tree' = None
         \/ \E r \in Revisions :
              tree' = Extracted(r)
         \/ \E b \in Bodies : tree # None /\ tree' = [tree EXCEPT !.body = b]
         \/ tree # None /\ tree' = [tree EXCEPT !.files = "some"]
         \/ \E p \in Patches :
              /\ tree # None /\ p \notin Range(tree.overlay)
              /\ tree' = [tree EXCEPT !.overlay = Append(@, p)]
<1> USE DEF Bodies
<1>1. CASE Fetch
  BY <1>1 DEF TypeOK, Fetch, FetchReuse, FetchExtract, FetchRecord, disk
<1>2. CASE PrepareFresh
  BY <1>2 DEF PrepareFresh
<1>3. CASE PrepareUngoogled
  BY <1>3 DEF TypeOK, PrepareUngoogled
<1>4. CASE PrepareApply
  <2>1. Head(job.todo) \in Patches
    <3>1. job.todo \in Seq(Patches) /\ job.todo # <<>>
      BY <1>4 DEF TypeOK, PrepareApply
    <3>2. QED BY ONLY <3>1, HeadTailProperties
  <2>2. QED BY <1>4, <2>1 DEF TypeOK, PrepareApply
<1>5. CASE PrepareAppend \/ PrepareMark \/ PrepareReuse \/ PrepareReject
  BY <1>5 DEF PrepareAppend, PrepareMark, PrepareReuse, PrepareReject, disk
<1>6. CASE Reset
  BY <1>6 DEF Reset, ResetBegin, ResetSource, ResetMetadata
<1>7. CASE Crash \/ EditLock \/ EditSeries \/ UNCHANGED vars
  BY <1>7 DEF Crash, EditLock, EditSeries, disk, vars
<1>8. QED BY <1>1, <1>2, <1>3, <1>4, <1>5, <1>6, <1>7 DEF Next, Prepare

(* What the commands make of a tree is a tree. *)
LEMMA EditsAreTrees ==
  /\ \A r \in Revisions : Extracted(r) \in Trees
  /\ \A t \in Trees, b \in Bodies : [t EXCEPT !.body = b] \in Trees
  /\ \A t \in Trees : [t EXCEPT !.files = "some"] \in Trees
  /\ \A t \in Trees, p \in Patches : [t EXCEPT !.overlay = Append(@, p)] \in Trees
<1>1. ASSUME NEW t \in Trees, NEW p \in Patches
      PROVE  [t EXCEPT !.overlay = Append(@, p)] \in Trees
  <2>1. t.overlay \in Seq(Patches)
    BY DEF Trees
  <2>2. Append(t.overlay, p) \in Seq(Patches)
    BY ONLY <2>1, AppendProperties, p \in Patches
  <2>3. QED BY <2>2 DEF Trees
<1>2. <<>> \in Seq(Patches)
  BY EmptySeq
<1>3. QED BY <1>1, <1>2 DEF Trees, Bodies, Extracted

(* Every command writes trees, records and markers of the right type, and  *)
(* a command past its first step keeps its tree.                           *)
LEMMA TypeStep ==
  ASSUME TypeOK, [Next]_vars
  PROVE  TypeOK'
<1> DEFINE JobType == [base : Revisions, overlay : Series, todo : Seq(Patches)]
<1>a. tree' \in Trees \cup {None}
  BY TreeStep, EditsAreTrees DEF TypeOK
<1>b. <<>> \in Seq(Patches) /\ series \in Seq(Patches)
  BY EmptySeq, SeriesAreSequences DEF TypeOK
<1>d. /\ pc = "patching" => [tree EXCEPT !.body = "ungoogled"] # None
      /\ pc = "overlay" =>
           \A p \in Patches : [tree EXCEPT !.overlay = Append(@, p)] # None
      /\ tree # None => [tree EXCEPT !.body = "midway"] # None
      /\ \A r \in Revisions : Extracted(r) # None
  <2>1. None \notin Trees
    BY NoneAssumption
  <2>2. QED BY <2>1, EditsAreTrees DEF TypeOK, Bodies
<1>c. Start => job' \in JobType
  BY <1>b DEF TypeOK, Start
<1> USE DEF Resting, Busy
<1>1. CASE Fetch
  BY <1>1, <1>a, <1>c, <1>d DEF TypeOK, Fetch, FetchReuse, FetchExtract, FetchRecord, Start,
     inputs, disk
<1>2. CASE PrepareFresh
  BY <1>2, <1>a, <1>c, <1>d DEF TypeOK, PrepareFresh, Start, inputs
<1>3. CASE PrepareUngoogled
  BY <1>3, <1>a, <1>b, <1>d DEF TypeOK, PrepareUngoogled, inputs
<1>4. CASE PrepareAppend
  <2>1. Len(marker.overlay) \in Nat
    <3>1. marker.overlay \in Overlays
      BY <1>4 DEF TypeOK, PrepareAppend, Markers
    <3>2. marker.overlay \in Seq(Patches)
      BY <3>1, <1>b, SeriesAreSequences DEF Overlays
    <3>3. QED BY <3>2
  <2>2. job' \in JobType
    BY <1>4, <2>1, RestsAreSequences DEF TypeOK, PrepareAppend
  <2>3. QED BY <1>4, <2>2 DEF TypeOK, PrepareAppend, inputs, disk
<1>5. CASE PrepareApply
  <2>1. Tail(job.todo) \in Seq(Patches)
    <3>1. job.todo \in Seq(Patches) /\ job.todo # <<>>
      BY <1>5 DEF TypeOK, PrepareApply
    <3>2. QED BY ONLY <3>1, HeadTailProperties
  <2>2. job' \in JobType
    BY <1>5, <2>1 DEF TypeOK, PrepareApply
  <2>3. Head(job.todo) \in Patches
    <3>1. job.todo \in Seq(Patches) /\ job.todo # <<>>
      BY <1>5 DEF TypeOK, PrepareApply
    <3>2. QED BY ONLY <3>1, HeadTailProperties
  <2>4. QED BY <1>5, <1>a, <1>d, <2>2, <2>3 DEF TypeOK, PrepareApply, inputs
<1>6. CASE PrepareMark
  BY <1>6 DEF TypeOK, PrepareMark, Markers, Overlays, inputs
<1>7. CASE PrepareReuse \/ PrepareReject
  BY <1>7, <1>c DEF TypeOK, PrepareReuse, PrepareReject, Start, inputs, disk
<1>8. CASE Reset
  BY <1>8, <1>a, <1>c DEF TypeOK, Reset, ResetBegin, ResetSource, ResetMetadata, Start, inputs
<1>9. CASE Crash \/ EditLock \/ EditSeries \/ UNCHANGED vars
  BY <1>9 DEF TypeOK, Crash, EditLock, EditSeries, vars, inputs, disk
<1>10. QED BY <1>1, <1>2, <1>3, <1>4, <1>5, <1>6, <1>7, <1>8, <1>9 DEF Next, Prepare

(* Type correctness under every fault.                                     *)
THEOREM TypeCorrect == Spec => []TypeOK
<1>1. Init => TypeOK
  <2>1. <<>> \in Seq(Patches) /\ <<>> \in Overlays
    BY EmptySeq DEF Overlays
  <2>2. Init => /\ lock \in Revisions /\ series \in Series
               /\ job \in [base : Revisions, overlay : Series, todo : Seq(Patches)]
    BY <2>1 DEF Init
  <2>3. Init => tree \in Trees \cup {None} /\ marker \in Markers \cup {None}
    <3>1. ASSUME Init
          PROVE  /\ [Extracted(lock) EXCEPT !.body = "ungoogled"] \in Trees
                 /\ [base |-> lock, overlay |-> <<>>] \in Markers
      BY <2>1, <2>2, <3>1, EditsAreTrees DEF Bodies, Markers
    <3>2. QED BY <3>1 DEF Init
  <2>4. QED BY <2>2, <2>3 DEF Init, TypeOK, Resting
<1>2. TypeOK /\ [Next]_vars => TypeOK'
  BY TypeStep
<1>3. QED BY <1>1, <1>2, PTL DEF Spec

(* A tree becomes half patched only without a marker, and a marker is      *)
(* written only for a tree that is not half patched.                       *)
LEMMA PartialStep ==
  ASSUME TypeOK, WorkingTree, PartialIsUnpublished, [Next]_vars
  PROVE  WorkingTree' /\ PartialIsUnpublished'
<1> USE DEF Resting, Busy, Start, WorkingTree, PartialIsUnpublished
<1>1. CASE Fetch
  BY <1>1 DEF Fetch, FetchReuse, FetchExtract, FetchRecord, Extracted, inputs, disk
<1>2. CASE PrepareFresh
  BY <1>2 DEF TypeOK, Trees, PrepareFresh
<1>3. CASE PrepareUngoogled
  BY <1>3 DEF TypeOK, Trees, PrepareUngoogled
<1>4. CASE PrepareAppend
  BY <1>4 DEF PrepareAppend, disk
<1>5. CASE PrepareApply
  BY <1>5 DEF TypeOK, Trees, PrepareApply
<1>6. CASE PrepareMark
  BY <1>6 DEF PrepareMark
<1>7. CASE PrepareReuse \/ PrepareReject
  BY <1>7 DEF PrepareReuse, PrepareReject, disk
<1>8. CASE Reset
  BY <1>8 DEF TypeOK, Trees, Reset, ResetBegin, ResetSource, ResetMetadata
<1>9. CASE Crash \/ EditLock \/ EditSeries \/ UNCHANGED vars
  BY <1>9 DEF Crash, EditLock, EditSeries, vars, disk
<1>10. QED BY <1>1, <1>2, <1>3, <1>4, <1>5, <1>6, <1>7, <1>8, <1>9 DEF Next, Prepare

(* A preparation that stopped half way is never published, by whichever    *)
(* command comes next.                                                     *)
THEOREM PartialsAreUnpublished == Spec => []PartialIsUnpublished
<1>1. Init => WorkingTree /\ PartialIsUnpublished
  BY DEF Init, WorkingTree, PartialIsUnpublished, Extracted
<1>2. TypeOK /\ WorkingTree /\ PartialIsUnpublished /\ [Next]_vars
        => WorkingTree' /\ PartialIsUnpublished'
  BY PartialStep
<1>3. QED BY <1>1, <1>2, TypeCorrect, PTL DEF Spec

(* Appending an element that a sequence does not have keeps it injective.  *)
LEMMA AppendKeepsInjective ==
  ASSUME NEW S, NEW s \in Seq(S), NEW e \in S, IsInjective(s), e \notin Range(s)
  PROVE  IsInjective(Append(s, e))
<1> DEFINE t == Append(s, e)
<1>1. /\ t \in Seq(S) /\ Len(t) = Len(s) + 1 /\ t[Len(s) + 1] = e
      /\ \A i \in 1..Len(s) : t[i] = s[i]
  BY AppendProperties
<1>2. \A i \in 1..Len(s) : s[i] # e
  BY DEF Range
<1>3. \A i, j \in 1..Len(s) : s[i] = s[j] => i = j
  BY DEF IsInjective
<1>4. \A i, j \in 1..(Len(s) + 1) : t[i] = t[j] => i = j
  <2> HIDE DEF t
  <2> QED BY <1>1, <1>2, <1>3
<1>5. DOMAIN t = 1..(Len(s) + 1)
  <2> HIDE DEF t
  <2> QED BY <1>1
<1>6. QED BY <1>4, <1>5 DEF IsInjective

(* No history of stopped, refused and repeated commands applies an overlay *)
(* patch twice to one tree.                                                *)
THEOREM PatchesAppliedOnce == Spec => []NoPatchTwice
<1>1. Init => NoPatchTwice
  BY DEF Init, NoPatchTwice, IsInjective, Extracted
<1>2. ASSUME TypeOK, NoPatchTwice, [Next]_vars
      PROVE  NoPatchTwice'
  <2>1. CASE tree' = tree \/ tree' = None
    BY <1>2, <2>1 DEF NoPatchTwice
  <2>2. ASSUME NEW r \in Revisions,
               tree' = Extracted(r)
        PROVE  NoPatchTwice'
    BY <2>2 DEF NoPatchTwice, IsInjective, Extracted
  <2>3. ASSUME NEW b \in Bodies, tree # None, tree' = [tree EXCEPT !.body = b]
        PROVE  NoPatchTwice'
    BY <1>2, <2>3 DEF NoPatchTwice, TypeOK, Trees
  <2>4. ASSUME tree # None, tree' = [tree EXCEPT !.files = "some"]
        PROVE  NoPatchTwice'
    BY <1>2, <2>4 DEF NoPatchTwice, TypeOK, Trees
  <2>5. ASSUME NEW p \in Patches, tree # None, p \notin Range(tree.overlay),
               tree' = [tree EXCEPT !.overlay = Append(@, p)]
        PROVE  NoPatchTwice'
    <3>1. tree.overlay \in Seq(Patches) /\ IsInjective(tree.overlay)
      BY <1>2, <2>5 DEF NoPatchTwice, TypeOK, Trees
    <3>2. IsInjective(Append(tree.overlay, p))
      BY <2>5, <3>1, AppendKeepsInjective
    <3>3. tree'.overlay = Append(tree.overlay, p)
      BY <1>2, <2>5 DEF TypeOK, Trees
    <3>4. QED BY <3>2, <3>3 DEF NoPatchTwice
  <2>6. QED BY <1>2, <2>1, <2>2, <2>3, <2>5, <2>4, TreeStep
<1>3. QED BY <1>1, <1>2, TypeCorrect, PTL DEF Spec
-----------------------------------------------------------------------------

(* Applying the next patch moves it from what is left to what is there.    *)
LEMMA HeadMoves ==
  ASSUME NEW S, NEW s \in Seq(S), NEW t \in Seq(S), t # <<>>
  PROVE  Append(s, Head(t)) \o Tail(t) = s \o t
<1> DEFINE h == Head(t)
           w == Tail(t)
           l == Append(s, h) \o w
           r == s \o t
<1>1. /\ h \in S /\ w \in Seq(S) /\ Len(w) = Len(t) - 1 /\ Len(t) \in Nat /\ Len(s) \in Nat
      /\ \A i \in 1..Len(w) : w[i] = t[i + 1]
      /\ h = t[1] /\ Len(t) # 0
  BY HeadTailProperties, LenProperties, EmptySeq
<1>2. /\ Append(s, h) \in Seq(S) /\ Len(Append(s, h)) = Len(s) + 1
      /\ \A i \in 1..Len(s) : Append(s, h)[i] = s[i]
      /\ Append(s, h)[Len(s) + 1] = h
  <2> HIDE DEF h
  <2> QED BY ONLY <1>1, s \in Seq(S), AppendProperties
<1>3. /\ l \in Seq(S) /\ Len(l) = Len(s) + Len(t)
      /\ \A i \in 1..(Len(s) + Len(t)) :
            l[i] = IF i <= Len(s) + 1 THEN Append(s, h)[i] ELSE w[i - (Len(s) + 1)]
  <2> DEFINE a == Append(s, h)
  <2>1. a \in Seq(S) /\ w \in Seq(S) /\ Len(a) = Len(s) + 1
    BY <1>1, <1>2
  <2> HIDE DEF w, a
  <2>2. /\ a \o w \in Seq(S) /\ Len(a \o w) = Len(a) + Len(w)
        /\ \A i \in 1..(Len(a) + Len(w)) : (a \o w)[i] = IF i <= Len(a) THEN a[i] ELSE w[i - Len(a)]
    BY ONLY <2>1, ConcatProperties
  <2>3. Len(a) + Len(w) = Len(s) + Len(t)
    BY <1>1, <2>1
  <2>4. QED BY <2>1, <2>2, <2>3 DEF a
<1>4. /\ r \in Seq(S) /\ Len(r) = Len(s) + Len(t)
      /\ \A i \in 1..(Len(s) + Len(t)) : r[i] = IF i <= Len(s) THEN s[i] ELSE t[i - Len(s)]
  BY ONLY s \in Seq(S), t \in Seq(S), ConcatProperties
<1> HIDE DEF h, w, l, r
<1>5. ASSUME NEW i \in 1..(Len(s) + Len(t))
      PROVE  l[i] = r[i]
  <2>1. CASE i <= Len(s)
    BY <1>1, <1>2, <1>3, <1>4, <2>1
  <2>2. CASE i = Len(s) + 1
    BY <1>1, <1>2, <1>3, <1>4, <2>2
  <2>3. CASE i > Len(s) + 1
    <3>1. i - (Len(s) + 1) \in 1..Len(w) /\ w[i - (Len(s) + 1)] = t[i - Len(s)]
      BY <1>1, <2>3
    <3>2. QED BY <1>1, <1>3, <1>4, <2>3, <3>1
  <2>4. QED BY <1>1, <2>1, <2>2, <2>3
<1>6. l = r
  BY ONLY <1>3, <1>4, <1>5, SeqEqual
<1>7. QED BY <1>6 DEF l, r, h, w

(* The patches an append has left are the series without the prefix.       *)
LEMMA RestCompletes ==
  ASSUME NEW S, NEW m \in Seq(S), NEW s \in Seq(S), IsStrictPrefix(m, s)
  PROVE  m \o SubSeq(s, Len(m) + 1, Len(s)) = s
<1>1. /\ Len(m) <= Len(s) /\ SubSeq(m, 1, Len(m)) = SubSeq(s, 1, Len(m))
      /\ Len(m) \in Nat /\ Len(s) \in Nat
  BY LenProperties DEF IsStrictPrefix, IsPrefix
<1>2. SubSeq(m, 1, Len(m)) = m /\ SubSeq(s, 1, Len(s)) = s
  BY ONLY m \in Seq(S), s \in Seq(S), SubSeqFull
<1>3. SubSeq(s, 1, Len(m)) \o SubSeq(s, Len(m) + 1, Len(s)) = SubSeq(s, 1, Len(s))
  <2>1. 1 \in 1..(Len(s) + 1) /\ Len(m) \in 0..Len(s) /\ Len(s) \in Len(m)..Len(s) /\ 1 - 1 = 0
    BY <1>1
  <2>2. QED BY ONLY <2>1, s \in Seq(S), ConcatAdjacentSubSeq
<1>4. QED BY <1>1, <1>2, <1>3

(* Every marker was written for a series, or for none. *)
LEMMA MarkersAreSequences ==
  ASSUME TypeOK, marker # None
  PROVE  marker.overlay \in Seq(Patches)
BY SeriesAreSequences, EmptySeq DEF TypeOK, Markers, Overlays

(* What a prepare has applied and what it has left are sequences, and one  *)
(* more patch moves from one to the other.                                 *)
LEMMA ApplyStep ==
  ASSUME TypeOK, PrepareApply
  PROVE  /\ tree' = [tree EXCEPT !.overlay = Append(tree.overlay, Head(job.todo))]
         /\ job' = [job EXCEPT !.todo = Tail(job.todo)]
         /\ tree'.overlay \o job'.todo = tree.overlay \o job.todo
<1>1. tree \in Trees /\ tree.overlay \in Seq(Patches)
  BY DEF TypeOK, Trees, PrepareApply
<1>2. job.todo \in Seq(Patches) /\ job.todo # <<>>
  BY DEF TypeOK, PrepareApply
<1>3. Append(tree.overlay, Head(job.todo)) \o Tail(job.todo) = tree.overlay \o job.todo
  BY ONLY <1>1, <1>2, HeadMoves
<1>4. QED BY <1>1, <1>3 DEF TypeOK, Trees, PrepareApply
-----------------------------------------------------------------------------

(* The marker is written for patches that are in, and patches that are in  *)
(* stay: MarkerIsBehind with what a running prepare is about to claim.     *)
LEMMA AheadStep ==
  ASSUME TypeOK, WorkingTree, PrepareIsAhead, MarkerIsBehind, [Next]_vars
  PROVE  PrepareIsAhead' /\ MarkerIsBehind'
<1> USE DEF Resting, Busy, Start, PrepareIsAhead, MarkerIsBehind
<1>t. tree # None => tree \in Trees /\ tree.overlay \in Seq(Patches)
  BY DEF TypeOK, Trees
<1>j. job.overlay \in Seq(Patches) /\ job.todo \in Seq(Patches) /\ series \in Seq(Patches)
  BY SeriesAreSequences DEF TypeOK
<1>1. CASE Fetch
  BY <1>1 DEF Fetch, FetchReuse, FetchExtract, FetchRecord, Extracted, inputs, disk
<1>2. CASE PrepareFresh
  BY <1>2, <1>t DEF Trees, PrepareFresh, inputs
<1>3. CASE PrepareUngoogled
  <2>1. tree # None /\ marker = None /\ marker' = None /\ mishaps' = mishaps
    BY <1>3 DEF TypeOK, WorkingTree, PrepareUngoogled
  <2>2. tree'.overlay = tree.overlay
    BY <1>3, <1>t, <2>1 DEF Trees, PrepareUngoogled
  <2>3. Range(series) \subseteq Range(tree.overlay \o series)
    <3>1. Range(tree.overlay \o series) = Range(tree.overlay) \cup Range(series)
      BY ONLY <1>t, <1>j, <2>1, RangeConcatenation
    <3>2. QED BY <3>1
  <2>4. pc' = "overlay" => job'.todo = series /\ job'.overlay = job.overlay
    BY <1>3 DEF TypeOK, PrepareUngoogled
  <2>5. pc = "patching" /\ pc' \in {"overlay", "failed"}
    BY <1>3 DEF PrepareUngoogled
  <2>6. QED BY <2>1, <2>2, <2>3, <2>4, <2>5
<1>4. CASE PrepareAppend
  <2> DEFINE rest == SubSeq(series, Len(marker.overlay) + 1, Len(series))
  <2>1. tree # None /\ marker # None /\ UNCHANGED <<disk, mishaps>> /\ pc' = "overlay"
    BY <1>4 DEF PrepareAppend
  <2>2. job'.overlay = series /\ job'.todo = rest /\ IsStrictPrefix(marker.overlay, series)
    BY <1>4 DEF PrepareAppend
  <2>3. marker.overlay \in Seq(Patches) /\ rest \in Seq(Patches)
    <3>1. marker.overlay \in Seq(Patches) /\ Len(marker.overlay) \in Nat
      BY <2>1, MarkersAreSequences
    <3>2. QED BY <3>1, RestsAreSequences DEF TypeOK
  <2>4. marker.overlay \o rest = series
    BY ONLY <1>j, <2>2, <2>3, RestCompletes
  <2> HIDE DEF rest
  <2>5. /\ Range(marker.overlay \o rest) = Range(marker.overlay) \cup Range(rest)
        /\ Range(tree.overlay \o rest) = Range(tree.overlay) \cup Range(rest)
    BY ONLY <1>t, <2>1, <2>3, RangeConcatenation
  <2>6. QED BY <2>1, <2>2, <2>4, <2>5 DEF disk
<1>5. CASE PrepareApply
  <2>1. /\ tree' = [tree EXCEPT !.overlay = Append(tree.overlay, Head(job.todo))]
        /\ job' = [job EXCEPT !.todo = Tail(job.todo)]
        /\ tree'.overlay \o job'.todo = tree.overlay \o job.todo
    BY <1>5, ApplyStep
  <2>2. tree # None /\ pc = "overlay" /\ pc' = "overlay" /\ UNCHANGED <<marker, mishaps>>
    BY <1>5 DEF TypeOK, PrepareApply
  <2>3. tree'.body = tree.body /\ tree'.overlay = Append(tree.overlay, Head(job.todo))
    BY <1>t, <2>1, <2>2 DEF Trees
  <2>4. job'.overlay = job.overlay
    BY <2>1 DEF TypeOK
  <2>5. Range(tree.overlay) \subseteq Range(tree'.overlay)
    <3>1. Head(job.todo) \in Patches
      BY <1>5, <1>j, HeadTailProperties DEF PrepareApply
    <3> DEFINE h == Head(job.todo)
    <3> HIDE DEF h
    <3>2. h \in Patches
      BY <3>1 DEF h
    <3>3. Append(tree.overlay, h) = tree.overlay \o <<h>> /\ <<h>> \in Seq(Patches)
      BY <1>t, <2>2, <3>2, AppendIsConcat
    <3>4. Range(tree.overlay \o <<h>>) = Range(tree.overlay) \cup Range(<<h>>)
      BY ONLY <1>t, <2>2, <3>3, RangeConcatenation
    <3>5. QED BY <2>3, <3>3, <3>4 DEF h
  <2>6. QED BY <2>1, <2>2, <2>3, <2>4, <2>5
<1>6. CASE PrepareMark
  <2>1. tree # None /\ tree.overlay \o job.todo = tree.overlay
    <3>1. tree # None /\ job.todo = <<>>
      BY <1>6 DEF TypeOK, PrepareMark
    <3>2. QED BY <1>t, <3>1, ConcatEmptySeq
  <2>2. QED BY <1>6, <2>1 DEF PrepareMark
<1>7. CASE PrepareReuse \/ PrepareReject
  BY <1>7 DEF PrepareReuse, PrepareReject, disk
<1>8. CASE Reset
  BY <1>8, <1>t DEF Trees, Reset, ResetBegin, ResetSource, ResetMetadata
<1>9. CASE Crash \/ EditLock \/ EditSeries \/ UNCHANGED vars
  BY <1>9 DEF Crash, EditLock, EditSeries, vars, inputs, disk
<1>10. QED BY <1>1, <1>2, <1>3, <1>4, <1>5, <1>6, <1>7, <1>8, <1>9 DEF Next, Prepare

(* The marker claims no overlay patch that the tree of a finished or       *)
(* stopped prepare lacks, unless the series was edited under it.           *)
THEOREM MarkersAreBehind == Spec => []MarkerIsBehind
<1>1. Init => PrepareIsAhead /\ MarkerIsBehind
  BY DEF Init, PrepareIsAhead, MarkerIsBehind, Extracted
<1>2. Init => WorkingTree /\ PartialIsUnpublished
  BY DEF Init, WorkingTree, PartialIsUnpublished, Extracted
<1>3. TypeOK /\ WorkingTree /\ PartialIsUnpublished /\ [Next]_vars
        => WorkingTree' /\ PartialIsUnpublished'
  BY PartialStep
<1>4. TypeOK /\ WorkingTree /\ PrepareIsAhead /\ MarkerIsBehind /\ [Next]_vars
        => PrepareIsAhead' /\ MarkerIsBehind'
  BY AheadStep
<1>5. QED BY <1>1, <1>2, <1>3, <1>4, TypeCorrect, PTL DEF Spec

(* Without a mishap every command takes the tree, the marker and its own   *)
(* job from one agreement to the next.                                     *)
LEMMA ExactStep ==
  ASSUME TypeOK, NothingIsAmiss, PrepareIsAhead, [Next]_vars
  PROVE  NothingIsAmiss'
<1> USE DEF Resting, Busy, Start, NothingIsAmiss
<1>t. /\ tree # None => tree \in Trees /\ tree.overlay \in Seq(Patches)
      /\ marker # None => marker \in Markers /\ marker.overlay \in Seq(Patches)
  BY MarkersAreSequences DEF TypeOK, Trees
<1>j. job.overlay \in Seq(Patches) /\ job.todo \in Seq(Patches) /\ series \in Seq(Patches)
  BY SeriesAreSequences DEF TypeOK
<1>n. \A r \in Revisions, s \in Seq(Patches) : Prepared(r, s) # None
  <2>1. ASSUME NEW r \in Revisions, NEW s \in Seq(Patches)
        PROVE  Prepared(r, s) \in Trees
    BY DEF Prepared, Trees, Bodies
  <2>2. QED BY <2>1, NoneAssumption
<1>m. marker \in Markers => marker.base \in Revisions
  BY DEF Markers
<1>1. CASE Fetch
  <2>1. CASE FetchReuse
    BY <1>1, <2>1 DEF FetchReuse, inputs, disk
  <2>2. CASE FetchExtract
    <3>1. mishaps = {} => marker = None
      BY <2>2, <1>t, <1>n, <1>m DEF FetchExtract
    <3>2. QED BY <2>2, <3>1 DEF FetchExtract, inputs
  <2>3. CASE FetchRecord
    BY <2>3 DEF FetchRecord, Extracted, inputs
  <2>4. QED BY <1>1, <2>1, <2>2, <2>3 DEF Fetch
<1>2. CASE PrepareFresh
  BY <1>2, <1>t DEF Trees, PrepareFresh, inputs
<1>3. CASE PrepareUngoogled
  <2>1. tree # None /\ tree \in Trees /\ pc = "patching" /\ mishaps' = mishaps /\ marker' = marker
    BY <1>3, <1>t DEF TypeOK, PrepareUngoogled
  <2>2. /\ tree' \in Trees /\ tree'.base = tree.base /\ tree'.body = "ungoogled"
        /\ tree'.files = tree.files /\ tree'.overlay = tree.overlay
    BY <1>3, <2>1 DEF Trees, Bodies, PrepareUngoogled
  <2>3. CASE pc' = "failed"
    BY <2>1, <2>2, <2>3
  <2>4. CASE pc' = "overlay"
    <3>1. job'.base = job.base /\ job'.overlay = job.overlay /\ job'.todo = series
      BY <1>3, <2>4 DEF TypeOK, PrepareUngoogled
    <3>2. mishaps = {} => tree' = Prepared(job.base, <<>>)
      BY <2>1, <2>2 DEF Trees, Prepared
    <3>3. <<>> \o series = series
      BY <1>j, ConcatEmptySeq
    <3>4. QED BY <2>1, <2>2, <2>4, <3>1, <3>2, <3>3 DEF Prepared
  <2>5. QED BY <1>3, <2>3, <2>4 DEF PrepareUngoogled
<1>4. CASE PrepareAppend
  <2> DEFINE rest == SubSeq(series, Len(marker.overlay) + 1, Len(series))
  <2>1. marker # None /\ UNCHANGED <<disk, mishaps>> /\ pc' = "overlay" /\ pc \in Resting
    BY <1>4 DEF PrepareAppend
  <2>2. /\ job'.overlay = series /\ job'.todo = rest /\ job'.base = marker.base
        /\ IsStrictPrefix(marker.overlay, series)
    BY <1>4 DEF PrepareAppend
  <2>3. marker.overlay \o rest = series
    BY ONLY <1>t, <1>j, <2>1, <2>2, RestCompletes
  <2> HIDE DEF rest
  <2>4. mishaps = {} => tree = Prepared(job'.base, marker.overlay) /\ tree.overlay = marker.overlay
    BY <2>1, <2>2 DEF Prepared
  <2>5. mishaps = {} => tree.overlay \o job'.todo = job'.overlay
    BY <2>2, <2>3, <2>4
  <2>6. QED BY <2>1, <2>4, <2>5 DEF disk
<1>5. CASE PrepareApply
  <2>1. /\ tree' = [tree EXCEPT !.overlay = Append(tree.overlay, Head(job.todo))]
        /\ job' = [job EXCEPT !.todo = Tail(job.todo)]
        /\ tree'.overlay \o job'.todo = tree.overlay \o job.todo
    BY <1>5, ApplyStep
  <2>2. pc = "overlay" /\ pc' = "overlay" /\ UNCHANGED <<marker, mishaps>>
    BY <1>5 DEF TypeOK, PrepareApply
  <2>3. job'.overlay = job.overlay /\ job'.base = job.base
    BY <2>1 DEF TypeOK
  <2>4. tree = Prepared(job.base, tree.overlay) => tree' = Prepared(job.base, tree'.overlay)
    <3> DEFINE t == Append(tree.overlay, Head(job.todo))
    <3> HIDE DEF t
    <3>1. tree' = [tree EXCEPT !.overlay = t]
      BY <2>1 DEF t
    <3>2. ASSUME tree = Prepared(job.base, tree.overlay)
          PROVE  tree' = Prepared(job.base, t)
      BY <3>1, <3>2 DEF Prepared
    <3>3. Prepared(job.base, t).overlay = t
      BY DEF Prepared
    <3>4. QED BY <3>2, <3>3
  <2>5. QED BY <2>1, <2>2, <2>3, <2>4
<1>6. CASE PrepareMark
  <2>1. tree # None /\ tree.overlay \o job.todo = tree.overlay
    <3>1. tree # None /\ job.todo = <<>>
      BY <1>6 DEF TypeOK, PrepareMark
    <3>2. QED BY <1>t, <3>1, ConcatEmptySeq
  <2>2. marker' = [base |-> job.base, overlay |-> job.overlay] /\ marker' # None
    <3>1. [base |-> job.base, overlay |-> job.overlay] \in Markers
      BY DEF TypeOK, Markers, Overlays
    <3>2. QED BY <1>6, <3>1, NoneAssumption DEF PrepareMark
  <2>3. QED BY <1>6, <2>1, <2>2 DEF PrepareMark, Prepared
<1>7. CASE PrepareReuse
  BY <1>7 DEF PrepareReuse, inputs, disk
<1>8. CASE PrepareReject \/ Crash
  BY <1>8 DEF PrepareReject, Crash
<1>9. CASE Reset
  BY <1>9, <1>t DEF Trees, Reset, ResetBegin, ResetSource, ResetMetadata, PrepareIsAhead, inputs
<1>10. CASE EditLock \/ EditSeries \/ UNCHANGED vars
  BY <1>10 DEF EditLock, EditSeries, vars, inputs, disk
<1>11. QED BY <1>1, <1>2, <1>3, <1>4, <1>5, <1>6, <1>7, <1>8, <1>9, <1>10 DEF Next, Prepare

(* A prepare that reports success has made exactly the tree it was asked   *)
(* for, whatever went wrong before the last complete reset.                *)
THEOREM PreparesAreExact == Spec => []PreparedIsExact
<1>1. Init => NothingIsAmiss /\ PrepareIsAhead /\ MarkerIsBehind
  <2>1. Init => PrepareIsAhead /\ MarkerIsBehind
    BY DEF Init, PrepareIsAhead, MarkerIsBehind, Extracted
  <2>2. Init => NothingIsAmiss
    BY DEF Init, NothingIsAmiss, Prepared, Extracted, Resting
  <2>3. QED BY <2>1, <2>2
<1>2. Init => WorkingTree /\ PartialIsUnpublished
  BY DEF Init, WorkingTree, PartialIsUnpublished, Extracted
<1>3. TypeOK /\ WorkingTree /\ PartialIsUnpublished /\ [Next]_vars
        => WorkingTree' /\ PartialIsUnpublished'
  BY PartialStep
<1>4. TypeOK /\ WorkingTree /\ PrepareIsAhead /\ MarkerIsBehind /\ [Next]_vars
        => PrepareIsAhead' /\ MarkerIsBehind'
  BY AheadStep
<1>5. TypeOK /\ NothingIsAmiss /\ PrepareIsAhead /\ [Next]_vars => NothingIsAmiss'
  BY ExactStep
<1>6. TypeOK /\ NothingIsAmiss => PreparedIsExact
  <2>1. ASSUME TypeOK, NothingIsAmiss, pc = "prepared", mishaps = {}
        PROVE  tree = Prepared(job.base, job.overlay)
    <3>1. marker = [base |-> job.base, overlay |-> job.overlay]
      BY <2>1 DEF NothingIsAmiss
    <3>2. [base |-> job.base, overlay |-> job.overlay] \in Markers
      BY <2>1 DEF TypeOK, Markers, Overlays
    <3>3. marker # None
      BY <3>1, <3>2, NoneAssumption
    <3>4. QED BY <2>1, <3>1, <3>3 DEF NothingIsAmiss, Resting
  <2>2. QED BY <2>1 DEF PreparedIsExact, Prepared
<1>7. QED BY <1>1, <1>2, <1>3, <1>4, <1>5, <1>6, TypeCorrect, PTL DEF Spec
=============================================================================
