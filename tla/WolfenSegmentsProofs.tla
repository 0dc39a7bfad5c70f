------------------------ MODULE WolfenSegmentsProofs ------------------------
(***************************************************************************)
(* What becomes of shared memory segments, whatever the limit of the       *)
(* system, the number of surfaces and of runs: images keep theirs, a run   *)
(* that ends leaves one at most, and every commit that replaces an image   *)
(* costs one that only the end of the run gives back.                      *)
(***************************************************************************)
EXTENDS WolfenSegments, FiniteSetTheorems, TLAPS

(* The surfaces that have an image. *)
Images == {s \in Surface : shmid[s] # 0}

(* A segment is attached here, but not marked yet, in the middle of an import. *)
Unmarked == IF pc \in {"attached", "shared"} THEN {shmid[importing]} ELSE {}

Kinds ==
  /\ run \in Nat \ {0} /\ run <= MaxRun + 1
  /\ pc \in {"idle", "created", "attached", "shared", "down"}
  /\ importing \in Surface
  /\ imports \in 0..MaxImport
  /\ shmid \in [Surface -> 0..imports]
  /\ existing \subseteq 1..imports /\ removed \subseteq 1..imports
  /\ mine \subseteq existing /\ xs \subseteq mine
  /\ kept \in Nat

(* Which segments are attached, of the images there are and of the one that is
   being imported. *)
Attached ==
  /\ \A s, t \in Images : s # t => shmid[s] # shmid[t]
  /\ \A s \in Images : pc = "idle" \/ s # importing => shmid[s] \in mine \cap xs
  /\ pc \in {"created", "attached", "shared"} => importing \in Images
  /\ pc = "created" => shmid[importing] \in existing \ mine
  /\ pc \in {"attached", "shared"} => shmid[importing] \in mine
  /\ pc = "shared" => shmid[importing] \in xs
  /\ pc = "down" => mine = {} /\ Images = {} /\ kept = 0
  /\ mine \subseteq removed \cup Unmarked

(* Attached are the segments of the images and of those that were replaced; any
   other is of an earlier run, or is about to be attached. *)
Counted ==
  /\ IsFiniteSet(Images)
  /\ Cardinality(mine) + (IF pc = "created" THEN 1 ELSE 0) = Cardinality(Images) + kept
  /\ Cardinality(existing \ mine) <= run - 1 + (IF pc \in {"created", "down"} THEN 1 ELSE 0)

SegmentsInv == Kinds /\ Attached /\ Counted

-----------------------------------------------------------------------------
(* Numbers of segments are natural numbers. *)
LEMMA Finite ==
  ASSUME Kinds
  PROVE  /\ IsFiniteSet(existing) /\ Cardinality(existing) \in 0..imports
         /\ IsFiniteSet(mine) /\ Cardinality(mine) \in 0..imports
         /\ IsFiniteSet(existing \ mine) /\ Cardinality(existing \ mine) \in Nat
         /\ Cardinality(existing) = Cardinality(mine) + Cardinality(existing \ mine)
<1>1. imports \in Nat /\ IsFiniteSet(1..imports) /\ Cardinality(1..imports) = imports
  BY FS_Interval, SegmentsAssumption DEF Kinds
<1>2. /\ IsFiniteSet(existing) /\ Cardinality(existing) <= imports
      /\ IsFiniteSet(mine) /\ Cardinality(mine) <= imports
  <2>1. existing \in SUBSET (1..imports)
    BY DEF Kinds
  <2>2. mine \in SUBSET (1..imports)
    BY DEF Kinds
  <2>3. IsFiniteSet(existing) /\ Cardinality(existing) <= Cardinality(1..imports)
    BY <1>1, <2>1, FS_Subset
  <2>4. IsFiniteSet(mine) /\ Cardinality(mine) <= Cardinality(1..imports)
    BY <1>1, <2>2, FS_Subset
  <2> QED
    BY <1>1, <2>3, <2>4
<1>3. /\ IsFiniteSet(existing \ mine)
      /\ Cardinality(existing \ mine) = Cardinality(existing) - Cardinality(existing \cap mine)
  BY <1>2, FS_Difference
<1>4. existing \cap mine = mine
  BY DEF Kinds
<1>5. Cardinality(existing) \in Nat /\ Cardinality(mine) \in Nat /\ Cardinality(existing \ mine) \in Nat
  BY <1>2, <1>3, FS_CardinalityType
<1>6. Cardinality(existing \ mine) = Cardinality(existing) - Cardinality(mine)
  BY <1>3, <1>4
<1> HIDE DEF Kinds
<1> QED
  BY <1>1, <1>2, <1>3, <1>5, <1>6

LEMMA InitSegments ==
  ASSUME Init PROVE SegmentsInv
<1>1. Images = {}
  BY DEF Init, Images
<1>2. Kinds /\ Attached
  BY <1>1, SegmentsAssumption DEF Init, Kinds, Attached
<1>3. Counted
  BY <1>1, FS_EmptySet DEF Init, Counted
<1> QED
  BY <1>2, <1>3 DEF SegmentsInv

(* A new segment is the importing surface's, and not attached yet; the one it
   replaces stays attached. *)
LEMMA KeepsShmGet ==
  ASSUME SegmentsInv, NEW t \in Surface, ShmGet(t) PROVE SegmentsInv'
<1> DEFINE g == imports + 1
<1>1. /\ pc = "idle" /\ pc' = "created" /\ importing' = t /\ imports' = g /\ imports < MaxImport
      /\ shmid' = [shmid EXCEPT ![t] = g] /\ existing' = existing \cup {g}
      /\ kept' = kept + (IF shmid[t] # 0 THEN 1 ELSE 0)
      /\ UNCHANGED <<run, removed, mine, xs>>
  BY DEF ShmGet
<1>2. Kinds /\ Attached /\ Counted /\ imports \in Nat
  BY SegmentsAssumption DEF SegmentsInv, Kinds
<1>3. Kinds'
  BY <1>1, <1>2, SegmentsAssumption DEF Kinds
<1>4. Images' = Images \cup {t} /\ shmid'[t] = g /\ \A s \in Surface \ {t} : shmid'[s] = shmid[s]
  BY <1>1, <1>2 DEF Images, Kinds
<1>5. g \notin existing /\ g \notin mine /\ \A s \in Surface : shmid[s] # g
  BY <1>2 DEF Kinds
<1>6. Attached'
  <2>1. \A s, u \in Images' : s # u => shmid'[s] # shmid'[u]
    BY <1>2, <1>4, <1>5 DEF Attached, Images
  <2>2. \A s \in Images' : s # t => shmid'[s] \in mine \cap xs
    BY <1>1, <1>2, <1>4 DEF Attached, Images
  <2>3. mine \subseteq removed
    BY <1>1, <1>2 DEF Attached, Unmarked
  <2> QED
    BY <1>1, <1>4, <1>5, <2>1, <2>2, <2>3 DEF Attached
<1>7. Counted'
  <2>1. /\ IsFiniteSet(Images')
        /\ Cardinality(Images') = IF t \in Images THEN Cardinality(Images) ELSE Cardinality(Images) + 1
    BY <1>2, <1>4, FS_AddElement DEF Counted
  <2>2. t \in Images <=> shmid[t] # 0
    BY DEF Images
  <2>3. existing' \ mine' = (existing \ mine) \cup {g} /\ g \notin existing \ mine
    BY <1>1, <1>5
  <2>4. Cardinality(existing' \ mine') = Cardinality(existing \ mine) + 1
    BY <1>2, <2>3, Finite, FS_AddElement
  <2>5. Cardinality(Images) \in Nat /\ Cardinality(mine) \in Nat /\ kept \in Nat /\ run \in Nat
    BY <1>2, Finite, FS_CardinalityType DEF Counted, Kinds
  <2>6. Cardinality(existing \ mine) \in Nat
    BY <1>2, Finite
  <2>7. /\ Cardinality(mine) = Cardinality(Images) + kept
        /\ Cardinality(existing \ mine) <= run - 1
    BY <1>1, <1>2, <2>5 DEF Counted
  <2>8. Cardinality(mine') + 1 = Cardinality(Images') + kept'
    BY <1>1, <2>1, <2>2, <2>5, <2>7
  <2>9. Cardinality(existing' \ mine') <= run' - 1 + 1
    BY <1>1, <2>4, <2>5, <2>6, <2>7
  <2> QED
    BY <1>1, <2>1, <2>8, <2>9 DEF Counted
<1> QED
  BY <1>3, <1>6, <1>7 DEF SegmentsInv

LEMMA KeepsShmAt ==
  ASSUME SegmentsInv, ShmAt PROVE SegmentsInv'
<1> DEFINE g == shmid[importing]
<1>1. /\ pc = "created" /\ pc' = "attached" /\ mine' = mine \cup {g}
      /\ UNCHANGED <<run, importing, shmid, existing, removed, xs, imports, kept>>
  BY DEF ShmAt
<1>2. Kinds /\ Attached /\ Counted
  BY DEF SegmentsInv
<1>3. g \in existing \ mine /\ Images' = Images
  BY <1>1, <1>2 DEF Attached, Images
<1>4. Kinds'
  BY <1>1, <1>2, <1>3 DEF Kinds
<1>5. Attached'
  BY <1>1, <1>2, <1>3 DEF Attached, Unmarked
<1>6. Counted'
  <2>1. Cardinality(mine') = Cardinality(mine) + 1
    BY <1>1, <1>2, <1>3, Finite, FS_AddElement
  <2>2. existing' \ mine' = (existing \ mine) \ {g}
    BY <1>1
  <2>3. Cardinality(existing' \ mine') = Cardinality(existing \ mine) - 1
    BY <1>2, <1>3, <2>2, Finite, FS_RemoveElement
  <2>4. Cardinality(existing \ mine) \in Nat /\ Cardinality(mine) \in Nat /\ run \in Nat
    BY <1>2, Finite DEF Kinds
  <2> QED
    BY <1>1, <1>2, <1>3, <2>1, <2>3, <2>4 DEF Counted
<1> QED
  BY <1>4, <1>5, <1>6 DEF SegmentsInv

LEMMA KeepsXShmAttach ==
  ASSUME SegmentsInv, XShmAttach PROVE SegmentsInv'
<1>1. /\ pc = "attached" /\ pc' = "shared" /\ xs' = xs \cup {shmid[importing]}
      /\ UNCHANGED <<run, importing, shmid, existing, removed, mine, imports, kept>>
  BY DEF XShmAttach
<1>2. Kinds /\ Attached /\ Counted /\ Images' = Images
  BY <1>1 DEF SegmentsInv, Images
<1>3. Kinds'
  BY <1>1, <1>2 DEF Kinds, Attached
<1>4. Attached'
  BY <1>1, <1>2 DEF Attached, Unmarked
<1>5. Counted'
  BY <1>1, <1>2 DEF Counted
<1> QED
  BY <1>3, <1>4, <1>5 DEF SegmentsInv

LEMMA KeepsShmRemove ==
  ASSUME SegmentsInv, ShmRemove PROVE SegmentsInv'
<1>1. /\ pc = "shared" /\ pc' = "idle" /\ removed' = removed \cup {shmid[importing]}
      /\ UNCHANGED <<run, importing, shmid, existing, mine, xs, imports, kept>>
  BY DEF ShmRemove, Marked
<1>2. Kinds /\ Attached /\ Counted /\ Images' = Images
  BY <1>1 DEF SegmentsInv, Images
<1>3. Kinds'
  BY <1>1, <1>2 DEF Kinds, Attached
<1>4. Attached'
  BY <1>1, <1>2 DEF Attached, Unmarked
<1>5. Counted'
  BY <1>1, <1>2 DEF Counted
<1> QED
  BY <1>3, <1>4, <1>5 DEF SegmentsInv

(* The deletion of a surface gives the segment of its last import back. *)
LEMMA KeepsDelete ==
  ASSUME SegmentsInv, NEW t \in Surface, Delete(t) PROVE SegmentsInv'
<1> DEFINE g == shmid[t]
<1>1. /\ pc = "idle" /\ pc' = "idle" /\ g # 0
      /\ shmid' = [shmid EXCEPT ![t] = 0]
      /\ mine' = mine \ {g} /\ xs' = xs \ {g} /\ removed' = removed \cup {g}
      /\ existing' = {h \in existing : h \notin removed' \/ h \in mine' \cup xs'}
      /\ UNCHANGED <<run, importing, imports, kept>>
  BY DEF Delete, Detached, XDetached
<1>2. Kinds /\ Attached /\ Counted
  BY DEF SegmentsInv
<1>3. /\ Images' = Images \ {t} /\ t \in Images /\ g \in mine /\ g \in existing
      /\ \A s \in Images' : shmid'[s] = shmid[s] /\ shmid[s] # g
  <2>1. Images' = Images \ {t} /\ t \in Images
    BY <1>1, <1>2 DEF Images, Kinds
  <2>2. g \in mine /\ g \in existing
    BY <1>1, <1>2, <2>1 DEF Attached, Kinds
  <2>3. \A s \in Images' : shmid'[s] = shmid[s] /\ shmid[s] # g
    BY <1>1, <1>2, <2>1 DEF Attached, Kinds, Images
  <2> QED
    BY <2>1, <2>2, <2>3
<1>4. Kinds'
  <2>1. existing' \subseteq existing /\ mine' \subseteq existing' /\ xs' \subseteq mine'
    BY <1>1, <1>2 DEF Kinds
  <2>2. 0 \in 0..imports
    BY <1>2, SegmentsAssumption DEF Kinds
  <2>3. shmid' \in [Surface -> 0..imports]
    BY <1>1, <1>2, <2>2 DEF Kinds
  <2>4. removed' \subseteq 1..imports
    BY <1>1, <1>2, <1>3 DEF Kinds
  <2> QED
    BY <1>1, <1>2, <2>1, <2>3, <2>4 DEF Kinds
<1>5. Attached'
  BY <1>1, <1>2, <1>3 DEF Attached, Unmarked
<1>6. Counted'
  <2>1. /\ IsFiniteSet(Images') /\ Cardinality(Images') = Cardinality(Images) - 1
        /\ Cardinality(Images) \in Nat
    BY <1>2, <1>3, FS_RemoveElement, FS_CardinalityType DEF Counted
  <2>2. Cardinality(mine') = Cardinality(mine) - 1
    BY <1>1, <1>2, <1>3, Finite, FS_RemoveElement
  <2>3. existing' \ mine' \subseteq existing \ mine
    BY <1>1, <1>2 DEF Kinds
  <2>4. Cardinality(existing' \ mine') <= Cardinality(existing \ mine)
    BY <1>2, <2>3, Finite, FS_Subset
  <2>5. /\ Cardinality(existing \ mine) \in Nat /\ Cardinality(mine) \in Nat
        /\ run \in Nat /\ kept \in Nat
    BY <1>2, Finite DEF Kinds
  <2>6. Cardinality(existing' \ mine') \in Nat
    BY <1>2, <2>3, Finite, FS_Subset, FS_CardinalityType
  <2> QED
    BY <1>1, <1>2, <2>1, <2>2, <2>4, <2>5, <2>6 DEF Counted
<1> QED
  BY <1>4, <1>5, <1>6 DEF SegmentsInv

(* A run that ends leaves what was not attached or not marked. *)
LEMMA KeepsEnd ==
  ASSUME SegmentsInv, End PROVE SegmentsInv'
<1>1. /\ pc # "down" /\ pc' = "down" /\ mine' = {} /\ xs' = {}
      /\ existing' = existing \ removed /\ shmid' = [s \in Surface |-> 0] /\ kept' = 0
      /\ UNCHANGED <<run, importing, removed, imports>>
  BY DEF End
<1>2. Kinds /\ Attached /\ Counted
  BY DEF SegmentsInv
<1>3. Images' = {}
  BY <1>1 DEF Images
<1>4. Kinds'
  BY <1>1, <1>2, SegmentsAssumption DEF Kinds
<1>5. Attached'
  BY <1>1, <1>3 DEF Attached, Unmarked
<1>6. Cardinality(existing') <= run
  <2> DEFINE rest == existing \ mine
  <2>1. IsFiniteSet(rest) /\ Cardinality(rest) \in Nat /\ run \in Nat
    BY <1>2, Finite DEF Kinds
  <2>2. existing' \subseteq rest \cup Unmarked
    BY <1>1, <1>2 DEF Attached
  <2>3. CASE pc \in {"attached", "shared"}
    <3>1. Cardinality(rest) <= run - 1
      BY <1>2, <2>1, <2>3 DEF Counted
    <3>2. Unmarked = {shmid[importing]}
      BY <2>3 DEF Unmarked
    <3>3. /\ IsFiniteSet(rest \cup Unmarked)
          /\ Cardinality(rest \cup Unmarked) \in {Cardinality(rest), Cardinality(rest) + 1}
      BY <2>1, <3>2, FS_AddElement
    <3>4. IsFiniteSet(existing') /\ Cardinality(existing') <= Cardinality(rest \cup Unmarked)
      BY <2>2, <3>3, FS_Subset
    <3>5. Cardinality(existing') \in Nat
      BY <3>4, FS_CardinalityType
    <3> QED
      BY <2>1, <3>1, <3>3, <3>4, <3>5
  <2>4. CASE pc \notin {"attached", "shared"}
    <3>1. Cardinality(rest) <= run
      BY <1>2, <2>1, <2>4 DEF Counted, Kinds
    <3>2. existing' \subseteq rest
      BY <2>2, <2>4 DEF Unmarked
    <3>3. IsFiniteSet(existing') /\ Cardinality(existing') <= Cardinality(rest)
      BY <2>1, <3>2, FS_Subset
    <3>4. Cardinality(existing') \in Nat
      BY <3>3, FS_CardinalityType
    <3> QED
      BY <2>1, <3>1, <3>3, <3>4
  <2> QED
    BY <2>3, <2>4
<1>7. Counted'
  <2>1. existing' \ mine' = existing' /\ run \in Nat
    BY <1>1, <1>2 DEF Kinds
  <2>2. IsFiniteSet(Images') /\ Cardinality(Images') = 0 /\ Cardinality(mine') = 0
    BY <1>1, <1>3, FS_EmptySet
  <2> QED
    BY <1>1, <1>6, <2>1, <2>2 DEF Counted
<1> QED
  BY <1>4, <1>5, <1>7 DEF SegmentsInv

LEMMA KeepsRestart ==
  ASSUME SegmentsInv, Restart PROVE SegmentsInv'
<1>1. /\ pc = "down" /\ run < MaxRun /\ run' = run + 1 /\ pc' = "idle"
      /\ UNCHANGED <<importing, shmid, existing, removed, mine, xs, imports, kept>>
  BY DEF Restart
<1>2. Kinds /\ Attached /\ Counted /\ Images' = Images
  BY <1>1 DEF SegmentsInv, Images
<1>3. Kinds'
  BY <1>1, <1>2, SegmentsAssumption DEF Kinds
<1>4. Attached'
  BY <1>1, <1>2 DEF Attached, Unmarked
<1>5. Counted'
  BY <1>1, <1>2 DEF Counted, Kinds
<1> QED
  BY <1>3, <1>4, <1>5 DEF SegmentsInv

LEMMA KeepsStutter ==
  ASSUME SegmentsInv, UNCHANGED vars PROVE SegmentsInv'
BY DEF vars, SegmentsInv, Kinds, Attached, Unmarked, Counted, Images

(* Every step keeps the count of segments, whatever the limit. *)
THEOREM SegmentsInvariance == Spec => []SegmentsInv
<1>1. SegmentsInv /\ [Next]_vars => SegmentsInv'
  BY KeepsShmGet, KeepsShmAt, KeepsXShmAttach, KeepsShmRemove, KeepsDelete, KeepsEnd, KeepsRestart, KeepsStutter
     DEF Next, NoSegmentLeft
<1> QED
  BY <1>1, InitSegments, PTL DEF Spec

-----------------------------------------------------------------------------
(* The segments are numbered, the X server has none that the server has not, and
   no more are kept than there were imports. *)
THEOREM SegmentsTypeCorrect == Spec => []TypeOK
<1>1. ASSUME SegmentsInv PROVE TypeOK
  <2>1. Kinds /\ Attached /\ Counted
    BY <1>1 DEF SegmentsInv
  <2>2. kept <= imports
    <3>1. Cardinality(mine) \in 0..imports /\ Cardinality(Images) \in Nat /\ kept \in Nat /\ imports \in Nat
      BY <2>1, Finite, FS_CardinalityType, SegmentsAssumption DEF Counted, Kinds
    <3>2. pc = "created" => Cardinality(Images) # 0
      BY <2>1, FS_EmptySet DEF Attached, Counted
    <3> QED
      BY <2>1, <3>1, <3>2 DEF Counted
  <2>3. imports \in Nat /\ imports <= MaxImport /\ MaxImport \in Nat /\ kept \in Nat
    BY <2>1, SegmentsAssumption DEF Kinds
  <2>4. 1..imports \subseteq Segment /\ kept \in 0..MaxImport
    BY <2>2, <2>3 DEF Segment
  <2>5. shmid \in [Surface -> {0} \cup Segment]
    BY <2>1, <2>3, <2>4 DEF Kinds, Segment
  <2>6. run \in 0 .. MaxRun + 1
    BY <2>1, SegmentsAssumption DEF Kinds
  <2> QED
    BY <2>1, <2>3, <2>4, <2>5, <2>6 DEF TypeOK, Kinds
<1> QED
  BY <1>1, SegmentsInvariance, PTL

(* Between two requests each image has a segment of its own that both programs
   have attached, whatever images were replaced and surfaces deleted. *)
THEOREM ImagesStayUsable == Spec => []ImageUsable
<1>1. SegmentsInv => ImageUsable
  BY DEF SegmentsInv, Attached, Images, ImageUsable
<1> QED
  BY <1>1, SegmentsInvariance, PTL

(* Wherever a run ends, the system keeps one segment of it at most. *)
THEOREM OneSegmentLeft == Spec => []OneLeftPerRun
<1>1. ASSUME SegmentsInv, pc = "down" PROVE Cardinality(existing) <= run
  <2>1. mine = {} /\ run \in Nat
    BY <1>1 DEF SegmentsInv, Attached, Kinds
  <2>2. existing \ mine = existing
    BY <2>1
  <2> QED
    BY <1>1, <2>1, <2>2 DEF SegmentsInv, Counted
<1>2. SegmentsInv => OneLeftPerRun
  BY <1>1 DEF OneLeftPerRun
<1> QED
  BY <1>2, SegmentsInvariance, PTL

(* Between two requests the segments beside those of images are exactly the ones
   that commits have replaced, and what earlier runs have left. *)
THEOREM ReplacedAreLeaked == Spec => []LeaksReplaced
<1>1. ASSUME SegmentsInv, pc = "idle"
      PROVE  Cardinality(existing) - Cardinality(Images) - kept \in 0 .. run - 1
  <2>1. Kinds /\ Counted
    BY <1>1 DEF SegmentsInv
  <2>2. /\ Cardinality(existing \ mine) \in Nat /\ Cardinality(mine) \in Nat
        /\ Cardinality(existing) = Cardinality(mine) + Cardinality(existing \ mine)
    BY <2>1, Finite
  <2>3. Cardinality(Images) \in Nat /\ kept \in Nat /\ run \in Nat
    BY <2>1, FS_CardinalityType DEF Counted, Kinds
  <2> QED
    BY <1>1, <2>1, <2>2, <2>3 DEF Counted
<1>2. SegmentsInv => LeaksReplaced
  BY <1>1 DEF LeaksReplaced, Images
<1> QED
  BY <1>2, SegmentsInvariance, PTL

=============================================================================
