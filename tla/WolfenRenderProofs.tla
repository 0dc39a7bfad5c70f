------------------------- MODULE WolfenRenderProofs -------------------------
(***************************************************************************)
(* For any number of windows and buffers, whatever their sizes, and any    *)
(* number of imports: the thread of a window is harmless until a buffer is *)
(* imported a second time, it never shows a half-copied segment or an      *)
(* older frame, and buffers of one size leave it the races with the image. *)
(* Its six steps among the main thread's implement the whole turns of      *)
(* WolfenPicture; only a turn that met an import ends the server.          *)
(***************************************************************************)
EXTENDS WolfenRender, SequenceTheorems, TLAPS

(* Appending a frame makes it the newest and keeps the others. *)
LEMMA Appended ==
  ASSUME frames \in Seq(Buffer), NEW b \in Buffer
  PROVE  /\ Append(frames, b) \in Seq(Buffer)
         /\ Len(Append(frames, b)) = Len(frames) + 1
         /\ Append(frames, b)[Len(frames) + 1] = b
         /\ \A k \in 1..Len(frames) : Append(frames, b)[k] = frames[k]
         /\ Append(frames, b) # <<>>
  OBVIOUS

(* The newest frame is a buffer. *)
LEMMA NewestFrame ==
  ASSUME frames \in Seq(Buffer), frames # <<>>
  PROVE  Len(frames) \in Nat \ {0} /\ Newest \in Buffer
  BY DEF Newest

LEMMA SizeType ==
  ASSUME NEW b \in Buffer
  PROVE  Size[b].w \in Nat /\ Size[b].h \in Nat
  BY RenderAssumption

(* DestroyImage keeps the invariant. *)
LEMMA KeepsDestroyImage ==
  ASSUME RenderInv, DestroyImage
  PROVE  RenderInv'
<1> USE DEF RenderInv, DestroyImage, Main, threadVars
<1>0. frames \in Seq(Buffer) /\ Len(frames) \in Nat
  BY DEF TypeOK
<1>1. TypeOK'
  BY <1>0, NewestFrame, SizeType DEF TypeOK, ImportInv, Extent, Newest
<1>2. ImportInv'
  BY <1>0, NewestFrame, SizeType DEF TypeOK, ImportInv, SettledInv, LeavingInv, ThreadInv, Importing, Newest
<1>3. SettledInv'
  BY <1>0, NewestFrame, SizeType DEF TypeOK, ImportInv, SettledInv, Importing, Newest
<1>4. LeavingInv'
  BY <1>0, NewestFrame, SizeType DEF TypeOK, LeavingInv
<1>5. ThreadInv'
  BY <1>0, NewestFrame, SizeType DEF TypeOK, ImportInv, SettledInv, ThreadInv, Importing, Running, Newest
<1>6. OrderInv'
  BY <1>0, NewestFrame, SizeType DEF TypeOK, ImportInv, ThreadInv, OrderInv
<1>7. SizeInv'
  BY <1>0, NewestFrame, SizeType DEF TypeOK, ImportInv, SizeInv, SameSize, Extent, Newest
<1>8. WholeFrames' /\ SafeUntilReimport' /\ OnlyImageRaces'
  BY DEF WholeFrames, SafeUntilReimport, OnlyImageRaces, SameSize, LeavingInv, TypeOK
<1> QED
  BY <1>1, <1>2, <1>3, <1>4, <1>5, <1>6, <1>7, <1>8

(* ClearViewport keeps the invariant. *)
LEMMA KeepsClearViewport ==
  ASSUME RenderInv, ClearViewport
  PROVE  RenderInv'
<1> USE DEF RenderInv, ClearViewport, Main, threadVars
<1>0. frames \in Seq(Buffer) /\ Len(frames) \in Nat
  BY DEF TypeOK
<1>1. TypeOK'
  BY <1>0, NewestFrame, SizeType DEF TypeOK, ImportInv, Extent, Newest
<1>2. ImportInv'
  BY <1>0, NewestFrame, SizeType DEF TypeOK, ImportInv, SettledInv, LeavingInv, ThreadInv, Importing, Newest
<1>3. SettledInv'
  BY <1>0, NewestFrame, SizeType DEF TypeOK, ImportInv, SettledInv, Importing, Newest
<1>4. LeavingInv'
  BY <1>0, NewestFrame, SizeType DEF TypeOK, LeavingInv
<1>5. ThreadInv'
  BY <1>0, NewestFrame, SizeType DEF TypeOK, ImportInv, SettledInv, ThreadInv, Importing, Running, Newest
<1>6. OrderInv'
  BY <1>0, NewestFrame, SizeType DEF TypeOK, ImportInv, ThreadInv, OrderInv
<1>7. SizeInv'
  BY <1>0, NewestFrame, SizeType DEF TypeOK, ImportInv, SizeInv, SameSize, Extent, Newest
<1>8. WholeFrames' /\ SafeUntilReimport' /\ OnlyImageRaces'
  BY DEF WholeFrames, SafeUntilReimport, OnlyImageRaces, SameSize, LeavingInv, TypeOK
<1> QED
  BY <1>1, <1>2, <1>3, <1>4, <1>5, <1>6, <1>7, <1>8

(* InitX2 keeps the invariant. *)
LEMMA KeepsInitX2 ==
  ASSUME RenderInv, InitX2
  PROVE  RenderInv'
<1> USE DEF RenderInv, InitX2, Main, threadVars
<1>0. frames \in Seq(Buffer) /\ Len(frames) \in Nat
  BY DEF TypeOK
<1>a. shm_buffer \in Buffer /\ Size[shm_buffer].w \in Nat /\ Size[shm_buffer].h \in Nat /\ shm_buffer = Newest
  BY NewestFrame, SizeType DEF TypeOK, ImportInv, Importing
<1>b. /\ viewport' = [w |-> Size[shm_buffer].w, h |-> viewport.h] /\ viewport.h \in Nat
      /\ viewport'.h = viewport.h /\ viewport'.w = Size[shm_buffer].w
  BY <1>a DEF TypeOK, Extent
<1>1. TypeOK'
  BY <1>0, <1>a, <1>b DEF TypeOK, Extent
<1>2. ImportInv'
  BY <1>0, NewestFrame, SizeType DEF TypeOK, ImportInv, SettledInv, LeavingInv, ThreadInv, Importing, Newest
<1>3. SettledInv'
  BY <1>0, NewestFrame, SizeType DEF TypeOK, ImportInv, SettledInv, Importing, Newest
<1>4. LeavingInv'
  BY <1>0, NewestFrame, SizeType DEF TypeOK, LeavingInv
<1>5. ThreadInv'
  BY <1>0, NewestFrame, SizeType DEF TypeOK, ImportInv, SettledInv, ThreadInv, Importing, Running, Newest
<1>6. OrderInv'
  BY <1>0, NewestFrame, SizeType DEF TypeOK, ImportInv, ThreadInv, OrderInv
<1>7. SizeInv'
  <2>0. frames # <<>> /\ frames' = frames
    BY DEF ImportInv, Importing
  <2> SUFFICES ASSUME SameSize, NEW n \in DOMAIN frames
               PROVE  /\ viewport'.w <= Size[frames[n]].w /\ viewport'.h <= Size[frames[n]].h
                      /\ \A w \in Window : arg[w].w <= Size[frames[n]].w
                                             /\ arg[w].h <= Size[frames[n]].h
    BY <2>0 DEF SizeInv, SameSize
  <2>1. Size[shm_buffer] = Size[frames[n]]
    BY <1>0, <1>a DEF SameSize, Newest
  <2> QED
    BY <1>a, <1>b, <2>1, SizeType DEF SizeInv
<1>8. WholeFrames' /\ SafeUntilReimport' /\ OnlyImageRaces'
  BY DEF WholeFrames, SafeUntilReimport, OnlyImageRaces, SameSize, LeavingInv, TypeOK
<1> QED
  BY <1>1, <1>2, <1>3, <1>4, <1>5, <1>6, <1>7, <1>8

(* InitY2 keeps the invariant. *)
LEMMA KeepsInitY2 ==
  ASSUME RenderInv, InitY2
  PROVE  RenderInv'
<1> USE DEF RenderInv, InitY2, Main, threadVars
<1>0. frames \in Seq(Buffer) /\ Len(frames) \in Nat
  BY DEF TypeOK
<1>a. shm_buffer \in Buffer /\ Size[shm_buffer].w \in Nat /\ Size[shm_buffer].h \in Nat /\ shm_buffer = Newest
  BY NewestFrame, SizeType DEF TypeOK, ImportInv, Importing
<1>b. /\ viewport' = [w |-> viewport.w, h |-> Size[shm_buffer].h] /\ viewport.w \in Nat
      /\ viewport'.w = viewport.w /\ viewport'.h = Size[shm_buffer].h
  BY <1>a DEF TypeOK, Extent
<1>1. TypeOK'
  BY <1>0, <1>a, <1>b DEF TypeOK, Extent
<1>2. ImportInv'
  BY <1>0, NewestFrame, SizeType DEF TypeOK, ImportInv, SettledInv, LeavingInv, ThreadInv, Importing, Newest
<1>3. SettledInv'
  BY <1>0, NewestFrame, SizeType DEF TypeOK, ImportInv, SettledInv, Importing, Newest
<1>4. LeavingInv'
  BY <1>0, NewestFrame, SizeType DEF TypeOK, LeavingInv
<1>5. ThreadInv'
  BY <1>0, NewestFrame, SizeType DEF TypeOK, ImportInv, SettledInv, ThreadInv, Importing, Running, Newest
<1>6. OrderInv'
  BY <1>0, NewestFrame, SizeType DEF TypeOK, ImportInv, ThreadInv, OrderInv
<1>7. SizeInv'
  <2>0. frames # <<>> /\ frames' = frames
    BY DEF ImportInv, Importing
  <2> SUFFICES ASSUME SameSize, NEW n \in DOMAIN frames
               PROVE  /\ viewport'.w <= Size[frames[n]].w /\ viewport'.h <= Size[frames[n]].h
                      /\ \A w \in Window : arg[w].w <= Size[frames[n]].w
                                             /\ arg[w].h <= Size[frames[n]].h
    BY <2>0 DEF SizeInv, SameSize
  <2>1. Size[shm_buffer] = Size[frames[n]]
    BY <1>0, <1>a DEF SameSize, Newest
  <2> QED
    BY <1>a, <1>b, <2>1, SizeType DEF SizeInv
<1>8. WholeFrames' /\ SafeUntilReimport' /\ OnlyImageRaces'
  BY DEF WholeFrames, SafeUntilReimport, OnlyImageRaces, SameSize, LeavingInv, TypeOK
<1> QED
  BY <1>1, <1>2, <1>3, <1>4, <1>5, <1>6, <1>7, <1>8

(* CreateImage keeps the invariant. *)
LEMMA KeepsCreateImage ==
  ASSUME RenderInv, CreateImage
  PROVE  RenderInv'
<1> USE DEF RenderInv, CreateImage, Main, threadVars
<1>0. frames \in Seq(Buffer) /\ Len(frames) \in Nat
  BY DEF TypeOK
<1>1. TypeOK'
  <2>1. Len(frames) \in 1..Len(frames)
    BY <1>0, NewestFrame DEF TypeOK, ImportInv, Importing
  <2>2. /\ x_img' = Len(frames) /\ data' = 0 /\ 0 \in 0..Len(frames) /\ images' = images \cup {Len(frames)} /\ images \subseteq 1..Len(frames)
        /\ Len(frames) \in 0..Len(frames)
    BY <1>0, <2>1 DEF TypeOK
  <2>3. x_img' \in 0..Len(frames) /\ images' \subseteq 1..Len(frames)
    BY <2>1, <2>2
  <2>4. main' = "map" /\ data' \in 0..Len(frames)
    BY <2>2
  <2> QED
    BY <2>3, <2>4 DEF TypeOK
<1>2. ImportInv'
  BY <1>0, NewestFrame, SizeType DEF TypeOK, ImportInv, SettledInv, LeavingInv, ThreadInv, Importing, Newest
<1>3. SettledInv'
  BY <1>0, NewestFrame, SizeType DEF TypeOK, ImportInv, SettledInv, Importing, Newest
<1>4. LeavingInv'
  BY <1>0, NewestFrame, SizeType DEF TypeOK, LeavingInv
<1>5. ThreadInv'
  BY <1>0, NewestFrame, SizeType DEF TypeOK, ImportInv, SettledInv, ThreadInv, Importing, Running, Newest
<1>6. OrderInv'
  BY <1>0, NewestFrame, SizeType DEF TypeOK, ImportInv, ThreadInv, OrderInv
<1>7. SizeInv'
  BY <1>0, NewestFrame, SizeType DEF TypeOK, ImportInv, SizeInv, SameSize, Extent, Newest
<1>8. WholeFrames' /\ SafeUntilReimport' /\ OnlyImageRaces'
  BY DEF WholeFrames, SafeUntilReimport, OnlyImageRaces, SameSize, LeavingInv, TypeOK
<1> QED
  BY <1>1, <1>2, <1>3, <1>4, <1>5, <1>6, <1>7, <1>8

(* MapSegment keeps the invariant. *)
LEMMA KeepsMapSegment ==
  ASSUME RenderInv, MapSegment
  PROVE  RenderInv'
<1> USE DEF RenderInv, MapSegment, Main, threadVars
<1>0. frames \in Seq(Buffer) /\ Len(frames) \in Nat
  BY DEF TypeOK
<1>1. TypeOK'
  BY <1>0, NewestFrame, SizeType DEF TypeOK, ImportInv, Extent, Newest
<1>2. ImportInv'
  BY <1>0, NewestFrame, SizeType DEF TypeOK, ImportInv, SettledInv, LeavingInv, ThreadInv, Importing, Newest
<1>3. SettledInv'
  BY <1>0, NewestFrame, SizeType DEF TypeOK, ImportInv, SettledInv, Importing, Newest
<1>4. LeavingInv'
  BY <1>0, NewestFrame, SizeType DEF TypeOK, LeavingInv
<1>5. ThreadInv'
  BY <1>0, NewestFrame, SizeType DEF TypeOK, ImportInv, SettledInv, ThreadInv, Importing, Running, Newest
<1>6. OrderInv'
  BY <1>0, NewestFrame, SizeType DEF TypeOK, ImportInv, ThreadInv, OrderInv
<1>7. SizeInv'
  BY <1>0, NewestFrame, SizeType DEF TypeOK, ImportInv, SizeInv, SameSize, Extent, Newest
<1>8. WholeFrames' /\ SafeUntilReimport' /\ OnlyImageRaces'
  BY DEF WholeFrames, SafeUntilReimport, OnlyImageRaces, SameSize, LeavingInv, TypeOK
<1> QED
  BY <1>1, <1>2, <1>3, <1>4, <1>5, <1>6, <1>7, <1>8

(* Fill keeps the invariant. *)
LEMMA KeepsFill ==
  ASSUME RenderInv, Fill
  PROVE  RenderInv'
<1> USE DEF RenderInv, Fill, Main, threadVars
<1>0. frames \in Seq(Buffer) /\ Len(frames) \in Nat
  BY DEF TypeOK
<1>1. TypeOK'
  BY <1>0, NewestFrame, SizeType DEF TypeOK, ImportInv, Extent, Newest
<1>2. ImportInv'
  BY <1>0, NewestFrame, SizeType DEF TypeOK, ImportInv, SettledInv, LeavingInv, ThreadInv, Importing, Newest
<1>3. SettledInv'
  BY <1>0, NewestFrame, SizeType DEF TypeOK, ImportInv, SettledInv, Importing, Newest
<1>4. LeavingInv'
  BY <1>0, NewestFrame, SizeType DEF TypeOK, LeavingInv
<1>5. ThreadInv'
  BY <1>0, NewestFrame, SizeType DEF TypeOK, ImportInv, SettledInv, ThreadInv, Importing, Running, Newest
<1>6. OrderInv'
  BY <1>0, NewestFrame, SizeType DEF TypeOK, ImportInv, ThreadInv, OrderInv
<1>7. SizeInv'
  BY <1>0, NewestFrame, SizeType DEF TypeOK, ImportInv, SizeInv, SameSize, Extent, Newest
<1>8. WholeFrames' /\ SafeUntilReimport' /\ OnlyImageRaces'
  BY DEF WholeFrames, SafeUntilReimport, OnlyImageRaces, SameSize, LeavingInv, TypeOK
<1> QED
  BY <1>1, <1>2, <1>3, <1>4, <1>5, <1>6, <1>7, <1>8

(* AttachSegment keeps the invariant. *)
LEMMA KeepsAttachSegment ==
  ASSUME RenderInv, AttachSegment
  PROVE  RenderInv'
<1> USE DEF RenderInv, AttachSegment, Main, threadVars
<1>0. frames \in Seq(Buffer) /\ Len(frames) \in Nat
  BY DEF TypeOK
<1>1. TypeOK'
  BY <1>0, NewestFrame, SizeType DEF TypeOK, ImportInv, Extent, Newest
<1>2. ImportInv'
  BY <1>0, NewestFrame, SizeType DEF TypeOK, ImportInv, SettledInv, LeavingInv, ThreadInv, Importing, Newest
<1>3. SettledInv'
  BY <1>0, NewestFrame, SizeType DEF TypeOK, ImportInv, SettledInv, Importing, Newest
<1>4. LeavingInv'
  BY <1>0, NewestFrame, SizeType DEF TypeOK, LeavingInv
<1>5. ThreadInv'
  BY <1>0, NewestFrame, SizeType DEF TypeOK, ImportInv, SettledInv, ThreadInv, Importing, Running, Newest
<1>6. OrderInv'
  BY <1>0, NewestFrame, SizeType DEF TypeOK, ImportInv, ThreadInv, OrderInv
<1>7. SizeInv'
  BY <1>0, NewestFrame, SizeType DEF TypeOK, ImportInv, SizeInv, SameSize, Extent, Newest
<1>8. WholeFrames' /\ SafeUntilReimport' /\ OnlyImageRaces'
  BY DEF WholeFrames, SafeUntilReimport, OnlyImageRaces, SameSize, LeavingInv, TypeOK
<1> QED
  BY <1>1, <1>2, <1>3, <1>4, <1>5, <1>6, <1>7, <1>8

(* FinishCommit keeps the invariant. *)
LEMMA KeepsFinishCommit ==
  ASSUME RenderInv, FinishCommit
  PROVE  RenderInv'
<1> USE DEF RenderInv, FinishCommit, Main, mainVars, threadVars
<1>0. frames \in Seq(Buffer) /\ Len(frames) \in Nat
  BY DEF TypeOK
<1>1. TypeOK'
  BY <1>0, NewestFrame, SizeType DEF TypeOK, ImportInv, Extent, Newest
<1>2. ImportInv'
  BY <1>0, NewestFrame, SizeType DEF TypeOK, ImportInv, SettledInv, LeavingInv, ThreadInv, Importing, Newest
<1>3. SettledInv'
  BY <1>0, NewestFrame, SizeType DEF TypeOK, ImportInv, SettledInv, Importing, Newest
<1>4. LeavingInv'
  BY <1>0, NewestFrame, SizeType DEF TypeOK, LeavingInv
<1>5. ThreadInv'
  BY <1>0, NewestFrame, SizeType DEF TypeOK, ImportInv, SettledInv, ThreadInv, Importing, Running, Newest
<1>6. OrderInv'
  BY <1>0, NewestFrame, SizeType DEF TypeOK, ImportInv, ThreadInv, OrderInv
<1>7. SizeInv'
  BY <1>0, NewestFrame, SizeType DEF TypeOK, ImportInv, SizeInv, SameSize, Extent, Newest
<1>8. WholeFrames' /\ SafeUntilReimport' /\ OnlyImageRaces'
  BY DEF WholeFrames, SafeUntilReimport, OnlyImageRaces, SameSize, LeavingInv, TypeOK
<1> QED
  BY <1>1, <1>2, <1>3, <1>4, <1>5, <1>6, <1>7, <1>8

(* CommitNoBuffer keeps the invariant. *)
LEMMA KeepsCommitNoBuffer ==
  ASSUME RenderInv, CommitNoBuffer
  PROVE  RenderInv'
<1> USE DEF RenderInv, CommitNoBuffer, Main, mainVars, threadVars
<1>0. frames \in Seq(Buffer) /\ Len(frames) \in Nat
  BY DEF TypeOK
<1>1. TypeOK'
  BY <1>0, NewestFrame, SizeType DEF TypeOK, ImportInv, Extent, Newest
<1>2. ImportInv'
  BY <1>0, NewestFrame, SizeType DEF TypeOK, ImportInv, SettledInv, LeavingInv, ThreadInv, Importing, Newest
<1>3. SettledInv'
  BY <1>0, NewestFrame, SizeType DEF TypeOK, ImportInv, SettledInv, Importing, Newest
<1>4. LeavingInv'
  BY <1>0, NewestFrame, SizeType DEF TypeOK, LeavingInv
<1>5. ThreadInv'
  BY <1>0, NewestFrame, SizeType DEF TypeOK, ImportInv, SettledInv, ThreadInv, Importing, Running, Newest
<1>6. OrderInv'
  BY <1>0, NewestFrame, SizeType DEF TypeOK, ImportInv, ThreadInv, OrderInv
<1>7. SizeInv'
  BY <1>0, NewestFrame, SizeType DEF TypeOK, ImportInv, SizeInv, SameSize, Extent, Newest
<1>8. WholeFrames' /\ SafeUntilReimport' /\ OnlyImageRaces'
  BY DEF WholeFrames, SafeUntilReimport, OnlyImageRaces, SameSize, LeavingInv, TypeOK
<1> QED
  BY <1>1, <1>2, <1>3, <1>4, <1>5, <1>6, <1>7, <1>8

(* Detach keeps the invariant. *)
LEMMA KeepsDetach ==
  ASSUME RenderInv, Detach
  PROVE  RenderInv'
<1> USE DEF RenderInv, Detach, Main, threadVars
<1>0. frames \in Seq(Buffer) /\ Len(frames) \in Nat
  BY DEF TypeOK
<1>1. TypeOK'
  BY <1>0, NewestFrame, SizeType DEF TypeOK, ImportInv, Extent, Newest
<1>2. ImportInv'
  BY <1>0, NewestFrame, SizeType DEF TypeOK, ImportInv, SettledInv, LeavingInv, ThreadInv, Importing, Newest
<1>3. SettledInv'
  BY <1>0, NewestFrame, SizeType DEF TypeOK, ImportInv, SettledInv, Importing, Newest
<1>4. LeavingInv'
  BY <1>0, NewestFrame, SizeType DEF TypeOK, LeavingInv
<1>5. ThreadInv'
  BY <1>0, NewestFrame, SizeType DEF TypeOK, ImportInv, SettledInv, ThreadInv, Importing, Running, Newest
<1>6. OrderInv'
  BY <1>0, NewestFrame, SizeType DEF TypeOK, ImportInv, ThreadInv, OrderInv
<1>7. SizeInv'
  BY <1>0, NewestFrame, SizeType DEF TypeOK, ImportInv, SizeInv, SameSize, Extent, Newest
<1>8. WholeFrames' /\ SafeUntilReimport' /\ OnlyImageRaces'
  BY DEF WholeFrames, SafeUntilReimport, OnlyImageRaces, SameSize, LeavingInv, TypeOK
<1> QED
  BY <1>1, <1>2, <1>3, <1>4, <1>5, <1>6, <1>7, <1>8

(* FreeSurface keeps the invariant. *)
LEMMA KeepsFreeSurface ==
  ASSUME RenderInv, FreeSurface
  PROVE  RenderInv'
<1> USE DEF RenderInv, FreeSurface, Main, threadVars
<1>0. frames \in Seq(Buffer) /\ Len(frames) \in Nat
  BY DEF TypeOK
<1>1. TypeOK'
  BY <1>0, NewestFrame, SizeType DEF TypeOK, ImportInv, Extent, Newest
<1>2. ImportInv'
  BY <1>0, NewestFrame, SizeType DEF TypeOK, ImportInv, SettledInv, LeavingInv, ThreadInv, Importing, Newest
<1>3. SettledInv'
  BY <1>0, NewestFrame, SizeType DEF TypeOK, ImportInv, SettledInv, Importing, Newest
<1>4. LeavingInv'
  BY <1>0, NewestFrame, SizeType DEF TypeOK, LeavingInv
<1>5. ThreadInv'
  BY <1>0, NewestFrame, SizeType DEF TypeOK, ImportInv, SettledInv, ThreadInv, Importing, Running, Newest
<1>6. OrderInv'
  BY <1>0, NewestFrame, SizeType DEF TypeOK, ImportInv, ThreadInv, OrderInv
<1>7. SizeInv'
  BY <1>0, NewestFrame, SizeType DEF TypeOK, ImportInv, SizeInv, SameSize, Extent, Newest
<1>8. WholeFrames' /\ SafeUntilReimport' /\ OnlyImageRaces'
  BY DEF WholeFrames, SafeUntilReimport, OnlyImageRaces, SameSize, LeavingInv, TypeOK
<1> QED
  BY <1>1, <1>2, <1>3, <1>4, <1>5, <1>6, <1>7, <1>8

(* Import keeps the invariant. *)
LEMMA KeepsImport ==
  ASSUME RenderInv, NEW b \in Buffer, Import(b)
  PROVE  RenderInv'
<1> USE DEF RenderInv, Import, Main, threadVars
<1>0. frames \in Seq(Buffer) /\ Len(frames) \in Nat
  BY DEF TypeOK
<1>1. TypeOK'
  BY <1>0, NewestFrame, SizeType DEF TypeOK, ImportInv, Extent, Newest
<1>2. ImportInv'
  BY <1>0, NewestFrame, SizeType DEF TypeOK, ImportInv, SettledInv, LeavingInv, ThreadInv, Importing, Newest
<1>3. SettledInv'
  BY <1>0, NewestFrame, SizeType DEF TypeOK, ImportInv, SettledInv, Importing, Newest
<1>4. LeavingInv'
  BY <1>0, NewestFrame, SizeType DEF TypeOK, LeavingInv
<1>5. ThreadInv'
  BY <1>0, NewestFrame, SizeType DEF TypeOK, ImportInv, SettledInv, ThreadInv, Importing, Running, Newest
<1>6. OrderInv'
  BY <1>0, NewestFrame, SizeType DEF TypeOK, ImportInv, ThreadInv, OrderInv
<1>7. SizeInv'
  <2>1. frames' = Append(frames, b) /\ frames' # <<>> /\ viewport' = viewport /\ arg' = arg
    BY <1>0, Appended
  <2> SUFFICES ASSUME SameSize', NEW n \in DOMAIN frames'
               PROVE  /\ viewport.w <= Size[frames'[n]].w /\ viewport.h <= Size[frames'[n]].h
                      /\ \A w \in Window : arg[w].w <= Size[frames'[n]].w
                                             /\ arg[w].h <= Size[frames'[n]].h
    BY <2>1 DEF SizeInv
  <2>2. frames' \in Seq(Buffer) /\ Len(frames') = Len(frames) + 1
    BY <1>0, <2>1, Appended
  <2>3. Size[frames'[n]].w \in Nat /\ Size[frames'[n]].h \in Nat
    BY <2>2, SizeType
  <2>4. CASE frames = <<>>
    BY <2>3, <2>4 DEF SizeInv
  <2>5. CASE frames # <<>>
    <3>1. Len(frames) # 0 /\ 1 \in DOMAIN frames /\ 1 \in DOMAIN frames'
      BY <1>0, <2>2, <2>5
    <3>2. \A k \in DOMAIN frames : frames'[k] = frames[k] /\ k \in DOMAIN frames'
      BY <1>0, <2>1, <2>2, Appended
    <3>3. SameSize
      BY <3>2 DEF SameSize
    <3>4. Size[frames'[n]] = Size[frames[1]]
      BY <3>1, <3>2 DEF SameSize
    <3> QED
      BY <3>1, <3>3, <3>4 DEF SizeInv
  <2> QED
    BY <2>4, <2>5
<1>8. WholeFrames' /\ SafeUntilReimport' /\ OnlyImageRaces'
  <2>1. end' = "none" /\ shown' = shown /\ filled' = filled
    BY DEF Running
  <2> QED
    BY <2>1 DEF WholeFrames, SafeUntilReimport, OnlyImageRaces
<1> QED
  BY <1>1, <1>2, <1>3, <1>4, <1>5, <1>6, <1>7, <1>8

(* DestroyBuffer keeps the invariant. *)
LEMMA KeepsDestroyBuffer ==
  ASSUME RenderInv, NEW b \in Buffer, DestroyBuffer(b)
  PROVE  RenderInv'
<1> USE DEF RenderInv, DestroyBuffer, Main, threadVars
<1>0. frames \in Seq(Buffer) /\ Len(frames) \in Nat
  BY DEF TypeOK
<1>1. TypeOK'
  BY <1>0, NewestFrame, SizeType DEF TypeOK, ImportInv, Extent, Newest
<1>2. ImportInv'
  BY <1>0, NewestFrame, SizeType DEF TypeOK, ImportInv, SettledInv, LeavingInv, ThreadInv, Importing, Newest
<1>3. SettledInv'
  BY <1>0, NewestFrame, SizeType DEF TypeOK, ImportInv, SettledInv, Importing, Newest
<1>4. LeavingInv'
  BY <1>0, NewestFrame, SizeType DEF TypeOK, LeavingInv
<1>5. ThreadInv'
  BY <1>0, NewestFrame, SizeType DEF TypeOK, ImportInv, SettledInv, ThreadInv, Importing, Running, Newest
<1>6. OrderInv'
  BY <1>0, NewestFrame, SizeType DEF TypeOK, ImportInv, ThreadInv, OrderInv
<1>7. SizeInv'
  BY <1>0, NewestFrame, SizeType DEF TypeOK, ImportInv, SizeInv, SameSize, Extent, Newest
<1>8. WholeFrames' /\ SafeUntilReimport' /\ OnlyImageRaces'
  BY DEF WholeFrames, SafeUntilReimport, OnlyImageRaces, SameSize, LeavingInv, TypeOK
<1> QED
  BY <1>1, <1>2, <1>3, <1>4, <1>5, <1>6, <1>7, <1>8

(* Leave keeps the invariant. *)
LEMMA KeepsLeave ==
  ASSUME RenderInv, Leave
  PROVE  RenderInv'
<1> USE DEF RenderInv, Leave, Main, threadVars
<1>0. frames \in Seq(Buffer) /\ Len(frames) \in Nat
  BY DEF TypeOK
<1>1. TypeOK'
  BY <1>0, NewestFrame, SizeType DEF TypeOK, ImportInv, Extent, Newest
<1>2. ImportInv'
  BY <1>0, NewestFrame, SizeType DEF TypeOK, ImportInv, SettledInv, LeavingInv, ThreadInv, Importing, Newest
<1>3. SettledInv'
  BY <1>0, NewestFrame, SizeType DEF TypeOK, ImportInv, SettledInv, Importing, Newest
<1>4. LeavingInv'
  BY <1>0, NewestFrame, SizeType DEF TypeOK, LeavingInv
<1>5. ThreadInv'
  BY <1>0, NewestFrame, SizeType DEF TypeOK, ImportInv, SettledInv, ThreadInv, Importing, Running, Newest
<1>6. OrderInv'
  BY <1>0, NewestFrame, SizeType DEF TypeOK, ImportInv, ThreadInv, OrderInv
<1>7. SizeInv'
  BY <1>0, NewestFrame, SizeType DEF TypeOK, ImportInv, SizeInv, SameSize, Extent, Newest
<1>8. WholeFrames' /\ SafeUntilReimport' /\ OnlyImageRaces'
  BY DEF WholeFrames, SafeUntilReimport, OnlyImageRaces, SameSize, LeavingInv, TypeOK
<1> QED
  BY <1>1, <1>2, <1>3, <1>4, <1>5, <1>6, <1>7, <1>8

(* StartThread keeps the invariant. *)
LEMMA KeepsStartThread ==
  ASSUME RenderInv, NEW v \in Window, StartThread(v)
  PROVE  RenderInv'
<1> USE DEF RenderInv, StartThread, StartsThread, mainVars
<1>0. frames \in Seq(Buffer) /\ Len(frames) \in Nat
  BY DEF TypeOK
<1>1. TypeOK'
  BY <1>0, NewestFrame, SizeType DEF TypeOK, ImportInv, Extent, Newest
<1>2. ImportInv'
  BY <1>0, NewestFrame, SizeType DEF TypeOK, ImportInv, SettledInv, LeavingInv, ThreadInv, Importing, Newest
<1>3. SettledInv'
  BY <1>0, NewestFrame, SizeType DEF TypeOK, ImportInv, SettledInv, Importing, Newest
<1>4. LeavingInv'
  BY <1>0, NewestFrame, SizeType DEF TypeOK, LeavingInv
<1>5. ThreadInv'
  BY <1>0, NewestFrame, SizeType DEF TypeOK, ImportInv, SettledInv, ThreadInv, Importing, Running, Newest
<1>6. OrderInv'
  BY <1>0, NewestFrame, SizeType DEF TypeOK, ImportInv, ThreadInv, OrderInv
<1>7. SizeInv'
  BY <1>0, NewestFrame, SizeType DEF TypeOK, ImportInv, SizeInv, SameSize, Extent, Newest
<1>8. WholeFrames' /\ SafeUntilReimport' /\ OnlyImageRaces'
  BY DEF WholeFrames, SafeUntilReimport, OnlyImageRaces, SameSize, LeavingInv, TypeOK
<1> QED
  BY <1>1, <1>2, <1>3, <1>4, <1>5, <1>6, <1>7, <1>8

(* ReadBuffer keeps the invariant. *)
LEMMA KeepsReadBuffer ==
  ASSUME RenderInv, NEW v \in Window, ReadBuffer(v)
  PROVE  RenderInv'
<1> DEFINE Args == [buf : Buffer \cup {NULL}, img : 0..Len(frames), w : Nat, h : Nat]
           new == [arg[v] EXCEPT !.buf = shm_buffer]
<1> USE DEF RenderInv
<1>1. /\ Running /\ pc[v] = "buffer" /\ pc' = [pc EXCEPT ![v] = "access"]
      /\ UNCHANGED <<main, mainVars, shown, unread>>
      /\ since' = [since EXCEPT ![v] = IF Importing THEN 0 ELSE Len(frames)]
      /\ \/ surface = "freed" /\ end' = "freed_surface" /\ arg' = arg
         \/ surface # "freed" /\ end' = end /\ arg' = [arg EXCEPT ![v] = new]
  BY DEF ReadBuffer, Read, Thread
<1>2. arg \in [Window -> Args] /\ frames \in Seq(Buffer) /\ Len(frames) \in Nat
  BY DEF TypeOK
<1>3. arg[v] \in Args
  BY <1>2
<1>4. /\ new \in Args
      /\ new.buf = shm_buffer /\ new.img = arg[v].img /\ new.w = arg[v].w /\ new.h = arg[v].h
  BY <1>3 DEF TypeOK, Extent
<1> HIDE DEF new
<1>5. arg' \in [Window -> Args]
  BY <1>1, <1>2, <1>4
<1>6. /\ \A w \in Window : w # v => arg'[w] = arg[w] /\ pc'[w] = pc[w]
      /\ pc'[v] = "access"
      /\ \/ end' = "freed_surface" /\ arg'[v] = arg[v]
         \/ end' = end /\ arg'[v] = new
  BY <1>1, <1>2 DEF TypeOK
<1> HIDE DEF Args
<1>7. TypeOK'
  <2>1. pc' \in [Window -> {"none", "buffer", "access", "put"}]
    BY <1>1 DEF TypeOK
  <2>2. end' \in {"none", "freed_surface"}
    BY <1>1 DEF Running
  <2>3. since' \in [Window -> 0..Len(frames)]
    BY <1>1, <1>2 DEF TypeOK
  <2> QED
    BY <1>1, <1>5, <2>1, <2>2, <2>3 DEF TypeOK, mainVars, Args
<1>8. ImportInv' /\ SettledInv' /\ LeavingInv'
  BY <1>1 DEF ImportInv, SettledInv, LeavingInv, Importing, Newest, mainVars
<1>9. ThreadInv'
  <2> SUFFICES ASSUME NEW w \in Window
               PROVE
                 /\ pc'[w] # "none" => /\ frames # <<>> /\ shmseg # 0 /\ x_img # 0
                                       /\ Importing => Len(frames) >= 2
                 /\ Running' /\ pc'[w] \in {"access", "put"} => arg'[w].buf \in Buffer
                 /\ Running' /\ pc'[w] = "put" =>
                      /\ "img" \notin unread'[w] => arg'[w].img # 0
                      /\ "w" \notin unread'[w] /\ Len(frames) = 1 => arg'[w].w = Size[frames[1]].w
                      /\ "h" \notin unread'[w] /\ Len(frames) = 1 => arg'[w].h = Size[frames[1]].h
    BY <1>1 DEF ThreadInv, Importing, mainVars
  <2>1. CASE w # v
    BY <1>1, <1>6, <2>1 DEF ThreadInv, Running
  <2>2. CASE w = v
    <3>1. /\ frames # <<>> /\ shmseg # 0 /\ x_img # 0 /\ (Importing => Len(frames) >= 2)
          /\ Newest \in Buffer /\ shm_buffer = Newest
      BY <1>1, <1>2, NewestFrame DEF ThreadInv, ImportInv
    <3> QED
      BY <1>1, <1>4, <1>6, <2>2, <3>1 DEF ThreadInv, Running
  <2> QED
    BY <2>1, <2>2
<1>10. OrderInv'
  <2> SUFFICES ASSUME NEW w \in Window
               PROVE  /\ shown[w].seg <= shmseg
                      /\ shown[w].img <= arg'[w].img /\ arg'[w].img <= x_img
    BY <1>1 DEF OrderInv, mainVars
  <2>1. /\ shown[w].img \in Nat /\ arg[w].img \in Nat /\ x_img \in Nat /\ arg[v].img \in Nat
        /\ shown[v].img <= arg[v].img /\ arg[v].img <= x_img /\ shown[v].img \in Nat
    BY DEF TypeOK, OrderInv
  <2> QED
    BY <1>4, <1>6, <2>1 DEF OrderInv
<1>11. SizeInv'
  <2>0. frames # <<>>
    BY <1>1 DEF ThreadInv
  <2> SUFFICES ASSUME SameSize, NEW n \in DOMAIN frames, NEW w \in Window
               PROVE  arg'[w].w <= Size[frames[n]].w /\ arg'[w].h <= Size[frames[n]].h
    BY <1>1, <2>0 DEF SizeInv, SameSize, mainVars
  <2>1. /\ arg[w].w <= Size[frames[n]].w /\ arg[w].h <= Size[frames[n]].h
        /\ arg[v].w <= Size[frames[n]].w /\ arg[v].h <= Size[frames[n]].h
        /\ viewport.w <= Size[frames[n]].w /\ viewport.h <= Size[frames[n]].h
    BY DEF SizeInv
  <2> QED
    BY <1>4, <1>6, <2>1
<1>12. WholeFrames' /\ SafeUntilReimport' /\ OnlyImageRaces'
  <2>1. end' # end => left
    BY <1>1 DEF LeavingInv, Running
  <2> QED
    BY <1>1, <2>1 DEF WholeFrames, SafeUntilReimport, OnlyImageRaces, SameSize, mainVars
<1> QED
  BY <1>7, <1>8, <1>9, <1>10, <1>11, <1>12

(* BeginAccess keeps the invariant. *)
LEMMA KeepsBeginAccess ==
  ASSUME RenderInv, NEW v \in Window, BeginAccess(v)
  PROVE  RenderInv'
<1> USE DEF RenderInv, BeginAccess, Thread, mainVars
<1>0. frames \in Seq(Buffer) /\ Len(frames) \in Nat
  BY DEF TypeOK
<1>1. TypeOK'
  BY <1>0, NewestFrame, SizeType DEF TypeOK, ImportInv, Extent, Newest
<1>2. ImportInv'
  BY <1>0, NewestFrame, SizeType DEF TypeOK, ImportInv, SettledInv, LeavingInv, ThreadInv, Importing, Newest
<1>3. SettledInv'
  BY <1>0, NewestFrame, SizeType DEF TypeOK, ImportInv, SettledInv, Importing, Newest
<1>4. LeavingInv'
  BY <1>0, NewestFrame, SizeType DEF TypeOK, LeavingInv
<1>5. ThreadInv'
  <2>1. \A w \in Window :
          \/ pc'[w] = pc[w] /\ unread'[w] = unread[w]
          \/ w = v /\ pc[w] = "access" /\ pc'[w] = "put" /\ unread'[w] = PutArg
    <3>1. /\ pc \in [Window -> {"none", "buffer", "access", "put"}]
          /\ unread \in [Window -> SUBSET PutArg]
      BY DEF TypeOK
    <3>2. /\ pc[v] = "access" /\ pc' = [pc EXCEPT ![v] = "put"]
          /\ unread' = [unread EXCEPT ![v] = PutArg]
      OBVIOUS
    <3> HIDE DEF RenderInv, BeginAccess, Thread
    <3> QED
      BY <3>1, <3>2
  <2> QED
    BY <2>1 DEF ThreadInv, Importing, Running, PutArg
<1>6. OrderInv'
  BY <1>0, NewestFrame, SizeType DEF TypeOK, ImportInv, ThreadInv, OrderInv
<1>7. SizeInv'
  BY <1>0, NewestFrame, SizeType DEF TypeOK, ImportInv, SizeInv, SameSize, Extent, Newest
<1>8. bufs = Buffer => end' = end
  BY DEF ThreadInv, Running
<1>9. WholeFrames' /\ SafeUntilReimport' /\ OnlyImageRaces'
  BY <1>8 DEF WholeFrames, SafeUntilReimport, OnlyImageRaces, SameSize
<1> QED
  BY <1>1, <1>2, <1>3, <1>4, <1>5, <1>6, <1>7, <1>9

(* Reading an argument keeps the invariant. *)
LEMMA KeepsReadArg ==
  ASSUME RenderInv, NEW v \in Window, NEW a \in PutArg, NEW new, ReadArg(v, a, new),
         new = CASE a = "img" -> [arg[v] EXCEPT !.img = x_img]
                 [] a = "w" -> [arg[v] EXCEPT !.w = viewport.w]
                 [] a = "h" -> [arg[v] EXCEPT !.h = viewport.h]
  PROVE  RenderInv'
<1> DEFINE Args == [buf : Buffer \cup {NULL}, img : 0..Len(frames), w : Nat, h : Nat]
<1> USE DEF RenderInv
<1>1. /\ Running /\ pc[v] = "put" /\ pc' = [pc EXCEPT ![v] = "put"]
      /\ UNCHANGED <<main, mainVars, shown, since>>
      /\ unread' = [unread EXCEPT ![v] = @ \ {a}]
      /\ \/ surface = "freed" /\ end' = "freed_surface" /\ arg' = arg
         \/ surface # "freed" /\ end' = end /\ arg' = [arg EXCEPT ![v] = new]
  BY DEF ReadArg, Read, Thread
<1>2. arg \in [Window -> Args] /\ frames \in Seq(Buffer) /\ Len(frames) \in Nat
  BY DEF TypeOK
<1>3. arg[v] \in Args
  BY <1>2
<1>4. /\ new \in Args /\ new.buf = arg[v].buf
      /\ new.img = IF a = "img" THEN x_img ELSE arg[v].img
      /\ new.w = IF a = "w" THEN viewport.w ELSE arg[v].w
      /\ new.h = IF a = "h" THEN viewport.h ELSE arg[v].h
  <2>1. viewport.w \in Nat /\ viewport.h \in Nat /\ x_img \in 0..Len(frames)
    BY DEF TypeOK, Extent
  <2> QED
    BY <1>3, <2>1 DEF PutArg
<1>5. arg' \in [Window -> Args]
  BY <1>1, <1>2, <1>4
<1>6. /\ \A w \in Window : w # v => arg'[w] = arg[w] /\ unread'[w] = unread[w]
      /\ pc' = pc /\ unread'[v] = unread[v] \ {a}
      /\ \/ end' = "freed_surface" /\ arg'[v] = arg[v]
         \/ end' = end /\ arg'[v] = new
  BY <1>1, <1>2 DEF TypeOK
<1> HIDE DEF Args
<1>7. TypeOK'
  <2>1. pc' \in [Window -> {"none", "buffer", "access", "put"}]
    BY <1>1 DEF TypeOK
  <2>2. end' \in {"none", "freed_surface"}
    BY <1>1 DEF Running
  <2>3. unread' \in [Window -> SUBSET PutArg]
    BY <1>1 DEF TypeOK
  <2> QED
    BY <1>1, <1>5, <2>1, <2>2, <2>3 DEF TypeOK, mainVars, Args
<1>8. ImportInv' /\ SettledInv' /\ LeavingInv'
  BY <1>1 DEF ImportInv, SettledInv, LeavingInv, Importing, Newest, mainVars
<1>9. ThreadInv'
  <2> SUFFICES ASSUME NEW w \in Window
               PROVE
                 /\ pc'[w] # "none" => /\ frames # <<>> /\ shmseg # 0 /\ x_img # 0
                                       /\ Importing => Len(frames) >= 2
                 /\ Running' /\ pc'[w] \in {"access", "put"} => arg'[w].buf \in Buffer
                 /\ Running' /\ pc'[w] = "put" =>
                      /\ "img" \notin unread'[w] => arg'[w].img # 0
                      /\ "w" \notin unread'[w] /\ Len(frames) = 1 => arg'[w].w = Size[frames[1]].w
                      /\ "h" \notin unread'[w] /\ Len(frames) = 1 => arg'[w].h = Size[frames[1]].h
    BY <1>1 DEF ThreadInv, Importing, mainVars
  <2>1. CASE w # v
    BY <1>1, <1>6, <2>1 DEF ThreadInv, Running
  <2>2. CASE w = v
    <3>1. /\ frames # <<>> /\ shmseg # 0 /\ x_img # 0 /\ (Importing => Len(frames) >= 2)
          /\ Newest \in Buffer /\ shm_buffer = Newest
      BY <1>1, <1>2, NewestFrame DEF ThreadInv, ImportInv
    <3>2. Len(frames) = 1 =>
            viewport.w = Size[frames[1]].w /\ viewport.h = Size[frames[1]].h
      BY <3>1 DEF SettledInv, Newest
    <3>3. /\ arg[v].buf \in Buffer
          /\ "img" \notin unread[v] => arg[v].img # 0
          /\ "w" \notin unread[v] /\ Len(frames) = 1 => arg[v].w = Size[frames[1]].w
          /\ "h" \notin unread[v] /\ Len(frames) = 1 => arg[v].h = Size[frames[1]].h
      BY <1>1 DEF ThreadInv
    <3>4. CASE a = "img"
      BY <1>1, <1>4, <1>6, <2>2, <3>1, <3>3, <3>4 DEF Running
    <3>5. CASE a = "w"
      <4>1. Len(frames) = 1 => ~Importing
        BY <3>1
      <4> QED
        BY <1>1, <1>4, <1>6, <2>2, <3>1, <3>2, <3>3, <3>5, <4>1 DEF Running
    <3>6. CASE a = "h"
      BY <1>1, <1>4, <1>6, <2>2, <3>1, <3>2, <3>3, <3>6 DEF Running
    <3> QED
      BY <3>4, <3>5, <3>6 DEF PutArg
  <2> QED
    BY <2>1, <2>2
<1>10. OrderInv'
  <2> SUFFICES ASSUME NEW w \in Window
               PROVE  /\ shown[w].seg <= shmseg
                      /\ shown[w].img <= arg'[w].img /\ arg'[w].img <= x_img
    BY <1>1 DEF OrderInv, mainVars
  <2>1. /\ shown[w].img \in Nat /\ arg[w].img \in Nat /\ x_img \in Nat /\ arg[v].img \in Nat
        /\ shown[v].img <= arg[v].img /\ arg[v].img <= x_img /\ shown[v].img \in Nat
    BY DEF TypeOK, OrderInv
  <2>2. new.img \in {x_img, arg[v].img}
    BY <1>4
  <2>3. arg'[v].img \in {x_img, arg[v].img}
    BY <1>6, <2>2
  <2> QED
    BY <1>6, <2>1, <2>3 DEF OrderInv
<1>11. SizeInv'
  <2>0. frames # <<>>
    BY <1>1 DEF ThreadInv
  <2> SUFFICES ASSUME SameSize, NEW n \in DOMAIN frames, NEW w \in Window
               PROVE  arg'[w].w <= Size[frames[n]].w /\ arg'[w].h <= Size[frames[n]].h
    BY <1>1, <2>0 DEF SizeInv, SameSize, mainVars
  <2>1. /\ arg[w].w <= Size[frames[n]].w /\ arg[w].h <= Size[frames[n]].h
        /\ arg[v].w <= Size[frames[n]].w /\ arg[v].h <= Size[frames[n]].h
        /\ viewport.w <= Size[frames[n]].w /\ viewport.h <= Size[frames[n]].h
    BY DEF SizeInv
  <2> QED
    BY <1>4, <1>6, <2>1
<1>12. WholeFrames' /\ SafeUntilReimport' /\ OnlyImageRaces'
  <2>1. end' # end => left
    BY <1>1 DEF LeavingInv, Running
  <2> QED
    BY <1>1, <2>1 DEF WholeFrames, SafeUntilReimport, OnlyImageRaces, SameSize, mainVars
<1> QED
  BY <1>7, <1>8, <1>9, <1>10, <1>11, <1>12

LEMMA KeepsReads ==
  ASSUME RenderInv, NEW v \in Window, ReadImage(v) \/ ReadWidth(v) \/ ReadHeight(v)
  PROVE  RenderInv'
<1>1. CASE ReadImage(v)
  BY <1>1, KeepsReadArg DEF ReadImage, PutArg
<1>2. CASE ReadWidth(v)
  BY <1>2, KeepsReadArg DEF ReadWidth, PutArg
<1>3. CASE ReadHeight(v)
  BY <1>3, KeepsReadArg DEF ReadHeight, PutArg
<1> QED
  BY <1>1, <1>2, <1>3

(* What Put can end with: only the image, or its memory, is ever missing to a
   client whose buffers have one size, and nothing before a second import. *)
LEMMA PutEnds ==
  ASSUME RenderInv, NEW v \in Window, pc[v] = "put", unread[v] = {}, Running, ~left,
         NEW why \in PutFaults(arg[v])
  PROVE  /\ Len(frames) >= 2
         /\ SameSize => why \in {"freed_image", "bad_offset"}
<1> USE DEF RenderInv
<1>1. /\ frames \in Seq(Buffer) /\ Len(frames) \in Nat /\ frames # <<>>
      /\ arg[v].img \in 1..Len(frames) /\ shmseg \in 1..Len(frames)
      /\ Importing => Len(frames) >= 2
      /\ Len(frames) = 1 => arg[v].w = Size[frames[1]].w /\ arg[v].h = Size[frames[1]].h
      /\ arg[v].img <= x_img /\ x_img \in 0..Len(frames)
  BY DEF TypeOK, ThreadInv, OrderInv
<1>2. shmseg \in attached
  BY <1>1 DEF ImportInv, LeavingInv
<1>3. /\ Len(frames) \in Nat \ {0}
      /\ frames[arg[v].img] \in Buffer /\ frames[shmseg] \in Buffer /\ frames[1] \in Buffer
  BY <1>1, NewestFrame
<1>4. Len(frames) >= 2
  <2>0. \A k \in Nat \ {0} : k = 1 \/ k >= 2
    OBVIOUS
  <2> SUFFICES ASSUME Len(frames) = 1 PROVE FALSE
    BY <1>3, <2>0
  <2>1. arg[v].img = 1 /\ shmseg = 1 /\ x_img = 1
    BY <1>1
  <2>2. ~Importing /\ main \in {"idle", "callback"}
    BY <1>1 DEF TypeOK, Importing, LeavingInv
  <2>3. 1 \in images
    BY <1>1, <2>1, <2>2 DEF SettledInv
  <2>4. Size[frames[1]].w \in Nat /\ Size[frames[1]].h \in Nat
    BY <1>3, SizeType
  <2>5. Size[frames[1]].w * Size[frames[1]].h \in Nat
    BY <2>4
  <2>6. data = shmaddr
    BY <2>2 DEF ImportInv
  <2> QED
    BY <1>1, <1>2, <2>1, <2>3, <2>4, <2>5, <2>6 DEF PutFaults
<1>5. ASSUME SameSize PROVE why \in {"freed_image", "bad_offset"}
  <2> DEFINE a == frames[arg[v].img]
             t == frames[shmseg]
  <2>1. Size[a] = Size[t]
    BY <1>1, <1>5 DEF SameSize
  <2>2. arg[v].w <= Size[a].w /\ arg[v].h <= Size[a].h
    BY <1>1, <1>5 DEF SizeInv
  <2>3. /\ Size[a].w \in Nat /\ Size[a].h \in Nat
        /\ arg[v].w \in Nat /\ arg[v].h \in Nat
    BY <1>3, SizeType DEF TypeOK
  <2>4. Size[a].w * Size[a].h \in Nat
    BY <2>3
  <2> HIDE DEF a, t
  <2>5. /\ ~(Size[a].w * Size[a].h > Size[t].w * Size[t].h)
        /\ ~(arg[v].w > Size[a].w \/ arg[v].h > Size[a].h)
    BY <2>1, <2>2, <2>3, <2>4
  <2> QED
    BY <1>2, <2>5 DEF PutFaults, a, t
<1> QED
  BY <1>4, <1>5

(* Put keeps the invariant. *)
LEMMA KeepsPut ==
  ASSUME RenderInv, NEW v \in Window, Put(v)
  PROVE  RenderInv'
<1> DEFINE painted == [img |-> arg[v].img, seg |-> shmseg]
<1> USE DEF RenderInv
<1>1. /\ Running /\ pc[v] = "put" /\ unread[v] = {} /\ pc' = [pc EXCEPT ![v] = "buffer"]
      /\ UNCHANGED <<main, mainVars, arg, unread, since>>
      /\ \/ end' \in PutFaults(arg[v]) /\ shown' = shown
         \/ end' = end /\ shown' = shown
         \/ PutFaults(arg[v]) = {} /\ end' = end /\ shown' = [shown EXCEPT ![v] = painted]
  BY DEF Put, Thread
<1>2. /\ shown \in [Window -> [img : 0..Len(frames), seg : 0..Len(frames)]]
      /\ painted \in [img : 0..Len(frames), seg : 0..Len(frames)]
      /\ painted.img = arg[v].img /\ painted.seg = shmseg
  BY DEF TypeOK
<1> HIDE DEF painted
<1>3. /\ shown' \in [Window -> [img : 0..Len(frames), seg : 0..Len(frames)]]
      /\ \A w \in Window : shown'[w] = shown[w] \/ (w = v /\ shown'[w] = painted)
  BY <1>1, <1>2
<1>4. end' = "none" \/ end' \in PutFaults(arg[v])
  BY <1>1 DEF Running
<1>5. TypeOK'
  <2>1. pc' \in [Window -> {"none", "buffer", "access", "put"}]
    BY <1>1 DEF TypeOK
  <2>2. end' \in {"none", "freed_image", "bad_offset", "bad_shmseg", "bad_access", "bad_value"}
    BY <1>4 DEF PutFaults
  <2> QED
    BY <1>1, <1>3, <2>1, <2>2 DEF TypeOK, mainVars
<1>6. ImportInv' /\ SettledInv' /\ LeavingInv' /\ SizeInv'
  BY <1>1 DEF ImportInv, SettledInv, LeavingInv, SizeInv, SameSize, Importing, Newest, mainVars
<1>7. ThreadInv'
  <2>1. \A w \in Window : pc'[w] = pc[w] \/ (w = v /\ pc'[w] = "buffer")
    BY <1>1 DEF TypeOK
  <2> QED
    BY <1>1, <2>1 DEF ThreadInv, Importing, Running, mainVars
<1>8. OrderInv'
  <2>1. arg[v].img \in Nat /\ shmseg \in Nat
    BY DEF TypeOK
  <2>2. ASSUME NEW w \in Window PROVE shown'[w].seg <= shmseg /\ shown'[w].img <= arg[w].img
    <3>1. CASE shown'[w] = shown[w]
      BY <3>1 DEF OrderInv
    <3>2. CASE w = v /\ shown'[w] = painted
      BY <1>2, <2>1, <3>2
    <3> QED
      BY <1>3, <3>1, <3>2
  <2> QED
    BY <1>1, <2>2 DEF OrderInv, mainVars
<1>9. WholeFrames'
  <2>1. shown' # shown => shmseg \in filled \/ shmseg = 0
    <3>1. CASE PutFaults(arg[v]) = {}
      <4>1. shmseg \in attached
        BY <3>1 DEF PutFaults
      <4> QED
        BY <4>1 DEF ImportInv
    <3> QED
      BY <1>1, <3>1
  <2> QED
    BY <1>1, <1>2, <1>3, <2>1 DEF WholeFrames, mainVars
<1>10. SafeUntilReimport' /\ OnlyImageRaces'
  <2>1. ~left => end' = end \/ (Len(frames) >= 2 /\ (SameSize => end' \in {"freed_image", "bad_offset"}))
    BY <1>1, PutEnds
  <2>2. Len(frames) \in Nat
    BY DEF TypeOK
  <2> QED
    BY <1>1, <2>1, <2>2 DEF SafeUntilReimport, OnlyImageRaces, SameSize, mainVars
<1> QED
  BY <1>5, <1>6, <1>7, <1>8, <1>9, <1>10

-----------------------------------------------------------------------------
LEMMA RenderInvInit == Init => RenderInv
<1> SUFFICES ASSUME Init PROVE RenderInv
  OBVIOUS
<1>1. frames = <<>> /\ Len(frames) = 0 /\ frames \in Seq(Buffer)
  BY DEF Init
<1>2. TypeOK
  <2>1. viewport \in Extent /\ NoArg \in [buf : Buffer \cup {NULL}, img : 0..Len(frames), w : Nat, h : Nat]
    BY <1>1 DEF Init, NoArg, Extent
  <2>2. arg \in [Window -> [buf : Buffer \cup {NULL}, img : 0..Len(frames), w : Nat, h : Nat]]
    BY <2>1 DEF Init
  <2>3. shown \in [Window -> [img : 0..Len(frames), seg : 0..Len(frames)]]
    BY <1>1 DEF Init
  <2>4. /\ x_img \in 0..Len(frames) /\ shmseg \in 0..Len(frames)
        /\ data \in 0..Len(frames) /\ shmaddr \in 0..Len(frames)
    BY <1>1 DEF Init
  <2>5. images \subseteq 1..Len(frames) /\ filled \subseteq 1..Len(frames) /\ attached \subseteq 1..Len(frames)
    BY DEF Init
  <2>6. /\ pc \in [Window -> {"none", "buffer", "access", "put"}]
        /\ unread \in [Window -> SUBSET PutArg] /\ since \in [Window -> 0..Len(frames)]
    BY <1>1 DEF Init
  <2>7. /\ main = "idle" /\ bufs = Buffer /\ left = FALSE /\ surface = "live"
        /\ shm_buffer = NULL /\ end = "none"
    BY DEF Init
  <2> QED
    BY <1>1, <2>1, <2>2, <2>3, <2>4, <2>5, <2>6, <2>7 DEF TypeOK
<1>3. ImportInv /\ SettledInv /\ LeavingInv
  BY <1>1 DEF Init, ImportInv, SettledInv, LeavingInv, Importing
<1>4. ThreadInv /\ OrderInv
  BY <1>1 DEF Init, NoArg, ThreadInv, OrderInv, Importing, Running
<1>5. SizeInv
  BY SizeType DEF Init, NoArg, SizeInv
<1>6. WholeFrames /\ SafeUntilReimport /\ OnlyImageRaces
  BY DEF Init, WholeFrames, SafeUntilReimport, OnlyImageRaces
<1> QED
  BY <1>2, <1>3, <1>4, <1>5, <1>6 DEF RenderInv

LEMMA RenderInvStep == RenderInv /\ [Next]_vars => RenderInv'
<1> SUFFICES ASSUME RenderInv, [Next]_vars PROVE RenderInv'
  OBVIOUS
<1>1. CASE MainStep
  BY <1>1, KeepsDestroyImage, KeepsClearViewport, KeepsInitX2, KeepsInitY2, KeepsCreateImage, KeepsMapSegment, KeepsFill,
     KeepsAttachSegment, KeepsStartThread, KeepsFinishCommit, KeepsDetach, KeepsFreeSurface
  DEF MainStep
<1>2. CASE Client
  BY <1>2, KeepsImport, KeepsDestroyBuffer, KeepsCommitNoBuffer, KeepsLeave DEF Client
<1>3. ASSUME NEW w \in Window, ThreadStep(w) PROVE RenderInv'
  BY <1>3, KeepsReadBuffer, KeepsBeginAccess, KeepsReads, KeepsPut DEF ThreadStep
<1>4. CASE UNCHANGED vars
  BY <1>4 DEF vars, mainVars, threadVars, RenderInv, TypeOK, ImportInv, SettledInv, LeavingInv, ThreadInv, OrderInv, SizeInv,
     SameSize, Importing, Newest, Running, WholeFrames, SafeUntilReimport, OnlyImageRaces
<1> QED
  BY <1>1, <1>2, <1>3, <1>4 DEF Next

(* The invariant: how far an import is, what the threads have read of it, and
   that nothing bad has come of it. *)
THEOREM RenderInvariance == Spec => []RenderInv
  BY RenderInvInit, RenderInvStep, PTL DEF Spec

(* Every field of the thread and of the surface keeps its type. *)
THEOREM RenderTypeCorrect == Spec => []TypeOK
<1>1. RenderInv => TypeOK
  BY DEF RenderInv
<1> QED
  BY <1>1, RenderInvariance, PTL

(* The thread of a window does no harm before a buffer is imported twice. *)
THEOREM FirstImportIsSafe == Spec => []SafeUntilReimport
<1>1. RenderInv => SafeUntilReimport
  BY DEF RenderInv
<1> QED
  BY <1>1, RenderInvariance, PTL

(* With buffers of one size, the image is the only race there is: it is freed,
   or it has no memory yet. *)
THEOREM SameSizeRacesOnce == Spec => []OnlyImageRaces
<1>1. RenderInv => OnlyImageRaces
  BY DEF RenderInv
<1> QED
  BY <1>1, RenderInvariance, PTL

(* No window shows a segment before it was filled. *)
THEOREM FramesAreWhole == Spec => []WholeFrames
<1>1. RenderInv => WholeFrames
  BY DEF RenderInv
<1> QED
  BY <1>1, RenderInvariance, PTL

-----------------------------------------------------------------------------
(* The picture. *)

(* The image is that of the pixels or of the import after them. *)
LEMMA NeighbouringFrames ==
  ASSUME RenderInv, OneAhead
  PROVE  x_img \in {shmseg, shmseg + 1}
<1>1. Len(frames) \in Nat /\ x_img \in 0..Len(frames) /\ shmseg \in 0..Len(frames)
  BY DEF RenderInv, TypeOK
<1>2. CASE Importing
  BY <1>1, <1>2 DEF Importing, OneAhead, RenderInv, ImportInv
<1>3. CASE ~Importing
  <2>1. CASE frames = <<>>
    BY <1>1, <2>1
  <2>2. CASE frames # <<>>
    BY <1>1, <1>3, <2>2 DEF RenderInv, SettledInv
  <2> QED
    BY <2>1, <2>2
<1> QED
  BY <1>2, <1>3

LEMMA PictureInvInit == Init => PictureInv
<1> SUFFICES ASSUME Init PROVE PictureInv
  OBVIOUS
<1>1. OneAhead /\ OneImage
  BY DEF Init, OneAhead, OneImage, Importing
<1>2. NewestRead /\ TornByOne
  BY DEF Init, NewestRead, TornByOne
<1> QED
  BY <1>1, <1>2 DEF PictureInv

(* An import begins with the last one done. *)
LEMMA ImportFindsWhole ==
  ASSUME RenderInv, OneAhead, NEW b \in Buffer, Import(b)
  PROVE  /\ x_img = Len(frames) /\ shmseg = Len(frames)
         /\ frames' = Append(frames, b) /\ Len(frames') = Len(frames) + 1 /\ frames' # <<>>
<1>1. frames \in Seq(Buffer) /\ Len(frames) \in Nat /\ x_img \in 0..Len(frames) /\ shmseg \in 0..Len(frames)
  BY DEF RenderInv, TypeOK
<1>2. main = "idle" /\ frames' = Append(frames, b)
  BY DEF Import, Main
<1>3. CASE frames = <<>>
  BY <1>1, <1>2, <1>3, Appended
<1>4. CASE frames # <<>>
  <2>1. x_img = Len(frames) /\ shmseg = Len(frames)
    BY <1>2, <1>4 DEF RenderInv, SettledInv, Importing
  <2> QED
    BY <1>1, <1>2, <2>1, Appended
<1> QED
  BY <1>3, <1>4

(* Whatever the main thread does but an import keeps the frames, and what was
   read of them. *)
LEMMA MainKeepsRead ==
  ASSUME PictureInv, UNCHANGED <<frames, arg, unread, since, shown, end>>,
         Importing' => Importing,
         \A w \in Window : pc'[w] \in {pc[w], "buffer"}
  PROVE  NewestRead' /\ TornByOne'
<1>1. NewestRead'
  BY DEF PictureInv, NewestRead, Running, Newest
<1>2. TornByOne'
  BY DEF PictureInv, TornByOne
<1> QED
  BY <1>1, <1>2

(* The steps of the main thread keep one image, and one frame ahead. *)
LEMMA MainKeepsPicture ==
  ASSUME RenderInv, PictureInv, MainStep \/ Client
  PROVE  PictureInv'
<1> USE DEF PictureInv
<1>0. frames \in Seq(Buffer) /\ Len(frames) \in Nat
  BY DEF RenderInv, TypeOK
<1>1. ASSUME NEW b \in Buffer, Import(b) PROVE PictureInv'
  <2>1. /\ main' = "destroy" /\ UNCHANGED <<x_img, shmseg, images, threadVars, shown, end>>
        /\ x_img = Len(frames) /\ shmseg = Len(frames) /\ Len(frames') = Len(frames) + 1 /\ frames' # <<>>
    BY <1>1, ImportFindsWhole DEF Import, Main
  <2>2. OneAhead' /\ OneImage'
    BY <1>0, <2>1 DEF OneAhead, OneImage, Importing
  <2>3. \A w \in Window : since'[w] # Len(frames')
    BY <1>0, <2>1 DEF RenderInv, TypeOK, threadVars
  <2> QED
    BY <2>1, <2>2, <2>3 DEF NewestRead, TornByOne
<1>2. ASSUME NEW w \in Window, StartThread(w) PROVE PictureInv'
  <2>1. /\ UNCHANGED <<frames, x_img, shmseg, images, arg, unread, since, shown, end>>
        /\ main' = "idle" /\ main = "callback"
        /\ pc' = [pc EXCEPT ![w] = "buffer"]
    BY <1>2 DEF StartThread, StartsThread, mainVars
  <2>2. \A v \in Window : pc'[v] \in {pc[v], "buffer"}
    BY <2>1 DEF RenderInv, TypeOK
  <2>3. OneAhead' /\ OneImage' /\ ~Importing'
    BY <2>1 DEF OneAhead, OneImage, Importing
  <2> QED
    BY <2>1, <2>2, <2>3, MainKeepsRead
<1>3. ASSUME \/ DestroyImage \/ ClearViewport \/ InitX2 \/ InitY2 \/ MapSegment \/ Fill \/ FinishCommit
             \/ Detach \/ FreeSurface \/ CommitNoBuffer \/ Leave
             \/ \E b \in Buffer : DestroyBuffer(b)
      PROVE  PictureInv'
  <2>1. UNCHANGED <<frames, x_img, shmseg, pc, arg, unread, since, shown, end>>
    BY <1>3 DEF threadVars, DestroyImage, ClearViewport, InitX2, InitY2, MapSegment, Fill, FinishCommit, Detach, FreeSurface,
       CommitNoBuffer, Leave, DestroyBuffer, Main, mainVars
  <2>2. OneAhead'
    BY <1>3, <2>1 DEF OneAhead, Importing, DestroyImage, ClearViewport, InitX2, InitY2, MapSegment, Fill, FinishCommit,
       Detach, FreeSurface, CommitNoBuffer, Leave, DestroyBuffer, Main, mainVars
  <2>3. OneImage'
    BY <1>3, <2>1 DEF OneImage, DestroyImage, ClearViewport, InitX2, InitY2, MapSegment, Fill, FinishCommit,
       Detach, FreeSurface, CommitNoBuffer, Leave, DestroyBuffer, Main, mainVars
  <2>4. Importing' => Importing
    BY <1>3 DEF Importing, DestroyImage, ClearViewport, InitX2, InitY2, MapSegment, Fill, FinishCommit,
       Detach, FreeSurface, CommitNoBuffer, Leave, DestroyBuffer, Main
  <2> QED
    BY <2>1, <2>2, <2>3, <2>4, MainKeepsRead
<1>4. CASE CreateImage
  <2>1. /\ UNCHANGED <<frames, shmseg, threadVars, shown, end>>
        /\ main = "create" /\ main' = "map"
        /\ x_img' = Len(frames) /\ images' = images \cup {x_img'}
    BY <1>4 DEF CreateImage, Main
  <2>2. OneAhead' /\ OneImage' /\ Importing
    BY <2>1 DEF OneAhead, OneImage, Importing
  <2> QED
    BY <2>1, <2>2, MainKeepsRead DEF threadVars
<1>5. CASE AttachSegment
  <2>1. /\ UNCHANGED <<frames, x_img, images, threadVars, shown, end>>
        /\ main' = "callback" /\ main = "attach" /\ frames # <<>>
    BY <1>5 DEF AttachSegment, Main, RenderInv, ImportInv, Importing
  <2>2. OneAhead' /\ OneImage' /\ ~Importing'
    BY <2>1 DEF OneAhead, OneImage, Importing
  <2> QED
    BY <2>1, <2>2, MainKeepsRead DEF threadVars
<1> QED
  BY <1>1, <1>2, <1>3, <1>4, <1>5 DEF MainStep, Client

(* A turn that no import has met reads the newest frame's. *)
LEMMA ReadsKeepPicture ==
  ASSUME RenderInv, PictureInv, NEW v \in Window, ThreadStep(v), ~Put(v)
  PROVE  PictureInv'
<1> USE DEF PictureInv
<1>1. /\ Running /\ UNCHANGED <<main, mainVars, shown>>
      /\ pc[v] \in {"buffer", "access", "put"}
  BY DEF ThreadStep, ReadBuffer, BeginAccess, ReadImage, ReadWidth, ReadHeight, ReadArg, Read, Thread
<1>2. OneAhead' /\ OneImage' /\ TornByOne'
  BY <1>1 DEF OneAhead, OneImage, TornByOne, Importing, mainVars
<1>3. /\ frames # <<>> /\ frames \in Seq(Buffer) /\ Len(frames) \in Nat \ {0} /\ frames' = frames
      /\ Importing' = Importing
  BY <1>1, NewestFrame DEF RenderInv, ThreadInv, TypeOK, Importing, mainVars
<1>4. ASSUME ~Importing
      PROVE  /\ shm_buffer = Newest /\ x_img = Len(frames)
             /\ viewport.w = Size[Newest].w /\ viewport.h = Size[Newest].h
  BY <1>3, <1>4 DEF RenderInv, ImportInv, SettledInv
<1>5. /\ pc \in [Window -> {"none", "buffer", "access", "put"}]
      /\ arg \in [Window -> [buf : Buffer \cup {NULL}, img : 0..Len(frames), w : Nat, h : Nat]]
      /\ unread \in [Window -> SUBSET PutArg] /\ since \in [Window -> 0..Len(frames)]
  BY DEF RenderInv, TypeOK
<1>6. ASSUME NEW w \in Window, Running', since'[w] = Len(frames)
      PROVE  /\ ~Importing
             /\ pc'[w] = "access" => arg'[w].buf = Newest
             /\ pc'[w] = "put" => /\ "img" \notin unread'[w] => arg'[w].img = Len(frames)
                                  /\ "w" \notin unread'[w] => arg'[w].w = Size[Newest].w
                                  /\ "h" \notin unread'[w] => arg'[w].h = Size[Newest].h
  <2>1. CASE w # v
    <3>1. /\ pc'[w] = pc[w] /\ arg'[w] = arg[w] /\ unread'[w] = unread[w] /\ since'[w] = since[w]
      BY <1>5, <2>1
      DEF ThreadStep, ReadBuffer, BeginAccess, ReadImage, ReadWidth, ReadHeight, ReadArg, Read, Thread
    <3> QED
      BY <1>1, <1>3, <1>6, <3>1 DEF NewestRead
  <2>2. CASE w = v /\ ReadBuffer(v)
    <3>1. /\ pc'[v] = "access" /\ since'[v] = (IF Importing THEN 0 ELSE Len(frames))
          /\ arg' = [arg EXCEPT ![v] = [arg[v] EXCEPT !.buf = shm_buffer]]
      BY <1>5, <1>6, <2>2 DEF ReadBuffer, Read, Thread, Running
    <3>2. ~Importing /\ arg'[v].buf = shm_buffer
      BY <1>3, <1>5, <1>6, <2>2, <3>1
    <3> QED
      BY <1>4, <2>2, <3>1, <3>2
  <2>3. CASE w = v /\ BeginAccess(v)
    <3>1. /\ pc'[v] = "put" /\ since'[v] = since[v] /\ unread'[v] = PutArg
      BY <1>5, <2>3 DEF BeginAccess, Thread
    <3> QED
      BY <1>1, <1>3, <1>6, <2>3, <3>1 DEF NewestRead, PutArg
  <2>4. ASSUME w = v, NEW a \in PutArg, NEW new, ReadArg(v, a, new)
        PROVE  /\ pc[v] = "put" /\ pc'[v] = "put" /\ arg'[v] = new /\ unread'[v] = unread[v] \ {a}
               /\ ~Importing
               /\ "img" \notin unread[v] => arg[v].img = Len(frames)
               /\ "w" \notin unread[v] => arg[v].w = Size[Newest].w
               /\ "h" \notin unread[v] => arg[v].h = Size[Newest].h
    <3>1. /\ pc[v] = "put" /\ pc'[v] = "put" /\ arg'[v] = new /\ unread'[v] = unread[v] \ {a}
          /\ since'[v] = since[v]
      BY <1>5, <1>6, <2>4 DEF ReadArg, Read, Thread, Running
    <3> QED
      BY <1>1, <1>3, <1>6, <2>4, <3>1 DEF NewestRead
  <2>5. CASE w = v /\ ReadImage(v)
    <3>1. "img" \in PutArg /\ ReadArg(v, "img", [arg[v] EXCEPT !.img = x_img])
      BY <2>5 DEF ReadImage, PutArg
    <3>2. /\ pc'[v] = "put" /\ arg'[v].img = Len(frames)
          /\ arg'[v].w = arg[v].w /\ arg'[v].h = arg[v].h
      BY <1>4, <1>5, <2>4, <2>5, <3>1
    <3> QED
      BY <2>4, <2>5, <3>1, <3>2
  <2>6. CASE w = v /\ ReadWidth(v)
    <3>1. "w" \in PutArg /\ ReadArg(v, "w", [arg[v] EXCEPT !.w = viewport.w])
      BY <2>6 DEF ReadWidth, PutArg
    <3> QED
      BY <1>4, <1>5, <2>4, <2>6, <3>1
  <2>7. CASE w = v /\ ReadHeight(v)
    <3>1. "h" \in PutArg /\ ReadArg(v, "h", [arg[v] EXCEPT !.h = viewport.h])
      BY <2>7 DEF ReadHeight, PutArg
    <3> QED
      BY <1>4, <1>5, <2>4, <2>7, <3>1
  <2> QED
    BY <2>1, <2>2, <2>3, <2>5, <2>6, <2>7 DEF ThreadStep
<1> QED
  BY <1>2, <1>3, <1>6 DEF NewestRead, Newest

(* What is put is the picture: an image that still exists is the only one. *)
LEMMA PutsPicture ==
  ASSUME RenderInv, PictureInv, NEW v \in Window, Put(v)
  PROVE  /\ x_img # 0 /\ shmseg # 0
         /\ \/ shown' = shown
            \/ shown' = [shown EXCEPT ![v] = [img |-> x_img, seg |-> shmseg]]
<1>1. pc[v] = "put"
  BY DEF Put, Thread
<1>2. x_img # 0 /\ shmseg # 0
  BY <1>1 DEF RenderInv, ThreadInv
<1>3. CASE PutFaults(arg[v]) # {}
  BY <1>2, <1>3 DEF Put
<1>4. CASE PutFaults(arg[v]) = {}
  <2>1. arg[v].img \in images
    BY <1>4 DEF PutFaults
  <2>2. arg[v].img = x_img
    BY <2>1 DEF PictureInv, OneImage
  <2> QED
    BY <1>2, <1>4, <2>2 DEF Put
<1> QED
  BY <1>3, <1>4

LEMMA PutKeepsPicture ==
  ASSUME RenderInv, PictureInv, NEW v \in Window, Put(v)
  PROVE  PictureInv'
<1> USE DEF PictureInv
<1>1. /\ UNCHANGED <<main, mainVars, arg, unread, since>>
      /\ pc[v] = "put" /\ pc' = [pc EXCEPT ![v] = "buffer"]
      /\ Running
  BY DEF Put, Thread
<1>2. OneAhead' /\ OneImage'
  BY <1>1 DEF OneAhead, OneImage, Importing, mainVars
<1>3. NewestRead'
  <2>1. \A w \in Window : pc'[w] \in {pc[w], "buffer"}
    BY <1>1 DEF RenderInv, TypeOK
  <2> QED
    BY <1>1, <2>1 DEF NewestRead, Importing, Running, Newest, mainVars
<1>4. TornByOne'
  <2>1. shown \in [Window -> [img : 0..Len(frames), seg : 0..Len(frames)]]
    BY DEF RenderInv, TypeOK
  <2>2. \A w \in Window : shown'[w] = shown[w] \/ (shown'[w].img = x_img /\ shown'[w].seg = shmseg)
    BY <2>1, PutsPicture
  <2> QED
    BY <2>2, NeighbouringFrames DEF TornByOne
<1> QED
  BY <1>2, <1>3, <1>4

LEMMA PictureInvStep == RenderInv /\ PictureInv /\ [Next]_vars => PictureInv'
<1> SUFFICES ASSUME RenderInv, PictureInv, [Next]_vars PROVE PictureInv'
  OBVIOUS
<1>1. CASE MainStep \/ Client
  BY <1>1, MainKeepsPicture
<1>2. ASSUME NEW w \in Window, ThreadStep(w) PROVE PictureInv'
  BY <1>2, ReadsKeepPicture, PutKeepsPicture
<1>3. CASE UNCHANGED vars
  BY <1>3 DEF vars, mainVars, threadVars, PictureInv, OneAhead, OneImage, NewestRead, TornByOne, Importing, Running, Newest
<1> QED
  BY <1>1, <1>2, <1>3 DEF Next

(* The invariant of the picture: there is one image, it is at most one import
   ahead of its pixels, and what a thread has read since the newest import is
   the newest frame's. *)
THEOREM PictureInvariance == Spec => []PictureInv
  BY RenderInvariance, PictureInvInit, PictureInvStep, PTL DEF Spec

(* A window shows an image with the pixels of its own import or of the one
   before. *)
THEOREM PicturesTearByOne == Spec => []TornByOne
<1>1. PictureInv => TornByOne
  BY DEF PictureInv
<1> QED
  BY <1>1, PictureInvariance, PTL

-----------------------------------------------------------------------------
(* The refinement, a step at a time: the image is replaced by CreateImage, the
   pixels by AttachSegment, and a turn of a thread is its Put. *)
LEMMA MapsInit == Init => Picture!Init
  BY DEF Init, Picture!Init, Picture!Nothing

LEMMA MainMaps ==
  ASSUME RenderInv, PictureInv, MainStep \/ Client
  PROVE  [Picture!Next]_(Picture!vars)
<1>0. Len(frames) \in Nat /\ shmseg \in Nat /\ x_img \in Nat
  BY DEF RenderInv, TypeOK
<1>1. ASSUME NEW b \in Buffer, Import(b) PROVE Picture!Import
  <2>1. x_img = Len(frames) /\ shmseg = Len(frames) /\ Len(frames') = Len(frames) + 1
    BY <1>1, ImportFindsWhole DEF PictureInv
  <2>2. UNCHANGED <<x_img, shmseg, shown>>
    BY <1>1 DEF Import, Main
  <2> QED
    BY <2>1, <2>2 DEF Picture!Import, Picture!Whole
<1>2. ASSUME CreateImage PROVE Picture!NewImage
  <2>1. x_img + 1 = Len(frames)
    BY <1>2 DEF CreateImage, Main, PictureInv, OneAhead
  <2>2. x_img' = Len(frames) /\ UNCHANGED <<frames, shmseg, shown>>
    BY <1>2 DEF CreateImage, Main
  <2> QED
    BY <1>0, <2>1, <2>2 DEF Picture!NewImage
<1>3. ASSUME AttachSegment PROVE Picture!NewPixels
  <2>1. main = "attach" /\ shmseg' = Len(frames) /\ UNCHANGED <<frames, x_img, shown>>
    BY <1>3 DEF AttachSegment, Main
  <2>2. x_img = Len(frames) /\ shmseg + 1 = Len(frames)
    BY <2>1 DEF RenderInv, ImportInv, PictureInv, OneAhead, Importing
  <2> QED
    BY <1>0, <2>1, <2>2 DEF Picture!NewPixels
<1>4. ASSUME \/ DestroyImage \/ ClearViewport \/ InitX2 \/ InitY2 \/ MapSegment \/ Fill \/ FinishCommit
             \/ Detach \/ FreeSurface \/ CommitNoBuffer \/ Leave
             \/ \E b \in Buffer : DestroyBuffer(b)
             \/ \E w \in Window : StartThread(w)
      PROVE  UNCHANGED Picture!vars
  <2>1. UNCHANGED <<frames, x_img, shmseg, shown>>
    BY <1>4 DEF DestroyImage, ClearViewport, InitX2, InitY2, MapSegment, Fill, FinishCommit, Detach, FreeSurface,
       CommitNoBuffer, Leave, DestroyBuffer, StartThread, Main, mainVars
  <2> QED
    BY <2>1 DEF Picture!vars
<1> QED
  BY <1>1, <1>2, <1>3, <1>4 DEF MainStep, Client, Picture!Next

LEMMA ThreadMaps ==
  ASSUME RenderInv, PictureInv, NEW v \in Window, ThreadStep(v)
  PROVE  Picture!Turn(v) \/ UNCHANGED Picture!vars
<1>1. UNCHANGED <<frames, x_img, shmseg>>
  BY DEF ThreadStep, ReadBuffer, BeginAccess, ReadImage, ReadWidth, ReadHeight, ReadArg, Read, Put,
     Thread, mainVars
<1>2. CASE Put(v)
  BY <1>1, <1>2, PutsPicture DEF Picture!Turn, Picture!vars
<1>3. CASE ~Put(v)
  <2>1. shown' = shown
    BY <1>3 DEF ThreadStep, ReadBuffer, BeginAccess, ReadImage, ReadWidth, ReadHeight, ReadArg, Read
  <2> QED
    BY <1>1, <2>1 DEF Picture!vars
<1> QED
  BY <1>2, <1>3

LEMMA StepMaps == RenderInv /\ PictureInv /\ [Next]_vars => [Picture!Next]_(Picture!vars)
<1> SUFFICES ASSUME RenderInv, PictureInv, [Next]_vars PROVE [Picture!Next]_(Picture!vars)
  OBVIOUS
<1>1. CASE MainStep \/ Client
  BY <1>1, MainMaps
<1>2. ASSUME NEW w \in Window, ThreadStep(w) PROVE [Picture!Next]_(Picture!vars)
  BY <1>2, ThreadMaps DEF Picture!Next
<1>3. CASE UNCHANGED vars
  BY <1>3 DEF vars, mainVars, Picture!vars
<1> QED
  BY <1>1, <1>2, <1>3 DEF Next

(* thread_func beside wolfen_surface_commit, step by step, implements whole
   turns beside a picture that is replaced in two steps. *)
THEOREM TurnsImplementPicture == Spec => TurnsAreAtomic
  BY RenderInvariance, PictureInvariance, MapsInit, StepMaps, PTL
  DEF Spec, TurnsAreAtomic, Picture!Spec

(* What a turn that no import has met puts is put. *)
LEMMA NewestIsPut ==
  ASSUME RenderInv, PictureInv, NEW v \in Window, pc[v] = "put", unread[v] = {}, Running, ~left,
         since[v] = Len(frames)
  PROVE  PutFaults(arg[v]) = {}
<1>1. /\ frames \in Seq(Buffer) /\ frames # <<>>
      /\ arg[v].img \in Nat \ {0} /\ shmseg # 0
  BY DEF RenderInv, TypeOK, ThreadInv
<1>2. /\ ~Importing /\ arg[v].img = Len(frames)
      /\ arg[v].w = Size[Newest].w /\ arg[v].h = Size[Newest].h
  BY <1>1 DEF PictureInv, NewestRead
<1>3. main \in {"idle", "callback"}
  BY <1>2 DEF RenderInv, TypeOK, LeavingInv, Importing
<1>4. /\ x_img = arg[v].img /\ shmseg = arg[v].img
      /\ x_img \in images
  BY <1>1, <1>2, <1>3 DEF RenderInv, SettledInv
<1>5. shmseg \in attached /\ data = shmaddr
  BY <1>1, <1>3 DEF RenderInv, ImportInv
<1>6. frames[arg[v].img] = Newest /\ frames[shmseg] = Newest
  BY <1>2, <1>4 DEF Newest
<1>7. Size[Newest].w \in Nat /\ Size[Newest].h \in Nat
  BY <1>1, NewestFrame, SizeType
<1>8. Size[Newest].w * Size[Newest].h \in Nat
  BY <1>7
<1> QED
  BY <1>2, <1>4, <1>5, <1>6, <1>7, <1>8 DEF PutFaults

(* A turn that ends the server while the client is there has met an import:
   its reads go through a surface that is live, its buffer is the newest, and
   its put is that of NewestIsPut. *)
THEOREM UndisturbedTurnsEndWell == Spec => UndisturbedTurnsSucceed
<1> DEFINE Succeeds(w) == ThreadStep(w) /\ ~left /\ end' # "none" => since[w] # Len(frames)
<1>1. ASSUME RenderInv, PictureInv, NEW v \in Window PROVE Succeeds(v)
  <2> SUFFICES ASSUME ThreadStep(v), ~left, since[v] = Len(frames) PROVE end' = "none"
    OBVIOUS
  <2>1. surface = "live" /\ end = "none"
    BY <1>1 DEF RenderInv, TypeOK, LeavingInv, ThreadStep, ReadBuffer, BeginAccess, ReadImage, ReadWidth,
       ReadHeight, ReadArg, Read, Put, Thread, Running
  <2>2. CASE ReadBuffer(v) \/ ReadImage(v) \/ ReadWidth(v) \/ ReadHeight(v)
    BY <2>1, <2>2 DEF ReadBuffer, ReadImage, ReadWidth, ReadHeight, ReadArg, Read
  <2>3. CASE BeginAccess(v)
    <3>1. pc[v] = "access" /\ frames # <<>>
      BY <1>1, <2>3 DEF BeginAccess, Thread, RenderInv, ThreadInv
    <3>2. arg[v].buf = Newest /\ Newest = shm_buffer /\ shm_buffer \in bufs
      BY <1>1, <2>1, <3>1 DEF PictureInv, NewestRead, Running, RenderInv, ImportInv, LeavingInv
    <3> QED
      BY <2>3, <3>2 DEF BeginAccess
  <2>4. CASE Put(v)
    <3>1. pc[v] = "put" /\ unread[v] = {} /\ Running
      BY <2>4 DEF Put, Thread
    <3>2. PutFaults(arg[v]) = {}
      BY <1>1, <3>1, NewestIsPut
    <3> QED
      BY <2>1, <2>4, <3>2 DEF Put
  <2> QED
    BY <2>2, <2>3, <2>4 DEF ThreadStep
<1>2. RenderInv /\ PictureInv => [\A w \in Window : Succeeds(w)]_vars
  BY <1>1
<1> QED
  BY <1>2, RenderInvariance, PictureInvariance, PTL DEF UndisturbedTurnsSucceed

(* No window goes back to an older frame: each turn puts the picture, and
   nothing shown is ahead of it. *)
THEOREM FramesStayInOrder == Spec => FramesInOrder
<1> DEFINE Forward == \A w \in Window : shown'[w].seg >= shown[w].seg /\ shown'[w].img >= shown[w].img
<1>1. ASSUME RenderInv, PictureInv, Next PROVE Forward
  <2>1. /\ shown \in [Window -> [img : 0..Len(frames), seg : 0..Len(frames)]]
        /\ Len(frames) \in Nat
    BY <1>1 DEF RenderInv, TypeOK
  <2>2. \/ shown' = shown
        \/ \E v \in Window : shown' = [shown EXCEPT ![v] = [img |-> x_img, seg |-> shmseg]]
    BY <1>1, StepMaps DEF Picture!Next, Picture!vars, Picture!Import, Picture!NewImage,
       Picture!NewPixels, Picture!Turn
  <2>3. \A w \in Window :
          shown'[w] = shown[w] \/ (shown'[w].img = x_img /\ shown'[w].seg = shmseg)
    BY <2>1, <2>2
  <2>4. ASSUME NEW w \in Window PROVE shown[w].seg <= shmseg /\ shown[w].img <= x_img
    <3>1. shown[w].img \in Nat /\ arg[w].img \in Nat /\ x_img \in Nat
      BY <1>1, <2>1 DEF RenderInv, TypeOK
    <3> QED
      BY <1>1, <3>1 DEF RenderInv, OrderInv
  <2> QED
    BY <2>1, <2>3, <2>4
<1>2. RenderInv /\ PictureInv /\ [Next]_vars => [Forward]_vars
  BY <1>1
<1> QED
  BY <1>2, RenderInvariance, PictureInvariance, PTL DEF Spec, FramesInOrder

=============================================================================
