------------------------- MODULE WolfenShellProofs --------------------------
(***************************************************************************)
(* What the handlers of wolfen-surface.c preserve, for every set of        *)
(* clients, surfaces and buffers, every X server and every argument; that  *)
(* surfaces without a role implement WolfenDoubleBuffer; and, in the       *)
(* second half, theorems about WolfenShell: Spec keeps the inductive       *)
(* invariant IInv, from which the invariants and the action properties the *)
(* runs check follow, and a good server survives every considerate client. *)
(***************************************************************************)
EXTENDS WolfenShell, WolfenPixFmtProofs

(* Surfaces. *)
LEMMA InitRectType ==
  ASSUME NEW x \in Int, NEW y \in Int, NEW w \in Int, NEW h \in Int
  PROVE  InitRect(x, y, w, h) \in Box
BY DEF InitRect, Box, EmptyBox

LEMMA InitialTypes == InitialState \in SurfaceState /\ InitialImage \in Image
<1>1. InitialState \in SurfaceState
  BY DEF InitialState, SurfaceState, IntRect
<1>2. InitialImage \in Image
  BY DEF InitialImage, Image
<1> QED
  BY <1>1, <1>2

LEMMA SurfaceInitType == SurfaceInit => SurfaceTypeOK
BY InitialTypes DEF SurfaceInit, SurfaceTypeOK, Box

-----------------------------------------------------------------------------
(* The format chosen for a buffer is a pixel format: a visual that was never
   written is one of the faults. *)
LEMMA NextFmtType ==
  ASSUME SurfaceTypeOK, NEW s \in Surface, NEW b \in Buffer, ImportFaults(s, b) = {}
  PROVE  NextFmt(s, b) \in PixelFmt
<1> DEFINE i == img[s]
           f == BufferInfo[b].format
<1>1. i \in Image
  BY DEF SurfaceTypeOK
<1>2. f \in ShmFormat /\ IsDisplay(XDisplay)
  BY SurfaceAssumption
<1>3. FmtFromWl(XDisplay, f) \in PixelFmt
  BY <1>2, FmtFromWlType
<1>4. CASE i.fmt # NULL /\ NextFmt(s, b) = i.fmt
  BY <1>1, <1>4 DEF Image
<1>5. CASE NextFmt(s, b) = FmtFromWl(XDisplay, f)
  BY <1>3, <1>5
<1>6. CASE NextFmt(s, b) = FmtFromXvi(i.last_x_img_xvi, i.last_x_img_xvi_mask, f)
  <2>1. NextFmt(s, b).xvi = i.last_x_img_xvi
    BY <1>2, <1>6 DEF FmtFromXvi
  <2>2. NextFmt(s, b).xvi # NULL
    BY DEF ImportFaults
  <2>3. i.last_x_img_xvi \in Visual /\ i.last_x_img_xvi_mask \in SUBSET VisualField
    BY <1>1, <2>1, <2>2 DEF Image
  <2> QED
    BY <1>2, <1>6, <2>3 DEF FmtFromXvi, PixelFmt
<1> QED
  BY <1>4, <1>5, <1>6 DEF NextFmt

LEMMA ImportedImageType ==
  ASSUME SurfaceTypeOK, NEW s \in Surface, NEW b \in Buffer, ImportFaults(s, b) = {}
  PROVE  ImportedImage(s, b) \in Image
<1> DEFINE i == img[s]
           fmt == NextFmt(s, b)
<1> HIDE DEF fmt
<1>1. i \in Image
  BY DEF SurfaceTypeOK
<1>2. fmt \in PixelFmt
  BY NextFmtType DEF fmt
<1>3. BufferInfo[b].width \in Nat /\ BufferInfo[b].height \in Nat
  BY SurfaceAssumption
<1>4. /\ fmt.wl_fmt \in ShmFormat /\ fmt.xvi \in Visual
      /\ fmt.xvi_mask \in SUBSET VisualField /\ fmt.fish \in BOOLEAN
  BY <1>2 DEF PixelFmt
<1> DEFINE x == [buffer |-> b, width |-> BufferInfo[b].width, height |-> BufferInfo[b].height,
                 xvi |-> fmt.xvi, data |-> ImageData(fmt)]
           freed == IF i.conversion_buffer = "null" THEN "null" ELSE "dangling"
           common == [i EXCEPT !.shm_buffer = b, !.fmt = fmt,
                               !.last_wl_fmt_set = TRUE, !.last_wl_fmt = fmt.wl_fmt]
<1>5. x \in XImage
  BY <1>3, <1>4 DEF XImage, ImageData
<1>6. common \in Image
  BY <1>1, <1>2, <1>4 DEF Image
<1> HIDE DEF x, common
<1>7. CASE XHasRender
  <2>1. ImportedImage(s, b) = [common EXCEPT !.conversion_buffer = freed]
    BY <1>7 DEF ImportedImage, common, fmt
  <2> QED
    BY <2>1, <1>6 DEF Image
<1>8. CASE ~XHasRender
  <2>1. PICK p \in Buffer \cup {NULL}, c \in {"null", "live", "dangling"} :
          ImportedImage(s, b) =
            [common EXCEPT !.p_img = p, !.conversion_buffer = c, !.x_img = x,
                           !.last_x_img_xvi = fmt.xvi, !.last_x_img_xvi_mask = fmt.xvi_mask]
    <3> DEFINE p == IF NeedsTransform(state_buffer[s]) THEN b ELSE i.p_img
               c == IF fmt.fish THEN "live" ELSE freed
    <3>1. p \in Buffer \cup {NULL} /\ c \in {"null", "live", "dangling"}
      BY <1>1 DEF Image
    <3>2. ImportedImage(s, b) =
            [common EXCEPT !.p_img = p, !.conversion_buffer = c, !.x_img = x,
                           !.last_x_img_xvi = fmt.xvi, !.last_x_img_xvi_mask = fmt.xvi_mask]
      BY <1>8 DEF ImportedImage, common, x, fmt
    <3> HIDE DEF p, c
    <3> QED
      BY <3>1, <3>2
  <2> QED
    BY <1>4, <1>5, <1>6, <2>1 DEF Image
<1> QED
  BY <1>7, <1>8

-----------------------------------------------------------------------------
(* A commit that has no fault imports a buffer, if it imports at all. *)
LEMMA ImportsBuffer ==
  ASSUME SurfaceTypeOK, NEW s \in Surface, NEW b \in ResolvedBuffer(s), CommitFaults(s, b) = {},
         Attached(s)
  PROVE  b \in Buffer /\ ImportFaults(s, b) = {}
BY DEF ResolvedBuffer, CommitFaults, SurfaceTypeOK

LEMMA CommittedTypes ==
  ASSUME SurfaceTypeOK, NEW s \in Surface, NEW b \in ResolvedBuffer(s), CommitFaults(s, b) = {}
  PROVE  /\ CommittedState(s) \in SurfaceState
         /\ CommittedDamage(s) \in SUBSET Box
         /\ CommittedViewport(s, b) \in Box
         /\ CommittedImage(s, b) \in Image
<1> DEFINE p == state_buffer[s]
<1>0. p \in SurfaceState
  BY DEF SurfaceTypeOK
<1>1. /\ p.buffer_scale \in Int /\ p.buffer_x \in Int /\ p.buffer_y \in Int
      /\ p.damage \in IntRect /\ p.damage_buffer \in IntRect
  BY <1>0 DEF SurfaceState
<1>2. \A x, y \in Int : x * y \in Int
  OBVIOUS
<1>3. CommittedState(s) \in SurfaceState
  <2> DEFINE d == p.damage_buffer
             k == p.buffer_scale
             r == [x |-> d.x * k * k, y |-> d.x * k,
                   width |-> d.width * k * k, height |-> d.width * k]
             q == [x |-> d.x * k, y |-> d.y * k, width |-> d.width * k, height |-> d.height * k]
             scaled == IF Rotated(p.buffer_tf) THEN r ELSE q
  <2>1. d.x \in Int /\ d.y \in Int /\ d.width \in Int /\ d.height \in Int /\ k \in Int
    BY <1>1 DEF IntRect
  <2>2. /\ d.x * k \in Int /\ d.x * k * k \in Int /\ d.width * k \in Int
        /\ d.width * k * k \in Int /\ d.y * k \in Int /\ d.height * k \in Int
    BY <2>1, <1>2
  <2>3. r \in IntRect /\ q \in IntRect
    BY <2>2 DEF IntRect
  <2>4. scaled \in IntRect
    BY <2>3
  <2>5. CommittedState(s) = p \/ CommittedState(s) = [p EXCEPT !.damage_buffer = scaled]
    BY DEF CommittedState
  <2> HIDE DEF scaled
  <2> QED
    BY <1>0, <2>4, <2>5 DEF SurfaceState
<1>4. CommittedDamage(s) \in SUBSET Box
  <2> DEFINE xs == p.buffer_x * p.buffer_scale
             ys == p.buffer_y * p.buffer_scale
             dx == IF Rotated(p.buffer_tf) THEN xs ELSE ys
             dy == IF Rotated(p.buffer_tf) THEN ys ELSE xs
  <2>1. xs \in Int /\ ys \in Int
    BY <1>1, <1>2
  <2>2. dx \in Int /\ dy \in Int
    BY <2>1
  <2>3. CommittedDamage(s) =
          {InitRect(r.x + dx, r.y + dy, r.width, r.height) :
             r \in {d \in {p.damage, p.damage_buffer} : d.width > 0 /\ d.height > 0}}
    BY DEF CommittedDamage
  <2> HIDE DEF dx, dy
  <2>4. \A r \in IntRect : InitRect(r.x + dx, r.y + dy, r.width, r.height) \in Box
    BY <2>2, InitRectType DEF IntRect
  <2> QED
    BY <1>1, <2>3, <2>4
<1>5. CommittedViewport(s, b) \in Box
  <2>1. CASE Attached(s)
    <3>1. b \in Buffer
      BY <2>1, ImportsBuffer
    <3>2. BufferInfo[b].width \in Int /\ BufferInfo[b].height \in Int
      BY <3>1, SurfaceAssumption
    <3>3. /\ p.buffer_x * p.buffer_scale \in Int /\ p.buffer_y * p.buffer_scale \in Int
          /\ BufferInfo[b].width * p.buffer_scale \in Int
          /\ BufferInfo[b].height * p.buffer_scale \in Int
      BY <1>1, <1>2, <3>2
    <3> QED
      BY <2>1, <3>3, InitRectType DEF CommittedViewport
  <2> QED
    BY <2>1 DEF CommittedViewport, SurfaceTypeOK
<1>6. CommittedImage(s, b) \in Image
  BY ImportsBuffer, ImportedImageType DEF CommittedImage, SurfaceTypeOK
<1> QED
  BY <1>3, <1>4, <1>5, <1>6

LEMMA CommittedPreservesType ==
  ASSUME SurfaceTypeOK, NEW s \in Surface, NEW b \in ResolvedBuffer(s), CommitFaults(s, b) = {},
         NEW shows \in BOOLEAN, Committed(s, b, shows)
  PROVE  SurfaceTypeOK'
<1>1. /\ CommittedState(s) \in SurfaceState
      /\ CommittedDamage(s) \in SUBSET Box
      /\ CommittedViewport(s, b) \in Box
      /\ CommittedImage(s, b) \in Image
  BY CommittedTypes
<1>2. state_buffer' \in [Surface -> SurfaceState]
  <2>1. state_buffer[s] \in SurfaceState
    BY DEF SurfaceTypeOK
  <2>2. [state_buffer[s] EXCEPT !.prop_changed = {}] \in SurfaceState
    BY <2>1 DEF SurfaceState
  <2>3. state_buffer' =
          [state_buffer EXCEPT ![s] = [state_buffer[s] EXCEPT !.prop_changed = {}]]
    BY DEF Committed, SurfaceTypeOK
  <2> QED
    BY <2>2, <2>3 DEF SurfaceTypeOK
<1>3. img' \in [Surface -> Image]
  <2> DEFINE i == CommittedImage(s, b)
             u == i.use_last_x_img_xvi \/ shows
  <2>1. u \in BOOLEAN
    OBVIOUS
  <2>2. [i EXCEPT !.use_last_x_img_xvi = u] \in Image
    <3> HIDE DEF u, i
    <3> QED
      BY <1>1, <2>1 DEF Image, i
  <2> QED
    BY <2>2 DEF Committed, SurfaceTypeOK
<1>4. /\ state' \in [Surface -> SurfaceState]
      /\ actual_damage' \in [Surface -> SUBSET Box]
      /\ viewport' \in [Surface -> Box]
  BY <1>1 DEF Committed, SurfaceTypeOK
<1> QED
  BY <1>2, <1>3, <1>4 DEF Committed, SurfaceTypeOK

-----------------------------------------------------------------------------
LEMMA SetPendingType ==
  ASSUME SurfaceTypeOK, NEW s \in Surface, NEW new \in SurfaceState, SetPending(s, new)
  PROVE  SurfaceTypeOK'
BY DEF SetPending, SurfaceTypeOK

(* No request writes a field with a value of another type. *)
LEMMA RequestType ==
  ASSUME SurfaceTypeOK, NEW s \in Surface, SurfaceRequest(s)
  PROVE  SurfaceTypeOK'
<1>0. state_buffer[s] \in SurfaceState
  BY DEF SurfaceTypeOK
<1>1. CASE CreateSurface(s)
  BY <1>1 DEF CreateSurface, SurfaceTypeOK
<1>2. ASSUME NEW b \in Buffer \cup {NULL}, NEW p \in Position, Attach(s, b, p)
      PROVE  SurfaceTypeOK'
  <2> DEFINE new == [state_buffer[s] EXCEPT
                       !.prop_changed = @ \cup {"BUFFER", "BUFFER_X_Y"},
                       !.buffer = b, !.buffer_x = p.x, !.buffer_y = p.y]
  <2>1. p.x \in Int /\ p.y \in Int
    BY SurfaceAssumption
  <2>2. new \in SurfaceState
    BY <1>0, <2>1 DEF SurfaceState, PropChanged
  <2> QED
    BY <1>2, <2>2, SetPendingType DEF Attach
<1>3. ASSUME NEW r \in Rect, Damage(s, r)  PROVE  SurfaceTypeOK'
  <2>1. r \in IntRect
    BY SurfaceAssumption DEF IntRect
  <2>2. [state_buffer[s] EXCEPT !.prop_changed = @ \cup {"DAMAGE"}, !.damage = r] \in SurfaceState
    BY <1>0, <2>1 DEF SurfaceState, PropChanged
  <2> QED
    BY <1>3, <2>2, SetPendingType DEF Damage
<1>4. ASSUME NEW r \in Rect, DamageBuffer(s, r)  PROVE  SurfaceTypeOK'
  <2>1. r \in IntRect
    BY SurfaceAssumption DEF IntRect
  <2>2. [state_buffer[s] EXCEPT !.prop_changed = @ \cup {"DAMAGE"}, !.damage_buffer = r]
          \in SurfaceState
    BY <1>0, <2>1 DEF SurfaceState, PropChanged
  <2> QED
    BY <1>4, <2>2, SetPendingType DEF DamageBuffer
<1>5. ASSUME NEW cb \in Callback, Frame(s, cb)  PROVE  SurfaceTypeOK'
  <2>1. [state_buffer[s] EXCEPT !.prop_changed = @ \cup {"FRAME_CB"}, !.frame_cb = cb]
          \in SurfaceState
    BY <1>0 DEF SurfaceState, PropChanged
  <2> QED
    BY <1>5, <2>1, SetPendingType DEF Frame
<1>6. ASSUME NEW r \in Region \cup {NULL}, SetOpaqueRegion(s, r)  PROVE  SurfaceTypeOK'
  <2>1. [state_buffer[s] EXCEPT !.opaque_region = r] \in SurfaceState
    BY <1>0 DEF SurfaceState
  <2> QED
    BY <1>6, <2>1, SetPendingType DEF SetOpaqueRegion
<1>7. ASSUME NEW r \in Region \cup {NULL}, SetInputRegion(s, r)  PROVE  SurfaceTypeOK'
  <2>1. [state_buffer[s] EXCEPT !.input_region = r] \in SurfaceState
    BY <1>0 DEF SurfaceState
  <2> QED
    BY <1>7, <2>1, SetPendingType DEF SetInputRegion
<1>8. ASSUME NEW tf \in Transform, SetBufferTransform(s, tf)  PROVE  SurfaceTypeOK'
  <2>1. tf \in Int
    BY SurfaceAssumption
  <2>2. [state_buffer[s] EXCEPT !.prop_changed = @ \cup {"BUFFER_TF"}, !.buffer_tf = tf]
          \in SurfaceState
    BY <1>0, <2>1 DEF SurfaceState, PropChanged
  <2> QED
    BY <1>8, <2>2, SetPendingType DEF SetBufferTransform
<1>9. ASSUME NEW k \in Scale, SetBufferScale(s, k)  PROVE  SurfaceTypeOK'
  <2>1. k \in Int
    BY SurfaceAssumption
  <2>2. [state_buffer[s] EXCEPT !.prop_changed = @ \cup {"BUFFER_SCALE"}, !.buffer_scale = k]
          \in SurfaceState
    BY <1>0, <2>1 DEF SurfaceState, PropChanged
  <2> QED
    BY <1>9, <2>2, SetPendingType DEF SetBufferScale
<1>10. ASSUME NEW p \in Position, Offset(s, p)  PROVE  SurfaceTypeOK'
  <2>1. p.x \in Int /\ p.y \in Int
    BY SurfaceAssumption
  <2>2. [state_buffer[s] EXCEPT !.prop_changed = @ \cup {"BUFFER_X_Y"},
                                !.buffer_x = p.x, !.buffer_y = p.y] \in SurfaceState
    BY <1>0, <2>1 DEF SurfaceState, PropChanged
  <2> QED
    BY <1>10, <2>2, SetPendingType DEF Offset
<1> QED
  BY <1>1, <1>2, <1>3, <1>4, <1>5, <1>6, <1>7, <1>8, <1>9, <1>10 DEF SurfaceRequest

LEMMA BufferDestroyType ==
  ASSUME SurfaceTypeOK, NEW b \in Buffer, BufferDestroy(b)
  PROVE  SurfaceTypeOK'
BY DEF BufferDestroy, SurfaceTypeOK

LEMMA DisconnectType ==
  ASSUME SurfaceTypeOK, NEW c \in Client, Disconnect(c)
  PROVE  SurfaceTypeOK'
BY DEF Disconnect, SurfaceTypeOK

-----------------------------------------------------------------------------
(* Every field of every surface keeps its type, whatever clients request. *)
THEOREM SurfaceTypeCorrect == SurfaceSpec => []SurfaceTypeOK
<1>1. SurfaceTypeOK /\ [SurfaceNext]_surfaceVars => SurfaceTypeOK'
  <2> SUFFICES ASSUME SurfaceTypeOK, [SurfaceNext]_surfaceVars  PROVE  SurfaceTypeOK'
    OBVIOUS
  <2>1. ASSUME NEW s \in Surface, SurfaceRequest(s)  PROVE  SurfaceTypeOK'
    BY <2>1, RequestType
  <2>2. ASSUME NEW s \in Surface, Commit(s)  PROVE  SurfaceTypeOK'
    BY <2>2, CommittedPreservesType DEF Commit
  <2>3. ASSUME NEW s \in Surface, CommitCrashes(s)  PROVE  SurfaceTypeOK'
    BY <2>3 DEF CommitCrashes, CommitFaults, ImportFaults, Crash, SurfaceTypeOK
  <2>4. ASSUME NEW s \in Surface, Destroy(s)  PROVE  SurfaceTypeOK'
    BY <2>4 DEF Destroy, Crash, SurfaceTypeOK
  <2>5. ASSUME NEW b \in Buffer, BufferDestroy(b)  PROVE  SurfaceTypeOK'
    BY <2>5, BufferDestroyType
  <2>6. ASSUME NEW c \in Client, Disconnect(c)  PROVE  SurfaceTypeOK'
    BY <2>6, DisconnectType
  <2>7. CASE UNCHANGED surfaceVars
    BY <2>7 DEF surfaceVars, SurfaceTypeOK
  <2> QED
    BY <2>1, <2>2, <2>3, <2>4, <2>5, <2>6, <2>7 DEF SurfaceNext
<1> QED
  BY <1>1, SurfaceInitType, PTL DEF SurfaceSpec

-----------------------------------------------------------------------------
(* What DoubleBuffered rests on: no request raises the DAMAGE_BUFFER bit, so no
   commit scales the damage it makes current. *)
NoDamageBit == \A s \in Surface : "DAMAGE_BUFFER" \notin state_buffer[s].prop_changed

(* A request only adds bits, BUFFER with every new buffer. *)
LEMMA RequestPending ==
  ASSUME SurfaceTypeOK, NoDamageBit, NEW s \in Surface, SurfaceRequest(s), ~CreateSurface(s)
  PROVE  \E new \in SurfaceState :
           /\ SetPending(s, new)
           /\ state_buffer[s].prop_changed \subseteq new.prop_changed
           /\ "DAMAGE_BUFFER" \notin new.prop_changed
           /\ new.buffer # state_buffer[s].buffer => "BUFFER" \in new.prop_changed
<1> DEFINE p == state_buffer[s]
           Good(new) == /\ p.prop_changed \subseteq new.prop_changed
                        /\ "DAMAGE_BUFFER" \notin new.prop_changed
                        /\ new.buffer # p.buffer => "BUFFER" \in new.prop_changed
<1>0. p \in SurfaceState /\ "DAMAGE_BUFFER" \notin p.prop_changed
  BY DEF SurfaceTypeOK, NoDamageBit
<1>1. ASSUME NEW b \in Buffer \cup {NULL}, NEW q \in Position, Attach(s, b, q)
      PROVE  \E new \in SurfaceState : SetPending(s, new) /\ Good(new)
  <2> DEFINE new == [p EXCEPT !.prop_changed = @ \cup {"BUFFER", "BUFFER_X_Y"},
                              !.buffer = b, !.buffer_x = q.x, !.buffer_y = q.y]
  <2>1. q.x \in Int /\ q.y \in Int
    BY SurfaceAssumption
  <2>2. new \in SurfaceState /\ Good(new)
    BY <1>0, <2>1 DEF SurfaceState, PropChanged
  <2> QED
    BY <1>1, <2>2 DEF Attach
<1>2. ASSUME NEW r \in Rect, Damage(s, r) \/ DamageBuffer(s, r)
      PROVE  \E new \in SurfaceState : SetPending(s, new) /\ Good(new)
  <2>1. r \in IntRect
    BY SurfaceAssumption DEF IntRect
  <2>2. LET new == [p EXCEPT !.prop_changed = @ \cup {"DAMAGE"}, !.damage = r] IN
        new \in SurfaceState /\ Good(new)
    BY <1>0, <2>1 DEF SurfaceState, PropChanged
  <2>3. LET new == [p EXCEPT !.prop_changed = @ \cup {"DAMAGE"}, !.damage_buffer = r] IN
        new \in SurfaceState /\ Good(new)
    BY <1>0, <2>1 DEF SurfaceState, PropChanged
  <2> QED
    BY <1>2, <2>2, <2>3 DEF Damage, DamageBuffer
<1>3. ASSUME NEW cb \in Callback, Frame(s, cb)
      PROVE  \E new \in SurfaceState : SetPending(s, new) /\ Good(new)
  <2>1. [p EXCEPT !.prop_changed = @ \cup {"FRAME_CB"}, !.frame_cb = cb] \in SurfaceState
    BY <1>0 DEF SurfaceState, PropChanged
  <2>2. Good([p EXCEPT !.prop_changed = @ \cup {"FRAME_CB"}, !.frame_cb = cb])
    BY <1>0 DEF SurfaceState
  <2> QED
    BY <1>3, <2>1, <2>2 DEF Frame
<1>4. ASSUME NEW r \in Region \cup {NULL}, SetOpaqueRegion(s, r) \/ SetInputRegion(s, r)
      PROVE  \E new \in SurfaceState : SetPending(s, new) /\ Good(new)
  <2>1. \A new \in {[p EXCEPT !.opaque_region = r], [p EXCEPT !.input_region = r]} :
          new \in SurfaceState /\ Good(new)
    BY <1>0 DEF SurfaceState
  <2> QED
    BY <1>4, <2>1 DEF SetOpaqueRegion, SetInputRegion
<1>5. ASSUME NEW tf \in Transform, SetBufferTransform(s, tf)
      PROVE  \E new \in SurfaceState : SetPending(s, new) /\ Good(new)
  <2>1. tf \in Int
    BY SurfaceAssumption
  <2>2. LET new == [p EXCEPT !.prop_changed = @ \cup {"BUFFER_TF"}, !.buffer_tf = tf] IN
        new \in SurfaceState /\ Good(new)
    BY <1>0, <2>1 DEF SurfaceState, PropChanged
  <2> QED
    BY <1>5, <2>2 DEF SetBufferTransform
<1>6. ASSUME NEW k \in Scale, SetBufferScale(s, k)
      PROVE  \E new \in SurfaceState : SetPending(s, new) /\ Good(new)
  <2>1. k \in Int
    BY SurfaceAssumption
  <2>2. LET new == [p EXCEPT !.prop_changed = @ \cup {"BUFFER_SCALE"}, !.buffer_scale = k] IN
        new \in SurfaceState /\ Good(new)
    BY <1>0, <2>1 DEF SurfaceState, PropChanged
  <2> QED
    BY <1>6, <2>2 DEF SetBufferScale
<1>7. ASSUME NEW q \in Position, Offset(s, q)
      PROVE  \E new \in SurfaceState : SetPending(s, new) /\ Good(new)
  <2>1. q.x \in Int /\ q.y \in Int
    BY SurfaceAssumption
  <2>2. LET new == [p EXCEPT !.prop_changed = @ \cup {"BUFFER_X_Y"},
                             !.buffer_x = q.x, !.buffer_y = q.y] IN
        new \in SurfaceState /\ Good(new)
    BY <1>0, <2>1 DEF SurfaceState, PropChanged
  <2> QED
    BY <1>7, <2>2 DEF Offset
<1> QED
  BY <1>1, <1>2, <1>3, <1>4, <1>5, <1>6, <1>7 DEF SurfaceRequest

LEMMA NoDamageBitInit == SurfaceInit => NoDamageBit
BY DEF SurfaceInit, InitialState, NoDamageBit

LEMMA CommittedDamageBit ==
  ASSUME SurfaceTypeOK, NoDamageBit, NEW s \in Surface, NEW b, NEW shows, Committed(s, b, shows)
  PROVE  NoDamageBit'
<1>1. state_buffer' = [state_buffer EXCEPT ![s] = [state_buffer[s] EXCEPT !.prop_changed = {}]]
  BY DEF Committed, SurfaceTypeOK
<1>2. [state_buffer[s] EXCEPT !.prop_changed = {}].prop_changed = {}
  BY DEF SurfaceTypeOK, SurfaceState
<1> QED
  BY <1>1, <1>2 DEF NoDamageBit, SurfaceTypeOK

LEMMA NoDamageBitStep ==
  SurfaceTypeOK /\ NoDamageBit /\ [SurfaceNext]_surfaceVars => NoDamageBit'
<1> SUFFICES ASSUME SurfaceTypeOK, NoDamageBit, [SurfaceNext]_surfaceVars  PROVE  NoDamageBit'
  OBVIOUS
<1>1. ASSUME NEW s \in Surface, SurfaceRequest(s), ~CreateSurface(s)  PROVE  NoDamageBit'
  <2>1. PICK new \in SurfaceState : SetPending(s, new) /\ "DAMAGE_BUFFER" \notin new.prop_changed
    BY <1>1, RequestPending
  <2> QED
    BY <2>1 DEF SetPending, NoDamageBit, SurfaceTypeOK
<1>2. ASSUME NEW s \in Surface, Commit(s)  PROVE  NoDamageBit'
  BY <1>2, CommittedDamageBit DEF Commit
<1>3. CASE UNCHANGED state_buffer
  BY <1>3 DEF NoDamageBit
<1> QED
  BY <1>1, <1>2, <1>3 DEF SurfaceNext, surfaceVars, CreateSurface, CommitCrashes, Destroy, Crash,
     BufferDestroy, Disconnect

-----------------------------------------------------------------------------
(* The refinement mapping of DoubleBuffer. *)
Pending == [s \in Surface |-> [state_buffer[s] EXCEPT !.prop_changed = {}]]
Current == [s \in Surface |-> [state[s] EXCEPT !.prop_changed = {}]]
Waiting == [s \in Surface |-> Attached(s)]
Content == [s \in Surface |-> img[s].shm_buffer]

LEMMA RequestMaps ==
  ASSUME SurfaceTypeOK, NoDamageBit, NEW s \in Surface, SurfaceRequest(s), ~CreateSurface(s)
  PROVE  DoubleBuffer!Request(s)
<1>1. PICK new \in SurfaceState :
        /\ SetPending(s, new)
        /\ state_buffer[s].prop_changed \subseteq new.prop_changed
        /\ new.buffer # state_buffer[s].buffer => "BUFFER" \in new.prop_changed
  BY RequestPending
<1>2. /\ state_buffer' = [state_buffer EXCEPT ![s] = new]
      /\ UNCHANGED <<state, img, buffers>>
  BY <1>1 DEF SetPending
<1>3. /\ state_buffer \in [Surface -> SurfaceState] /\ state_buffer[s] \in SurfaceState
      /\ state_buffer'[s] = new
  BY <1>2 DEF SurfaceTypeOK
<1>4. \A r \in Surface : r # s => state_buffer'[r] = state_buffer[r]
  BY <1>2 DEF SurfaceTypeOK
<1>5. Pending' = [Pending EXCEPT ![s] = Pending'[s]]
  BY <1>4 DEF Pending
<1>6. Waiting' = [Waiting EXCEPT ![s] = Waiting'[s]]
  BY <1>4 DEF Waiting, Attached
<1>7. Waiting[s] => Waiting'[s]
  BY <1>1, <1>3 DEF Waiting, Attached
<1>8. Pending'[s].buffer # Pending[s].buffer => Waiting'[s]
  BY <1>1, <1>3 DEF Pending, Waiting, Attached, SurfaceState
<1>9. UNCHANGED <<Current, Content, buffers>>
  BY <1>2 DEF Current, Content
<1> QED
  BY <1>5, <1>6, <1>7, <1>8, <1>9
     DEF DoubleBuffer!Request, Pending, Waiting, Current, Content

(* With or without a window made by its callback. *)
LEMMA CommitMaps ==
  ASSUME SurfaceTypeOK, NoDamageBit, NEW s \in Surface, NEW b \in ResolvedBuffer(s),
         CommitFaults(s, b) = {}, NEW shows \in BOOLEAN, Committed(s, b, shows)
  PROVE  DoubleBuffer!Commit(s)
<1>2. /\ state_buffer \in [Surface -> SurfaceState] /\ state_buffer[s] \in SurfaceState
      /\ state \in [Surface -> SurfaceState]
      /\ img \in [Surface -> Image] /\ CommittedImage(s, b) \in Image
  BY CommittedTypes DEF SurfaceTypeOK
<1>3. /\ state' = [state EXCEPT ![s] = state_buffer[s]]
      /\ state_buffer' = [state_buffer EXCEPT ![s] = [state_buffer[s] EXCEPT !.prop_changed = {}]]
      /\ UNCHANGED buffers
  BY <1>2 DEF Committed, CommittedState, NoDamageBit
<1>4. Current' = [Current EXCEPT ![s] = Pending[s]]
  BY <1>2, <1>3 DEF Current, Pending
<1>5. Pending' = Pending
  <2>1. \A r \in Surface : [state_buffer'[r] EXCEPT !.prop_changed = {}]
                             = [state_buffer[r] EXCEPT !.prop_changed = {}]
    BY <1>2, <1>3 DEF SurfaceState
  <2> QED
    BY <2>1 DEF Pending
<1>6. Waiting' = [Waiting EXCEPT ![s] = FALSE]
  <2>1. state_buffer'[s].prop_changed = {}
    BY <1>2, <1>3 DEF SurfaceState
  <2>2. \A r \in Surface : r # s => state_buffer'[r] = state_buffer[r]
    BY <1>2, <1>3
  <2>3. Waiting'[s] = FALSE
    <3>1. Waiting'[s] = ("BUFFER" \in state_buffer'[s].prop_changed)
      BY DEF Waiting, Attached
    <3>2. ("BUFFER" \in state_buffer'[s].prop_changed) = FALSE
      BY <2>1
    <3> QED
      BY <3>1, <3>2
  <2>4. \A r \in Surface : r # s => Waiting'[r] = Waiting[r]
    BY <2>2 DEF Waiting, Attached
  <2>5. Waiting' = [r \in Surface |-> Waiting'[r]] /\ Waiting = [r \in Surface |-> Waiting[r]]
    BY DEF Waiting
  <2> QED
    BY <2>3, <2>4, <2>5
<1>7. \A r \in Surface :
        img'[r].shm_buffer = IF r = s THEN CommittedImage(s, b).shm_buffer ELSE img[r].shm_buffer
  BY <1>2 DEF Committed, Image
<1>8. CASE Attached(s)
  <2>1. b \in Buffer /\ CommittedImage(s, b).shm_buffer = b
    BY <1>2, <1>8, ImportsBuffer DEF CommittedImage, ImportedImage, Image
  <2>2. b \in IF Pending[s].buffer \in buffers THEN {Pending[s].buffer} ELSE Buffer
    BY <1>2, <1>8, <2>1, NullAssumption DEF ResolvedBuffer, Pending, SurfaceState
  <2>3. Content' = [Content EXCEPT ![s] = b]
    BY <1>7, <2>1 DEF Content
  <2> QED
    BY <1>3, <1>4, <1>5, <1>6, <1>8, <2>2, <2>3
       DEF DoubleBuffer!Commit, Pending, Waiting, Current, Content
<1>9. CASE ~Attached(s)
  <2>1. Content' = Content
    BY <1>7, <1>9 DEF CommittedImage, Content
  <2> QED
    BY <1>3, <1>4, <1>5, <1>6, <1>9, <2>1
       DEF DoubleBuffer!Commit, Pending, Waiting, Current, Content
<1> QED
  BY <1>8, <1>9

LEMMA SurfaceMapsInit == SurfaceInit => DoubleBuffer!Init
<1> SUFFICES ASSUME SurfaceInit  PROVE  DoubleBuffer!Init
  OBVIOUS
<1>1. [InitialState EXCEPT !.prop_changed = {}] = InitialState
  BY DEF InitialState
<1>2. "BUFFER" \notin InitialState.prop_changed /\ InitialImage.shm_buffer = NULL
  BY DEF InitialState, InitialImage
<1>3. \A s \in Surface : /\ state_buffer[s] = InitialState /\ state[s] = InitialState
                         /\ img[s] = InitialImage
  BY DEF SurfaceInit
<1>4. \A s \in Surface : Attached(s) = FALSE
  BY <1>2, <1>3 DEF Attached
<1>5. buffers = Buffer
  BY DEF SurfaceInit
<1> QED
  BY <1>1, <1>2, <1>3, <1>4, <1>5 DEF DoubleBuffer!Init

LEMMA SurfaceMaps ==
  SurfaceTypeOK /\ NoDamageBit /\ [SurfaceNext]_surfaceVars
    => [DoubleBuffer!Next]_DoubleBuffer!vars
<1> SUFFICES ASSUME SurfaceTypeOK, NoDamageBit, [SurfaceNext]_surfaceVars
             PROVE  DoubleBuffer!Next \/ UNCHANGED DoubleBuffer!vars
  OBVIOUS
<1>1. ASSUME NEW s \in Surface, SurfaceRequest(s), ~CreateSurface(s)  PROVE  DoubleBuffer!Next
  BY <1>1, RequestMaps DEF DoubleBuffer!Next
<1>2. ASSUME NEW s \in Surface, Commit(s)  PROVE  DoubleBuffer!Next
  BY <1>2, CommitMaps DEF Commit, DoubleBuffer!Next
<1>3. CASE (\E b \in Buffer : BufferDestroy(b)) \/ \E c \in Client : Disconnect(c)
  <2>1. buffers' \subseteq buffers /\ UNCHANGED <<state_buffer, state, img>>
    BY <1>3 DEF BufferDestroy, Disconnect
  <2> QED
    BY <2>1 DEF DoubleBuffer!Next, DoubleBuffer!BuffersGo, Attached
<1>4. CASE UNCHANGED <<state_buffer, state, img, buffers>>
  BY <1>4 DEF DoubleBuffer!vars, Attached
<1> QED
  BY <1>1, <1>2, <1>3, <1>4 DEF SurfaceNext, surfaceVars, CreateSurface, CommitCrashes, Destroy,
     Crash

(* The code implements WolfenDoubleBuffer: whatever a client requests, pending
   state becomes current by a commit and all at once, and a surface shows the
   buffer of the last commit that followed an attach. *)
THEOREM SurfaceImplementsDoubleBuffer == SurfaceSpec => DoubleBuffered
BY SurfaceMapsInit, SurfaceMaps, NoDamageBitInit, NoDamageBitStep, SurfaceTypeCorrect, PTL
   DEF SurfaceSpec, DoubleBuffered, DoubleBuffer!Spec

-----------------------------------------------------------------------------
(* Shell surfaces. *)
CrashKind ==
  {"none", "null_buffer", "stale_buffer", "image_data_free", "double_free",
   "uninit_visual", "no_babl_format", "double_delete"} \cup RoleCrash

-----------------------------------------------------------------------------
(* A good image's format is for ever: an import takes the one there is, or the
   one the search finds, and never the one of FmtFromXvi. *)
LEMMA FormatKept ==
  ASSUME SurfaceTypeOK, NEW s \in Surface, NEW b \in Buffer, GoodImage(img[s])
  PROVE  NextFmt(s, b) = IF img[s].fmt # NULL THEN img[s].fmt
                         ELSE FmtFromWl(XDisplay, BufferInfo[b].format)
<1>1. CASE img[s].fmt # NULL
  BY <1>1 DEF GoodImage, NextFmt
<1>2. CASE img[s].fmt = NULL
  <2>1. ~img[s].use_last_x_img_xvi
    BY <1>2 DEF GoodImage
  <2> QED
    BY <1>2, <2>1 DEF NextFmt
<1> QED
  BY <1>1, <1>2

LEMMA FormatFound ==
  ASSUME SurfaceTypeOK, NEW s \in Surface, NEW b \in Buffer, GoodImage(img[s])
  PROVE  /\ \E f \in ShmFormat : NextFmt(s, b) = FmtFromWl(XDisplay, f)
         /\ NextFmt(s, b) \in PixelFmt
<1>1. \E f \in ShmFormat : NextFmt(s, b) = FmtFromWl(XDisplay, f)
  <2>1. BufferInfo[b].format \in ShmFormat
    BY SurfaceAssumption
  <2> QED
    BY <2>1, FormatKept DEF GoodImage
<1> QED
  BY <1>1, SurfaceAssumption, FmtFromWlType

(* The faults of a bad free need an X server without shared memory. *)
LEMMA FreesRight ==
  ASSUME SurfaceTypeOK, NEW s \in Surface, NEW b \in Buffer, GoodImage(img[s]), XHasShm
  PROVE  "image_data_free" \notin ImportFaults(s, b) /\ "double_free" \notin ImportFaults(s, b)
<1>1. img[s].conversion_buffer # "dangling"
  BY DEF GoodImage
<1>2. img[s].x_img # NULL => img[s].x_img.data = "segment"
  BY DEF GoodImage
<1> QED
  BY <1>1, <1>2 DEF ImportFaults

(* An import without a fault leaves a good image, of the same format. *)
LEMMA GoodImport ==
  ASSUME SurfaceTypeOK, NEW s \in Surface, NEW b \in Buffer, GoodImage(img[s]),
         ImportFaults(s, b) = {}
  PROVE  /\ GoodImage(ImportedImage(s, b))
         /\ ImportedImage(s, b).fmt = NextFmt(s, b)
         /\ ImportedImage(s, b).shm_buffer = b
         /\ ImportedImage(s, b).use_last_x_img_xvi = img[s].use_last_x_img_xvi
         /\ ~XHasRender => /\ ImportedImage(s, b).x_img.width = BufferInfo[b].width
                           /\ ImportedImage(s, b).x_img.height = BufferInfo[b].height
                           /\ ImportedImage(s, b).x_img # NULL
<1> DEFINE i == img[s]
           j == ImportedImage(s, b)
           fmt == NextFmt(s, b)
<1>1. i \in Image /\ j \in Image
  BY ImportedImageType DEF SurfaceTypeOK
<1>2. fmt \in PixelFmt /\ fmt # NULL
  BY FormatFound, NullAssumption
<1>3. PICK f \in ShmFormat : fmt = FmtFromWl(XDisplay, f)
  BY FormatFound
<1>4. i.fmt # NULL => fmt = i.fmt
  BY FormatKept
<1> HIDE DEF fmt
<1>5. /\ fmt.wl_fmt \in ShmFormat /\ fmt.xvi \in Visual /\ fmt.fish \in BOOLEAN
      /\ fmt.xvi_mask \in SUBSET VisualField
  BY <1>2 DEF PixelFmt
<1>6. CASE XHasRender
  <2>1. i.x_img = NULL /\ i.conversion_buffer = "null"
    BY <1>1, <1>6 DEF GoodImage, Image
  <2>2. /\ j.fmt = fmt /\ j.last_wl_fmt = fmt.wl_fmt /\ j.last_wl_fmt_set /\ j.shm_buffer = b
        /\ j.x_img = NULL /\ j.conversion_buffer = "null"
        /\ j.use_last_x_img_xvi = i.use_last_x_img_xvi
    BY <1>1, <1>6, <2>1 DEF ImportedImage, Image, fmt
  <2> QED
    BY <1>2, <1>3, <1>6, <2>2 DEF GoodImage, fmt
<1>7. CASE ~XHasRender
  <2> DEFINE x == [buffer |-> b, width |-> BufferInfo[b].width,
                   height |-> BufferInfo[b].height, xvi |-> fmt.xvi, data |-> ImageData(fmt)]
             c == IF fmt.fish THEN "live"
                  ELSE IF i.conversion_buffer = "null" THEN "null" ELSE "dangling"
  <2>1. x \in XImage /\ x # NULL
    <3>1. BufferInfo[b].width \in Nat /\ BufferInfo[b].height \in Nat
      BY SurfaceAssumption
    <3> QED
      BY <1>5, <3>1, NullAssumption DEF XImage, ImageData
  <2>2. XHasShm => x.data = "segment"
    BY DEF ImageData
  <2>3. c = IF fmt.fish THEN "live" ELSE "null"
    BY <1>4, <1>7, <1>1, <1>2 DEF GoodImage, Image
  <2>4. x.xvi = fmt.xvi /\ x.width = BufferInfo[b].width /\ x.height = BufferInfo[b].height
    OBVIOUS
  <2> HIDE DEF x, c
  <2>5. /\ j.fmt = fmt /\ j.last_wl_fmt = fmt.wl_fmt /\ j.last_wl_fmt_set /\ j.shm_buffer = b
        /\ j.x_img = x /\ j.conversion_buffer = c
        /\ j.last_x_img_xvi = fmt.xvi /\ j.last_x_img_xvi_mask = fmt.xvi_mask
        /\ j.use_last_x_img_xvi = i.use_last_x_img_xvi
    <3> DEFINE common == [i EXCEPT !.shm_buffer = b, !.fmt = fmt,
                                   !.last_wl_fmt_set = TRUE, !.last_wl_fmt = fmt.wl_fmt]
               p == IF NeedsTransform(state_buffer[s]) THEN b ELSE i.p_img
    <3>1. j = [common EXCEPT !.p_img = p, !.conversion_buffer = c, !.x_img = x,
                             !.last_x_img_xvi = fmt.xvi, !.last_x_img_xvi_mask = fmt.xvi_mask]
      BY <1>7 DEF ImportedImage, fmt, x, c
    <3>2. /\ common \in Image
          /\ common.fmt = fmt /\ common.last_wl_fmt = fmt.wl_fmt /\ common.last_wl_fmt_set
          /\ common.shm_buffer = b /\ common.use_last_x_img_xvi = i.use_last_x_img_xvi
      BY <1>1, <1>2, <1>5 DEF Image
    <3> HIDE DEF common, p
    <3> QED
      BY <3>1, <3>2 DEF Image
  <2>6. GoodImage(j)
    BY <1>2, <1>3, <1>7, <2>1, <2>2, <2>3, <2>4, <2>5 DEF GoodImage
  <2> QED
    BY <2>1, <2>4, <2>5, <2>6 DEF fmt
<1> QED
  BY <1>6, <1>7

-----------------------------------------------------------------------------
LEMMA InitIInv == Init => IInv
<1> SUFFICES ASSUME Init PROVE IInv
  OBVIOUS
<1>1. TypeOK
  BY SurfaceInitType DEF Init, TypeOK
<1>2. GoodImage(InitialImage)
  BY DEF GoodImage, InitialImage
<1>3. \A s \in Surface : GoodImage(img[s])
  BY <1>2 DEF Init, SurfaceInit
<1> QED
  BY <1>1, <1>3 DEF Init, SurfaceInit, IInv, RoleOfSurface, TypedIffWindow, WindowVisual, NoBadFree

(* Handlers that touch no image and no shell surface. *)
LEMMA RestKept ==
  ASSUME IInv, SurfaceTypeOK', UNCHANGED <<img, commit_cb, crash, shsurfaces>>
  PROVE  IInv'
<1>1. TypeOK'
  BY DEF IInv, TypeOK
<1>2. RoleOfSurface' /\ TypedIffWindow'
  BY DEF IInv, RoleOfSurface, TypedIffWindow
<1>3. (\A s \in Surface : GoodImage(img[s]))'
  BY DEF IInv
<1>4. WindowVisual' /\ NoBadFree'
  BY DEF IInv, WindowVisual, NoBadFree
<1> QED
  BY <1>1, <1>2, <1>3, <1>4 DEF IInv

(* The end of the server, for any reason but a bad free with Xext. *)
LEMMA CrashKept ==
  ASSUME IInv, NEW why \in CrashKind, Crash(why), UNCHANGED shsurfaces,
         XHasShm => why \notin {"image_data_free", "double_free"}
  PROVE  IInv'
<1>1. SurfaceTypeOK'
  BY DEF IInv, TypeOK, SurfaceTypeOK, Crash, CrashKind
<1>2. TypeOK'
  BY <1>1 DEF IInv, TypeOK
<1>3. RoleOfSurface' /\ TypedIffWindow'
  BY DEF IInv, RoleOfSurface, TypedIffWindow, Crash
<1>4. (\A s \in Surface : GoodImage(img[s]))'
  BY DEF IInv, Crash
<1>5. WindowVisual' /\ NoBadFree'
  BY DEF IInv, WindowVisual, NoBadFree, Crash
<1> QED
  BY <1>2, <1>3, <1>4, <1>5 DEF IInv

(* The faults of a commit are ends of the server the type admits. *)
LEMMA FaultKinds ==
  ASSUME IInv, NEW s \in Surface, NEW b \in ResolvedBuffer(s), NEW why \in CommitFaults(s, b)
  PROVE  /\ why \in CrashKind
         /\ XHasShm => why \notin {"image_data_free", "double_free"}
<1>1. CASE b = NULL
  BY <1>1 DEF CommitFaults, CrashKind
<1>2. CASE b # NULL
  <2>1. Attached(s) /\ why \in ImportFaults(s, b)
    BY <1>2 DEF CommitFaults
  <2>2. b \in Buffer
    BY <1>2, <2>1 DEF ResolvedBuffer, IInv, TypeOK, SurfaceTypeOK
  <2>3. why \in {"image_data_free", "double_free", "uninit_visual", "no_babl_format"}
    BY <2>1 DEF ImportFaults
  <2> QED
    BY <2>1, <2>2, <2>3, FreesRight DEF CrashKind, IInv, TypeOK
<1> QED
  BY <1>1, <1>2

LEMMA RoleFaultKinds ==
  /\ \A i, extents : WindowFaults(i, extents) \subseteq CrashKind \ {"image_data_free", "double_free"}
  /\ \A x : PutFaults(x) \subseteq CrashKind \ {"image_data_free", "double_free"}
  /\ "mask_overread" \in CrashKind
BY ShellAssumption DEF WindowFaults, PutFaults, CrashKind

-----------------------------------------------------------------------------
(* What a commit without a fault leaves of the surface's image. *)
LEMMA CommittedGood ==
  ASSUME IInv, NEW s \in Surface, NEW b \in ResolvedBuffer(s), CommitFaults(s, b) = {}
  PROVE  /\ GoodImage(CommittedImage(s, b))
         /\ CommittedImage(s, b) \in Image
         /\ img[s].fmt # NULL => CommittedImage(s, b).fmt = img[s].fmt
         /\ CommittedImage(s, b).use_last_x_img_xvi = img[s].use_last_x_img_xvi
<1>1. SurfaceTypeOK /\ GoodImage(img[s]) /\ img[s] \in Image
  BY DEF IInv, TypeOK, SurfaceTypeOK
<1>2. CASE Attached(s)
  <2>1. b \in Buffer /\ ImportFaults(s, b) = {}
    BY <1>1, <1>2, ImportsBuffer
  <2>2. img[s].fmt # NULL => NextFmt(s, b) = img[s].fmt
    BY <1>1, <2>1, FormatKept
  <2> QED
    BY <1>1, <1>2, <2>1, <2>2, GoodImport, ImportedImageType DEF CommittedImage
<1>3. CASE ~Attached(s)
  BY <1>1, <1>3 DEF CommittedImage
<1> QED
  BY <1>2, <1>3

(* A commit keeps every image good, and the format of each that has one. *)
LEMMA CommittedKept ==
  ASSUME IInv, NEW s \in Surface, NEW b \in ResolvedBuffer(s), CommitFaults(s, b) = {},
         NEW shows \in BOOLEAN, Committed(s, b, shows),
         shows => CommittedImage(s, b).fmt # NULL
  PROVE  /\ SurfaceTypeOK'
         /\ \A r \in Surface : /\ GoodImage(img[r])'
                               /\ img[r].fmt # NULL => img'[r].fmt = img[r].fmt
         /\ img'[s].fmt = CommittedImage(s, b).fmt
<1>1. SurfaceTypeOK'
  BY CommittedPreservesType DEF IInv, TypeOK
<1> DEFINE i == CommittedImage(s, b)
           u == i.use_last_x_img_xvi \/ shows
           j == [i EXCEPT !.use_last_x_img_xvi = u]
<1>2. i \in Image /\ GoodImage(i)
  BY CommittedGood
<1>3. img' = [img EXCEPT ![s] = j]
  BY DEF Committed
<1>4. u \in BOOLEAN /\ (u => i.fmt # NULL)
  BY <1>2 DEF GoodImage
<1>5. img[s].fmt # NULL => i.fmt = img[s].fmt
  BY CommittedGood
<1> HIDE DEF u, i
<1>6. GoodImage(j) /\ j.fmt = i.fmt
  <2>1. /\ j.fmt = i.fmt /\ j.last_wl_fmt = i.last_wl_fmt
        /\ j.last_wl_fmt_set = i.last_wl_fmt_set /\ j.use_last_x_img_xvi = u
        /\ j.x_img = i.x_img /\ j.last_x_img_xvi = i.last_x_img_xvi
        /\ j.last_x_img_xvi_mask = i.last_x_img_xvi_mask
        /\ j.conversion_buffer = i.conversion_buffer
    BY <1>2, <1>4 DEF Image
  <2> HIDE DEF j
  <2> QED
    BY <1>2, <1>4, <2>1 DEF GoodImage
<1> HIDE DEF j
<1>7. img \in [Surface -> Image]
  BY DEF IInv, TypeOK, SurfaceTypeOK
<1>8. img'[s] = j /\ \A r \in Surface \ {s} : img'[r] = img[r]
  BY <1>3, <1>7
<1>9. \A r \in Surface : GoodImage(img[r])'
  BY <1>6, <1>8 DEF IInv
<1> QED
  BY <1>1, <1>5, <1>6, <1>8, <1>9 DEF i

-----------------------------------------------------------------------------
LEMMA CommitKeeps ==
  ASSUME IInv, NEW s \in Surface, Commit(s) \/ CommitCrashes(s), UNCHANGED shsurfaces
  PROVE  IInv'
<1>1. CASE Commit(s)
  <2>1. PICK b \in ResolvedBuffer(s) : CommitFaults(s, b) = {} /\ Committed(s, b, FALSE)
    BY <1>1 DEF Commit
  <2>2. /\ SurfaceTypeOK'
        /\ \A r \in Surface : /\ GoodImage(img[r])'
                              /\ img[r].fmt # NULL => img'[r].fmt = img[r].fmt
    BY <2>1, CommittedKept
  <2>3. UNCHANGED <<commit_cb, crash>>
    BY <2>1 DEF Committed
  <2>4. TypeOK' /\ RoleOfSurface' /\ TypedIffWindow' /\ NoBadFree'
    BY <2>2, <2>3 DEF IInv, TypeOK, RoleOfSurface, TypedIffWindow, NoBadFree
  <2>5. WindowVisual'
    BY <2>2 DEF IInv, WindowVisual, TypeOK, ShellSurface
  <2> QED
    BY <2>2, <2>4, <2>5 DEF IInv
<1>2. CASE CommitCrashes(s)
  <2>1. CASE \E b \in ResolvedBuffer(s) : \E why \in CommitFaults(s, b) : Crash(why)
    BY <2>1, FaultKinds, CrashKept
  <2>2. CASE Crash("stale_buffer")
    BY <2>2, CrashKept DEF CrashKind
  <2> QED
    BY <1>2, <2>1, <2>2 DEF CommitCrashes
<1> QED
  BY <1>1, <1>2

(* A commit of a surface with a role: the window it makes takes its visual
   from the format the surface has from now on. *)
LEMMA CommitRoleKeeps ==
  ASSUME IInv, NEW s \in Surface, CommitRole(s)
  PROVE  IInv'
<1> DEFINE sh == commit_cb[s]
<1>1. PICK b \in ResolvedBuffer(s) :
        /\ CommitFaults(s, b) = {} /\ RoleFaults(s, b) = {}
        /\ Committed(s, b, CreatesWindow(s))
        /\ IF CreatesWindow(s)
           THEN shsurfaces' = [shsurfaces EXCEPT
                  ![sh].type = "JUST_CREATED",
                  ![sh].x_window = NewWindow(CommittedImage(s, b).fmt, CommittedViewport(s, b))]
           ELSE UNCHANGED shsurfaces
  BY DEF CommitRole
<1> DEFINE i == CommittedImage(s, b)
           v == CommittedViewport(s, b)
           w == NewWindow(i.fmt, v)
<1>2. /\ sh \in Role /\ shsurfaces[sh] \in ShellSurface /\ shsurfaces[sh].surface = s
      /\ shsurfaces \in [Role -> ShellSurface \cup {NULL}]
  BY DEF CommitRole, IInv, TypeOK, SurfaceTypeOK, RoleOfSurface
<1>3. CreatesWindow(s) => i.fmt # NULL /\ v # EmptyBox /\ i.fmt.xvi.screen = XDisplay.screen
  BY <1>1 DEF RoleFaults, WindowFaults
<1>4. CreatesWindow(s) \in BOOLEAN
  BY DEF CreatesWindow
<1>5. /\ SurfaceTypeOK'
      /\ \A r \in Surface : /\ GoodImage(img[r])'
                            /\ img[r].fmt # NULL => img'[r].fmt = img[r].fmt
      /\ img'[s].fmt = i.fmt
  BY <1>1, <1>3, <1>4, CommittedKept
<1>6. UNCHANGED <<commit_cb, crash>>
  BY <1>1 DEF Committed
<1>7. CASE CreatesWindow(s)
  <2>1. w \in Window /\ w.xvi = i.fmt.xvi /\ w # NULL
    <3>1. i \in Image /\ v \in Box
      BY <1>1, CommittedTypes DEF IInv, TypeOK
    <3>2. i.fmt \in PixelFmt
      BY <1>3, <1>7, <3>1 DEF Image
    <3>3. i.fmt.xvi \in Visual
      BY <3>2 DEF PixelFmt
    <3>4. v.x2 - v.x1 \in Nat \ {0} /\ v.y2 - v.y1 \in Nat \ {0}
      BY <1>3, <1>7, <3>1 DEF Box
    <3> HIDE DEF i, v
    <3>5. w \in Window /\ w.xvi = i.fmt.xvi
      BY <3>3, <3>4 DEF NewWindow, Window
    <3> QED
      BY <3>5, ShellNullAssumption
  <2> HIDE DEF w
  <2> DEFINE x == [shsurfaces[sh] EXCEPT !.type = "JUST_CREATED", !.x_window = w]
  <2>2. shsurfaces' = [shsurfaces EXCEPT ![sh] = x]
    BY <1>1, <1>2, <1>7 DEF w
  <2>3. /\ x \in ShellSurface /\ x.surface = s /\ x.type = "JUST_CREATED" /\ x.x_window = w
        /\ x # NULL
    BY <1>2, <2>1, ShellNullAssumption DEF ShellSurface
  <2> HIDE DEF x
  <2>4. shsurfaces'[sh] = x /\ \A h \in Role \ {sh} : shsurfaces'[h] = shsurfaces[h]
    BY <1>2, <2>2
  <2>5. TypeOK'
    BY <1>2, <1>5, <2>2, <2>3 DEF TypeOK
  <2>6. RoleOfSurface'
    BY <1>2, <1>6, <2>3, <2>4 DEF RoleOfSurface, IInv, TypeOK, SurfaceTypeOK
  <2>7. TypedIffWindow'
    BY <1>2, <2>1, <2>3, <2>4 DEF TypedIffWindow, IInv
  <2>8. WindowVisual'
    <3>1. ASSUME NEW h \in Role, shsurfaces'[h] # NULL, shsurfaces'[h].x_window # NULL
          PROVE  /\ img'[shsurfaces'[h].surface].fmt # NULL
                 /\ shsurfaces'[h].x_window.xvi = img'[shsurfaces'[h].surface].fmt.xvi
                 /\ shsurfaces'[h].x_window.xvi.screen = XDisplay.screen
      <4>1. CASE h = sh
        BY <1>3, <1>5, <1>7, <2>1, <2>3, <2>4, <4>1
      <4>2. CASE h # sh
        <5>1. shsurfaces[h] \in ShellSurface /\ shsurfaces'[h] = shsurfaces[h]
          BY <1>2, <2>4, <3>1, <4>2
        <5>2. shsurfaces[h].surface \in Surface
          BY <5>1 DEF ShellSurface
        <5> QED
          BY <1>5, <3>1, <5>1, <5>2 DEF IInv, WindowVisual
      <4> QED
        BY <4>1, <4>2
    <3> QED
      BY <3>1 DEF WindowVisual
  <2> QED
    BY <1>5, <1>6, <2>5, <2>6, <2>7, <2>8 DEF IInv, NoBadFree
<1>8. CASE ~CreatesWindow(s)
  <2>1. UNCHANGED shsurfaces
    BY <1>1, <1>8
  <2>2. TypeOK' /\ RoleOfSurface' /\ TypedIffWindow' /\ NoBadFree'
    BY <1>5, <1>6, <2>1 DEF IInv, TypeOK, RoleOfSurface, TypedIffWindow, NoBadFree
  <2>3. WindowVisual'
    BY <1>5, <2>1 DEF IInv, WindowVisual, TypeOK, ShellSurface
  <2> QED
    BY <1>5, <2>2, <2>3 DEF IInv
<1> QED
  BY <1>7, <1>8

LEMMA CommitRacesKeeps ==
  ASSUME IInv, NEW s \in Surface, CommitRaces(s)
  PROVE  IInv'
<1>1. "thread_race" \in CrashKind
  BY ShellAssumption DEF CrashKind
<1> QED
  BY <1>1, CrashKept DEF CommitRaces

LEMMA CommitRoleCrashesKeeps ==
  ASSUME IInv, NEW s \in Surface, CommitRoleCrashes(s)
  PROVE  IInv'
<1>1. UNCHANGED shsurfaces
  BY DEF CommitRoleCrashes
<1>2. CASE Crash("stale_buffer")
  BY <1>1, <1>2, CrashKept DEF CrashKind
<1>3. CASE Crash("mask_overread")
  BY <1>1, <1>3, CrashKept, RoleFaultKinds
<1>4. ASSUME NEW b \in ResolvedBuffer(s), NEW why \in CommitFaults(s, b), Crash(why)
      PROVE  IInv'
  BY <1>1, <1>4, FaultKinds, CrashKept
<1>5. ASSUME NEW b \in ResolvedBuffer(s), NEW why \in RoleFaults(s, b), Crash(why)
      PROVE  IInv'
  <2>1. why \in CrashKind \ {"image_data_free", "double_free"}
    BY RoleFaultKinds DEF RoleFaults
  <2> QED
    BY <1>1, <1>5, <2>1, CrashKept
<1> QED
  BY <1>2, <1>3, <1>4, <1>5 DEF CommitRoleCrashes

-----------------------------------------------------------------------------
(* A request that rewrites one shell surface, of the same surface, in place. *)
LEMMA ShellKept ==
  ASSUME IInv, NEW sh \in Role, NEW x \in ShellSurface,
         shsurfaces' = [shsurfaces EXCEPT ![sh] = x], UNCHANGED surfaceVars,
         shsurfaces[sh] # NULL => x.surface = shsurfaces[sh].surface,
         x.type # "NONE" <=> x.x_window # NULL,
         x.x_window # NULL => /\ img[x.surface].fmt # NULL
                              /\ x.x_window.xvi = img[x.surface].fmt.xvi
                              /\ x.x_window.xvi.screen = XDisplay.screen
  PROVE  IInv'
<1>1. shsurfaces \in [Role -> ShellSurface \cup {NULL}] /\ SurfaceTypeOK
  BY DEF IInv, TypeOK
<1>2. shsurfaces'[sh] = x /\ \A h \in Role \ {sh} : shsurfaces'[h] = shsurfaces[h]
  BY <1>1
<1>3. x # NULL
  BY ShellNullAssumption
<1>4. SurfaceTypeOK'
  BY <1>1 DEF SurfaceTypeOK, surfaceVars
<1>5. TypeOK'
  BY <1>1, <1>4 DEF TypeOK
<1>6. UNCHANGED <<img, commit_cb, crash>>
  BY DEF surfaceVars
<1>7. RoleOfSurface'
  BY <1>1, <1>2, <1>3, <1>6 DEF RoleOfSurface, IInv, SurfaceTypeOK
<1>8. TypedIffWindow'
  BY <1>2 DEF TypedIffWindow, IInv
<1>9. WindowVisual'
  BY <1>2, <1>6 DEF WindowVisual, IInv
<1>10. NoBadFree' /\ (\A s \in Surface : GoodImage(img[s]))'
  BY <1>6 DEF NoBadFree, IInv
<1> QED
  BY <1>5, <1>7, <1>8, <1>9, <1>10 DEF IInv

LEMMA GetShellSurfaceKeeps ==
  ASSUME IInv, NEW sh \in Role, NEW s \in Surface, GetShellSurface(sh, s)
  PROVE  IInv'
<1> DEFINE x == [type |-> "NONE", surface |-> s, x_window |-> NULL]
<1>1. /\ shsurfaces \in [Role -> ShellSurface \cup {NULL}] /\ SurfaceTypeOK
      /\ commit_cb \in [Surface -> Role \cup {NULL}]
  BY DEF IInv, TypeOK, SurfaceTypeOK
<1>2. /\ x \in ShellSurface /\ x # NULL /\ x.surface = s /\ x.type = "NONE" /\ x.x_window = NULL
  <2>1. x \in ShellSurface
    BY DEF ShellSurface
  <2>2. x.surface = s /\ x.type = "NONE" /\ x.x_window = NULL
    OBVIOUS
  <2> HIDE DEF x
  <2> QED
    BY <2>1, <2>2, ShellNullAssumption
<1>3. /\ shsurfaces' = [shsurfaces EXCEPT ![sh] = x]
      /\ commit_cb' = [commit_cb EXCEPT ![s] = sh]
      /\ shsurfaces[sh] = NULL
      /\ UNCHANGED <<connected, buffers, mem, state_buffer, state, actual_damage, viewport,
                     img, crash>>
  BY DEF GetShellSurface
<1> HIDE DEF x
<1>4. shsurfaces'[sh] = x /\ \A h \in Role \ {sh} : shsurfaces'[h] = shsurfaces[h]
  BY <1>1, <1>3
<1>5. SurfaceTypeOK'
  BY <1>1, <1>3 DEF SurfaceTypeOK
<1>6. TypeOK'
  BY <1>1, <1>2, <1>3, <1>5 DEF TypeOK
<1>7. RoleOfSurface'
  <2>1. ASSUME NEW r \in Surface, commit_cb'[r] # NULL
        PROVE  shsurfaces'[commit_cb'[r]] # NULL /\ shsurfaces'[commit_cb'[r]].surface = r
    <3>1. CASE r = s
      BY <1>1, <1>2, <1>3, <1>4, <3>1
    <3>2. CASE r # s
      <4>1. commit_cb'[r] = commit_cb[r] /\ commit_cb[r] \in Role
        BY <1>1, <1>3, <2>1, <3>2
      <4>2. shsurfaces[commit_cb[r]] # NULL /\ shsurfaces[commit_cb[r]].surface = r
        BY <2>1, <4>1 DEF IInv, RoleOfSurface
      <4> QED
        BY <1>3, <1>4, <4>1, <4>2
    <3> QED
      BY <3>1, <3>2
  <2> QED
    BY <2>1 DEF RoleOfSurface
<1>8. TypedIffWindow'
  BY <1>2, <1>4 DEF TypedIffWindow, IInv
<1>9. WindowVisual'
  BY <1>2, <1>3, <1>4 DEF WindowVisual, IInv
<1>10. NoBadFree' /\ (\A r \in Surface : GoodImage(img[r]))'
  BY <1>3 DEF NoBadFree, IInv
<1> QED
  BY <1>6, <1>7, <1>8, <1>9, <1>10 DEF IInv

LEMMA ShellStepKeeps ==
  ASSUME IInv, NEW sh \in Role, ShellStep(sh)
  PROVE  IInv'
<1> DEFINE old == shsurfaces[sh]
<1>1. shsurfaces \in [Role -> ShellSurface \cup {NULL}]
  BY DEF IInv, TypeOK
<1>2. CASE \E s \in Surface : GetShellSurface(sh, s)
  BY <1>2, GetShellSurfaceKeeps
<1>3. CASE SetToplevel(sh)
  <2> DEFINE type == IF old.type # "NONE" THEN "TOPLEVEL" ELSE old.type
             x == [old EXCEPT !.type = type]
  <2>1. old \in ShellSurface
    BY <1>1, <1>3 DEF SetToplevel, ShellLive
  <2>2. shsurfaces' = [shsurfaces EXCEPT ![sh] = x] /\ UNCHANGED surfaceVars
    BY <1>1, <1>3 DEF SetToplevel
  <2>3. x \in ShellSurface
    BY <2>1 DEF ShellSurface
  <2>4. x.surface = old.surface /\ x.x_window = old.x_window /\ x.type = type
    BY <2>1 DEF ShellSurface
  <2>5. type # "NONE" <=> old.type # "NONE"
    OBVIOUS
  <2>6. (old.type # "NONE") <=> (old.x_window # NULL)
    BY <1>3 DEF SetToplevel, ShellLive, IInv, TypedIffWindow
  <2>7. old.x_window # NULL => /\ img[old.surface].fmt # NULL
                               /\ old.x_window.xvi = img[old.surface].fmt.xvi
                               /\ old.x_window.xvi.screen = XDisplay.screen
    BY <1>3 DEF SetToplevel, ShellLive, IInv, WindowVisual
  <2> HIDE DEF x, type
  <2> QED
    BY <2>2, <2>3, <2>4, <2>5, <2>6, <2>7, ShellKept
<1>4. ASSUME NEW title \in Title, SetTitle(sh, title)  PROVE  IInv'
  <2> DEFINE w == [old.x_window EXCEPT !.title = title]
             x == [old EXCEPT !.x_window = w]
  <2>1. old \in ShellSurface /\ old.type # "NONE"
    BY <1>1, <1>4 DEF SetTitle, ShellLive
  <2>2. old.x_window # NULL /\ old.x_window \in Window
    BY <1>4, <2>1 DEF SetTitle, ShellLive, IInv, TypedIffWindow, ShellSurface
  <2>3. w \in Window /\ w.xvi = old.x_window.xvi /\ w # NULL
    BY <2>2, ShellNullAssumption DEF Window
  <2>4. shsurfaces' = [shsurfaces EXCEPT ![sh] = x] /\ UNCHANGED surfaceVars
    BY <1>1, <1>4 DEF SetTitle
  <2> HIDE DEF w
  <2>5. x \in ShellSurface /\ x.surface = old.surface /\ x.x_window = w /\ x.type = old.type
    BY <2>1, <2>3 DEF ShellSurface
  <2>6. /\ img[old.surface].fmt # NULL /\ old.x_window.xvi = img[old.surface].fmt.xvi
        /\ old.x_window.xvi.screen = XDisplay.screen
    BY <1>4, <2>2 DEF SetTitle, ShellLive, IInv, WindowVisual
  <2> HIDE DEF x
  <2> QED
    BY <2>1, <2>2, <2>3, <2>4, <2>5, <2>6, ShellKept
<1>5. CASE ThreadCrashes(sh)
  <2>1. PICK why \in PutFaults(old) : Crash(why)
    BY <1>5 DEF ThreadCrashes
  <2> QED
    BY <1>5, <2>1, RoleFaultKinds, CrashKept DEF ThreadCrashes
<1> QED
  BY <1>2, <1>3, <1>4, <1>5 DEF ShellStep

-----------------------------------------------------------------------------
LEMMA RequestKeeps ==
  ASSUME IInv, NEW s \in Surface, SurfaceRequest(s), UNCHANGED shsurfaces
  PROVE  IInv'
<1>1. SurfaceTypeOK'
  BY RequestType DEF IInv, TypeOK
<1>2. UNCHANGED <<img, commit_cb, crash>>
  BY DEF SurfaceRequest, CreateSurface, SetPending, Attach, Damage, DamageBuffer, Frame,
         SetOpaqueRegion, SetInputRegion, SetBufferTransform, SetBufferScale, Offset
<1> QED
  BY <1>1, <1>2, RestKept

LEMMA EndKeeps ==
  ASSUME IInv, UNCHANGED shsurfaces,
         \/ \E s \in Surface : Destroy(s)
         \/ \E b \in Buffer : BufferDestroy(b)
         \/ \E c \in Client : Disconnect(c)
  PROVE  IInv'
<1>1. ASSUME NEW s \in Surface, Destroy(s)  PROVE  IInv'
  <2>1. "double_delete" \in CrashKind
    BY DEF CrashKind
  <2> QED
    BY <1>1, <2>1, CrashKept DEF Destroy
<1>2. ASSUME NEW b \in Buffer, BufferDestroy(b)  PROVE  IInv'
  <2>1. SurfaceTypeOK'
    BY <1>2, BufferDestroyType DEF IInv, TypeOK
  <2> QED
    BY <1>2, <2>1, RestKept DEF BufferDestroy
<1>3. ASSUME NEW c \in Client, Disconnect(c)  PROVE  IInv'
  <2>1. SurfaceTypeOK'
    BY <1>3, DisconnectType DEF IInv, TypeOK
  <2> QED
    BY <1>3, <2>1, RestKept DEF Disconnect
<1> QED
  BY <1>1, <1>2, <1>3

(* IInv is inductive: every handler and every turn of a thread keeps it. *)
LEMMA NextKeeps == IInv /\ [Next]_vars => IInv'
<1> SUFFICES ASSUME IInv, [Next]_vars  PROVE  IInv'
  OBVIOUS
<1>1. ASSUME NEW s \in Surface, SurfaceRequest(s), UNCHANGED shsurfaces  PROVE  IInv'
  BY <1>1, RequestKeeps
<1>2. ASSUME NEW s \in Surface, ShellCommit(s)  PROVE  IInv'
  BY <1>2, CommitKeeps, CommitRoleKeeps, CommitRoleCrashesKeeps, CommitRacesKeeps DEF ShellCommit
<1>3. ASSUME NEW sh \in Role, ShellStep(sh)  PROVE  IInv'
  BY <1>3, ShellStepKeeps
<1>4. CASE UNCHANGED vars
  <2>1. SurfaceTypeOK'
    BY <1>4 DEF IInv, TypeOK, SurfaceTypeOK, vars
  <2> QED
    BY <1>4, <2>1, RestKept DEF vars
<1>5. ASSUME NEW s \in Surface, Destroy(s), UNCHANGED shsurfaces  PROVE  IInv'
  BY <1>5, EndKeeps
<1>6. ASSUME NEW b \in Buffer, BufferDestroy(b), UNCHANGED shsurfaces  PROVE  IInv'
  BY <1>6, EndKeeps
<1>7. ASSUME NEW c \in Client, Disconnect(c), UNCHANGED shsurfaces  PROVE  IInv'
  BY <1>7, EndKeeps
<1>8. ASSUME Next  PROVE  IInv'
  <2>1. CASE \E s \in Surface : SurfaceRequest(s) /\ UNCHANGED shsurfaces
    BY <1>1, <2>1
  <2>2. CASE \E s \in Surface : ShellCommit(s)
    BY <1>2, <2>2
  <2>3. CASE \E s \in Surface : Destroy(s) /\ UNCHANGED shsurfaces
    BY <1>5, <2>3
  <2>4. CASE \E sh \in Role : ShellStep(sh)
    BY <1>3, <2>4
  <2>5. CASE \E b \in Buffer : BufferDestroy(b) /\ UNCHANGED shsurfaces
    BY <1>6, <2>5
  <2>6. CASE \E c \in Client : Disconnect(c) /\ UNCHANGED shsurfaces
    BY <1>7, <2>6
  <2> QED
    BY <1>8, <2>1, <2>2, <2>3, <2>4, <2>5, <2>6 DEF Next
<1> QED
  BY <1>4, <1>8

(* IInv holds in every state the server reaches. *)
THEOREM Invariance == Spec => []IInv
BY InitIInv, NextKeeps, PTL DEF Spec

(* Every field of every surface and shell surface keeps its type. *)
THEOREM TypeCorrect == Spec => []TypeOK
<1>1. IInv => TypeOK
  BY DEF IInv
<1> QED
  BY <1>1, Invariance, PTL

(* A surface's format is chosen once and agrees with what is recorded of it:
   no commit frees a live format. *)
THEOREM FormatIsRemembered == Spec => []FormatRemembered
<1>1. IInv => FormatRemembered
  BY DEF IInv, GoodImage, FormatRemembered
<1> QED
  BY <1>1, Invariance, PTL

(* The visual of an image is one of the server's, if perhaps of another screen,
   and never one unwritten. *)
THEOREM VisualIsKnown == Spec => []VisualKnown
<1>1. IInv => VisualKnown
  BY SurfaceAssumption, FmtFromWlType DEF IInv, GoodImage, VisualKnown
<1> QED
  BY <1>1, Invariance, PTL

(* No surface keeps a pointer to a conversion buffer it has freed. *)
THEOREM ConversionIsOwned == Spec => []ConversionOwned
<1>1. IInv => ConversionOwned
  BY DEF IInv, GoodImage, ConversionOwned
<1> QED
  BY <1>1, Invariance, PTL

(* With Xext no commit frees memory wrongly. *)
THEOREM FreesAreRight == Spec => []NoBadFree
<1>1. IInv => NoBadFree
  BY DEF IInv
<1> QED
  BY <1>1, Invariance, PTL

(* set_toplevel and set_title never reach a shell surface without a window. *)
THEOREM TypedHasWindow == Spec => []TypedIffWindow
<1>1. IInv => TypedIffWindow
  BY DEF IInv
<1> QED
  BY <1>1, Invariance, PTL

(* Without XRender the thread of a window always has an image of the window's
   visual to put on it, and that is a visual of the window's screen. *)
THEOREM WindowAlwaysHasImage ==
  ASSUME ~XHasRender
  PROVE  Spec => []WindowHasImage
<1>1. IInv => WindowHasImage
  <2> SUFFICES ASSUME IInv, NEW sh \in Role, shsurfaces[sh] # NULL,
                      shsurfaces[sh].x_window # NULL
               PROVE  /\ img[shsurfaces[sh].surface].x_img # NULL
                      /\ img[shsurfaces[sh].surface].x_img.xvi = shsurfaces[sh].x_window.xvi
                      /\ shsurfaces[sh].x_window.xvi.screen = XDisplay.screen
    BY DEF WindowHasImage
  <2>1. shsurfaces[sh].surface \in Surface
    BY DEF IInv, TypeOK, ShellSurface
  <2>2. /\ img[shsurfaces[sh].surface].fmt # NULL
        /\ shsurfaces[sh].x_window.xvi = img[shsurfaces[sh].surface].fmt.xvi
        /\ shsurfaces[sh].x_window.xvi.screen = XDisplay.screen
    BY DEF IInv, WindowVisual
  <2> QED
    BY <2>1, <2>2 DEF IInv, GoodImage
<1> QED
  BY <1>1, Invariance, PTL

-----------------------------------------------------------------------------
(* What a step does to one shell surface. *)
LEMMA ShellChange ==
  ASSUME IInv, [Next]_vars, NEW sh \in Role, shsurfaces[sh] # NULL
  PROVE  \/ shsurfaces'[sh] = shsurfaces[sh]
         \/ /\ shsurfaces'[sh].x_window = shsurfaces[sh].x_window
            /\ shsurfaces[sh].type # "NONE" => shsurfaces'[sh].type # "NONE"
         \/ /\ shsurfaces[sh].type # "NONE" /\ shsurfaces'[sh].type # "NONE"
            /\ \E title : shsurfaces'[sh].x_window =
                            [shsurfaces[sh].x_window EXCEPT !.title = title]
         \/ /\ shsurfaces[sh].type = "NONE"
            /\ commit_cb[shsurfaces[sh].surface] = sh
<1>1. /\ shsurfaces \in [Role -> ShellSurface \cup {NULL}]
      /\ shsurfaces[sh] \in ShellSurface
  BY DEF IInv, TypeOK
<1>2. CASE UNCHANGED shsurfaces
  BY <1>2
<1>3. ASSUME NEW s \in Surface, CommitRole(s), ~ UNCHANGED shsurfaces
      PROVE  \/ shsurfaces'[sh] = shsurfaces[sh]
             \/ /\ shsurfaces[sh].type = "NONE"
                /\ commit_cb[shsurfaces[sh].surface] = sh
  <2>1. /\ CreatesWindow(s) /\ commit_cb[s] \in Role
        /\ shsurfaces[commit_cb[s]].surface = s
    BY <1>3 DEF CommitRole, IInv, TypeOK, SurfaceTypeOK, RoleOfSurface
  <2>2. PICK w : shsurfaces' = [shsurfaces EXCEPT ![commit_cb[s]].type = "JUST_CREATED",
                                                  ![commit_cb[s]].x_window = w]
    BY <1>3, <2>1 DEF CommitRole
  <2> QED
    BY <1>1, <2>1, <2>2 DEF CreatesWindow
<1>4. ASSUME NEW h \in Role, SetToplevel(h)
      PROVE  \/ shsurfaces'[sh] = shsurfaces[sh]
             \/ /\ shsurfaces'[sh].x_window = shsurfaces[sh].x_window
                /\ shsurfaces[sh].type # "NONE" => shsurfaces'[sh].type # "NONE"
  BY <1>1, <1>4 DEF SetToplevel, ShellSurface
<1>5. ASSUME NEW h \in Role, NEW title \in Title, SetTitle(h, title)
      PROVE  \/ shsurfaces'[sh] = shsurfaces[sh]
             \/ /\ shsurfaces[sh].type # "NONE" /\ shsurfaces'[sh].type # "NONE"
                /\ shsurfaces'[sh].x_window = [shsurfaces[sh].x_window EXCEPT !.title = title]
  BY <1>1, <1>5 DEF SetTitle, ShellSurface
<1>6. ASSUME NEW h \in Role, NEW s \in Surface, GetShellSurface(h, s)
      PROVE  shsurfaces'[sh] = shsurfaces[sh]
  BY <1>1, <1>6 DEF GetShellSurface
<1>7. ASSUME Next, ~ UNCHANGED shsurfaces
      PROVE  \/ \E s \in Surface : CommitRole(s)
             \/ \E h \in Role : \/ SetToplevel(h)
                                \/ \E title \in Title : SetTitle(h, title)
                                \/ \E s \in Surface : GetShellSurface(h, s)
  BY <1>7 DEF Next, ShellCommit, ShellStep, CommitRoleCrashes, CommitRaces, ThreadCrashes
<1>8. UNCHANGED vars => UNCHANGED shsurfaces
  BY DEF vars
<1> QED
  BY <1>2, <1>3, <1>4, <1>5, <1>6, <1>7, <1>8

(* A window is made once and keeps its size and its visual. *)
THEOREM WindowIsKept == Spec => WindowKept
<1> DEFINE Kept == \A sh \in Role :
       shsurfaces[sh] # NULL /\ shsurfaces[sh].x_window # NULL =>
         /\ shsurfaces'[sh].type # "NONE"
         /\ shsurfaces'[sh].x_window =
              [shsurfaces[sh].x_window EXCEPT !.title = shsurfaces'[sh].x_window.title]
<1>1. IInv /\ [Next]_vars => [Kept]_vars
  <2> SUFFICES ASSUME IInv, [Next]_vars, NEW sh \in Role,
                      shsurfaces[sh] # NULL, shsurfaces[sh].x_window # NULL
               PROVE  /\ shsurfaces'[sh].type # "NONE"
                      /\ shsurfaces'[sh].x_window =
                           [shsurfaces[sh].x_window EXCEPT !.title = shsurfaces'[sh].x_window.title]
    OBVIOUS
  <2> DEFINE w == shsurfaces[sh].x_window
  <2>1. shsurfaces[sh].type # "NONE"
    BY DEF IInv, TypedIffWindow
  <2>2. w \in Window
    BY DEF IInv, TypeOK, ShellSurface
  <2>3. w = [w EXCEPT !.title = w.title]
    BY <2>2 DEF Window
  <2>4. \A title : [w EXCEPT !.title = title].title = title
    BY <2>2 DEF Window
  <2>5. shsurfaces'[sh].type # "NONE" /\ \E title : shsurfaces'[sh].x_window = [w EXCEPT !.title = title]
    BY <2>1, <2>3, ShellChange
  <2> QED
    BY <2>4, <2>5
<1> QED
  BY <1>1, Invariance, PTL DEF Spec, WindowKept

(* A shell surface that lost its surface before it had a window stays bare. *)
THEOREM OrphanIsBare == Spec => OrphanStaysBare
<1> DEFINE Bare == \A sh \in Role :
       /\ shsurfaces[sh] # NULL /\ shsurfaces[sh].x_window = NULL
       /\ commit_cb[shsurfaces[sh].surface] # sh
       => shsurfaces'[sh].x_window = NULL
<1>1. IInv /\ [Next]_vars => [Bare]_vars
  <2> SUFFICES ASSUME IInv, [Next]_vars, NEW sh \in Role,
                      shsurfaces[sh] # NULL, shsurfaces[sh].x_window = NULL,
                      commit_cb[shsurfaces[sh].surface] # sh
               PROVE  shsurfaces'[sh].x_window = NULL
    OBVIOUS
  <2>1. shsurfaces[sh].type = "NONE"
    BY DEF IInv, TypedIffWindow
  <2> QED
    BY <2>1, ShellChange
<1> QED
  BY <1>1, Invariance, PTL DEF Spec, OrphanStaysBare

-----------------------------------------------------------------------------
(* Considerate clients of a good server.  First, what ConsiderateInv says of
   one surface. *)
ShownWell(s) ==
  img[s].fmt # NULL =>
    LET b == img[s].shm_buffer IN
    /\ mem[s] # "none"
    /\ b \in Buffer /\ Owner[b] = Owner[s]
    /\ mem[s] = "live" => b \in buffers
    /\ img[s].x_img.width = BufferInfo[b].width
    /\ img[s].x_img.height = BufferInfo[b].height
    /\ viewport[s].x2 - viewport[s].x1 = BufferInfo[b].width
    /\ viewport[s].y2 - viewport[s].y1 = BufferInfo[b].height

LEMMA ConsiderateParts ==
  ConsiderateInv <=>
    /\ crash = "none"
    /\ \A s \in Surface : state_buffer[s].buffer # NULL => Owner[state_buffer[s].buffer] = Owner[s]
    /\ \A s \in Surface : ShownWell(s)
    /\ \A sh \in Role : shsurfaces[sh] # NULL =>
         (shsurfaces[sh].x_window # NULL => mem[shsurfaces[sh].surface] = "live")
BY DEF ConsiderateInv, ShownWell

(* A considerate commit resolves to one buffer and has no fault. *)
LEMMA ConsiderateCommit ==
  ASSUME GoodServer, IInv, ConsiderateInv, NEW s \in Surface, MayCommit(s), Live(s),
         NEW b \in ResolvedBuffer(s)
  PROVE  /\ b = state_buffer[s].buffer
         /\ ~MayBeStale(s)
         /\ Attached(s) => b \in buffers
         /\ CommitFaults(s, b) = {}
<1>1. /\ Attached(s) => state_buffer[s].buffer \in buffers
      /\ buffers \subseteq Buffer
  BY DEF MayCommit, IInv, TypeOK, SurfaceTypeOK
<1>2. b = state_buffer[s].buffer /\ ~MayBeStale(s) /\ (Attached(s) => b \in buffers)
  BY <1>1 DEF ResolvedBuffer, MayBeStale
<1>3. ASSUME Attached(s)  PROVE  ImportFaults(s, b) = {}
  <2> DEFINE i == img[s]
             fmt == NextFmt(s, b)
  <2>1. b \in Buffer /\ SurfaceTypeOK /\ GoodImage(i)
    BY <1>1, <1>2, <1>3 DEF IInv, TypeOK
  <2>2. PICK f \in ShmFormat : fmt = FmtFromWl(XDisplay, f)
    BY <2>1, FormatFound
  <2>3. fmt.xvi # NULL
    BY <2>1, FormatFound, NullAssumption DEF PixelFmt
  <2>4. HasBabl(fmt.xvi)
    BY <2>2, FmtFromWlTrueColor, SurfaceAssumption DEF GoodServer
  <2>5. i.conversion_buffer # "dangling" /\ (i.x_img # NULL => i.x_img.data = "segment")
    BY <2>1 DEF GoodImage, GoodServer
  <2> HIDE DEF fmt
  <2> QED
    BY <2>3, <2>4, <2>5 DEF ImportFaults, fmt
<1>4. Attached(s) => b # NULL
  BY <1>1, <1>2, NullAssumption
<1> QED
  BY <1>2, <1>3, <1>4 DEF CommitFaults

(* It leaves the surface well shown, with its image if there is one. *)
LEMMA ConsiderateShows ==
  ASSUME GoodServer, IInv, ConsiderateInv, NEW s \in Surface, MayCommit(s), Live(s),
         NEW b \in ResolvedBuffer(s), CommittedImage(s, b).fmt # NULL
  PROVE  LET i == CommittedImage(s, b) IN
         /\ i.shm_buffer \in buffers /\ Owner[i.shm_buffer] = Owner[s]
         /\ i.x_img # NULL
         /\ i.x_img.width = BufferInfo[i.shm_buffer].width
         /\ i.x_img.height = BufferInfo[i.shm_buffer].height
         /\ CommittedViewport(s, b).x2 - CommittedViewport(s, b).x1
              = BufferInfo[i.shm_buffer].width
         /\ CommittedViewport(s, b).y2 - CommittedViewport(s, b).y1
              = BufferInfo[i.shm_buffer].height
<1>1. SurfaceTypeOK /\ GoodImage(img[s])
  BY DEF IInv, TypeOK
<1>2. CASE Attached(s)
  <2>1. b = state_buffer[s].buffer /\ b \in Buffer /\ b \in buffers /\ ImportFaults(s, b) = {}
    BY <1>1, <1>2, ConsiderateCommit, ImportsBuffer
  <2>2. Owner[b] = Owner[s]
    BY <2>1, NullAssumption, ConsiderateParts
  <2>3. /\ CommittedImage(s, b).shm_buffer = b
        /\ CommittedImage(s, b).x_img # NULL
        /\ CommittedImage(s, b).x_img.width = BufferInfo[b].width
        /\ CommittedImage(s, b).x_img.height = BufferInfo[b].height
    BY <1>1, <1>2, <2>1, GoodImport DEF CommittedImage, GoodServer
  <2>4. /\ state_buffer[s].buffer_scale = 1
        /\ state_buffer[s].buffer_x \in Int /\ state_buffer[s].buffer_y \in Int
    BY <1>1, <1>2 DEF MayCommit, SurfaceTypeOK, SurfaceState
  <2>5. /\ BufferInfo[b].width \in Nat \ {0} /\ BufferInfo[b].height \in Nat \ {0}
    BY <2>1, SurfaceAssumption
  <2>6. CommittedViewport(s, b) =
          [x1 |-> state_buffer[s].buffer_x, y1 |-> state_buffer[s].buffer_y,
           x2 |-> state_buffer[s].buffer_x + BufferInfo[b].width,
           y2 |-> state_buffer[s].buffer_y + BufferInfo[b].height]
    BY <1>2, <2>4, <2>5 DEF CommittedViewport, InitRect
  <2>7. /\ CommittedViewport(s, b).x2 - CommittedViewport(s, b).x1 = BufferInfo[b].width
        /\ CommittedViewport(s, b).y2 - CommittedViewport(s, b).y1 = BufferInfo[b].height
    BY <2>4, <2>5, <2>6
  <2> QED
    BY <2>1, <2>2, <2>3, <2>7
<1>3. CASE ~Attached(s)
  <2>1. CommittedImage(s, b) = img[s] /\ CommittedViewport(s, b) = viewport[s]
    BY <1>3 DEF CommittedImage, CommittedViewport
  <2>2. ShownWell(s) /\ mem[s] = "live" /\ img[s].fmt # NULL
    BY <2>1, ConsiderateParts DEF Live
  <2>3. img[s].x_img # NULL
    BY <1>1, <2>2 DEF GoodImage, GoodServer
  <2> QED
    BY <2>1, <2>2, <2>3 DEF ShownWell
<1> QED
  BY <1>2, <1>3

(* The window of its role, if it makes one, has no fault either. *)
LEMMA ConsiderateRole ==
  ASSUME GoodServer, IInv, ConsiderateInv, NEW s \in Surface, MayCommit(s), Live(s),
         NEW b \in ResolvedBuffer(s), commit_cb[s] # NULL
  PROVE  RoleFaults(s, b) = {} /\ ~MaskMayCrash(s, b)
<1> DEFINE i == CommittedImage(s, b)
           v == CommittedViewport(s, b)
<1>1. CommitFaults(s, b) = {}
  BY ConsiderateCommit
<1>2. i.fmt # NULL
  <2>1. CASE Attached(s)
    <3>1. b \in Buffer /\ ImportFaults(s, b) = {} /\ SurfaceTypeOK /\ GoodImage(img[s])
      BY <1>1, <2>1, ImportsBuffer DEF IInv, TypeOK
    <3> QED
      BY <2>1, <3>1, GoodImport, FormatFound, NullAssumption DEF CommittedImage
  <2>2. CASE ~Attached(s)
    BY <2>2 DEF MayCommit, CommittedImage
  <2> QED
    BY <2>1, <2>2
<1>3. /\ i.shm_buffer \in buffers /\ i.x_img # NULL
      /\ i.x_img.width = BufferInfo[i.shm_buffer].width
      /\ i.x_img.height = BufferInfo[i.shm_buffer].height
      /\ v.x2 - v.x1 = BufferInfo[i.shm_buffer].width
      /\ v.y2 - v.y1 = BufferInfo[i.shm_buffer].height
  BY <1>2, ConsiderateShows
<1>4. /\ i.shm_buffer \in Buffer
      /\ BufferInfo[i.shm_buffer].width \in Nat \ {0}
      /\ BufferInfo[i.shm_buffer].height \in Nat \ {0}
  <2>1. buffers \subseteq Buffer
    BY DEF IInv, TypeOK, SurfaceTypeOK
  <2> QED
    BY <1>3, <2>1, SurfaceAssumption
<1>5. v # EmptyBox
  BY <1>3, <1>4 DEF EmptyBox
<1>6. MakesMask => RegularMask(BufferInfo[i.shm_buffer].width, BufferInfo[i.shm_buffer].height)
  BY <1>4 DEF GoodServer, MakesMask
<1>7. i.fmt.xvi.screen = XDisplay.screen
  <2>1. \E f \in ShmFormat : i.fmt = FmtFromWl(XDisplay, f)
    BY <1>1, <1>2, CommittedGood DEF GoodImage
  <2> QED
    BY <2>1 DEF GoodServer
<1> HIDE DEF i, v
<1>8. WindowFaults(i, v) = {}
  BY <1>2, <1>3, <1>5, <1>7 DEF WindowFaults, GoodServer
<1> QED
  BY <1>3, <1>4, <1>6, <1>8 DEF RoleFaults, MaskMayCrash, i, v

-----------------------------------------------------------------------------
LEMMA ConsiderateRequest ==
  ASSUME IInv, ConsiderateInv, NEW s \in Surface, SurfaceRequest(s), UNCHANGED shsurfaces
  PROVE  ConsiderateInv'
<1>1. /\ mem \in [Surface -> {"none", "live", "freed"}]
      /\ state_buffer \in [Surface -> SurfaceState] /\ state_buffer[s] \in SurfaceState
      /\ shsurfaces \in [Role -> ShellSurface \cup {NULL}]
  BY DEF IInv, TypeOK, SurfaceTypeOK
<1>2. UNCHANGED <<img, viewport, buffers, crash>>
  BY DEF SurfaceRequest, CreateSurface, SetPending, Attach, Damage, DamageBuffer, Frame,
         SetOpaqueRegion, SetInputRegion, SetBufferTransform, SetBufferScale, Offset
<1>3. CASE CreateSurface(s)
  <2>1. /\ mem[s] = "none" /\ UNCHANGED state_buffer
        /\ mem'[s] = "live" /\ \A r \in Surface \ {s} : mem'[r] = mem[r]
    BY <1>1, <1>3 DEF CreateSurface
  <2>2. \A r \in Surface : ShownWell(r)'
    BY <1>2, <2>1, ConsiderateParts DEF ShownWell
  <2>3. \A sh \in Role : shsurfaces[sh] # NULL =>
          (shsurfaces[sh].x_window # NULL => mem'[shsurfaces[sh].surface] = "live")
    BY <1>1, <2>1, ConsiderateParts DEF ShellSurface
  <2> QED
    BY <1>2, <2>1, <2>2, <2>3, ConsiderateParts DEF ConsiderateInv, ShownWell
<1>4. ASSUME UNCHANGED mem,
             \A r \in Surface : state_buffer'[r].buffer # NULL =>
                                  Owner[state_buffer'[r].buffer] = Owner[r]
      PROVE  ConsiderateInv'
  BY <1>2, <1>4 DEF ConsiderateInv
<1>5. ASSUME NEW new, SetPending(s, new), new.buffer = state_buffer[s].buffer
      PROVE  ConsiderateInv'
  <2>1. state_buffer'[s].buffer = state_buffer[s].buffer
    BY <1>1, <1>5 DEF SetPending
  <2>2. \A r \in Surface \ {s} : state_buffer'[r] = state_buffer[r]
    BY <1>1, <1>5 DEF SetPending
  <2>3. \A r \in Surface : state_buffer'[r].buffer = state_buffer[r].buffer
    BY <2>1, <2>2
  <2>4. UNCHANGED mem
    BY <1>5 DEF SetPending
  <2> QED
    BY <1>4, <2>3, <2>4, ConsiderateParts
<1>6. ASSUME NEW b \in Buffer \cup {NULL}, NEW p \in Position, Attach(s, b, p)
      PROVE  ConsiderateInv'
  <2> DEFINE new == [state_buffer[s] EXCEPT !.prop_changed = @ \cup {"BUFFER", "BUFFER_X_Y"},
                       !.buffer = b, !.buffer_x = p.x, !.buffer_y = p.y]
  <2>1. SetPending(s, new) /\ (b # NULL => Owner[b] = Owner[s])
    BY <1>6 DEF Attach
  <2>2. new.buffer = b
    BY <1>1 DEF SurfaceState
  <2> HIDE DEF new
  <2>3. state_buffer'[s] = new /\ \A r \in Surface \ {s} : state_buffer'[r] = state_buffer[r]
    BY <1>1, <2>1 DEF SetPending
  <2>4. UNCHANGED mem
    BY <2>1 DEF SetPending
  <2>5. \A r \in Surface : state_buffer'[r].buffer # NULL =>
                             Owner[state_buffer'[r].buffer] = Owner[r]
    BY <2>1, <2>2, <2>3, ConsiderateParts
  <2> QED
    BY <1>4, <2>4, <2>5
<1>7. CASE \E r \in Rect : Damage(s, r)
  BY <1>1, <1>5, <1>7 DEF Damage, SurfaceState
<1>8. CASE \E r \in Rect : DamageBuffer(s, r)
  BY <1>1, <1>5, <1>8 DEF DamageBuffer, SurfaceState
<1>9. CASE \E cb \in Callback : Frame(s, cb)
  BY <1>1, <1>5, <1>9 DEF Frame, SurfaceState
<1>10. CASE \E r \in Region \cup {NULL} : SetOpaqueRegion(s, r)
  BY <1>1, <1>5, <1>10 DEF SetOpaqueRegion, SurfaceState
<1>11. CASE \E r \in Region \cup {NULL} : SetInputRegion(s, r)
  BY <1>1, <1>5, <1>11 DEF SetInputRegion, SurfaceState
<1>12. CASE \E tf \in Transform : SetBufferTransform(s, tf)
  BY <1>1, <1>5, <1>12 DEF SetBufferTransform, SurfaceState
<1>13. CASE \E scale \in Scale : SetBufferScale(s, scale)
  BY <1>1, <1>5, <1>13 DEF SetBufferScale, SurfaceState
<1>14. CASE \E p \in Position : Offset(s, p)
  BY <1>1, <1>5, <1>14 DEF Offset, SurfaceState
<1> QED
  BY <1>3, <1>6, <1>7, <1>8, <1>9, <1>10, <1>11, <1>12, <1>13, <1>14 DEF SurfaceRequest

(* A considerate commit shows a buffer that exists, and may make a window. *)
LEMMA ConsiderateCommitted ==
  ASSUME GoodServer, IInv, ConsiderateInv, NEW s \in Surface, MayCommit(s), ShellCommit(s)
  PROVE  ConsiderateInv'
<1>1. Live(s)
  BY DEF ShellCommit, Commit, CommitCrashes, CommitRole, CommitRoleCrashes, CommitRaces
<1>2. \A b \in ResolvedBuffer(s) : /\ ~MayBeStale(s) /\ CommitFaults(s, b) = {}
  BY <1>1, ConsiderateCommit
<1>3. commit_cb[s] # NULL => \A b \in ResolvedBuffer(s) : RoleFaults(s, b) = {} /\ ~MaskMayCrash(s, b)
  BY <1>1, ConsiderateRole
<1>4. ~MayBeStale(s)
  <2>1. Attached(s) => state_buffer[s].buffer \in buffers
    BY DEF MayCommit
  <2> QED
    BY <2>1 DEF MayBeStale
<1>5. ~CommitCrashes(s) /\ ~CommitRoleCrashes(s) /\ ~CommitRaces(s)
  BY <1>2, <1>3, <1>4 DEF CommitCrashes, CommitRoleCrashes, CommitRaces, MayCommit
<1>6. PICK b \in ResolvedBuffer(s), shows \in BOOLEAN :
        /\ CommitFaults(s, b) = {} /\ Committed(s, b, shows)
        /\ shows => CommittedImage(s, b).fmt # NULL
        /\ UNCHANGED shsurfaces \/ (CommitRole(s) /\ CreatesWindow(s))
  <2>1. CASE Commit(s) /\ UNCHANGED shsurfaces
    BY <2>1 DEF Commit
  <2>2. CASE CommitRole(s)
    <3>1. CreatesWindow(s) \in BOOLEAN
      BY DEF CreatesWindow
    <3>2. PICK b \in ResolvedBuffer(s) :
            /\ CommitFaults(s, b) = {} /\ RoleFaults(s, b) = {}
            /\ Committed(s, b, CreatesWindow(s))
            /\ CreatesWindow(s) \/ UNCHANGED shsurfaces
      BY <2>2 DEF CommitRole
    <3>3. CreatesWindow(s) => CommittedImage(s, b).fmt # NULL
      BY <3>2 DEF RoleFaults, WindowFaults
    <3> QED
      BY <2>2, <3>1, <3>2, <3>3
  <2> QED
    BY <1>5, <2>1, <2>2 DEF ShellCommit
<1> DEFINE i == CommittedImage(s, b)
           u == i.use_last_x_img_xvi \/ shows
           v == CommittedViewport(s, b)
<1>7. /\ img \in [Surface -> Image] /\ viewport \in [Surface -> Box]
      /\ state_buffer \in [Surface -> SurfaceState] /\ state_buffer[s] \in SurfaceState
      /\ shsurfaces \in [Role -> ShellSurface \cup {NULL}]
      /\ commit_cb \in [Surface -> Role \cup {NULL}]
      /\ NULL \notin buffers /\ buffers \subseteq Buffer
  BY NullAssumption DEF IInv, TypeOK, SurfaceTypeOK
<1>8. UNCHANGED <<buffers, mem, crash>> /\ mem[s] = "live"
  BY <1>1, <1>6 DEF Committed, Live
<1>9. i \in Image /\ u \in BOOLEAN
  BY <1>6, CommittedGood
<1>10. img' = [img EXCEPT ![s] = [i EXCEPT !.use_last_x_img_xvi = u]]
  BY <1>6 DEF Committed
<1> HIDE DEF i, u
<1>11. /\ img'[s].fmt = i.fmt /\ img'[s].shm_buffer = i.shm_buffer /\ img'[s].x_img = i.x_img
       /\ \A r \in Surface \ {s} : img'[r] = img[r]
  BY <1>7, <1>9, <1>10 DEF Image
<1>12. viewport'[s] = v /\ \A r \in Surface \ {s} : viewport'[r] = viewport[r]
  BY <1>6, <1>7 DEF Committed
<1>13. \A r \in Surface : state_buffer'[r].buffer = state_buffer[r].buffer
  <2>1. state_buffer' = [state_buffer EXCEPT ![s] = [state_buffer[s] EXCEPT !.prop_changed = {}]]
    BY <1>6, <1>7 DEF Committed
  <2>2. [state_buffer[s] EXCEPT !.prop_changed = {}].buffer = state_buffer[s].buffer
    BY <1>7 DEF SurfaceState
  <2> QED
    BY <1>7, <2>1, <2>2
<1>14. \A r \in Surface : ShownWell(r)'
  <2>1. ShownWell(s)'
    <3>1. SUFFICES ASSUME i.fmt # NULL  PROVE  ShownWell(s)'
      BY <1>11 DEF ShownWell
    <3>2. /\ i.shm_buffer \in buffers /\ Owner[i.shm_buffer] = Owner[s]
          /\ i.x_img.width = BufferInfo[i.shm_buffer].width
          /\ i.x_img.height = BufferInfo[i.shm_buffer].height
          /\ v.x2 - v.x1 = BufferInfo[i.shm_buffer].width
          /\ v.y2 - v.y1 = BufferInfo[i.shm_buffer].height
      BY <1>1, <1>6, <3>1, ConsiderateShows DEF i
    <3> HIDE DEF v
    <3> QED
      BY <1>7, <1>8, <1>11, <1>12, <3>2 DEF ShownWell
  <2>2. ASSUME NEW r \in Surface \ {s}  PROVE  ShownWell(r)'
    <3>1. ShownWell(r) /\ img'[r] = img[r] /\ viewport'[r] = viewport[r]
      BY <1>11, <1>12, ConsiderateParts
    <3> QED
      BY <1>8, <3>1 DEF ShownWell
  <2> QED
    BY <2>1, <2>2
<1>15. \A sh \in Role : shsurfaces'[sh] # NULL =>
         (shsurfaces'[sh].x_window # NULL => mem'[shsurfaces'[sh].surface] = "live")
  <2>1. CASE UNCHANGED shsurfaces
    BY <1>8, <2>1, ConsiderateParts
  <2>2. CASE CommitRole(s) /\ CreatesWindow(s)
    <3>1. commit_cb[s] \in Role /\ shsurfaces[commit_cb[s]] \in ShellSurface
          /\ shsurfaces[commit_cb[s]].surface = s
      BY <1>7, <2>2 DEF CommitRole, IInv, RoleOfSurface
    <3>2. PICK w : shsurfaces' = [shsurfaces EXCEPT ![commit_cb[s]].type = "JUST_CREATED",
                                                    ![commit_cb[s]].x_window = w]
      BY <2>2 DEF CommitRole
    <3>3. shsurfaces'[commit_cb[s]].surface = s
      BY <1>7, <3>1, <3>2 DEF ShellSurface
    <3>4. \A h \in Role \ {commit_cb[s]} : shsurfaces'[h] = shsurfaces[h]
      BY <1>7, <3>2
    <3> QED
      BY <1>8, <3>3, <3>4, ConsiderateParts
  <2> QED
    BY <1>6, <2>1, <2>2
<1>16. crash' = "none"
  BY <1>8, ConsiderateParts
<1>17. \A r \in Surface : state_buffer'[r].buffer # NULL =>
                            Owner[state_buffer'[r].buffer] = Owner[r]
  BY <1>13, ConsiderateParts
<1> QED
  BY <1>14, <1>15, <1>16, <1>17 DEF ConsiderateInv, ShownWell

(* No turn of a window's thread ends the server. *)
LEMMA ConsiderateThread ==
  ASSUME GoodServer, IInv, ConsiderateInv, NEW sh \in Role, ThreadCrashes(sh)
  PROVE  FALSE
<1> DEFINE x == shsurfaces[sh]
           s == x.surface
           i == img[s]
<1>1. x # NULL /\ x.x_window # NULL /\ PutFaults(x) # {}
  BY DEF ThreadCrashes
<1>2. s \in Surface
  BY <1>1 DEF IInv, TypeOK, ShellSurface
<1>3. mem[s] = "live"
  BY <1>1, ConsiderateParts
<1>4. i.fmt # NULL /\ x.x_window.xvi = i.fmt.xvi
  BY <1>1 DEF IInv, WindowVisual
<1>5. i.x_img # NULL /\ i.x_img.xvi = i.fmt.xvi
  BY <1>2, <1>4 DEF IInv, GoodImage, GoodServer
<1>6. /\ i.shm_buffer \in Buffer /\ i.shm_buffer \in buffers
      /\ i.x_img.width = BufferInfo[i.shm_buffer].width
      /\ i.x_img.height = BufferInfo[i.shm_buffer].height
      /\ viewport[s].x2 - viewport[s].x1 = BufferInfo[i.shm_buffer].width
      /\ viewport[s].y2 - viewport[s].y1 = BufferInfo[i.shm_buffer].height
  BY <1>2, <1>3, <1>4, ConsiderateParts DEF ShownWell
<1>7. BufferInfo[i.shm_buffer].width \in Nat /\ BufferInfo[i.shm_buffer].height \in Nat
  BY <1>6, SurfaceAssumption
<1>8. Covered(viewport[s], i.x_img)
  BY <1>6, <1>7 DEF Covered
<1> QED
  BY <1>1, <1>3, <1>4, <1>5, <1>6, <1>8 DEF PutFaults

LEMMA ConsiderateShell ==
  ASSUME GoodServer, IInv, ConsiderateInv, NEW sh \in Role, ShellStep(sh)
  PROVE  ConsiderateInv'
<1>1. shsurfaces \in [Role -> ShellSurface \cup {NULL}]
  BY DEF IInv, TypeOK
<1>2. UNCHANGED <<buffers, mem, state_buffer, viewport, img, crash>>
  BY ConsiderateThread DEF ShellStep, GetShellSurface, SetToplevel, SetTitle, surfaceVars
<1>3. \A h \in Role \ {sh} : shsurfaces'[h] = shsurfaces[h]
  BY <1>1, ConsiderateThread DEF ShellStep, GetShellSurface, SetToplevel, SetTitle
<1>4. shsurfaces'[sh] # NULL /\ shsurfaces'[sh].x_window # NULL
        => mem[shsurfaces'[sh].surface] = "live"
  <2>1. CASE \E s \in Surface : GetShellSurface(sh, s)
    <3>1. shsurfaces'[sh].x_window = NULL
      BY <1>1, <2>1 DEF GetShellSurface
    <3> QED
      BY <3>1
  <2>2. CASE SetToplevel(sh)
    <3>1. shsurfaces[sh] \in ShellSurface /\ shsurfaces[sh] # NULL
      BY <1>1, <2>2 DEF SetToplevel, ShellLive
    <3>2. /\ shsurfaces'[sh].x_window = shsurfaces[sh].x_window
          /\ shsurfaces'[sh].surface = shsurfaces[sh].surface
      BY <1>1, <2>2, <3>1 DEF SetToplevel, ShellSurface
    <3> QED
      BY <3>1, <3>2, ConsiderateParts
  <2>3. ASSUME NEW title \in Title, SetTitle(sh, title)
        PROVE  shsurfaces'[sh] # NULL /\ shsurfaces'[sh].x_window # NULL
                 => mem[shsurfaces'[sh].surface] = "live"
    <3>1. shsurfaces[sh] \in ShellSurface /\ shsurfaces[sh] # NULL
      BY <1>1, <2>3 DEF SetTitle, ShellLive
    <3>2. shsurfaces[sh].x_window # NULL
      BY <2>3, <3>1 DEF SetTitle, IInv, TypedIffWindow
    <3>3. shsurfaces'[sh].surface = shsurfaces[sh].surface
      BY <1>1, <2>3, <3>1 DEF SetTitle, ShellSurface
    <3> QED
      BY <3>1, <3>2, <3>3, ConsiderateParts
  <2> QED
    BY <2>1, <2>2, <2>3, ConsiderateThread DEF ShellStep
<1> QED
  BY <1>2, <1>3, <1>4 DEF ConsiderateInv

LEMMA ConsiderateEnds ==
  ASSUME IInv, ConsiderateInv, UNCHANGED shsurfaces,
         \/ \E b \in Buffer : MayDestroy(b) /\ BufferDestroy(b)
         \/ \E c \in Client : MayLeave(c) /\ Disconnect(c)
  PROVE  ConsiderateInv'
<1>1. /\ mem \in [Surface -> {"none", "live", "freed"}]
      /\ shsurfaces \in [Role -> ShellSurface \cup {NULL}]
  BY DEF IInv, TypeOK, SurfaceTypeOK
<1>2. UNCHANGED <<state_buffer, viewport, img, crash>>
  BY DEF BufferDestroy, Disconnect
<1>3. ASSUME NEW b \in Buffer, MayDestroy(b), BufferDestroy(b)  PROVE  ConsiderateInv'
  <2>1. buffers' = buffers \ {b} /\ UNCHANGED mem
    BY <1>3 DEF BufferDestroy
  <2>2. \A s \in Surface : ShownWell(s)'
    BY <1>2, <1>3, <2>1, ConsiderateParts DEF ShownWell, MayDestroy
  <2> QED
    BY <1>2, <2>1, <2>2 DEF ConsiderateInv, ShownWell
<1>4. ASSUME NEW c \in Client, MayLeave(c), Disconnect(c)  PROVE  ConsiderateInv'
  <2>1. /\ buffers' = {b \in buffers : Owner[b] # c}
        /\ \A s \in Surface :
             mem'[s] = IF Owner[s] = c /\ mem[s] = "live" THEN "freed" ELSE mem[s]
    BY <1>4 DEF Disconnect
  <2>2. \A s \in Surface : ShownWell(s)'
    BY <1>2, <2>1, ConsiderateParts DEF ShownWell
  <2>3. \A sh \in Role : shsurfaces[sh] # NULL /\ shsurfaces[sh].x_window # NULL =>
          mem'[shsurfaces[sh].surface] = "live"
    BY <1>1, <1>4, <2>1, ConsiderateParts DEF MayLeave, ShellSurface
  <2> QED
    BY <1>2, <2>2, <2>3 DEF ConsiderateInv, ShownWell
<1> QED
  BY <1>3, <1>4

(* Considerate clients keep both invariants. *)
LEMMA ConsiderateKeeps ==
  ASSUME GoodServer
  PROVE  ConsiderateSpec => [](IInv /\ ConsiderateInv)
<1>1. Init => IInv /\ ConsiderateInv
  <2> SUFFICES ASSUME Init  PROVE  ConsiderateInv
    BY InitIInv
  <2>1. \A s \in Surface : state_buffer[s].buffer = NULL /\ img[s].fmt = NULL
    BY DEF Init, SurfaceInit, InitialState, InitialImage
  <2> QED
    BY <2>1 DEF Init, SurfaceInit, ConsiderateInv
<1>2. ConsiderateNext => Next
  BY DEF ConsiderateNext, Next
<1>3. IInv /\ ConsiderateInv /\ [ConsiderateNext]_vars => (IInv /\ ConsiderateInv)'
  <2> SUFFICES ASSUME IInv, ConsiderateInv, [ConsiderateNext]_vars  PROVE  ConsiderateInv'
    BY <1>2, NextKeeps
  <2>1. CASE \E s \in Surface : SurfaceRequest(s) /\ UNCHANGED shsurfaces
    BY <2>1, ConsiderateRequest
  <2>2. CASE \E s \in Surface : MayCommit(s) /\ ShellCommit(s)
    BY <2>2, ConsiderateCommitted
  <2>3. CASE \E sh \in Role : ShellStep(sh)
    BY <2>3, ConsiderateShell
  <2>4. CASE \E b \in Buffer : MayDestroy(b) /\ BufferDestroy(b) /\ UNCHANGED shsurfaces
    BY <2>4, ConsiderateEnds
  <2>5. CASE \E c \in Client : MayLeave(c) /\ Disconnect(c) /\ UNCHANGED shsurfaces
    BY <2>5, ConsiderateEnds
  <2>6. CASE UNCHANGED vars
    BY <2>6 DEF vars, ConsiderateInv
  <2> QED
    BY <2>1, <2>2, <2>3, <2>4, <2>5, <2>6 DEF ConsiderateNext
<1> QED
  BY <1>1, <1>3, PTL DEF ConsiderateSpec

(* ConsiderateInv holds in every state considerate clients reach. *)
THEOREM ConsiderateInvariance ==
  ASSUME GoodServer
  PROVE  ConsiderateSpec => []ConsiderateInv
BY ConsiderateKeeps, PTL

(* However many clients there are, whatever they draw and in whatever order they
   send it: while all of them are considerate, no handler, no turn of a thread
   between two handlers and none beside one ends a good server. *)
THEOREM GoodServerSurvives ==
  ASSUME GoodServer
  PROVE  ConsiderateSpec => []ServerSurvives
<1>1. ConsiderateInv => ServerSurvives
  BY DEF ConsiderateInv, ServerSurvives
<1> QED
  BY <1>1, ConsiderateInvariance, PTL

(* A shell surface stays that of its surface. *)
LEMMA SurfaceKept ==
  ASSUME IInv, [Next]_vars, NEW sh \in Role, shsurfaces[sh] # NULL
  PROVE  shsurfaces'[sh].surface = shsurfaces[sh].surface
<1>1. /\ shsurfaces \in [Role -> ShellSurface \cup {NULL}]
      /\ shsurfaces[sh] \in ShellSurface
  BY DEF IInv, TypeOK
<1>2. ASSUME NEW s \in Surface, CommitRole(s), ~ UNCHANGED shsurfaces
      PROVE  shsurfaces'[sh].surface = shsurfaces[sh].surface
  <2>1. PICK w : shsurfaces' = [shsurfaces EXCEPT ![commit_cb[s]].type = "JUST_CREATED",
                                                  ![commit_cb[s]].x_window = w]
    BY <1>2 DEF CommitRole
  <2> QED
    BY <1>1, <2>1 DEF ShellSurface
<1>3. ASSUME NEW h \in Role, SetToplevel(h)
      PROVE  shsurfaces'[sh].surface = shsurfaces[sh].surface
  BY <1>1, <1>3 DEF SetToplevel, ShellSurface
<1>4. ASSUME NEW h \in Role, NEW title \in Title, SetTitle(h, title)
      PROVE  shsurfaces'[sh].surface = shsurfaces[sh].surface
  BY <1>1, <1>4 DEF SetTitle, ShellSurface
<1>5. ASSUME NEW h \in Role, NEW s \in Surface, GetShellSurface(h, s)
      PROVE  shsurfaces'[sh].surface = shsurfaces[sh].surface
  BY <1>1, <1>5 DEF GetShellSurface
<1>6. ASSUME Next, ~ UNCHANGED shsurfaces
      PROVE  \/ \E s \in Surface : CommitRole(s)
             \/ \E h \in Role : \/ SetToplevel(h)
                                \/ \E title \in Title : SetTitle(h, title)
                                \/ \E s \in Surface : GetShellSurface(h, s)
  BY <1>6 DEF Next, ShellCommit, ShellStep, CommitRoleCrashes, CommitRaces, ThreadCrashes
<1> QED
  BY <1>2, <1>3, <1>4, <1>5, <1>6 DEF vars

(* Nothing a thread reads is written or freed beside it by considerate clients,
   wherever in its turn it is. *)
THEOREM ThreadIsUndisturbed ==
  ASSUME GoodServer
  PROVE  ConsiderateSpec => ThreadUndisturbed
<1> DEFINE Same(s) == /\ mem'[s] = mem[s] /\ viewport'[s] = viewport[s]
                      /\ img'[s].x_img = img[s].x_img /\ img'[s].shm_buffer = img[s].shm_buffer
                      /\ img[s].shm_buffer \in buffers'
           Undisturbed == \A sh \in Role : shsurfaces[sh] # NULL =>
             LET s == shsurfaces[sh].surface IN
             shsurfaces[sh].x_window # NULL =>
               /\ shsurfaces'[sh].surface = s
               /\ mem'[s] = mem[s] /\ viewport'[s] = viewport[s]
               /\ img'[s].x_img = img[s].x_img /\ img'[s].shm_buffer = img[s].shm_buffer
               /\ img[s].shm_buffer \in buffers'
<1>1. ConsiderateNext => Next
  BY DEF ConsiderateNext, Next
<1>2. IInv /\ ConsiderateInv /\ [ConsiderateNext]_vars => [Undisturbed]_vars
  <2> SUFFICES ASSUME IInv, ConsiderateInv, [ConsiderateNext]_vars, NEW sh \in Role,
                      shsurfaces[sh] # NULL, shsurfaces[sh].x_window # NULL
               PROVE  /\ shsurfaces'[sh].surface = shsurfaces[sh].surface
                      /\ Same(shsurfaces[sh].surface)
    OBVIOUS
  <2>1. shsurfaces'[sh].surface = shsurfaces[sh].surface
    BY <1>1, SurfaceKept
  <2> DEFINE s == shsurfaces[sh].surface
  <2>2. /\ s \in Surface /\ mem[s] = "live" /\ HasWindow(s) /\ img[s].fmt # NULL
    BY ConsiderateParts DEF IInv, TypeOK, ShellSurface, WindowVisual, HasWindow
  <2>3. img[s].shm_buffer \in buffers /\ Owner[img[s].shm_buffer] = Owner[s]
    BY <2>2, ConsiderateParts DEF ShownWell
  <2>4. /\ img \in [Surface -> Image] /\ viewport \in [Surface -> Box]
        /\ mem \in [Surface -> {"none", "live", "freed"}]
    BY DEF IInv, TypeOK, SurfaceTypeOK
  <2> HIDE DEF s
  <2>5. ASSUME UNCHANGED <<mem, viewport, img, buffers>>  PROVE  Same(s)
    BY <2>3, <2>5
  <2>6. ASSUME NEW r \in Surface, SurfaceRequest(r)  PROVE  Same(s)
    <3>1. UNCHANGED <<viewport, img, buffers>> /\ (CreateSurface(r) \/ UNCHANGED mem)
      BY <2>6 DEF SurfaceRequest, CreateSurface, SetPending, Attach, Damage, DamageBuffer, Frame,
           SetOpaqueRegion, SetInputRegion, SetBufferTransform, SetBufferScale, Offset
    <3>2. mem'[s] = mem[s]
      BY <2>2, <2>4, <3>1 DEF CreateSurface
    <3> QED
      BY <2>3, <3>1, <3>2
  <2>7. ASSUME NEW r \in Surface, MayCommit(r), NEW b \in ResolvedBuffer(r),
               NEW shows \in BOOLEAN, Committed(r, b, shows), CommitFaults(r, b) = {}
        PROVE  Same(s)
    <3>1. UNCHANGED <<mem, buffers>>
      BY <2>7 DEF Committed
    <3>2. CASE r # s
      <4>1. viewport'[s] = viewport[s] /\ img'[s] = img[s]
        BY <2>2, <2>4, <2>7, <3>2 DEF Committed
      <4> QED
        BY <2>3, <3>1, <4>1
    <3>3. CASE r = s
      <4>1. ~Attached(s)
        BY <2>2, <2>7, <3>3 DEF MayCommit
      <4>2. CommittedImage(s, b) = img[s] /\ CommittedViewport(s, b) = viewport[s]
        BY <4>1 DEF CommittedImage, CommittedViewport
      <4>3. /\ viewport'[s] = viewport[s]
            /\ img'[s] = [img[s] EXCEPT !.use_last_x_img_xvi = @ \/ shows]
        BY <2>2, <2>4, <2>7, <3>3, <4>2 DEF Committed
      <4>4. img'[s].x_img = img[s].x_img /\ img'[s].shm_buffer = img[s].shm_buffer
        BY <2>2, <2>4, <4>3 DEF Image
      <4> QED
        BY <2>3, <3>1, <4>3, <4>4
    <3> QED
      BY <3>2, <3>3
  <2>8. ASSUME NEW r \in Surface, MayCommit(r), ShellCommit(r)  PROVE  Same(s)
    <3>1. CASE Commit(r)
      BY <2>7, <2>8, <3>1 DEF Commit
    <3>2. CASE CommitRole(r)
      <4>1. CreatesWindow(r) \in BOOLEAN
        BY DEF CreatesWindow
      <4> QED
        BY <2>7, <2>8, <3>2, <4>1 DEF CommitRole
    <3>3. CASE UNCHANGED <<mem, viewport, img, buffers>>
      BY <2>5, <3>3
    <3> QED
      BY <2>8, <3>1, <3>2, <3>3 DEF ShellCommit, CommitCrashes, CommitRoleCrashes, CommitRaces, Crash
  <2>9. ASSUME NEW b \in Buffer, MayDestroy(b), BufferDestroy(b)  PROVE  Same(s)
    BY <2>2, <2>3, <2>9 DEF MayDestroy, BufferDestroy
  <2>10. ASSUME NEW c \in Client, MayLeave(c), Disconnect(c)  PROVE  Same(s)
    <3>1. Owner[s] # c
      BY <2>10 DEF MayLeave, s
    <3> QED
      BY <2>2, <2>3, <2>4, <2>10, <3>1 DEF Disconnect
  <2>11. ASSUME NEW h \in Role, ShellStep(h)  PROVE  Same(s)
    BY <2>5, <2>11
       DEF ShellStep, GetShellSurface, SetToplevel, SetTitle, ThreadCrashes, Crash, surfaceVars
  <2>12. ASSUME UNCHANGED vars  PROVE  Same(s)
    BY <2>5, <2>12 DEF vars
  <2> QED
    BY <2>1, <2>6, <2>8, <2>9, <2>10, <2>11, <2>12 DEF ConsiderateNext, s
<1> QED
  BY <1>2, ConsiderateKeeps, PTL DEF ConsiderateSpec, ThreadUndisturbed

-----------------------------------------------------------------------------
(* Surfaces with a role are double buffered too: the callback that runs inside
   a commit, shell surfaces and threads change nothing of it. *)
LEMMA ShellKeepsBit == IInv /\ NoDamageBit /\ [Next]_vars => NoDamageBit'
<1> SUFFICES ASSUME IInv, NoDamageBit, [Next]_vars  PROVE  NoDamageBit'
  OBVIOUS
<1>0. SurfaceTypeOK
  BY DEF IInv, TypeOK
<1>1. CASE [SurfaceNext]_surfaceVars
  BY <1>0, <1>1, NoDamageBitStep
<1>2. ASSUME NEW s \in Surface, CommitRole(s)  PROVE  NoDamageBit'
  BY <1>0, <1>2, CommittedDamageBit DEF CommitRole
<1>3. CASE UNCHANGED state_buffer
  BY <1>3 DEF NoDamageBit
<1> QED
  BY <1>1, <1>2, <1>3 DEF Next, SurfaceNext, surfaceVars, vars, ShellCommit, CommitRoleCrashes,
     CommitRaces, Crash, ShellStep, GetShellSurface, SetToplevel, SetTitle, ThreadCrashes

LEMMA ShellMaps ==
  IInv /\ NoDamageBit /\ [Next]_vars => [DoubleBuffer!Next]_DoubleBuffer!vars
<1> SUFFICES ASSUME IInv, NoDamageBit, [Next]_vars
             PROVE  DoubleBuffer!Next \/ UNCHANGED DoubleBuffer!vars
  OBVIOUS
<1>0. SurfaceTypeOK
  BY DEF IInv, TypeOK
<1>1. CASE [SurfaceNext]_surfaceVars
  BY <1>0, <1>1, SurfaceMaps
<1>2. ASSUME NEW s \in Surface, CommitRole(s)  PROVE  DoubleBuffer!Next
  <2>1. CreatesWindow(s) \in BOOLEAN
    BY DEF CreatesWindow
  <2> QED
    BY <1>0, <1>2, <2>1, CommitMaps DEF CommitRole, DoubleBuffer!Next
<1>3. CASE UNCHANGED <<state_buffer, state, img, buffers>>
  BY <1>3 DEF DoubleBuffer!vars, Attached
<1> QED
  BY <1>1, <1>2, <1>3 DEF Next, SurfaceNext, surfaceVars, vars, ShellCommit, CommitRoleCrashes,
     CommitRaces, Crash, ShellStep, GetShellSurface, SetToplevel, SetTitle, ThreadCrashes

(* The whole server implements WolfenDoubleBuffer. *)
THEOREM ShellImplementsDoubleBuffer == Spec => DoubleBuffered
<1>1. Init => DoubleBuffer!Init /\ NoDamageBit
  BY SurfaceMapsInit, NoDamageBitInit DEF Init
<1> QED
  BY <1>1, ShellKeepsBit, ShellMaps, Invariance, PTL DEF Spec, DoubleBuffered, DoubleBuffer!Spec

=============================================================================
