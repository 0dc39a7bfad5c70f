--------------------------- MODULE WolfenSurface ---------------------------
(***************************************************************************)
(* wl_surface as wolfen-surface.c implements it: the requests a client     *)
(* makes fill state_buffer, wl_surface.commit copies it to state, imports  *)
(* an attached wl_shm buffer into an XImage and calls the role's callback. *)
(*                                                                         *)
(* The event loop runs one handler to its end before the next, so every    *)
(* handler is one action.  A struct WolfenSurface is split into one        *)
(* variable per group of its fields, each a function of the surface; a     *)
(* field nobody has written since the malloc is NULL.                      *)
(*                                                                         *)
(* `crash' is how the server process ended: a NULL dereference, glibc's    *)
(* abort on a bad free, babl's abort, or Xlib's exit on a protocol error.  *)
(* Reading freed memory may crash or go on with what is found there.       *)
(***************************************************************************)
EXTENDS WolfenPixFmt

CONSTANTS
  Client, Surface, Buffer, Role,  \* Role: what commit_cb_data can point to
  Owner,        \* the client that creates each surface and each buffer
  BufferInfo,   \* what wl_shm answers about each buffer: format, width, height
                \* (its stride is that of the width here, any in WolfenImage)
  XDisplay,     \* the X server's visuals, its screen in use and that one's default
  XHasShm,      \* built with Xext, and x_has_shm
  RoleCrash,    \* the further crashes a role's callback can cause
  XHasRender,   \* x_has_render: FALSE with XRender, never assigned without
  Position, Scale, Transform, Rect, Region, Callback  \* request arguments

ASSUME SurfaceAssumption ==
  /\ Owner \in [Surface \cup Buffer -> Client]
  /\ BufferInfo \in [Buffer -> [format : ShmFormat, width : Nat \ {0}, height : Nat \ {0}]]
  /\ IsDisplay(XDisplay)
  /\ XHasShm \in BOOLEAN /\ XHasRender \in BOOLEAN
  /\ Position \subseteq [x : Int, y : Int]
  /\ Scale \subseteq Int /\ Transform \subseteq Int
  /\ Rect \subseteq [x : Int, y : Int, width : Int, height : Int]

VARIABLES
  connected,      \* the clients whose connection is open
  buffers,        \* the wl_buffer resources that exist
  mem,            \* the allocation of each WolfenSurface
  state_buffer, state, actual_damage, viewport,
  img,            \* contents.img
  commit_cb,      \* commit_cb and commit_cb_data, which are set together
  crash

surfaceVars ==
  <<connected, buffers, mem, state_buffer, state, actual_damage, viewport, img, commit_cb, crash>>

-----------------------------------------------------------------------------
PropChanged == {"BUFFER_SCALE", "BUFFER_TF", "FRAME_CB", "BUFFER", "BUFFER_X_Y",
                "DAMAGE", "DAMAGE_BUFFER"}

IntRect == [x : Int, y : Int, width : Int, height : Int]

SurfaceState ==
  [prop_changed : SUBSET PropChanged, buffer_scale : Int, buffer_tf : Int,
   frame_cb : Callback \cup {NULL}, buffer : Buffer \cup {NULL},
   buffer_x : Int, buffer_y : Int, damage : IntRect, damage_buffer : IntRect,
   opaque_region : Region \cup {NULL}, input_region : Region \cup {NULL}]

EmptyBox == [x1 |-> 0, y1 |-> 0, x2 |-> 0, y2 |-> 0]

Box == {EmptyBox} \cup {box \in [x1 : Int, y1 : Int, x2 : Int, y2 : Int] :
                          box.x1 < box.x2 /\ box.y1 < box.y2}

(* pixman_region32_init_rect: a rectangle without area is the empty region. *)
InitRect(x, y, w, h) ==
  IF w > 0 /\ h > 0 THEN [x1 |-> x, y1 |-> y, x2 |-> x + w, y2 |-> y + h] ELSE EmptyBox

(* `data' is the memory an XImage points into: an X shared memory segment, the
   surface's conversion buffer, or the client's own pool. *)
XImage == [buffer : Buffer, width : Nat, height : Nat, xvi : Visual,
           data : {"segment", "conversion", "client"}]

Image ==
  [fmt : PixelFmt \cup {NULL}, last_x_img_xvi : Visual \cup {NULL},
   last_x_img_xvi_mask : SUBSET VisualField, last_wl_fmt : ShmFormat \cup {NULL},
   last_wl_fmt_set : BOOLEAN, use_last_x_img_xvi : BOOLEAN,
   shm_buffer : Buffer \cup {NULL}, x_img : XImage \cup {NULL},
   p_img : Buffer \cup {NULL}, conversion_buffer : {"null", "live", "dangling"}]

(* The null pointer is none of the things a pointer can point to. *)
ASSUME NullAssumption ==
  /\ NULL \notin Buffer /\ NULL \notin Role /\ NULL \notin ShmFormat
  /\ NULL \notin Visual /\ NULL \notin PixelFmt /\ NULL \notin XImage

(* wlonx_compositor_create_surface. *)
InitialState ==
  LET none == [x |-> 0, y |-> 0, width |-> 0, height |-> 0] IN
  [prop_changed |-> {}, buffer_scale |-> 1, buffer_tf |-> 0, frame_cb |-> NULL,
   buffer |-> NULL, buffer_x |-> 0, buffer_y |-> 0, damage |-> none,
   damage_buffer |-> none, opaque_region |-> NULL, input_region |-> NULL]

InitialImage ==
  [fmt |-> NULL, last_x_img_xvi |-> NULL, last_x_img_xvi_mask |-> {},
   last_wl_fmt |-> NULL, last_wl_fmt_set |-> FALSE, use_last_x_img_xvi |-> FALSE,
   shm_buffer |-> NULL, x_img |-> NULL, p_img |-> NULL, conversion_buffer |-> "null"]

(* Clients have connected and made their buffers; no surface exists yet. *)
SurfaceInit ==
  /\ connected = Client
  /\ buffers = Buffer
  /\ mem = [s \in Surface |-> "none"]
  /\ state_buffer = [s \in Surface |-> InitialState]
  /\ state = [s \in Surface |-> InitialState]
  /\ actual_damage = [s \in Surface |-> {}]
  /\ viewport = [s \in Surface |-> EmptyBox]
  /\ img = [s \in Surface |-> InitialImage]
  /\ commit_cb = [s \in Surface |-> NULL]
  /\ crash = "none"

Running == crash = "none"

(* The client can send a request to the surface. *)
Live(s) == Running /\ mem[s] = "live" /\ Owner[s] \in connected

CreateSurface(s) ==
  /\ Running /\ Owner[s] \in connected
  /\ mem[s] = "none"
  /\ mem' = [mem EXCEPT ![s] = "live"]
  /\ UNCHANGED <<connected, buffers, state_buffer, state, actual_damage, viewport, img,
                 commit_cb, crash>>

-----------------------------------------------------------------------------
(* The requests that only write state_buffer. *)
SetPending(s, new) ==
  /\ Live(s)
  /\ state_buffer' = [state_buffer EXCEPT ![s] = new]
  /\ UNCHANGED <<connected, buffers, mem, state, actual_damage, viewport, img, commit_cb, crash>>

Attach(s, b, p) ==
  /\ b \in {NULL} \cup {d \in buffers : Owner[d] = Owner[s]}
  /\ SetPending(s, [state_buffer[s] EXCEPT
       !.prop_changed = @ \cup {"BUFFER", "BUFFER_X_Y"},
       !.buffer = b, !.buffer_x = p.x, !.buffer_y = p.y])

Damage(s, r) ==
  SetPending(s, [state_buffer[s] EXCEPT !.prop_changed = @ \cup {"DAMAGE"}, !.damage = r])

(* Mutant: wl_surface.damage_buffer sets the bit named after it. *)
MutDamageBuffer(s, r) ==
  SetPending(s, [state_buffer[s] EXCEPT !.prop_changed = @ \cup {"DAMAGE_BUFFER"}, !.damage_buffer = r])

DamageBuffer(s, r) ==
  SetPending(s, [state_buffer[s] EXCEPT !.prop_changed = @ \cup {"DAMAGE"}, !.damage_buffer = r])

Frame(s, cb) ==
  SetPending(s, [state_buffer[s] EXCEPT !.prop_changed = @ \cup {"FRAME_CB"}, !.frame_cb = cb])

(* Mutant: the region takes effect at once. *)
MutSetOpaqueRegion(s, r) ==
  /\ Live(s)
  /\ state_buffer' = [state_buffer EXCEPT ![s].opaque_region = r]
  /\ state' = [state EXCEPT ![s].opaque_region = r]
  /\ UNCHANGED <<connected, buffers, mem, actual_damage, viewport, img, commit_cb, crash>>

SetOpaqueRegion(s, r) == SetPending(s, [state_buffer[s] EXCEPT !.opaque_region = r])

SetInputRegion(s, r) == SetPending(s, [state_buffer[s] EXCEPT !.input_region = r])

SetBufferTransform(s, tf) ==
  SetPending(s, [state_buffer[s] EXCEPT !.prop_changed = @ \cup {"BUFFER_TF"}, !.buffer_tf = tf])

SetBufferScale(s, scale) ==
  SetPending(s, [state_buffer[s] EXCEPT
    !.prop_changed = @ \cup {"BUFFER_SCALE"}, !.buffer_scale = scale])

Offset(s, p) ==
  SetPending(s, [state_buffer[s] EXCEPT
    !.prop_changed = @ \cup {"BUFFER_X_Y"}, !.buffer_x = p.x, !.buffer_y = p.y])

-----------------------------------------------------------------------------
(* wl_surface.commit: what it leaves in each field. *)
Rotated(tf) == tf \in {1, 3, 5, 7}  \* WL_OUTPUT_TRANSFORM_90, _270 and both flipped

(* state = state_buffer, then the scaling of damage_buffer, which reads the
   fields it has just written. *)
CommittedState(s) ==
  LET p == state_buffer[s]
      d == p.damage_buffer
      k == p.buffer_scale
      scaled == IF Rotated(p.buffer_tf)
                THEN [x |-> d.x * k * k, y |-> d.x * k,
                      width |-> d.width * k * k, height |-> d.width * k]
                ELSE [x |-> d.x * k, y |-> d.y * k, width |-> d.width * k, height |-> d.height * k]
  IN IF "DAMAGE_BUFFER" \in p.prop_changed THEN [p EXCEPT !.damage_buffer = scaled] ELSE p

(* actual_damage, as the set of the boxes it is the union of: both damages as
   they were requested, moved by the scaled offset of the buffer. *)
CommittedDamage(s) ==
  LET p == state_buffer[s]
      xs == p.buffer_x * p.buffer_scale
      ys == p.buffer_y * p.buffer_scale
      dx == IF Rotated(p.buffer_tf) THEN xs ELSE ys
      dy == IF Rotated(p.buffer_tf) THEN ys ELSE xs
  IN {InitRect(r.x + dx, r.y + dy, r.width, r.height) :
        r \in {d \in {p.damage, p.damage_buffer} : d.width > 0 /\ d.height > 0}}

Attached(s) == "BUFFER" \in state_buffer[s].prop_changed

(* Mutant: an offset moves the buffer on show as well. *)
MutCommittedViewportMoves(s, b) ==
  LET p == state_buffer[s] IN
  IF Attached(s)
  THEN InitRect(p.buffer_x * p.buffer_scale, p.buffer_y * p.buffer_scale,
                BufferInfo[b].width * p.buffer_scale, BufferInfo[b].height * p.buffer_scale)
  ELSE IF "BUFFER_X_Y" \in p.prop_changed
  THEN InitRect(p.buffer_x, p.buffer_y, viewport[s].x2 - viewport[s].x1,
                viewport[s].y2 - viewport[s].y1)
  ELSE viewport[s]

(* Mutant: the extents are computed without asking for the region. *)
MutCommittedViewport(s, b) ==
  LET p == state_buffer[s]
      xs == p.buffer_x * p.buffer_scale
      ys == p.buffer_y * p.buffer_scale
  IN IF Attached(s)
     THEN [x1 |-> xs, y1 |-> ys, x2 |-> xs + BufferInfo[b].width * p.buffer_scale,
           y2 |-> ys + BufferInfo[b].height * p.buffer_scale]
     ELSE viewport[s]

CommittedViewport(s, b) ==
  LET p == state_buffer[s] IN
  IF Attached(s)
  THEN InitRect(p.buffer_x * p.buffer_scale, p.buffer_y * p.buffer_scale,
                BufferInfo[b].width * p.buffer_scale, BufferInfo[b].height * p.buffer_scale)
  ELSE viewport[s]

NeedsTransform(st) == st.buffer_scale > 1 \/ st.buffer_tf # 0

(* The FORMAT part: it compares fmt with the format of the last commit, not
   with the one of the buffer at hand. *)
NextFmt(s, b) ==
  LET i == img[s]
      new == i.fmt = NULL \/ i.fmt.wl_fmt # i.last_wl_fmt
  IN IF i.use_last_x_img_xvi
     THEN IF new THEN FmtFromXvi(i.last_x_img_xvi, i.last_x_img_xvi_mask, BufferInfo[b].format)
                 ELSE i.fmt
     ELSE IF new \/ ~i.last_wl_fmt_set THEN FmtFromWl(XDisplay, BufferInfo[b].format) ELSE i.fmt

(* Where the pixels the new XImage shows are. *)
ImageData(fmt) ==
  IF XHasShm THEN "segment" ELSE IF fmt.fish THEN "conversion" ELSE "client"

(* Mutant: last_wl_fmt is the format of the buffer, not that of fmt. *)
MutImportedFormat(s, b) ==
  LET fmt == NextFmt(s, b) IN
  [img[s] EXCEPT
     !.shm_buffer = b, !.fmt = fmt,
     !.last_wl_fmt_set = TRUE, !.last_wl_fmt = BufferInfo[b].format,
     !.conversion_buffer = IF fmt.fish THEN "live" ELSE @,
     !.x_img = [buffer |-> b, width |-> BufferInfo[b].width,
                height |-> BufferInfo[b].height, xvi |-> fmt.xvi, data |-> ImageData(fmt)],
     !.last_x_img_xvi = fmt.xvi, !.last_x_img_xvi_mask = fmt.xvi_mask]

(* Mutant: the visual of the image is not remembered. *)
MutImportedVisual(s, b) ==
  LET fmt == NextFmt(s, b) IN
  [img[s] EXCEPT
     !.shm_buffer = b, !.fmt = fmt,
     !.last_wl_fmt_set = TRUE, !.last_wl_fmt = fmt.wl_fmt,
     !.conversion_buffer = IF fmt.fish THEN "live" ELSE @,
     !.x_img = [buffer |-> b, width |-> BufferInfo[b].width,
                height |-> BufferInfo[b].height, xvi |-> fmt.xvi, data |-> ImageData(fmt)]]

(* Mutant: a buffer already imported is not converted again, although its
   image and its conversion buffer have just been freed. *)
MutImportedOnce(s, b) ==
  LET fmt == NextFmt(s, b) IN
  IF img[s].shm_buffer = b
  THEN [img[s] EXCEPT !.x_img = NULL, !.conversion_buffer = IF @ = "null" THEN @ ELSE "dangling"]
  ELSE [img[s] EXCEPT
     !.shm_buffer = b, !.fmt = fmt,
     !.last_wl_fmt_set = TRUE, !.last_wl_fmt = fmt.wl_fmt,
     !.conversion_buffer = IF fmt.fish THEN "live" ELSE @,
     !.x_img = [buffer |-> b, width |-> BufferInfo[b].width,
                height |-> BufferInfo[b].height, xvi |-> fmt.xvi, data |-> ImageData(fmt)],
     !.last_x_img_xvi = fmt.xvi, !.last_x_img_xvi_mask = fmt.xvi_mask]

(* The BUFFER part: the old image and conversion buffer go, the format is
   chosen, the image is made; last_wl_fmt is what "buffer 2" leaves. *)
ImportedImage(s, b) ==
  LET i == img[s]
      fmt == NextFmt(s, b)
      freed == IF i.conversion_buffer = "null" THEN "null" ELSE "dangling"
      common == [i EXCEPT !.shm_buffer = b, !.fmt = fmt,
                          !.last_wl_fmt_set = TRUE, !.last_wl_fmt = fmt.wl_fmt]
  IN IF XHasRender
     THEN [common EXCEPT !.conversion_buffer = freed]
     ELSE [common EXCEPT
            !.p_img = IF NeedsTransform(state_buffer[s]) THEN b ELSE i.p_img,
            !.conversion_buffer = IF fmt.fish THEN "live" ELSE freed,
            !.x_img = [buffer |-> b, width |-> BufferInfo[b].width,
                       height |-> BufferInfo[b].height, xvi |-> fmt.xvi,
                       data |-> ImageData(fmt)],
            !.last_x_img_xvi = fmt.xvi,
            !.last_x_img_xvi_mask = fmt.xvi_mask]

CommittedImage(s, b) == IF Attached(s) THEN ImportedImage(s, b) ELSE img[s]

(* What ends the server inside an import: XDestroyImage frees the old image's
   data unless it is a segment, then the conversion buffer is freed. *)
ImportFaults(s, b) ==
  LET i == img[s]
      fmt == NextFmt(s, b)
  IN {why \in {"image_data_free", "double_free", "uninit_visual", "no_babl_format"} :
        \/ why = "image_data_free" /\ i.x_img # NULL /\ i.x_img.data = "client"
        \/ why = "double_free" /\ i.conversion_buffer = "dangling"
        \/ why = "double_free" /\ i.x_img # NULL /\ i.x_img.data = "conversion"
        \/ why = "uninit_visual" /\ fmt.xvi = NULL
        \/ /\ why = "no_babl_format" /\ fmt # i.fmt
           /\ fmt.fish /\ fmt.xvi # NULL /\ ~HasBabl(fmt.xvi)}

CommitFaults(s, b) ==
  IF ~Attached(s) THEN {} ELSE IF b = NULL THEN {"null_buffer"} ELSE ImportFaults(s, b)

(* The buffer wl_shm_buffer_get finds: the memory of a destroyed wl_resource
   may hold it still, or hold any other buffer. *)
ResolvedBuffer(s) ==
  LET b == state_buffer[s].buffer IN
  IF b \in buffers \cup {NULL} \/ ~Attached(s) THEN {b} ELSE Buffer

MayBeStale(s) == Attached(s) /\ state_buffer[s].buffer \notin buffers \cup {NULL}

(* A commit that runs to its end; `shows' when its callback makes a window. *)
Committed(s, b, shows) ==
  /\ state' = [state EXCEPT ![s] = CommittedState(s)]
  /\ state_buffer' = [state_buffer EXCEPT ![s].prop_changed = {}]
  /\ actual_damage' = [actual_damage EXCEPT ![s] = CommittedDamage(s)]
  /\ viewport' = [viewport EXCEPT ![s] = CommittedViewport(s, b)]
  /\ img' = [img EXCEPT ![s] = [CommittedImage(s, b) EXCEPT !.use_last_x_img_xvi = @ \/ shows]]
  /\ UNCHANGED <<connected, buffers, mem, commit_cb, crash>>

Crash(why) ==
  /\ crash' = why
  /\ UNCHANGED <<connected, buffers, mem, state_buffer, state, actual_damage, viewport, img,
                 commit_cb>>

(* wl_surface.commit of a surface without a role. *)
Commit(s) ==
  /\ Live(s) /\ commit_cb[s] = NULL
  /\ \E b \in ResolvedBuffer(s) : CommitFaults(s, b) = {} /\ Committed(s, b, FALSE)

CommitCrashes(s) ==
  /\ Live(s) /\ commit_cb[s] = NULL
  /\ \/ \E b \in ResolvedBuffer(s) : \E why \in CommitFaults(s, b) : Crash(why)
     \/ MayBeStale(s) /\ Crash("stale_buffer")

-----------------------------------------------------------------------------
(* wl_surface.destroy: wolfen_surface_delete, then wl_resource_destroy calls
   it again on the freed surface, whose link is already NULL. *)
Destroy(s) == Live(s) /\ Crash("double_delete")

(* wl_buffer.destroy, in libwayland. *)
BufferDestroy(b) ==
  /\ Running /\ Owner[b] \in connected
  /\ b \in buffers
  /\ buffers' = buffers \ {b}
  /\ UNCHANGED <<connected, mem, state_buffer, state, actual_damage, viewport, img, commit_cb,
                 crash>>

(* A client exits: libwayland destroys its resources, and the destructor of
   each surface, wolfen_surface_delete, runs once. *)
Disconnect(c) ==
  LET mine == {s \in Surface : Owner[s] = c /\ mem[s] = "live"} IN
  /\ Running /\ c \in connected
  /\ connected' = connected \ {c}
  /\ buffers' = {b \in buffers : Owner[b] # c}
  /\ mem' = [s \in Surface |-> IF s \in mine THEN "freed" ELSE mem[s]]
  /\ UNCHANGED <<state_buffer, state, actual_damage, viewport, img, commit_cb, crash>>

SurfaceRequest(s) ==
  \/ CreateSurface(s)
  \/ \E b \in Buffer \cup {NULL}, p \in Position : Attach(s, b, p)
  \/ \E r \in Rect : Damage(s, r)
  \/ \E r \in Rect : DamageBuffer(s, r)
  \/ \E cb \in Callback : Frame(s, cb)
  \/ \E r \in Region \cup {NULL} : SetOpaqueRegion(s, r)
  \/ \E r \in Region \cup {NULL} : SetInputRegion(s, r)
  \/ \E tf \in Transform : SetBufferTransform(s, tf)
  \/ \E scale \in Scale : SetBufferScale(s, scale)
  \/ \E p \in Position : Offset(s, p)

SurfaceNext ==
  \/ \E s \in Surface : SurfaceRequest(s) \/ Commit(s) \/ CommitCrashes(s) \/ Destroy(s)
  \/ \E b \in Buffer : BufferDestroy(b)
  \/ \E c \in Client : Disconnect(c)

SurfaceSpec == SurfaceInit /\ [][SurfaceNext]_surfaceVars

-----------------------------------------------------------------------------
(* The type invariant: every field of every surface holds what its C type and
   the handlers that write it allow, NULL while it is unwritten. *)
SurfaceTypeOK ==
  /\ connected \subseteq Client
  /\ buffers \subseteq Buffer
  /\ mem \in [Surface -> {"none", "live", "freed"}]
  /\ state_buffer \in [Surface -> SurfaceState]
  /\ state \in [Surface -> SurfaceState]
  /\ actual_damage \in [Surface -> SUBSET Box]
  /\ viewport \in [Surface -> Box]
  /\ img \in [Surface -> Image]
  /\ commit_cb \in [Surface -> Role \cup {NULL}]
  /\ crash \in {"none", "null_buffer", "stale_buffer", "image_data_free", "double_free",
                "uninit_visual", "no_babl_format", "double_delete"} \cup RoleCrash

(* The format of a surface is chosen once: whenever no commit is running, fmt
   exists exactly if last_wl_fmt was recorded, and is of that wl format.  So
   the branches of wolfen_surface_commit that free fmt (lines 246 and 252)
   never run on a live one, and fmt_used of a shell surface never dangles. *)
FormatRemembered ==
  \A s \in Surface :
    /\ img[s].fmt # NULL <=> img[s].last_wl_fmt_set
    /\ img[s].fmt # NULL => img[s].last_wl_fmt = img[s].fmt.wl_fmt

(* The visual of an image that was never written is never read: a format has
   one of the server's visuals (of whichever core screen the search found it),
   and last_x_img_xvi is the visual of the image on show. *)
VisualKnown ==
  \A s \in Surface :
    /\ img[s].fmt # NULL => img[s].fmt.xvi \in XDisplay.visuals
    /\ img[s].x_img # NULL => /\ img[s].fmt # NULL
                              /\ img[s].x_img.xvi = img[s].fmt.xvi
                              /\ img[s].last_x_img_xvi = img[s].fmt.xvi
                              /\ img[s].last_x_img_xvi_mask = img[s].fmt.xvi_mask

(* The conversion buffer a surface holds is allocated, never one it freed
   while re-importing: the destructor and the next commit free it once.  It
   exists exactly while the format has a fish and an image was made. *)
ConversionOwned ==
  \A s \in Surface :
    /\ img[s].conversion_buffer # "dangling"
    /\ img[s].conversion_buffer = "live" <=> img[s].x_img # NULL /\ img[s].fmt.fish

(* Requests gather in state_buffer, a commit makes them current in one step,
   and only a commit after an attach changes what a surface shows: the code
   implements WolfenDoubleBuffer, with prop_changed for its `attached'. *)
DoubleBuffer == INSTANCE WolfenDoubleBuffer WITH
  pending  <- [s \in Surface |-> [state_buffer[s] EXCEPT !.prop_changed = {}]],
  current  <- [s \in Surface |-> [state[s] EXCEPT !.prop_changed = {}]],
  attached <- [s \in Surface |-> Attached(s)],
  content  <- [s \in Surface |-> img[s].shm_buffer],
  valid    <- buffers

DoubleBuffered == DoubleBuffer!Spec

(* With shared memory images no free of a commit is wrong, however often the
   client commits (XDestroyImage leaves a segment's data alone). *)
NoBadFree == XHasShm => crash \notin {"image_data_free", "double_free"}

=============================================================================
