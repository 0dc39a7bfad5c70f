---------------------------- MODULE WolfenShell -----------------------------
(***************************************************************************)
(* wl_shell and wl_shell_surface of wolfen-shell.c, on top of the surfaces *)
(* of wolfen-surface.c: get_shell_surface installs the commit callback of  *)
(* a surface, the first commit that runs it makes the X window, and from   *)
(* then on a thread puts the surface's image on that window.               *)
(*                                                                         *)
(* A WolfenShellSurface is never freed and its resource has no destructor. *)
(* move, resize, pong, set_transient, set_fullscreen, set_popup,           *)
(* set_maximized and set_class are empty functions and have no action.     *)
(***************************************************************************)
EXTENDS WolfenSurface

CONSTANTS
  IsCompositing,  \* x_screen_default->is_compositing
  HasMotifAtom,   \* some program has interned _MOTIF_WM_HINTS
  Title

ASSUME ShellAssumption ==
  /\ IsCompositing \in BOOLEAN /\ HasMotifAtom \in BOOLEAN
  /\ RoleCrash = {"null_fmt", "bad_window_size", "bad_atom", "null_image", "mask_overread",
                   "freed_surface", "bad_value", "bad_match", "thread_race"}

VARIABLE shsurfaces  \* each WolfenShellSurface, NULL until it is allocated

vars == <<connected, buffers, mem, state_buffer, state, actual_damage, viewport, img, commit_cb,
          crash, shsurfaces>>

Window == [width : Nat \ {0}, height : Nat \ {0}, xvi : Visual, title : Title \cup {NULL}]

ShellSurface ==
  [type : {"NONE", "JUST_CREATED", "TOPLEVEL"}, surface : Surface, x_window : Window \cup {NULL}]

ASSUME ShellNullAssumption == NULL \notin Window /\ NULL \notin ShellSurface

Init == SurfaceInit /\ shsurfaces = [sh \in Role |-> NULL]

-----------------------------------------------------------------------------
(* The client of a shell surface's surface can send it requests. *)
ShellLive(sh) ==
  /\ Running
  /\ shsurfaces[sh] # NULL
  /\ Owner[shsurfaces[sh].surface] \in connected

(* Mutant: the image's visual is to be kept from the start, not from the
   creation of the window on. *)
MutGetShellSurface(sh, s) ==
  /\ Live(s)
  /\ shsurfaces[sh] = NULL
  /\ shsurfaces' = [shsurfaces EXCEPT ![sh] =
       [type |-> "NONE", surface |-> s, x_window |-> NULL]]
  /\ commit_cb' = [commit_cb EXCEPT ![s] = sh]
  /\ img' = [img EXCEPT ![s].use_last_x_img_xvi = TRUE]
  /\ UNCHANGED <<connected, buffers, mem, state_buffer, state, actual_damage, viewport, crash>>

(* wl_shell.get_shell_surface: a second one takes the surface over. *)
GetShellSurface(sh, s) ==
  /\ Live(s)
  /\ shsurfaces[sh] = NULL
  /\ shsurfaces' = [shsurfaces EXCEPT ![sh] =
       [type |-> "NONE", surface |-> s, x_window |-> NULL]]
  /\ commit_cb' = [commit_cb EXCEPT ![s] = sh]
  /\ UNCHANGED <<connected, buffers, mem, state_buffer, state, actual_damage, viewport, img,
                 crash>>

(* The window create_x11 makes. *)
NewWindow(fmt, extents) ==
  [width |-> extents.x2 - extents.x1, height |-> extents.y2 - extents.y1,
   xvi |-> fmt.xvi, title |-> NULL]

(* Mutant: set_toplevel does not ask whether there is a window. *)
MutSetToplevel(sh) ==
  /\ ShellLive(sh)
  /\ shsurfaces' = [shsurfaces EXCEPT ![sh].type = "TOPLEVEL"]
  /\ UNCHANGED surfaceVars

(* Mutant: set_toplevel makes the window itself once there is an image. *)
MutSetToplevelMaps(sh) ==
  LET s == shsurfaces[sh].surface IN
  /\ ShellLive(sh)
  /\ shsurfaces' = [shsurfaces EXCEPT
       ![sh].type = IF img[s].fmt # NULL THEN "TOPLEVEL" ELSE @,
       ![sh].x_window = IF img[s].fmt # NULL THEN NewWindow(img[s].fmt, viewport[s]) ELSE @]
  /\ UNCHANGED surfaceVars

SetToplevel(sh) ==
  /\ ShellLive(sh)
  /\ shsurfaces' = [shsurfaces EXCEPT
       ![sh].type = IF @ # "NONE" THEN "TOPLEVEL" ELSE @]
  /\ UNCHANGED surfaceVars

SetTitle(sh, title) ==
  /\ ShellLive(sh)
  /\ shsurfaces[sh].type # "NONE"
  /\ shsurfaces' = [shsurfaces EXCEPT ![sh].x_window.title = title]
  /\ UNCHANGED surfaceVars

-----------------------------------------------------------------------------
(* Mutant: the window is only there once the surface is a toplevel. *)
MutCreatesWindow(s) == shsurfaces[commit_cb[s]].type # "TOPLEVEL"

(* wolfen_wlshell_surface_create_x11, from the commit callback. *)
CreatesWindow(s) == shsurfaces[commit_cb[s]].type = "NONE"

(* wolfen_surface_mask_generate reads the alpha of the new image. *)
MakesMask == XHasShm /\ ~IsCompositing

(* The creation ends the server on a surface without a format, an empty
   viewport (BadValue), a visual of another core screen than the window's
   (BadMatch), an atom nobody interned (BadAtom), and a mask of a surface
   without an image. *)
WindowFaults(i, extents) ==
  {why \in {"null_fmt", "bad_window_size", "bad_match", "bad_atom", "null_image"} :
     \/ why = "null_fmt" /\ i.fmt = NULL
     \/ why = "bad_match" /\ i.fmt # NULL /\ i.fmt.xvi.screen # XDisplay.screen
     \/ why = "bad_window_size" /\ extents = EmptyBox
     \/ why = "bad_atom" /\ ~HasMotifAtom
     \/ why = "null_image" /\ MakesMask /\ i.x_img = NULL}

RoleFaults(s, b) ==
  IF CreatesWindow(s) THEN WindowFaults(CommittedImage(s, b), CommittedViewport(s, b)) ELSE {}

(* The images whose mask is made inside its memory: no wider than high and of
   whole bytes per row (RegularShape of WolfenImage). *)
RegularMask(width, height) == width <= height /\ width % 8 = 0

(* The mask of another image is read or written past its end; the mask also
   opens a buffer that may be gone by now. *)
MaskMayCrash(s, b) ==
  /\ CreatesWindow(s) /\ MakesMask
  /\ LET i == CommittedImage(s, b) IN
       ~RegularMask(i.x_img.width, i.x_img.height) \/ i.shm_buffer \notin buffers

(* wl_surface.commit of a surface with a role. *)
CommitRole(s) ==
  LET sh == commit_cb[s] IN
  /\ Live(s) /\ sh # NULL
  /\ \E b \in ResolvedBuffer(s) :
       /\ CommitFaults(s, b) = {} /\ RoleFaults(s, b) = {}
       /\ Committed(s, b, CreatesWindow(s))
       /\ IF CreatesWindow(s)
          THEN shsurfaces' = [shsurfaces EXCEPT
                 ![sh].type = "JUST_CREATED",
                 ![sh].x_window = NewWindow(CommittedImage(s, b).fmt, CommittedViewport(s, b))]
          ELSE UNCHANGED shsurfaces

CommitRoleCrashes(s) ==
  /\ Live(s) /\ commit_cb[s] # NULL
  /\ \/ MayBeStale(s) /\ Crash("stale_buffer")
     \/ \E b \in ResolvedBuffer(s) :
          IF CommitFaults(s, b) # {} THEN \E why \in CommitFaults(s, b) : Crash(why)
          ELSE IF RoleFaults(s, b) # {} THEN \E why \in RoleFaults(s, b) : Crash(why)
          ELSE MaskMayCrash(s, b) /\ Crash("mask_overread")
  /\ UNCHANGED shsurfaces

-----------------------------------------------------------------------------
(* The thread of a window, thread_func, opens the surface's buffer and puts
   the surface's image on the window, for ever and without a lock.  A turn that
   succeeds changes nothing the handlers can see, so only its ends of the
   server are actions: of a turn between two handlers here, of one that meets
   an import in CommitRaces. *)

(* The image is put from its corner on, as much of it as the viewport is large;
   where on the window it lands is no error. *)
Covered(v, x_img) == v.x2 - v.x1 <= x_img.width /\ v.y2 - v.y1 <= x_img.height

PutFaults(x) ==
  LET i == img[x.surface] IN
  {why \in {"freed_surface", "stale_buffer", "null_image", "bad_value", "bad_match"} :
     \/ why = "freed_surface" /\ mem[x.surface] = "freed"
     \/ why = "stale_buffer" /\ i.shm_buffer \notin buffers
     \/ why = "null_image" /\ i.x_img = NULL
     \/ /\ why = "bad_value" /\ XHasShm
        /\ i.x_img # NULL /\ ~Covered(viewport[x.surface], i.x_img)
     \/ /\ why = "bad_match"
        /\ i.x_img # NULL /\ i.x_img.xvi.depth # x.x_window.xvi.depth}

ThreadCrashes(sh) ==
  /\ Running
  /\ shsurfaces[sh] # NULL /\ shsurfaces[sh].x_window # NULL
  /\ \E why \in PutFaults(shsurfaces[sh]) : Crash(why)
  /\ UNCHANGED shsurfaces

(* A commit that imports a buffer into a surface with a window may meet a turn
   of its thread: the image is freed, made and given its memory beside it.
   Module WolfenRender is what can happen then. *)
HasWindow(s) ==
  \E sh \in Role : /\ shsurfaces[sh] # NULL
                   /\ shsurfaces[sh].surface = s /\ shsurfaces[sh].x_window # NULL

CommitRaces(s) ==
  /\ Live(s) /\ Attached(s) /\ HasWindow(s)
  /\ Crash("thread_race")
  /\ UNCHANGED shsurfaces

ShellStep(sh) ==
  \/ \E s \in Surface : GetShellSurface(sh, s)
  \/ SetToplevel(sh)
  \/ \E title \in Title : SetTitle(sh, title)
  \/ ThreadCrashes(sh)

ShellCommit(s) ==
  \/ (Commit(s) \/ CommitCrashes(s)) /\ UNCHANGED shsurfaces
  \/ CommitRole(s)
  \/ CommitRoleCrashes(s)
  \/ CommitRaces(s)

Next ==
  \/ \E s \in Surface : \/ SurfaceRequest(s) /\ UNCHANGED shsurfaces
                        \/ ShellCommit(s)
                        \/ Destroy(s) /\ UNCHANGED shsurfaces
  \/ \E sh \in Role : ShellStep(sh)
  \/ \E b \in Buffer : BufferDestroy(b) /\ UNCHANGED shsurfaces
  \/ \E c \in Client : Disconnect(c) /\ UNCHANGED shsurfaces

Spec == Init /\ [][Next]_vars

-----------------------------------------------------------------------------
(* A considerate client never requests wl_surface.destroy.  It commits buffers
   that exist, unscaled, none to a surface that has a window already, and a
   surface with a role not before its first buffer; it destroys no buffer that
   a surface shows, and does not leave while it has a window. *)
MayCommit(s) ==
  LET p == state_buffer[s] IN
  /\ Attached(s) => p.buffer \in buffers /\ p.buffer_scale = 1 /\ ~HasWindow(s)
  /\ commit_cb[s] # NULL => Attached(s) \/ img[s].fmt # NULL

MayDestroy(b) == \A s \in Surface : mem[s] = "live" => img[s].shm_buffer # b

MayLeave(c) ==
  \A sh \in Role : shsurfaces[sh] # NULL =>
    Owner[shsurfaces[sh].surface] # c \/ shsurfaces[sh].x_window = NULL

ConsiderateNext ==
  \/ \E s \in Surface : \/ SurfaceRequest(s) /\ UNCHANGED shsurfaces
                        \/ MayCommit(s) /\ ShellCommit(s)
  \/ \E sh \in Role : ShellStep(sh)
  \/ \E b \in Buffer : MayDestroy(b) /\ BufferDestroy(b) /\ UNCHANGED shsurfaces
  \/ \E c \in Client : MayLeave(c) /\ Disconnect(c) /\ UNCHANGED shsurfaces

ConsiderateSpec == Init /\ [][ConsiderateNext]_vars

(* The server it needs: shared memory images, a window manager that knows the
   Motif hints, a TrueColor visual of 24 or 32 planes, a search that finds
   visuals of the screen in use (SearchStaysOnScreen says when), and a
   compositor unless every buffer has a regular mask. *)
GoodServer ==
  /\ XHasShm /\ ~XHasRender /\ HasMotifAtom
  /\ \E v \in XDisplay.visuals : v.class = "TrueColor" /\ v.depth \in {24, 32}
  /\ \A f \in ShmFormat : FmtFromWl(XDisplay, f).xvi.screen = XDisplay.screen
  /\ IsCompositing \/ \A b \in Buffer : RegularMask(BufferInfo[b].width, BufferInfo[b].height)

-----------------------------------------------------------------------------
(* The type invariant of surfaces and shell surfaces. *)
TypeOK ==
  /\ SurfaceTypeOK
  /\ shsurfaces \in [Role -> ShellSurface \cup {NULL}]

(* A shell surface has a type exactly while it has its window, so neither
   set_toplevel nor set_title ever uses the x_window of a surface without one,
   and create_x11 never skips a surface that needs one. *)
TypedIffWindow ==
  \A sh \in Role : shsurfaces[sh] # NULL =>
    ((shsurfaces[sh].type # "NONE") <=> (shsurfaces[sh].x_window # NULL))

(* A commit callback belongs to a shell surface of that very surface. *)
RoleOfSurface ==
  \A s \in Surface : commit_cb[s] # NULL =>
    shsurfaces[commit_cb[s]] # NULL /\ shsurfaces[commit_cb[s]].surface = s

(* The thread of a window puts surface->contents.img.x_img on it for ever:
   between two handlers that image exists and has the window's visual, whatever
   the client commits after the window was made (XPutImage would end the
   server on another depth); and that visual is of the screen the window is on,
   although the search may find one of another. *)
WindowHasImage ==
  \A sh \in Role : shsurfaces[sh] # NULL => LET x == shsurfaces[sh] IN
    x.x_window # NULL => /\ img[x.surface].x_img # NULL
                         /\ img[x.surface].x_img.xvi = x.x_window.xvi
                         /\ x.x_window.xvi.screen = XDisplay.screen

(* A window is made once: no later commit or request replaces it, changes its
   size or its visual, or turns a typed surface back into an untyped one. *)
WindowKept ==
  [][\A sh \in Role :
       shsurfaces[sh] # NULL /\ shsurfaces[sh].x_window # NULL =>
         /\ shsurfaces'[sh].type # "NONE"
         /\ shsurfaces'[sh].x_window =
              [shsurfaces[sh].x_window EXCEPT !.title = shsurfaces'[sh].x_window.title]]_vars

(* A shell surface whose surface was taken over by a second get_shell_surface
   never gets a window if it has none by then. *)
OrphanStaysBare ==
  [][\A sh \in Role :
       /\ shsurfaces[sh] # NULL /\ shsurfaces[sh].x_window = NULL
       /\ commit_cb[shsurfaces[sh].surface] # sh
       => shsurfaces'[sh].x_window = NULL]_vars

(* The inductive invariant of Spec.  Each image agrees with itself: its format
   came from the search (so it never changes afterwards, and an image once
   made is always made again), what a commit records of it is true, and its
   pixels are in memory the surface owns.  Each window has its surface's
   visual. *)
GoodImage(i) ==
  /\ i.fmt # NULL => /\ \E f \in ShmFormat : i.fmt = FmtFromWl(XDisplay, f)
                     /\ i.last_wl_fmt = i.fmt.wl_fmt
                     /\ ~XHasRender => i.x_img # NULL
  /\ i.fmt # NULL <=> i.last_wl_fmt_set
  /\ i.use_last_x_img_xvi => i.fmt # NULL
  /\ i.x_img # NULL => /\ i.fmt # NULL /\ ~XHasRender
                       /\ i.x_img.xvi = i.fmt.xvi
                       /\ i.last_x_img_xvi = i.fmt.xvi
                       /\ i.last_x_img_xvi_mask = i.fmt.xvi_mask
                       /\ XHasShm => i.x_img.data = "segment"
  /\ i.conversion_buffer # "dangling"
  /\ i.conversion_buffer = "live" <=> i.x_img # NULL /\ i.fmt.fish

WindowVisual ==
  \A sh \in Role : shsurfaces[sh] # NULL => LET x == shsurfaces[sh] IN
    x.x_window # NULL => /\ img[x.surface].fmt # NULL
                         /\ x.x_window.xvi = img[x.surface].fmt.xvi
                         /\ x.x_window.xvi.screen = XDisplay.screen

IInv ==
  /\ TypeOK
  /\ RoleOfSurface
  /\ TypedIffWindow
  /\ \A s \in Surface : GoodImage(img[s])
  /\ WindowVisual
  /\ NoBadFree

(* What holds besides while clients are considerate: surfaces show buffers of
   their own client that exist, on a viewport of the image's size, and a surface
   with a window is not freed. *)
ConsiderateInv ==
  /\ crash = "none"
  /\ \A s \in Surface :
       /\ state_buffer[s].buffer # NULL => Owner[state_buffer[s].buffer] = Owner[s]
       /\ img[s].fmt # NULL =>
            LET b == img[s].shm_buffer IN
            /\ mem[s] # "none"
            /\ b \in Buffer /\ Owner[b] = Owner[s]
            /\ mem[s] = "live" => b \in buffers
            /\ img[s].x_img.width = BufferInfo[b].width
            /\ img[s].x_img.height = BufferInfo[b].height
            /\ viewport[s].x2 - viewport[s].x1 = BufferInfo[b].width
            /\ viewport[s].y2 - viewport[s].y1 = BufferInfo[b].height
  /\ \A sh \in Role : shsurfaces[sh] # NULL =>
       (shsurfaces[sh].x_window # NULL => mem[shsurfaces[sh].surface] = "live")

(* No handler and no turn of a window's thread ends a good server while its
   clients are considerate: the rules of MayCommit, MayDestroy and MayLeave are
   all that clients have to keep to, in whatever order they send their requests.
   (Without any one of them the server can end.) *)
ServerSurvives == crash = "none"

(* What the thread of a window reads, the surface, its buffer, image and
   viewport, nobody writes or frees while clients are considerate: so it does
   not matter where in its turn a thread is when a handler runs. *)
ThreadUndisturbed ==
  [][\A sh \in Role : shsurfaces[sh] # NULL => LET s == shsurfaces[sh].surface IN
       shsurfaces[sh].x_window # NULL =>
         /\ shsurfaces'[sh].surface = s
         /\ mem'[s] = mem[s] /\ viewport'[s] = viewport[s]
         /\ img'[s].x_img = img[s].x_img /\ img'[s].shm_buffer = img[s].shm_buffer
         /\ img[s].shm_buffer \in buffers']_vars

(* wolfen-test-shm.c:159-161 destroys its surface to clean up: the server
   frees a surface once. *)
SurfaceFreedOnce == crash # "double_delete"

=============================================================================
