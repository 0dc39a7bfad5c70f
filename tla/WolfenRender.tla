---------------------------- MODULE WolfenRender ----------------------------
(***************************************************************************)
(* The thread of a window, thread_func, beside the main thread, step by    *)
(* step: every access of either to what they share is a step of its own.   *)
(* There is one surface, several windows of it (each get_shell_surface may *)
(* bring one) and no lock.                                                 *)
(*                                                                         *)
(* The n-th import of a buffer makes the n-th image, the n-th segment and  *)
(* so the n-th frame; image and segment are named by n.  Images are shared *)
(* memory ones: without Xext a second import ends the server by itself.    *)
(* Buffers are shown unscaled; an offset would change nothing here.        *)
(*                                                                         *)
(* `end' is the first step whose behaviour C or the X protocol leaves      *)
(* undefined or fatal, and nothing is said of what follows it.             *)
(***************************************************************************)
EXTENDS Naturals, Sequences

CONSTANTS
  Window,     \* the shell surfaces of the surface
  Buffer,
  Size,       \* width and height of each buffer
  MaxImport,  \* bounds the imports
  NULL

ASSUME RenderAssumption ==
  /\ Size \in [Buffer -> [w : Nat \ {0}, h : Nat \ {0}]]
  /\ MaxImport \in Nat
  /\ NULL \notin Buffer

VARIABLES
  main,        \* where the main thread is in wolfen_surface_commit or _delete
  frames,      \* the buffers imported so far
  bufs,        \* the wl_shm buffers that exist
  left,        \* the client has disconnected
  surface,     \* "live" or "freed"
  shm_buffer, x_img, viewport, shmseg,  \* fields of the surface
  data,        \* the segment x_img->data points to: 0, NULL, in a new image
  shmaddr,     \* the one shm_info.shmaddr points to
  images,      \* the XImages allocated
  filled,      \* the segments the pixels were copied into
  attached,    \* the segments the X server has
  pc, arg,     \* each thread: where it is, and the arguments it has read
  unread,      \* those it has yet to read for its put
  shown,       \* the image and the segment each window was last painted from
  since,       \* history: the frame each thread's turn began with, 0 in an import
  end

mainVars == <<frames, bufs, left, surface, shm_buffer, x_img, viewport, shmseg, data, shmaddr,
              images, filled, attached>>
threadVars == <<pc, arg, unread, since>>
vars == <<main, mainVars, threadVars, shown, end>>

Frame == 1..MaxImport
Extent == [w : Nat, h : Nat]
NoArg == [buf |-> NULL, img |-> 0, w |-> 0, h |-> 0]
PutArg == {"img", "w", "h"}

Init ==
  /\ main = "idle"
  /\ frames = <<>>
  /\ bufs = Buffer /\ left = FALSE
  /\ surface = "live"
  /\ shm_buffer = NULL /\ x_img = 0 /\ shmseg = 0 /\ data = 0 /\ shmaddr = 0
  /\ viewport = [w |-> 0, h |-> 0]
  /\ images = {} /\ filled = {} /\ attached = {}
  /\ pc = [w \in Window |-> "none"]
  /\ arg = [w \in Window |-> NoArg]
  /\ unread = [w \in Window |-> {}]
  /\ since = [w \in Window |-> 0]
  /\ shown = [w \in Window |-> [img |-> 0, seg |-> 0]]
  /\ end = "none"

Running == end = "none"

(* The main thread goes from one line to another. *)
Main(from, to) ==
  /\ Running /\ main = from
  /\ main' = to
  /\ UNCHANGED <<threadVars, shown, end>>

(* The main thread replaces the image. *)
Importing == main \in {"destroy", "clear", "x2", "y2", "create", "map", "fill", "attach"}

-----------------------------------------------------------------------------
(* wolfen_surface_commit.  A commit after an attach imports the buffer. *)
Import(b) ==
  /\ b \in bufs /\ ~left /\ Len(frames) < MaxImport
  /\ Main("idle", "destroy")
  /\ frames' = Append(frames, b)
  /\ shm_buffer' = b
  /\ UNCHANGED <<bufs, left, surface, x_img, viewport, shmseg, data, shmaddr, images, filled,
                 attached>>

(* Mutant: the old segment, which leaks, is detached together with its image. *)
MutDestroyImage ==
  /\ Main("destroy", "clear")
  /\ images' = images \ {x_img}
  /\ attached' = attached \ {shmseg}
  /\ UNCHANGED <<frames, bufs, left, surface, shm_buffer, x_img, viewport, shmseg, data, shmaddr,
                 filled>>

(* Mutant: the old image is left to the threads that may be putting it. *)
MutDestroyImageLeaks == Main("destroy", "clear") /\ UNCHANGED mainVars

(* XDestroyImage; the pointer stays. *)
DestroyImage ==
  /\ Main("destroy", "clear")
  /\ images' = images \ {x_img}
  /\ UNCHANGED <<frames, bufs, left, surface, shm_buffer, x_img, viewport, shmseg, data, shmaddr,
                 filled, attached>>

(* pixman_region32_clear and _init_rect write the extents a field at a time. *)
ClearViewport ==
  /\ Main("clear", "x2")
  /\ viewport' = [w |-> 0, h |-> 0]
  /\ UNCHANGED <<frames, bufs, left, surface, shm_buffer, x_img, shmseg, data, shmaddr, images,
                 filled, attached>>

InitX2 ==
  /\ Main("x2", "y2")
  /\ viewport' = [viewport EXCEPT !.w = Size[shm_buffer].w]
  /\ UNCHANGED <<frames, bufs, left, surface, shm_buffer, x_img, shmseg, data, shmaddr, images,
                 filled, attached>>

InitY2 ==
  /\ Main("y2", "create")
  /\ viewport' = [viewport EXCEPT !.h = Size[shm_buffer].h]
  /\ UNCHANGED <<frames, bufs, left, surface, shm_buffer, x_img, shmseg, data, shmaddr, images,
                 filled, attached>>

(* Mutant: the segment is attached together with its image, before the pixels
   are copied. *)
MutCreateImage ==
  /\ Main("create", "map")
  /\ x_img' = Len(frames) /\ shmseg' = Len(frames) /\ data' = 0
  /\ images' = images \cup {x_img'}
  /\ attached' = attached \cup {shmseg'}
  /\ UNCHANGED <<frames, bufs, left, surface, shm_buffer, viewport, shmaddr, filled>>

(* XShmCreateImage: the image shares shm_info, whose segment is still the old
   one, and has no data yet. *)
CreateImage ==
  /\ Main("create", "map")
  /\ x_img' = Len(frames) /\ data' = 0
  /\ images' = images \cup {x_img'}
  /\ UNCHANGED <<frames, bufs, left, surface, shm_buffer, viewport, shmseg, shmaddr, filled,
                 attached>>

(* shmget and shmat: the data of the image, then the address of shm_info.
   (Between the two they differ as they did before.) *)
MapSegment ==
  /\ Main("map", "fill")
  /\ data' = Len(frames) /\ shmaddr' = Len(frames)
  /\ UNCHANGED <<frames, bufs, left, surface, shm_buffer, x_img, viewport, shmseg, images,
                 filled, attached>>

(* memcpy. *)
Fill ==
  /\ Main("fill", "attach")
  /\ filled' = filled \cup {Len(frames)}
  /\ UNCHANGED <<frames, bufs, left, surface, shm_buffer, x_img, viewport, shmseg, data, shmaddr,
                 images, attached>>

(* Mutant: a segment of the old one's size is not attached. *)
MutAttachSegment ==
  /\ Main("attach", "callback")
  /\ shmseg' = IF shmseg # 0 /\ Size[frames[shmseg]] = Size[shm_buffer] THEN shmseg ELSE Len(frames)
  /\ attached' = attached \cup {shmseg'}
  /\ UNCHANGED <<frames, bufs, left, surface, shm_buffer, x_img, viewport, data, shmaddr, images,
                 filled>>

(* XShmAttach. *)
AttachSegment ==
  /\ Main("attach", "callback")
  /\ shmseg' = Len(frames)
  /\ attached' = attached \cup {shmseg'}
  /\ UNCHANGED <<frames, bufs, left, surface, shm_buffer, x_img, viewport, data, shmaddr, images,
                 filled>>

(* Mutant: the callback runs before the image is made. *)
MutStartsThread(w) == main \in {"create", "callback"} /\ frames # <<>>

(* The callback may make a window and start its thread. *)
StartsThread(w) == main = "callback" /\ frames # <<>>

StartThread(w) ==
  /\ Running /\ StartsThread(w) /\ pc[w] = "none"
  /\ pc' = [pc EXCEPT ![w] = "buffer"]
  /\ main' = IF main = "callback" THEN "idle" ELSE main
  /\ UNCHANGED <<mainVars, arg, unread, since, shown, end>>

FinishCommit == Main("callback", "idle") /\ UNCHANGED mainVars

(* A commit without an attach leaves the image alone. *)
CommitNoBuffer == ~left /\ Main("idle", "callback") /\ UNCHANGED mainVars

-----------------------------------------------------------------------------
(* The client destroys a buffer it does not show (or, if the surface was
   destroyed first, any), or exits: then its buffers and its surface go in
   either order, the surface by wolfen_surface_delete. *)
DestroyBuffer(b) ==
  /\ b \in bufs /\ b # shm_buffer /\ Main("idle", "idle")
  /\ bufs' = bufs \ {b}
  /\ UNCHANGED <<frames, left, surface, shm_buffer, x_img, viewport, shmseg, data, shmaddr,
                 images, filled, attached>>

Leave ==
  /\ ~left /\ Main("idle", "detach")
  /\ left' = TRUE
  /\ bufs' \in {bufs, {}}
  /\ UNCHANGED <<frames, surface, shm_buffer, x_img, viewport, shmseg, data, shmaddr, images,
                 filled, attached>>

Detach ==
  /\ Main("detach", "delete")
  /\ attached' = attached \ {shmseg}
  /\ images' = images \ {x_img}
  /\ UNCHANGED <<frames, bufs, left, surface, shm_buffer, x_img, viewport, shmseg, data, shmaddr,
                 filled>>

FreeSurface ==
  /\ Main("delete", "gone")
  /\ surface' = "freed" /\ bufs' = {}
  /\ UNCHANGED <<frames, left, shm_buffer, x_img, viewport, shmseg, data, shmaddr, images,
                 filled, attached>>

MainStep ==
  \/ DestroyImage \/ ClearViewport \/ InitX2 \/ InitY2 \/ CreateImage \/ MapSegment \/ Fill
  \/ AttachSegment
  \/ (\E w \in Window : StartThread(w)) \/ FinishCommit
  \/ Detach \/ FreeSurface

Client ==
  \/ \E b \in Buffer : Import(b) \/ DestroyBuffer(b)
  \/ CommitNoBuffer
  \/ Leave

-----------------------------------------------------------------------------
(* thread_func: the buffer is opened, the arguments of XShmPutImage are read, in
   whatever order the compiler gives them, and the image is put.  (Closing the
   buffer reads nothing of it.) *)
Thread(w, from, to) ==
  /\ Running /\ pc[w] = from
  /\ pc' = [pc EXCEPT ![w] = to]
  /\ UNCHANGED <<main, mainVars>>

(* A step through the surface, which may be freed. *)
Read(w, from, to, new) ==
  /\ Thread(w, from, to)
  /\ IF surface = "freed" THEN end' = "freed_surface" /\ UNCHANGED arg
     ELSE arg' = [arg EXCEPT ![w] = new] /\ UNCHANGED end
  /\ UNCHANGED shown

(* A turn begins. *)
ReadBuffer(w) ==
  /\ Read(w, "buffer", "access", [arg[w] EXCEPT !.buf = shm_buffer])
  /\ since' = [since EXCEPT ![w] = IF Importing THEN 0 ELSE Len(frames)]
  /\ UNCHANGED unread

BeginAccess(w) ==
  /\ Thread(w, "access", "put")
  /\ end' = IF arg[w].buf \in bufs THEN "none" ELSE "freed_buffer"
  /\ unread' = [unread EXCEPT ![w] = PutArg]
  /\ UNCHANGED <<arg, since, shown>>

ReadArg(w, a, new) ==
  /\ a \in unread[w]
  /\ Read(w, "put", "put", new)
  /\ unread' = [unread EXCEPT ![w] = @ \ {a}]
  /\ UNCHANGED since

ReadImage(w) == ReadArg(w, "img", [arg[w] EXCEPT !.img = x_img])

ReadWidth(w) == ReadArg(w, "w", [arg[w] EXCEPT !.w = viewport.w])

ReadHeight(w) == ReadArg(w, "h", [arg[w] EXCEPT !.h = viewport.h])

(* What makes XShmPutImage undefined, or fatal: it sends data - shmaddr as the
   offset of the image in the segment, and the X server wants a segment it has,
   as large as the image, and the rectangle inside the image.  (images has
   x_img or nothing: OneImage.) *)
PutFaults(a) ==
  {why \in {"freed_image", "bad_offset", "bad_shmseg", "bad_access", "bad_value"} :
     \/ why = "freed_image" /\ a.img \notin images
     \/ why = "bad_offset" /\ a.img \in images /\ data # shmaddr
     \/ why = "bad_shmseg" /\ shmseg \notin attached
     \/ /\ a.img \in images /\ shmseg \in attached
        /\ LET s == Size[frames[a.img]]
               t == Size[frames[shmseg]]
           IN \/ why = "bad_access" /\ s.w * s.h > t.w * t.h
              \/ why = "bad_value" /\ (a.w > s.w \/ a.h > s.h)}

Put(w) ==
  /\ Thread(w, "put", "buffer") /\ unread[w] = {}
  /\ IF PutFaults(arg[w]) # {} THEN end' \in PutFaults(arg[w]) /\ UNCHANGED shown
     ELSE /\ shown' = IF arg[w].w = 0 \/ arg[w].h = 0 THEN shown
                      ELSE [shown EXCEPT ![w] = [img |-> arg[w].img, seg |-> shmseg]]
          /\ UNCHANGED end
  /\ UNCHANGED <<arg, unread, since>>

ThreadStep(w) ==
  \/ ReadBuffer(w) \/ BeginAccess(w)
  \/ ReadImage(w) \/ ReadWidth(w) \/ ReadHeight(w)
  \/ Put(w)

Next == MainStep \/ Client \/ \E w \in Window : ThreadStep(w)

(* The scheduler runs both threads; the client need not do anything. *)
Fairness == WF_vars(MainStep) /\ \A w \in Window : WF_vars(ThreadStep(w))

Spec == Init /\ [][Next]_vars /\ Fairness

-----------------------------------------------------------------------------
(* The type invariant. *)
TypeOK ==
  /\ main \in {"idle", "destroy", "clear", "x2", "y2", "create", "map", "fill", "attach",
               "callback", "detach", "delete", "gone"}
  /\ frames \in Seq(Buffer)
  /\ bufs \subseteq Buffer /\ left \in BOOLEAN
  /\ surface \in {"live", "freed"}
  /\ shm_buffer \in Buffer \cup {NULL}
  /\ x_img \in 0..Len(frames) /\ shmseg \in 0..Len(frames)
  /\ data \in 0..Len(frames) /\ shmaddr \in 0..Len(frames)
  /\ viewport \in Extent
  /\ images \subseteq 1..Len(frames) /\ filled \subseteq 1..Len(frames)
  /\ attached \subseteq 1..Len(frames)
  /\ pc \in [Window -> {"none", "buffer", "access", "put"}]
  /\ arg \in [Window -> [buf : Buffer \cup {NULL}, img : 0..Len(frames), w : Nat, h : Nat]]
  /\ unread \in [Window -> SUBSET PutArg]
  /\ since \in [Window -> 0..Len(frames)]
  /\ shown \in [Window -> [img : 0..Len(frames), seg : 0..Len(frames)]]
  /\ end \in {"none", "freed_surface", "freed_buffer", "freed_image", "bad_offset",
              "bad_shmseg", "bad_access", "bad_value"}

(* The thread is harmless to a client that shows one buffer: as long as nothing
   was imported twice, no buffer destroyed and the client is there, no step of
   thread_func is undefined or fatal, wherever the main thread is. *)
SafeUntilReimport ==
  Len(frames) < 2 /\ bufs = Buffer /\ ~left => end = "none"

(* A client that re-imports, but neither exits nor destroys a buffer, and whose
   frames so far are all of one size, meets one race of thread and commit only:
   the image, from XDestroyImage until the new one has its memory.  The extents
   that are cleared and written beside the thread, in whatever order it reads
   them, and the image whose segment is not attached yet, do it no harm. *)
SameSize == \A n, m \in DOMAIN frames : Size[frames[n]] = Size[frames[m]]

OnlyImageRaces ==
  SameSize /\ bufs = Buffer /\ ~left => end \in {"none", "freed_image", "bad_offset"}

(* README:4-6 lists wl_surface as implemented, so a client may commit buffer
   after buffer of one size: the server and its windows survive that. *)
RecommitSurvives == SameSize /\ bufs = Buffer /\ ~left => end = "none"

(* Whatever the sizes, a window is never painted from a segment the main thread
   is still copying into: each picture is of pixels committed as a whole. *)
WholeFrames == \A w \in Window : shown[w].seg # 0 => shown[w].seg \in filled

(* Although a turn of thread_func reads the surface at five moments, and a
   commit replaces it in eight steps, whatever a window shows is what one look
   at the surface would have shown: the image and the segment of the moment of
   the put.  A turn that was overtaken by a commit ends the server instead. *)
Picture == INSTANCE WolfenPicture
             WITH imported <- Len(frames), picture <- [img |-> x_img, seg |-> shmseg]

TurnsAreAtomic == Picture!Spec

(* A window never goes back to an older frame. *)
FramesInOrder ==
  [][\A w \in Window : shown'[w].seg >= shown[w].seg /\ shown'[w].img >= shown[w].img]_vars

(* A window shows an image with the pixels of the same import or of the one
   before: the segment is attached after the image is made. *)
TornByOne == \A w \in Window : shown[w].img \in {shown[w].seg, shown[w].seg + 1}

(* While the client is there, a turn that no import meets succeeds: no step of a
   turn that began between two imports, and before the next, is undefined or
   fatal.  So the turns that WolfenShell runs between two handlers end no
   server in a way it does not have, and all others meet an import. *)
UndisturbedTurnsSucceed ==
  [][\A w \in Window :
       ThreadStep(w) /\ ~left /\ end' # "none" => since[w] # Len(frames)]_vars

(* A frame imported is shown on every window that has a thread, unless the next
   one replaces it, the client leaves or the server ends. *)
Current(w, n) == shown[w].img = n /\ shown[w].seg = n

NewestShown ==
  \A w \in Window, n \in Frame :
    (pc[w] # "none" /\ Len(frames) = n) ~> (Current(w, n) \/ Len(frames) > n \/ left \/ end # "none")

-----------------------------------------------------------------------------
(* The inductive invariant: how far an import has come, and what is left of
   the one before. *)
Newest == frames[Len(frames)]

ImportInv ==
  /\ Importing => frames # <<>>
  /\ frames # <<>> => shm_buffer = Newest
  /\ main \in {"y2", "create", "map", "fill", "attach"} => viewport.w = Size[Newest].w
  /\ main \in {"create", "map", "fill", "attach"} => viewport.h = Size[Newest].h
  /\ main \in {"map", "fill", "attach"} => x_img = Len(frames) /\ x_img \in images
  /\ main # "map" => data = shmaddr
  /\ main = "attach" => Len(frames) \in filled
  /\ attached \subseteq filled
  /\ shmseg # 0 /\ main \notin {"delete", "gone"} => shmseg \in attached

(* Between two imports the surface has the newest frame, and its image unless
   the surface is going. *)
SettledInv ==
  ~Importing /\ frames # <<>> =>
    /\ viewport.w = Size[Newest].w /\ viewport.h = Size[Newest].h
    /\ x_img = Len(frames) /\ shmseg = Len(frames)
    /\ main \in {"idle", "callback"} => x_img \in images

LeavingInv ==
  /\ left <=> main \in {"detach", "delete", "gone"}
  /\ surface = "freed" <=> main = "gone"
  /\ frames # <<>> /\ ~left => shm_buffer \in bufs

(* A thread has frames to show; a second import is under way whenever one is. *)
ThreadInv ==
  \A w \in Window :
    /\ pc[w] # "none" => /\ frames # <<>> /\ shmseg # 0 /\ x_img # 0
                         /\ Importing => Len(frames) >= 2
    /\ Running /\ pc[w] \in {"access", "put"} => arg[w].buf \in Buffer
    /\ Running /\ pc[w] = "put" =>
         /\ "img" \notin unread[w] => arg[w].img # 0
         /\ "w" \notin unread[w] /\ Len(frames) = 1 => arg[w].w = Size[frames[1]].w
         /\ "h" \notin unread[w] /\ Len(frames) = 1 => arg[w].h = Size[frames[1]].h

(* What is shown lags behind what is read, which lags behind what is there. *)
OrderInv ==
  \A w \in Window :
    /\ shown[w].seg <= shmseg
    /\ shown[w].img <= arg[w].img /\ arg[w].img <= x_img

SizeInv ==
  /\ frames = <<>> => viewport = [w |-> 0, h |-> 0] /\ \A w \in Window : arg[w].w = 0 /\ arg[w].h = 0
  /\ SameSize => \A n \in DOMAIN frames :
       /\ viewport.w <= Size[frames[n]].w /\ viewport.h <= Size[frames[n]].h
       /\ \A w \in Window : arg[w].w <= Size[frames[n]].w /\ arg[w].h <= Size[frames[n]].h

RenderInv ==
  /\ TypeOK /\ ImportInv /\ SettledInv /\ LeavingInv /\ ThreadInv /\ OrderInv /\ SizeInv
  /\ WholeFrames /\ SafeUntilReimport /\ OnlyImageRaces

(* For the picture: an import makes one frame and finds the one before whole,
   there is never more than one image, and what a turn that no import has met
   has read is the newest frame's. *)
OneAhead ==
  /\ main \in {"destroy", "clear", "x2", "y2", "create"} => x_img + 1 = Len(frames)
  /\ Importing => shmseg + 1 = Len(frames)
  /\ frames = <<>> => shmseg = 0

OneImage ==
  /\ images \subseteq {x_img}
  /\ main \in {"clear", "x2", "y2", "create"} => images = {}

NewestRead ==
  \A w \in Window : Running /\ frames # <<>> /\ since[w] = Len(frames) =>
    /\ ~Importing
    /\ pc[w] = "access" => arg[w].buf = Newest
    /\ pc[w] = "put" => /\ "img" \notin unread[w] => arg[w].img = Len(frames)
                        /\ "w" \notin unread[w] => arg[w].w = Size[Newest].w
                        /\ "h" \notin unread[w] => arg[w].h = Size[Newest].h

PictureInv == OneAhead /\ OneImage /\ NewestRead /\ TornByOne

=============================================================================
