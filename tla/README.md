# Wolfen in TLA+

Wolfen (WLonX) is a Wayland compositor that wraps X11: every toplevel
`wl_surface` becomes an X window, and a thread per window puts the surface's
current `wl_shm` buffer on it for ever.  This directory holds TLA+ modules of
its core, TLC configurations that check them on small instances, and proofs,
checked by TLAPS, that hold for every value of the constants.

Paths are relative to the repository; `surface.c` is
`wolfen/src/wolfen-surface.c`, and so on for the other `wolfen-*` sources.

## 1. Inventory

| part | source | state | operations |
|---|---|---|---|
| pixel formats | `pixfmt.c` | none (pure); result `WolfenPixelFmt` | search for a visual (`wolfen_fmt_from_wl_fmt`), format for a visual in use (`wolfen_fmt_from_xvi_for_wl_fmt`), free |
| surfaces | `surface.c`, `compositor.c` (`create_surface`) | `state_buffer` (requests), `state` (committed), `actual_damage`, `viewport`, `contents.img`, `commit_cb` | create, 11 requests, the destructor |
| shell surfaces | `shell.c` | `type`, `surface`, `fmt_used`, `extents`, `x_window` | `get_shell_surface`, `set_toplevel`, `set_title`, the commit callback `create_x11`; eight empty handlers |
| render thread | `shell.c` `thread_func` | none of its own; reads `contents.img` and `viewport` through pointers | an endless loop of begin access, put image, end access |
| pixels | `surface.c` (import), `shell.c` | conversion buffer, segment or image data | convert, copy, put on the window |
| shape mask | `surface.c` `wolfen_surface_mask_generate` | one bit per pixel | built once, when a window is made |
| shared memory segments | `surface.c` | `shm_info` of each image, System V segments | `shmget` to `IPC_RMID`, and the destructor's `shmdt` |
| regions | `compositor.c` | one pixman region | create, add, subtract, destroy |
| display and screens | `wolfen.c`, `misc.c` | `x_has_*`, the screen list, `x_screen_default` | start-up only: extensions, XRandR/Xinerama/core screens, EDID and PnP names |
| PnP vendor table | `wolfen-pnp-ids.h` | one array, which `strtok` writes into | looked up by letters, for each EDID |
| test client | `wolfen-test/src/*` | one buffer, one surface, the answers, a cleanup | menu, SHM test, list of globals, SIGINT |
| Motif hints, build files | `motif-util.h`, `CMakeLists.txt` | constants | none |

**How they interact.**  `wl_display_run` dispatches one request handler at a
time on the main thread.  Surfaces call the formats while they import a buffer
and call the shell surface through `commit_cb`.  The shell surface keeps
pointers into the surface (`fmt_used`, `extents`, the surface itself), and its
thread follows them without a lock.  libwayland destroys buffers and, when a
client exits, all its resources; only surfaces and regions have destructors, so
shell surfaces and their threads outlive both.

**What is hard.**

* The state of an image is spread over ten fields which `wolfen_surface_commit`
  updates in three places (import, callback, "buffer 2"): a format chosen twice,
  a stale `last_x_img_xvi`, or a buffer freed and not made again goes wrong some
  commits later.
* The role's life (`type`, `x_window`) advances in requests *and* in another
  object's commit; requests arrive in any order, and a second
  `get_shell_surface` takes the surface over.
* Client errors, clients that exit and buffers destroyed while shown reach
  code that checks nothing; Xlib turns a protocol error into the end of the
  server.
* The thread reads what handlers write, without a lock, and in an order C
  leaves open.
* The search for a visual looks at screens the window is not on.
* Rows of a buffer may be padded or too short; the mask and the conversion
  count pixels their own way.
* A server that ends, by a crash or by a client's doing, leaves segments behind.
* Any X extension may be missing, at build time and at run time; screens come
  from three sources, and the table of vendors changes as it is read.
* The test client's prompts call themselves, and its signal handler runs
  anywhere.

**What makes each part correct.**  Formats: the search ends, with the
strictest visual there is, and both ways to make a format agree on the need of
a conversion.  Surfaces: double buffering; an image that agrees with its format,
its visual and its memory; no bad free.  Shell surfaces: a window is made once,
always has an image of its visual, and nothing uses a window that is not there.
The thread: until a second import it does nothing undefined, each of its turns
shows the picture of one moment, never a half-copied one or an older one, and
the newest in the end.  Pixels: a
buffer without padding arrives as it was drawn; the loop of the mask stays
inside its memory for regular images.  Segments: each image has one of its own,
and what leaks is counted.  Regions: the set of points requests say.  Display:
each screen is found once, and windows go to the default one.  The whole: a
server survives clients that respect a stated discipline, under which handlers
leave alone what threads read.

`PROJECT.json` lists the hazards line by line, with the properties that cover
them.

## 2. Modules

```
WolfenPixFmt ---- WolfenFmtSearch ---- MCFmtSearch
     |                   \------------ WolfenPixFmtProofs
     |
WolfenSurface --- WolfenShell -------- MCShell
     |  \              \-------------- WolfenShellProofs  (also extends
     |   \------------ MCSurface            WolfenPixFmtProofs)
  INSTANCE
WolfenDoubleBuffer (abstract)

WolfenRender ---- MCRender, WolfenRenderProofs
     \- INSTANCE WolfenPicture (abstract)
WolfenImage ----- MCImage, WolfenImageProofs
WolfenSegments -- MCSegments, WolfenSegmentsProofs
WolfenRegion ---- MCRegion, WolfenRegionProofs
     \- INSTANCE WolfenPointSet (abstract)
WolfenPnpIds ---- WolfenDisplay ------ MCDisplay, WolfenDisplayProofs
WolfenTestClient  MCTestClient, WolfenTestClientProofs
```

WolfenShell has requests, images, windows and whole turns of the threads
together.  WolfenRender, WolfenImage and WolfenSegments each open one of its
steps: the interleaving of a thread with a commit, the pixels of an import, the
system calls of an import.  WolfenDisplay yields what WolfenShell takes as
constants (`XDisplay`'s screen, `XHasShm`, `IsCompositing`).

* **WolfenPixFmt**: operators only.  A display is the set of the visuals of all
  its core screens, the screen in use and its default visual; a template is a
  record with the fields its mask names; `XGetVisualInfo` selects the visuals
  that agree with it.  The loose templates have no screen, since
  `pixfmt.c:57` overwrites `VisualScreenMask`.  `FmtFromWl` states the result of
  the search (the first template any visual satisfies), `FmtFromXvi` is the
  format for a visual already on screen.
* **WolfenFmtSearch**: the `while (!xvis)` loop, one action per turn, run
  against every display of a set.  It implements `FmtFromWl`.
* **WolfenSurface**: the variables are the groups of fields of
  `struct WolfenSurface`, each a function of the surface, with `connected`,
  `buffers` (the resources that exist), `mem` (allocation of the struct) and
  `crash`.  One action per request.  `Commit` is the whole of
  `wolfen_surface_commit`; `CommittedState`, `CommittedDamage`,
  `CommittedViewport` and `ImportedImage` say what it leaves in each field, in
  the code's order where that matters (`damage_buffer` is scaled by fields just
  overwritten; damage is computed from the *unscaled* `state_buffer`; the
  format is compared with `last_wl_fmt`, never with the new buffer's).
  `ImportFaults` lists the ways an import ends the server.
* **WolfenDoubleBuffer**: what `wl_surface` promises: requests gather, a commit
  makes all of them current in one step, only a commit after an attach changes
  what is shown.
* **WolfenShell**: shell surfaces over surfaces.  `CommitRole` is a commit that
  runs the callback; `RoleFaults` are the ends of the server inside
  `create_x11`, `PutFaults` those inside a turn of a thread between two
  handlers.  A turn that meets an import may end the server in more ways:
  `CommitRaces` is any of them.  `Spec` allows every client; `ConsiderateSpec`
  only considerate ones (below).
* **WolfenRender**: `thread_func` beside `wolfen_surface_commit` and
  `wolfen_surface_delete`, each access to what they share a step: `pc` is where
  a thread is, `arg` what it has read so far and `unread` what it has not, in
  any order, `main` the line of the main thread.  The n-th import makes image,
  segment and frame n, so staleness is a comparison of numbers.  `data` and
  `shmaddr` are the two addresses whose difference is the offset a put sends;
  they differ from `XShmCreateImage` until `shmat`.  `since` is a history
  variable: which frame a turn began with, if no import was under way.  `end`
  is the first undefined or fatal step.
* **WolfenPicture**: what a window shows if nothing happened halfway: the
  picture, an image and a segment, is replaced in two steps by an import, and a
  turn of a thread is one step, which shows the picture of that moment.
* **WolfenImage**: one buffer from its memory to the window: `Convert`,
  `CreateShmImage` or `CreateImage`, the mask's `Scan` (one pixel a step),
  `CreateBitmap`, `Put`.  A word of memory is the pixel it comes from and
  whether a fish has converted it, so a stride that is lost, a conversion that
  is forgotten and memory past an end (`Junk`) can be told apart.  Every access
  past an end may crash (`MayCrash`): the conversion's, the copy's, the mask's,
  the bitmap's and the put's.
* **WolfenSegments**: the segments of all surfaces over several runs of a
  server that may end at any step.
* **WolfenRegion** and **WolfenPointSet**: pixman's rectangles with 32-bit
  coordinates that wrap (`Wrap`, a width `Limit` in the model), and the set of
  points a client means.
* **WolfenDisplay** and **WolfenPnpIds**: start-up, one action per step or turn
  of a loop, over records of what an X server can answer; then windows and
  compositors that come and go.  The table has the letters of each vendor;
  `Lookup` is the `strtok` loop, which the first lookup cuts short for all
  later ones.
* **WolfenTestClient**: the client's prompts with invalid answers, their
  repetition and the end of the input, both tests, and SIGINT.

A crash (NULL dereference, a bad free, babl's abort, Xlib's exit on a protocol
error) is a value of `crash`, `end` or `pc`; after it nothing runs.  Reading
freed memory *may* crash or go on with whatever is there, so those actions are
optional, and a destroyed buffer resolves to any buffer.

A definition named `Mut...` is an intentionally wrong variant of the operator
after it.  No specification uses one; substituting it shows that a property
notices such an error.

## 3. Runs

| run | instance | what it shows |
|---|---|---|
| `fmt_search` | every display over nine visuals of two core screens, either in use, every default | the search ends, returns `FmtFromWl`, needs no fish only where pixel layouts agree, and aborts only without a TrueColor visual of depth 24 or 32 on any screen |
| `surface` | 1 surface, 1 buffer, one value of each argument (two scales, -1 and 2); at most four fields of the pending state differ from the initial ones | `WolfenSurface` implements `WolfenDoubleBuffer`; viewports and damage stay regions even for a negative scale |
| `shell` | 1 client, 1 surface, 2 buffers of different formats and sizes, 2 shell surfaces, a server where every buffer is converted, with visuals of three screens | the invariants of images and windows, under every order of requests, errors included |
| `considerate` | 2 clients with a surface and a buffer each, 2 shell surfaces | considerate clients never end a good server, and nothing a thread reads changes beside it |
| `render` | 1 window, buffers of 2 sizes, 3 imports | the first import is safe; with one size only the image is a race, freed or without its memory; frames are whole; `WolfenRender` implements `WolfenPicture`, so a turn shows the picture of one moment; the newest is shown in the end |
| `region` | 1 region, coordinates from -3 to 2 (`Limit` 3), rectangles of both signs that fit, overflow or are empty | regions implement `WolfenPointSet` |
| `image` | all buffers up to 3x3 with strides up to 5 words, and 2x4; bytes of two bits; with or without Xext, fish and shape | unpadded buffers arrive as drawn; nothing past an end without a fish; bits keep pace with pixels; regular buffers stay inside their memory; the shape is the transposed one |
| `display` | every pair of monitors with EDIDs of three vendors, every connection of three outputs, no XRandR with 0 to 2 Xinerama heads, no extension, no server | screens, vendors and the default one are right; a good server starts and stays up; windows have a shape just without a compositor |
| `test_client` | up to 2 invalid answers, 3 names to try, numbers -1, 0, 1 and 5 | answers are lost only by invalid ones; SIGINT quits where the cleanup can; the client ends |
| `segments` | 2 surfaces, 4 segments, 6 imports, 3 runs | an image's segment is usable and its own; a run leaves at most one behind; all other leaks are images replaced |
| `destroy` | as `shell` | *violated*: `wl_surface.destroy` frees a surface twice |
| `render_race` | as `render`, 2 imports | *violated*: a second import of the same size frees the image a thread is about to put, or has not given it its memory |

**Bounds.**  Handlers touch one surface, its shell surface and one buffer; what
they compare is the buffer's format against the image's, and sizes against
zero, each other and the viewport.  So two buffers that differ in format and
shape, and two shell surfaces for one surface, reach every branch; a second
client adds exits that interleave.  In `surface` there is one value of each
argument besides the initial one, since `WolfenDoubleBuffer` distinguishes
values only by equality; the constraint `FewChanged` (`MaxChanged = 4`) leaves
out only states in which five or more requests of different kinds wait for one
commit, whose effects are independent field by field (the proof has no such
bound).  In `render` threads only read, so one stands for all; three imports
let a thread hold values of one, while a second goes by and a third is half
done (205 thousand states; the same properties and the invariants of the proofs
were also checked with four, 1.1 million).  `MaxImport`, `MaxRun` and `Limit`
of `segments` let a limit be reached with leaks of two earlier runs.  In
`image` a byte of two bits makes rows end inside bytes and at their ends;
buffers of more than five words draw all but one pixel opaque, which tells
every pixel's place.  In `display` the loops are over lists of up to three, and
`MaxChanges = 1` lets a compositor come or go before, during or after start-up.
The hundred names of `create_shm_file` are three: the loop only counts them.

**Fairness and deadlock.**  The search and the test client go on by themselves
(`WF` of their next step; SIGINT needs not come, and the user answers).  In
WolfenRender the main thread finishes the handler it is in, and every thread
keeps running, as the kernel schedules them; clients need not request anything.
The display's start-up goes on.  Clients of WolfenShell need not do anything,
and none of its properties is a liveness property.  Deadlock is not checked:
searches stop when they have a format, servers and clients end, and threads
stop with the server.

**Considerate clients and a good server.**  `GoodServer`: shared memory, no
XRender, an interned `_MOTIF_WM_HINTS`, a TrueColor visual of depth 24 or 32, a
search that finds visuals of the screen in use (`SearchStaysOnScreen`: it does
if this has a visual of the strict template, or is the only screen), and a
compositor unless all buffers have a regular mask.  A considerate client does
not request `wl_surface.destroy`, commits only buffers that exist, unscaled,
and none to a surface that has a window already, gives a surface with a role its
first buffer before it commits it, destroys no buffer that is shown, and does
not exit while it has a window.  Each of these conditions keeps away one of the
ends of `Spec`; it is those hazards that the discipline assumes away, and not a
small thing: such a client can show one picture per window.  An animation is
what `render_race` ends.

That `ServerSurvives` has whole turns of the threads between whole handlers is
no abstraction for these clients.  `ThreadUndisturbed` says that the surface,
buffer, image and viewport of a window are never written or freed beside its
thread, so that it does not matter where in its turn a handler finds it; and an
import beside a thread is a fault of its own in `Spec`, `CommitRaces`.  What
such an import can do, step by step, is WolfenRender's, which also shows that a
turn no import meets succeeds (`UndisturbedTurnsSucceed`).  Each call of Xlib is
taken as one step, although the code never calls `XInitThreads`; and in
WolfenShell a buffer has no padding (strides are WolfenImage's).

## 4. Proofs

All of the following hold for every value of the constants under the `ASSUME`s
of the modules: each object has an owner, buffers have a known format and a
positive size, the default visual is one of the screen in use, and NULL and Junk
are no objects.

* `WolfenPixFmtProofs`: some template is always satisfied (the last by the
  default visual), so `FmtFromWl` is well defined and typed; `FormatsAgree`:
  for a visual the search chose, `FmtFromXvi` gives the same format and fish.
  `SearchStaysOnScreen`: a visual of the strict template on the screen in use,
  or the want of other screens, keeps the search there.  Of the search itself:
  `SearchInv` (all templates so far failed, the result is the one of the
  present template) is inductive; `SearchTypeOK`, `ReturnsStrictest`,
  `AbortsOnlyWithoutTrueColor` and `NoFishMeansSameLayout` follow.
* `WolfenShellProofs`, first half, of WolfenSurface: `SurfaceTypeOK`, and the
  refinement `DoubleBuffered`.  The branch of a commit that scales
  `damage_buffer` would break it; it never runs, because no request raises the
  DAMAGE_BUFFER bit (`NoDamageBit`).
* `WolfenShellProofs`, second half: `Spec => []IInv`, and from it `TypeOK`,
  `FormatRemembered`, `VisualKnown`, `ConversionOwned`, `NoBadFree`,
  `TypedIffWindow`, `WindowHasImage`, `WindowKept`, `OrphanStaysBare`;
  `DoubleBuffered` for the whole server; then, for `ConsiderateSpec` and a
  `GoodServer`, `[]ConsiderateInv`, `[]ServerSurvives` and `ThreadUndisturbed`.
* `WolfenRenderProofs`: `RenderInv` is inductive, and `TypeOK`,
  `SafeUntilReimport`, `WholeFrames` and `OnlyImageRaces` follow, for any number
  of windows, buffers and imports.  With `PictureInv`: the refinement
  `TurnsAreAtomic`; `TornByOne` (the one mixture of two imports a window can
  show is a new image with the pixels of the import before it); `FramesInOrder`;
  and `UndisturbedTurnsSucceed` (while the client is there, no turn ends the
  server that began between two imports and before the next).
* `WolfenRegionProofs`: `TypeOK`, and a region is the set of points its
  requests say (`Promised`) if no rectangle underflows, for every width of
  `int`.
* `WolfenImageProofs`: `TightIsRight` and `NoJunkUnlessFished` from `PixelInv`,
  `BitsCountPixels` from `InLoop`, `RegularIsSafe` and `ShapeTransposed` from
  both and `ShapeInv`, and `TypeOK`, for every size, stride and number of bits.
* `WolfenSegmentsProofs`: `SegmentsInv`, and from it `TypeOK`, `ImageUsable`,
  `OneLeftPerRun` and `LeaksReplaced`, for every limit of the system and any
  number of surfaces, imports and runs.
* `WolfenTestClientProofs`: `ClientInv`, and from it `AnswersKept` and the
  action property `QuitsOnInterrupt`, for any number of answers and names.
* `WolfenDisplayProofs`: `DisplayInv`, and `StaysUp` from it; with `ChoiceInv`
  also `DefaultRight`, with `CompositingInv` `ShapedIfNoCompositor`, with
  `ListInv` `ScreensFound` and with `MakesInv` `MakesRight`, for every list of
  outputs, heads and screens.

*The invariant of the shell.*  None of the checked invariants is inductive
alone.  That a window always has an image of its visual needs that the format
of an image never changes, which needs that `last_wl_fmt` records it, that
`use_last_x_img_xvi` is set only on an image with a format, and that a format
came from the search (so that the visual is real).  `GoodImage` collects this
for one image; `RoleOfSurface` links callbacks to shell surfaces, and
`WindowVisual` links a window to its surface's format.  The central lemmas are
`FormatKept` (an import keeps a format or asks the search), `GoodImport` and
`CommittedKept`; every other handler leaves images alone (`RestKept`), rewrites
one shell surface (`ShellKept`) or ends the server (`CrashKept`).
`ServerSurvives` needs `ConsiderateInv` besides: a shown buffer exists and
belongs to the surface's client, viewport and image have its size, and a
surface with a window is allocated.  With it `ConsiderateCommit`,
`ConsiderateRole` and `ConsiderateThread` exclude every fault, and the rule that
nothing is imported beside a thread excludes `CommitRaces`.

*The invariant of the thread.*  `RenderInv` has a part for each hazard:
`ImportInv` (what the main thread has made by each of its steps), `SettledInv`
(between imports all fields are of the last one), `LeavingInv` (what a client's
exit has destroyed by each step), `ThreadInv` (what a thread has read is of an
import that happened, and of the only one until there is a second), `OrderInv`
(a thread holds nothing older than what it has shown) and `SizeInv` (while all
frames have one size, every argument read is of that size or of a viewport
being rewritten).  None of them depends on the order of `ReadImage`,
`ReadWidth` and `ReadHeight`.

*The picture.*  A turn reads image, width and height at different moments, and a
commit may pass in between; that the outcome is nevertheless the picture of one
moment, that of the put, is what `PictureInv` shows.  `OneImage`: there is one
XImage at most, the surface's, since each import destroys the old one before it
makes the new one; so an image that a put still finds is the current one
(`PutsPicture`), and one that an import has overtaken ends the server instead.
The mutant of `TurnsAreAtomic` leaves the old image to the threads: this mends
the crash, and a window can then show an older image than the picture has.
`OneAhead`: an import finds the one before whole, so that the image is at most
one ahead of the segment.  `NewestRead`: what a turn has read that no import has
met is the newest frame's.  The last is why such a turn succeeds
(`NewestIsPut`); the turns that meet an import are those `end` records, and
`CommitRaces` of WolfenShell.

*The invariant of the test client.*  `AnswersKept` counts: `Counted` gives each
lost answer an invalid one that it was lost for, and one more to a prompt that
has called itself and not yet returned.  `Chosen` says that the client has
neither surface nor cleanup before a test is chosen.

*The invariants of the start-up.*  `DisplayInv` counts: a loop has made as many
screens as it says, so there is a default one at its end.  `ChoiceInv` follows
the choice through each loop: the XRandR one has met no primary output until it
has a default, and its first screen is that of the first connected output; the
other two number their screens as they count.  `CompositingInv` says that a
screen carries the compositing of the core screen its windows will be on, which
needs `ChoiceInv` for a core screen.  `ListInv` says that a loop that has come
to `i` has made the screens there are to find below `i`, in their order, and
that the list has them from last to first; it is the same for the three loops,
since `Found` and `Way` depend on the same extensions.  `MakesInv` says that no
screen is named before the table is cut, and which one can have a name other
than the first.  It needs what a lookup returns (`LookupFinds`): the greatest
line of those letters, which there is because the table is finite
(`VendorsEnd`, `GreatestExists`, the latter from the library's well-founded
orderings).

*The invariants of an image.*  `PixelInv` says what memory holds at each step:
without a conversion the image is the buffer itself, with one and without
padding the converted buffer, pixel by pixel; `PixelInside` bounds a pixel's
place, and with it `ImportInside` the conversion, the copy and the lines of a
put.  `InLoop` relates the byte and the bit to the number of pixels done, so
that `ScanInside` can bound both indices.  `ShapeInv` adds which bits are set:
those of the pixels scanned so far whose transposed pixel is opaque
(`SetBits`).  It is kept because the next byte and bit are quotient and
remainder of the pixel's number (`Division`) and no two pixels share a bit
(`BitsDiffer`); where rows are whole bytes, `XCreateBitmapFromData` looks for a
pixel's bit exactly there (`BitmapOfLoop`).

*The invariant of the segments.*  That a run leaves one segment at most counts
sets that the steps of an import change one by one.  `SegmentsInv` keeps two
equations: attached are as many segments as there are images and replaced
images, but for the one that `shmget` has just returned; not attached are as
many as there were earlier runs at most, and in `created` that one.  The end of
a run takes away all that are marked, so that only the unmarked one remains.

The strengthenings (`IInv`, `ConsiderateInv`, `RenderInv`, `DisplayInv`,
`ChoiceInv`, `CompositingInv`, `ListInv`, `MakesInv`, `ShapeInv`,
`SegmentsInv`, `PictureInv`, `ClientInv`), the type invariants of the shell,
the thread, the search and regions, and `TornByOne`, `FramesInOrder` and
`UndisturbedTurnsSucceed` of the thread are in no run; each was checked by TLC
on the instance of its component before it was proved.

*Only model-checked*: liveness (`SearchEnds`, `NewestShown`, `StartsUp`,
`ClientEnds`), which is outside the prover's reach.  Every invariant and action
property of a run that should hold is proved.

## 5. Where the code departs from what one expects

Two departures have runs of their own (`destroy`, `render_race`).  The modules
have the others as the code has them:

* The loose templates drop `VisualScreenMask`, so that the search may return a
  visual of another core screen, on which no window can be made (`Template`,
  `bad_match` of `WindowFaults`).
* A re-commit stores the image before it has its memory; a put in between sends
  the difference of two unrelated addresses (`bad_offset` of WolfenRender).
* The conversion buffer has no padding, but as many bytes are copied out of it
  as if it had: a padded buffer is read past its end (`CopyInside`).
* `set_toplevel` before the first commit is forgotten (`SetToplevel`).
* A buffer scale, or a transform, changes the viewport but not the image
  (`CommittedViewport`, `ImportedImage`).
* Without Xext a second commit frees the client's pool, or the conversion
  buffer twice (`NoBadFree` has Xext as its condition).
* `x_has_render` is never assigned in a build without XRender; read as true, a
  window has no image (`XHasRender`).
* `wl_region.destroy` frees the region twice (`Destroy` of WolfenRegion).
* The shape mask is that of the transposed image (`ShapeTransposed`), and is
  read past its end if it is wider than high (`MayCrash`).
* A padded stride shears the image (`TightIsRight` has no padding as its
  condition), and one that is too short ends the server or is read past its end.
* Only the first EDID finds its vendor, unless it is the table's first
  (`MakesRight`); the make of the others is never written.
* An inactive Xinerama leaves no screen and no default screen, a connected
  output without a CRTC ends the server, and `is_compositing` is read once
  (`Detected`, `GoodServer`, `changes = 0`).
* A region whose far edge underflows covers points nobody asked for
  (`NoUnderflow`).
* The test client crashes on SIGINT while it asks its questions, and never gets
  a file descriptor (`CleanupFaults`, `CreateFd`).

## 6. Not modelled, and what is left

* What babl computes, and how many bytes a pixel of an unusual visual has.
* `int` overflow of scaled sizes of surfaces (regions do wrap).
* Leaks of `p_img` and of masks; window attributes that nothing reads back.
* Xlib's insides: several threads use a display without `XInitThreads`, and
  WolfenRender takes each Xlib call as a step.  What the test client's signal
  handler calls is taken as if it could be called there.
* Names of screens and vendors, the counting of their digits
  (`wolfen_digit_count`), the Wayland socket, RandR before 1.2, and hotplug
  (for which there is no code).
* Frame callbacks are never fired and buffers never released: there is no code
  to model beyond their being stored.
* The test client after the `mmap` that always fails; what it would request are
  requests of WolfenShell.
* The Motif header and the build files: constants.  Builds without XRandR or
  Xinerama do not compile (`wolfen.c:434` and `449` lack a semicolon).

Worth proving next: that the steps of WolfenSegments, and those of the main
thread in WolfenRender, add up to the commit of WolfenShell, which so far only
the text of section 2 says.  `ThreadUndisturbed`, `UndisturbedTurnsSucceed` and
`TurnsAreAtomic` cover the turns of a thread.
