--------------------------- MODULE WolfenDisplay ----------------------------
(***************************************************************************)
(* How the server starts: it connects to the X server, asks which          *)
(* extensions there are, makes its list of screens from XRandR, Xinerama   *)
(* or the core protocol, and serves Wayland clients, whose windows go to   *)
(* the default screen.  Screens, outputs and heads count from 1 here.      *)
(*                                                                         *)
(* Xlib ends the program when a request fails.  Names of screens and their *)
(* allocation are left out, and so is the Wayland socket: a server that    *)
(* gets none runs all the same.                                            *)
(***************************************************************************)
EXTENDS WolfenPnpIds, Integers

CONSTANTS
  Server,     \* the X servers to start on
  Area,       \* geometries on a screen
  Length,     \* widths and heights in millimetres
  Text,       \* texts of EDID descriptors
  MaxChanges  \* how often compositors start or stop

(* A CRTC drives the outputs it shows; NoCrtc is None. *)
CONSTANT NoCrtc

Rotations == {"rotate_0", "rotate_90", "rotate_180", "rotate_270", "reflect_x", "reflect_y"}

Crtc == [area : Area, rotation : SUBSET Rotations]

Subpixel == {"unknown", "horizontal_rgb", "horizontal_bgr", "vertical_rgb", "vertical_bgr", "none"}

(* The parts of an EDID that are read: whether its header is right, bytes 8 and
   9, and its four descriptors. *)
Edid ==
  [valid : BOOLEAN, maker : (0..255) \X (0..255),
   descriptors : Seq([kind : {"name", "text", "other"}, text : Text])]

Output ==
  [connected : BOOLEAN, crtc : Crtc \cup {NoCrtc}, mm : Length \X Length, subpixel : Subpixel,
   props : Seq({"EDID", "other"}), edid : Edid]

Extension == {"randr", "xinerama", "vidmode", "shape", "shm"}

(* primary is 0 if no output is; compositing is what the screens start with. *)
XServer ==
  [reachable : BOOLEAN, has : [Extension -> BOOLEAN],
   outputs : Seq(Output), primary : Nat,
   active : BOOLEAN, heads : Seq(Area),
   screens : Seq([area : Area, mm : Length \X Length, compositing : BOOLEAN,
                  vendor : BOOLEAN, model : BOOLEAN]),
   default : Nat]

ASSUME DisplayAssumption ==
  /\ Area \subseteq [x : Int, y : Int, width : Nat, height : Nat]
  /\ Length \subseteq Nat
  /\ Server \subseteq XServer
  /\ \A s \in Server : s.default \in DOMAIN s.screens /\ s.primary \in 0..Len(s.outputs)
  /\ MaxChanges \in Nat

VARIABLES
  server,            \* the X server
  compositing,       \* whether each core screen has a compositing manager now
  changes,           \* how often that changed
  pc,                \* what main does
  has,               \* x_has_*
  i,                 \* the loop's counter
  is_compositing,    \* whether the default screen had a compositing manager before the loop
  cut,               \* strtok has been through wolfen_pnp_ids
  screen,            \* the WolfenScreens made, in the order of their making
  x_screen_list,     \* their numbers as listed
  x_screen_default,  \* one of them, Null or Unset
  x_screen_count,
  window,            \* the last window made, NoWindow before
  ended              \* why the server ended

vars == <<server, compositing, changes, pc, has, i, is_compositing, cut, screen, x_screen_list, x_screen_default,
          x_screen_count, window, ended>>

Null == 0
Unset == -1
NoWindow == <<>>

Init ==
  /\ server \in Server
  /\ compositing = [n \in DOMAIN server.screens |-> server.screens[n].compositing]
  /\ changes = 0
  /\ pc = "connect" /\ ended = "no"
  /\ has = [e \in {} |-> FALSE]
  /\ i = 1 /\ is_compositing = FALSE /\ cut = FALSE
  /\ screen = <<>> /\ x_screen_list = <<>> /\ x_screen_default = Unset /\ x_screen_count = 0
  /\ window = NoWindow

End(why) ==
  /\ pc' = "ended" /\ ended' = why
  /\ UNCHANGED <<server, compositing, changes, has, i, is_compositing, cut, screen,
                 x_screen_list, x_screen_default, x_screen_count, window>>

-----------------------------------------------------------------------------
(* Without XRender: support for it is switched off. *)
Flags == [e \in Extension \cup {"render"} |-> e # "render" /\ server.has[e]]

Connect ==
  /\ pc = "connect" /\ server.reachable
  /\ has' = Flags
  /\ pc' = "screens"
  /\ UNCHANGED <<server, compositing, changes, i, is_compositing, cut, screen, x_screen_list,
                 x_screen_default, x_screen_count, window, ended>>

(* XSynchronize of the NULL XOpenDisplay returned. *)
CannotConnect == pc = "connect" /\ ~server.reachable /\ End("no_display")

(* Mutant: no screen is made of a single head. *)
MutWay ==
  IF has["randr"] THEN "xrandr"
  ELSE IF has["xinerama"] /\ (~server.active \/ Len(server.heads) = 1) THEN "wayland"
  ELSE IF has["xinerama"] THEN "xinerama"
  ELSE "core"

(* Which way screens are found.  An inactive Xinerama leaves none. *)
Way ==
  IF has["randr"] THEN "xrandr"
  ELSE IF ~has["xinerama"] THEN "core"
  ELSE IF ~server.active THEN "wayland"
  ELSE IF Len(server.heads) > 1 THEN "xinerama"
  ELSE "core"

SetupScreens ==
  /\ pc = "screens"
  /\ pc' = Way
  /\ x_screen_default' = IF pc' = "xrandr" THEN Null ELSE x_screen_default
  /\ x_screen_count' = CASE pc' = "xinerama" -> Len(server.heads)
                         [] pc' = "core" -> Len(server.screens)
                         [] OTHER -> x_screen_count
  /\ is_compositing' = compositing[server.default]
  /\ UNCHANGED <<server, compositing, changes, has, i, cut, screen, x_screen_list, window, ended>>

(* wl_list_insert puts a screen first. *)
AddScreen(scr) ==
  /\ screen' = Append(screen, scr)
  /\ x_screen_list' = <<Len(screen')>> \o x_screen_list
  /\ i' = i + 1
  /\ UNCHANGED <<server, compositing, changes, pc, has, is_compositing, x_screen_count, window, ended>>

(* The loop is over. *)
ScreensDone(default) ==
  /\ x_screen_default' = default
  /\ pc' = "wayland"
  /\ UNCHANGED <<server, compositing, changes, has, i, is_compositing, cut, screen, x_screen_list, x_screen_count,
                 window, ended>>

-----------------------------------------------------------------------------
(* wolfen_display_create_screens_xrandr *)

(* Whether the loop over the output's properties meets the EDID atom: it looks
   at the property whose number is the output's, which there may be or not. *)
EdidFound(props) ==
  IF props = <<>> THEN {FALSE}
  ELSE IF i <= Len(props) THEN {props[i] = "EDID"}
  ELSE BOOLEAN

(* The property is there, and what it holds is an EDID. *)
UsesEdid(out) == (\E p \in DOMAIN out.props : out.props[p] = "EDID") /\ out.edid.valid

(* Mutant: the third letter is one too far. *)
MutEdidMake(edid) ==
  LET k == Lookup(cut, [edid.maker EXCEPT ![2] = @ + 1]) IN IF k = 0 THEN "junk" ELSE Vendors[k]

(* make stays unwritten if the lookup finds nothing. *)
EdidMake(edid) ==
  LET k == Lookup(cut, edid.maker) IN IF k = 0 THEN "junk" ELSE Vendors[k]

(* The last descriptor that is a name or another text; model stays unwritten
   if none is. *)
EdidModel(edid) ==
  LET texts == {d \in DOMAIN edid.descriptors : edid.descriptors[d].kind \in {"name", "text"}} IN
  IF texts = {} THEN "junk" ELSE edid.descriptors[Max(texts)].text

(* The rotation is compared with one flag only, so a reflected one is none of
   the three. *)
Transform(rotation) ==
  CASE rotation = {"rotate_90"} -> "90"
    [] rotation = {"rotate_180"} -> "180"
    [] rotation = {"rotate_270"} -> "270"
    [] OTHER -> IF rotation \cap {"reflect_x", "reflect_y"} # {} THEN "flipped" ELSE "normal"

(* Mutant: the outputs that are not connected make screens. *)
MutSkipOutput == FALSE

SkipOutput == ~server.outputs[i].connected

(* Mutant: an output that is not connected does not advance the loop. *)
MutNextOutput == pc = "xrandr" /\ i <= Len(server.outputs) /\ SkipOutput /\ UNCHANGED vars

NextOutput ==
  /\ pc = "xrandr" /\ i <= Len(server.outputs) /\ SkipOutput
  /\ i' = i + 1
  /\ UNCHANGED <<server, compositing, changes, pc, has, is_compositing, cut, screen, x_screen_list,
                 x_screen_default, x_screen_count, window, ended>>

XrandrScreen(out, edid) ==
  [type |-> "xrandr", number |-> i, area |-> out.crtc.area,
   mm |-> <<out.mm[1], out.mm[1]>>, tf |-> Transform(out.crtc.rotation), sp |-> out.subpixel,
   is_compositing |-> is_compositing,
   make |-> IF edid THEN EdidMake(out.edid) ELSE "own",
   model |-> IF edid THEN EdidModel(out.edid) ELSE ""]

ConnectedOutput ==
  /\ pc = "xrandr" /\ i <= Len(server.outputs) /\ ~SkipOutput
  /\ LET out == server.outputs[i] IN
     /\ out.crtc # NoCrtc
     /\ \E found \in EdidFound(out.props) :
          /\ AddScreen(XrandrScreen(out, found /\ UsesEdid(out)))
          /\ cut' = (cut \/ (found /\ UsesEdid(out)))
  /\ x_screen_default' = IF x_screen_default = Null /\ i = server.primary
                         THEN Len(screen') ELSE x_screen_default

(* XRRGetCrtcInfo of None fails. *)
OutputWithoutCrtc ==
  /\ pc = "xrandr" /\ i <= Len(server.outputs) /\ ~SkipOutput
  /\ server.outputs[i].crtc = NoCrtc
  /\ End("bad_crtc")

(* Mutant: the first output is the default. *)
MutXrandrDefault == IF screen = <<>> THEN Null ELSE 1

(* The primary output, or else the first. *)
XrandrDefault ==
  IF x_screen_default # Null THEN x_screen_default
  ELSE IF screen = <<>> THEN Null
  ELSE 1

OutputsDone == pc = "xrandr" /\ i > Len(server.outputs) /\ ScreensDone(XrandrDefault)

-----------------------------------------------------------------------------
(* wolfen_display_create_screens_xinerama *)
XineramaScreen(area) ==
  [type |-> "xinerama", number |-> i, area |-> area, mm |-> <<area.width, area.height>>,
   tf |-> "normal", sp |-> "unknown", is_compositing |-> is_compositing,
   make |-> "own", model |-> "Screen"]

XineramaHead ==
  /\ pc = "xinerama" /\ i <= x_screen_count
  /\ AddScreen(XineramaScreen(server.heads[i]))
  /\ UNCHANGED <<cut, x_screen_default>>

HeadsDone == pc = "xinerama" /\ i > x_screen_count /\ ScreensDone(1)

-----------------------------------------------------------------------------
(* wolfen_display_create_screens_core *)

CoreScreenOf(scr) ==
  [type |-> "core", number |-> i,
   area |-> [scr.area EXCEPT !.x = 0, !.y = 0], mm |-> scr.mm,
   tf |-> "normal", sp |-> "unknown", is_compositing |-> compositing[i],
   make |-> IF has["vidmode"] /\ scr.vendor THEN "monitor" ELSE "own",
   model |-> IF has["vidmode"] /\ scr.model THEN "monitor" ELSE "Screen"]

CoreScreen ==
  /\ pc = "core" /\ i <= x_screen_count
  /\ AddScreen(CoreScreenOf(server.screens[i]))
  /\ UNCHANGED <<cut, x_screen_default>>

CoreDone == pc = "core" /\ i > x_screen_count /\ ScreensDone(server.default)

-----------------------------------------------------------------------------
(* wlonx_display_create_wl and wlonx_display_run *)
Serve ==
  /\ pc = "wayland"
  /\ pc' = "run"
  /\ UNCHANGED <<server, compositing, changes, has, i, is_compositing, cut, screen,
                 x_screen_list, x_screen_default, x_screen_count, window, ended>>

(* Mutant: a Xinerama screen's windows go to the core screen of its number. *)
MutCoreScreenNumber(scr) == scr.number

(* wolfen_screen_get_core_screen *)
CoreScreenNumber(scr) == IF scr.type = "core" THEN scr.number ELSE server.default

MakesWindow(core, composited) ==
  /\ window' = [core |-> core, shaped |-> has["shm"] /\ ~composited]
  /\ UNCHANGED <<server, compositing, changes, pc, has, i, is_compositing, cut, screen, x_screen_list,
                 x_screen_default, x_screen_count, ended>>

(* A client's surface gets its window, as WolfenShell has it in detail. *)
CreateWindow ==
  /\ pc = "run" /\ x_screen_default \in DOMAIN screen
  /\ LET default == screen[x_screen_default] IN
     MakesWindow(CoreScreenNumber(default), default.is_compositing)

(* The default screen is NULL, or a pointer nobody has written. *)
CreateWindowNowhere ==
  /\ pc = "run" /\ x_screen_default \notin DOMAIN screen
  /\ \/ End("no_screen")
     \/ /\ x_screen_default = Unset
        /\ \E core \in DOMAIN compositing, composited \in BOOLEAN :
             MakesWindow(core, composited)

(* A compositing manager starts or stops. *)
CompositorChanges ==
  /\ changes < MaxChanges
  /\ \E n \in DOMAIN compositing : compositing' = [compositing EXCEPT ![n] = ~@]
  /\ changes' = changes + 1
  /\ UNCHANGED <<server, pc, has, i, is_compositing, cut, screen, x_screen_list, x_screen_default,
                 x_screen_count, window, ended>>

StartUp ==
  \/ Connect \/ CannotConnect \/ SetupScreens
  \/ NextOutput \/ ConnectedOutput \/ OutputWithoutCrtc \/ OutputsDone
  \/ XineramaHead \/ HeadsDone
  \/ CoreScreen \/ CoreDone
  \/ Serve

Next == StartUp \/ CreateWindow \/ CreateWindowNowhere \/ CompositorChanges

(* Start-up goes on by itself; clients and compositors need not come. *)
Spec == Init /\ [][Next]_vars /\ WF_vars(StartUp)

-----------------------------------------------------------------------------
Started == pc \in {"wayland", "run"}

(* Something to find: a connected output, or no inactive Xinerama. *)
Detected ==
  IF server.has["randr"] THEN \E o \in DOMAIN server.outputs : server.outputs[o].connected
  ELSE server.has["xinerama"] => server.active

GoodServer ==
  /\ server.reachable /\ Detected
  /\ server.has["randr"] =>
       \A o \in DOMAIN server.outputs : server.outputs[o].connected => server.outputs[o].crtc # NoCrtc

(* What there is to list, by its number on the X server, and its geometry. *)
Found ==
  IF has["randr"] THEN {o \in DOMAIN server.outputs : server.outputs[o].connected}
  ELSE IF has["xinerama"] /\ ~server.active THEN {}
  ELSE IF has["xinerama"] /\ Len(server.heads) > 1 THEN DOMAIN server.heads
  ELSE DOMAIN server.screens

AreaOf(n) ==
  IF has["randr"] THEN server.outputs[n].crtc.area
  ELSE IF has["xinerama"] /\ Len(server.heads) > 1 THEN server.heads[n]
  ELSE [server.screens[n].area EXCEPT !.x = 0, !.y = 0]

Listed(n) == screen[x_screen_list[n]]

(* The list has a screen for each connected output, head or core screen, once,
   with its geometry, the last one first, and no other screen is made. *)
ScreensFound ==
  Started =>
    /\ Len(x_screen_list) = Len(screen)
    /\ {Listed(n).number : n \in DOMAIN x_screen_list} = Found
    /\ \A n, m \in DOMAIN x_screen_list : n < m => Listed(n).number > Listed(m).number
    /\ \A n \in DOMAIN x_screen_list : Listed(n).area = AreaOf(Listed(n).number)

(* x_screen_default is a listed screen wherever there was one to find: the
   primary output if it is connected, else the first connected output; the first
   head; the display's default screen. *)
DefaultRight ==
  Started /\ Detected =>
    /\ x_screen_default \in Range(x_screen_list)
    /\ LET default == screen[x_screen_default] IN
       CASE default.type = "xrandr" ->
              IF server.primary # 0 /\ server.outputs[server.primary].connected
              THEN default.number = server.primary
              ELSE \A o \in 1 .. default.number - 1 : ~server.outputs[o].connected
         [] default.type = "xinerama" -> default.number = 1
         [] default.type = "core" -> default.number = server.default

(* While no compositing manager starts or stops, a window is shaped just when the
   core screen it is on has none, whichever way screens were found. *)
ShapedIfNoCompositor ==
  GoodServer /\ changes = 0 /\ window # NoWindow =>
    /\ window.core \in DOMAIN compositing
    /\ window.shaped = (server.has["shm"] /\ ~compositing[window.core])

(* A make is never that of another monitor, and after the first EDID only the
   first vendor of the table can still be found. *)
MakesRight ==
  LET named == {n \in DOMAIN screen : screen[n].make \notin {"own", "monitor", "junk"}} IN
  /\ \A n \in named : screen[n].make = PnpName(server.outputs[screen[n].number].edid.maker)
  /\ Cardinality({n \in named : screen[n].make # Vendors[1]}) <= 1

(* A good server is not ended by its start-up or by windows. *)
StaysUp == GoodServer => pc # "ended"

(* Why StaysUp holds: each loop has made the screens it has counted, so that
   there is a default screen when it ends. *)
DisplayInv ==
  /\ server \in XServer /\ server.default \in DOMAIN server.screens
  /\ pc \in {"connect", "screens", "xrandr", "xinerama", "core", "wayland", "run", "ended"}
  /\ i \in Nat \ {0}
  /\ pc \notin {"connect", "ended"} => \A e \in {"randr", "xinerama"} : has[e] = server.has[e]
  /\ pc = "xrandr" =>
       /\ has["randr"]
       /\ x_screen_default \in 0..Len(screen)
       /\ (\E o \in 1 .. i - 1 : o <= Len(server.outputs) /\ server.outputs[o].connected)
            => Len(screen) >= 1
  /\ pc = "xinerama" =>
       x_screen_count = Len(server.heads) /\ x_screen_count > 1 /\ Len(screen) = i - 1
  /\ pc = "core" => x_screen_count = Len(server.screens) /\ Len(screen) = i - 1
  /\ Started /\ Detected => x_screen_default \in 1..Len(screen)
  /\ StaysUp

(* A good server serves its clients in the end. *)
StartsUp == GoodServer => <>(pc = "run")

=============================================================================
