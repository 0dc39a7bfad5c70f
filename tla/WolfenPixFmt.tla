---------------------------- MODULE WolfenPixFmt ----------------------------
(***************************************************************************)
(* The pixel formats of wolfen-pixfmt.c: which X visual a wl_shm buffer is *)
(* shown with, and whether its pixels go through a babl fish on the way.   *)
(*                                                                         *)
(* An X display is a record [visuals, screen, default_visual]: the visuals *)
(* of all its core screens, the core screen in use and that screen's       *)
(* default visual.  A visual keeps the XVisualInfo fields the code         *)
(* compares; the three colour masks are one field, "888" standing for      *)
(* 0xff0000/0xff00/0xff.  A template is the part of an XVisualInfo that    *)
(* its mask names, so xvi_mask is its DOMAIN.                              *)
(***************************************************************************)
EXTENDS Integers

CONSTANT NULL

(* The formats the switch statements know; wl_display_init_shm lets a client
   create buffers of these two only. *)
ShmFormat == {"ARGB8888", "XRGB8888"}

STRICT == 0
LOOSE == 1
VERY_LOOSE == 2
SUPER_LOOSE == 3

Visual == [screen : Nat, class : {"TrueColor", "PseudoColor"}, depth : Nat,
           rgb : {"888", "other"}, bits_per_rgb : Nat, visualid : Nat]

VisualField == {"screen", "class", "depth", "rgb", "bits_per_rgb", "visualid"}

(* What XOpenDisplay can give: the default visual is one of the screen's. *)
IsDisplay(display) ==
  /\ display.visuals \subseteq Visual
  /\ display.default_visual \in display.visuals
  /\ display.default_visual.screen = display.screen

(* Mutant: the strict template forgets the colour masks. *)
MutStrictTemplate(display) ==
  [screen |-> display.screen, class |-> "TrueColor", depth |-> 32, bits_per_rgb |-> 8]

(* wolfen_xvi_template_from_wl_fmt and the three functions it selects.  The
   loose one overwrites a mask that had VisualScreenMask: LOOSE and VERY_LOOSE
   are satisfied by visuals of every core screen. *)
StrictTemplate(display) ==
  [screen |-> display.screen, class |-> "TrueColor", depth |-> 32, rgb |-> "888",
   bits_per_rgb |-> 8]

Template(display, format, looseness) ==
  CASE looseness = SUPER_LOOSE ->
         [screen   |-> display.screen,
          visualid |-> display.default_visual.visualid,
          depth    |-> display.default_visual.depth]
    [] looseness # SUPER_LOOSE /\ format \notin ShmFormat -> [screen |-> display.screen]
    [] looseness = STRICT /\ format \in ShmFormat -> StrictTemplate(display)
    [] looseness = LOOSE /\ format \in ShmFormat ->
         [class |-> "TrueColor", depth |-> 32]
    [] looseness = VERY_LOOSE /\ format \in ShmFormat ->
         [class |-> "TrueColor", depth |-> 24]

XGetVisualInfo(display, template) ==
  {v \in display.visuals : \A f \in DOMAIN template : v[f] = template[f]}

Found(display, format, looseness) ==
  XGetVisualInfo(display, Template(display, format, looseness))

(* xvis[0]: Xlib lists the screens one after the other, and the visuals of each
   in one fixed order. *)
FirstVisual(visuals) == CHOOSE v \in visuals : \A u \in visuals : v.screen <= u.screen

(* wolfen_xvi2babl answers NULL for any other class, and babl_fish refuses a
   NULL format by aborting the process. *)
HasBabl(xvi) == xvi.class = "TrueColor"

(* A WolfenPixelFmt.  pixman_fmt and wl_fmt_has_transparency are functions of
   wl_fmt; xvi_babl and wl_babl are set together with fish. *)
PixelFmt == [wl_fmt : ShmFormat, xvi : Visual, xvi_mask : SUBSET VisualField,
             fish : BOOLEAN]

NewFmt(display, format, looseness) ==
  [wl_fmt   |-> format,
   xvi      |-> FirstVisual(Found(display, format, looseness)),
   xvi_mask |-> DOMAIN Template(display, format, looseness),
   fish     |-> looseness # STRICT]

(* What wolfen_fmt_from_wl_fmt promises: the visual of the strictest template
   some visual satisfies.  Module WolfenFmtSearch is its loop. *)
Strictest(display, format) ==
  CHOOSE l \in STRICT .. SUPER_LOOSE :
    /\ Found(display, format, l) # {}
    /\ \A k \in STRICT .. (l - 1) : Found(display, format, k) = {}

FmtFromWl(display, format) ==
  NewFmt(display, format, Strictest(display, format))

(* The visuals whose pixels have the byte layout of both wl_shm formats. *)
SameLayout(xvi) ==
  /\ xvi.class = "TrueColor"
  /\ xvi.depth \in {24, 32}
  /\ xvi.rgb = "888"
  /\ xvi.bits_per_rgb = 8

(* wolfen_fmt_from_xvi_for_wl_fmt: the format for a visual already in use. *)
FmtFromXvi(xvi, xvi_mask, format) ==
  IF format \in ShmFormat
  THEN [wl_fmt   |-> format,
        xvi      |-> xvi,
        xvi_mask |-> xvi_mask,
        fish     |-> ~( /\ {"class", "depth", "rgb", "bits_per_rgb"} \subseteq xvi_mask
                        /\ SameLayout(xvi))]
  ELSE NULL

=============================================================================
