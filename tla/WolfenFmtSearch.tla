-------------------------- MODULE WolfenFmtSearch ---------------------------
(***************************************************************************)
(* The loop of wolfen_fmt_from_wl_fmt, one action per turn, from the       *)
(* strictest template to the loosest, until the X server knows a visual    *)
(* that satisfies one.  `display' and `format' are the arguments of the    *)
(* call; they are variables so that one run covers every server of Display.*)
(***************************************************************************)
EXTENDS WolfenPixFmt

CONSTANT Display   \* the X servers the search is run against

ASSUME DisplayAssumption == \A d \in Display : IsDisplay(d)

VARIABLES display, format, looseness, xvis, ret, pc

searchVars == <<display, format, looseness, xvis, ret, pc>>

(* Mutant: the search begins one template too late. *)
MutSearchInit ==
  /\ display \in Display
  /\ format \in ShmFormat
  /\ looseness = LOOSE
  /\ xvis = {}
  /\ ret = NULL
  /\ pc = "loop"

SearchInit ==
  /\ display \in Display
  /\ format \in ShmFormat
  /\ looseness = STRICT
  /\ xvis = {}
  /\ ret = NULL
  /\ pc = "loop"

(* Mutant: looseness++ is forgotten. *)
MutTryTemplate ==
  /\ pc = "loop"
  /\ looseness <= SUPER_LOOSE
  /\ xvis' = Found(display, format, looseness)
  /\ IF xvis' = {} THEN UNCHANGED <<looseness, pc>>
                   ELSE looseness' = looseness /\ pc' = "found"
  /\ UNCHANGED <<display, format, ret>>

(* Mutant: the template after the strict one is skipped. *)
MutTryTemplateSkips ==
  /\ pc = "loop"
  /\ looseness <= SUPER_LOOSE
  /\ xvis' = Found(display, format, looseness)
  /\ IF xvis' = {} THEN looseness' = looseness + (IF looseness = LOOSE THEN 2 ELSE 1) /\ pc' = "loop"
                   ELSE looseness' = looseness /\ pc' = "found"
  /\ UNCHANGED <<display, format, ret>>

(* One turn of `while (!xvis)'. *)
TryTemplate ==
  /\ pc = "loop"
  /\ looseness <= SUPER_LOOSE
  /\ xvis' = Found(display, format, looseness)
  /\ IF xvis' = {} THEN looseness' = looseness + 1 /\ pc' = "loop"
                   ELSE looseness' = looseness /\ pc' = "found"
  /\ UNCHANGED <<display, format, ret>>

(* After the loop: keep xvis[0] and, unless it matched strictly, ask babl for
   a fish, which aborts the process on a visual without a babl format. *)
TakeVisual ==
  /\ pc = "found"
  /\ IF looseness # STRICT /\ ~HasBabl(FirstVisual(xvis))
     THEN pc' = "aborted" /\ ret' = NULL
     ELSE pc' = "done" /\ ret' = [wl_fmt   |-> format,
                                  xvi      |-> FirstVisual(xvis),
                                  xvi_mask |-> DOMAIN Template(display, format, looseness),
                                  fish     |-> looseness # STRICT]
  /\ UNCHANGED <<display, format, looseness, xvis>>

SearchNext == TryTemplate \/ TakeVisual

SearchSpec == SearchInit /\ [][SearchNext]_searchVars /\ WF_searchVars(SearchNext)

-----------------------------------------------------------------------------
(* The range of every variable, and that a visual was found before it is taken. *)
SearchTypeOK ==
  /\ display \in Display
  /\ format \in ShmFormat
  /\ looseness \in STRICT .. SUPER_LOOSE
  /\ xvis \subseteq Visual
  /\ ret \in PixelFmt \cup {NULL}
  /\ pc \in {"loop", "found", "done", "aborted"}
  /\ pc = "found" => xvis # {}

(* wolfen_fmt_from_wl_fmt returns the format of the strictest template any
   visual satisfies, which may be a visual of another core screen: a window's
   visual depends on nothing but the server's screens, the one in use and the
   buffer's format. *)
ReturnsStrictest == pc = "done" => ret = FmtFromWl(display, format)

(* wolfen-pixfmt.h, "if these are NULL no pixel conversion needs to be done":
   a format without a fish has a visual with the layout of the wl_shm format. *)
NoFishMeansSameLayout == pc = "done" => (ret.fish \/ SameLayout(ret.xvi))

(* The search only ends in babl's abort on a server that offers no TrueColor
   visual of 24 or 32 planes on any screen. *)
AbortsOnlyWithoutTrueColor ==
  pc = "aborted" =>
    \A v \in display.visuals : v.class = "TrueColor" => v.depth \notin {24, 32}

(* The search ends on every server, at the latest with the default visual. *)
SearchEnds == <>(pc \in {"done", "aborted"})

=============================================================================
