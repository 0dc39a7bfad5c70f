------------------------- MODULE WolfenPixFmtProofs -------------------------
(***************************************************************************)
(* What the pixel formats promise on every X server: the search has a      *)
(* result, a format without a fish needs none, and the two ways to make a  *)
(* format agree; and, in the second half, that the loop of WolfenFmtSearch *)
(* ends with the visual WolfenPixFmt's FmtFromWl describes.                *)
(***************************************************************************)
EXTENDS WolfenFmtSearch, WellFoundedInduction, TLAPS

(* Of visuals there is a first. *)
LEMMA FirstVisualFound ==
  ASSUME NEW visuals \in SUBSET Visual, visuals # {}
  PROVE  FirstVisual(visuals) \in visuals
<1> DEFINE screens == {v.screen : v \in visuals}
<1>1. screens \in SUBSET Nat
  BY DEF Visual
<1>2. PICK m \in screens : \A k \in screens : ~(<<k, m>> \in OpToRel(<, Nat))
  <2>1. screens # {}
    OBVIOUS
  <2> HIDE DEF screens
  <2> QED
    BY <1>1, <2>1, NatLessThanWellFounded, WFMin
<1>3. PICK v \in visuals : v.screen = m
  OBVIOUS
<1>4. ASSUME NEW u \in visuals PROVE v.screen <= u.screen
  <2>1. u.screen \in Nat /\ m \in Nat /\ ~(u.screen < m)
    BY <1>1, <1>2 DEF OpToRel
  <2> QED
    BY <1>3, <2>1
<1> QED
  BY <1>4 DEF FirstVisual

(* What is found are visuals. *)
LEMMA FoundVisuals ==
  ASSUME NEW d, IsDisplay(d), NEW f, NEW l
  PROVE  Found(d, f, l) \in SUBSET Visual
  BY DEF Found, XGetVisualInfo, IsDisplay

(* A template compares fields of an XVisualInfo only. *)
LEMMA TemplateFields ==
  ASSUME NEW d, NEW f, NEW l \in STRICT .. SUPER_LOOSE
  PROVE  DOMAIN Template(d, f, l) \subseteq VisualField
<1> USE DEF STRICT, LOOSE, VERY_LOOSE, SUPER_LOOSE, VisualField
<1>1. CASE l = SUPER_LOOSE
  BY <1>1 DEF Template
<1>2. CASE l # SUPER_LOOSE /\ f \notin ShmFormat
  BY <1>2 DEF Template
<1>3. CASE l = STRICT /\ f \in ShmFormat
  BY <1>3 DEF Template, StrictTemplate
<1>4. CASE l = LOOSE /\ f \in ShmFormat
  BY <1>4 DEF Template
<1>5. CASE l = VERY_LOOSE /\ f \in ShmFormat
  BY <1>5 DEF Template
<1> QED
  BY <1>1, <1>2, <1>3, <1>4, <1>5

(* The template of each looseness. *)
LEMMA Templates ==
  ASSUME NEW d, NEW f
  PROVE  /\ Template(d, f, 3) = [screen   |-> d.screen,
                                 visualid |-> d.default_visual.visualid,
                                 depth    |-> d.default_visual.depth]
         /\ f \in ShmFormat =>
              /\ Template(d, f, 0) = StrictTemplate(d)
              /\ Template(d, f, 1) = [class |-> "TrueColor", depth |-> 32]
              /\ Template(d, f, 2) = [class |-> "TrueColor", depth |-> 24]
<1> USE DEF STRICT, LOOSE, VERY_LOOSE, SUPER_LOOSE
<1>1. Template(d, f, 3) = [screen   |-> d.screen,
                           visualid |-> d.default_visual.visualid,
                           depth    |-> d.default_visual.depth]
  BY DEF Template
<1>2. ASSUME f \in ShmFormat PROVE Template(d, f, 0) = StrictTemplate(d)
  BY <1>2 DEF Template
<1>3. ASSUME f \in ShmFormat PROVE Template(d, f, 1) = [class |-> "TrueColor", depth |-> 32]
  BY <1>3 DEF Template
<1>4. ASSUME f \in ShmFormat PROVE Template(d, f, 2) = [class |-> "TrueColor", depth |-> 24]
  BY <1>4 DEF Template
<1> QED
  BY <1>1, <1>2, <1>3, <1>4

(* The default visual satisfies the loosest template. *)
LEMMA DefaultFound ==
  ASSUME NEW d, IsDisplay(d), NEW f
  PROVE  d.default_visual \in Found(d, f, SUPER_LOOSE)
<1>1. Found(d, f, 3) = {v \in d.visuals : /\ v["screen"] = d.screen
                                         /\ v["visualid"] = d.default_visual.visualid
                                         /\ v["depth"] = d.default_visual.depth}
  BY Templates DEF Found, XGetVisualInfo
<1> QED
  BY <1>1 DEF IsDisplay, SUPER_LOOSE

(* There is a strictest template that some visual satisfies. *)
LEMMA StrictestFound ==
  ASSUME NEW d, IsDisplay(d), NEW f
  PROVE  /\ Strictest(d, f) \in STRICT .. SUPER_LOOSE
         /\ Found(d, f, Strictest(d, f)) # {}
         /\ \A k \in STRICT .. (Strictest(d, f) - 1) : Found(d, f, k) = {}
<1> DEFINE Ok(l) == /\ Found(d, f, l) # {}
                    /\ \A k \in STRICT .. (l - 1) : Found(d, f, k) = {}
<1>1. \E l \in STRICT .. SUPER_LOOSE : Ok(l)
  <2>1. Found(d, f, 3) # {}
    BY DefaultFound DEF SUPER_LOOSE
  <2>2. CASE Found(d, f, 0) # {}
    BY <2>2 DEF STRICT, SUPER_LOOSE
  <2>3. CASE Found(d, f, 0) = {} /\ Found(d, f, 1) # {}
    <3>1. Ok(1)
      BY <2>3 DEF STRICT, SUPER_LOOSE
    <3> QED
      BY <3>1 DEF STRICT, SUPER_LOOSE
  <2>4. CASE Found(d, f, 0) = {} /\ Found(d, f, 1) = {} /\ Found(d, f, 2) # {}
    <3>1. \A k \in STRICT .. (2 - 1) : k = 0 \/ k = 1
      BY DEF STRICT
    <3>2. Ok(2)
      BY <2>4, <3>1
    <3> QED
      BY <3>2 DEF STRICT, SUPER_LOOSE
  <2>5. CASE Found(d, f, 0) = {} /\ Found(d, f, 1) = {} /\ Found(d, f, 2) = {}
    <3>1. \A k \in STRICT .. (3 - 1) : k = 0 \/ k = 1 \/ k = 2
      BY DEF STRICT
    <3>2. Ok(3)
      BY <2>1, <2>5, <3>1
    <3> QED
      BY <3>2 DEF STRICT, SUPER_LOOSE
  <2> QED
    BY <2>2, <2>3, <2>4, <2>5
<1> QED
  BY <1>1 DEF Strictest

(* wolfen_fmt_from_wl_fmt returns a format of one of the server's visuals. *)
LEMMA FmtFromWlType ==
  ASSUME NEW d, IsDisplay(d), NEW f \in ShmFormat
  PROVE  /\ FmtFromWl(d, f) \in PixelFmt
         /\ FmtFromWl(d, f).wl_fmt = f
         /\ FmtFromWl(d, f).xvi \in d.visuals
<1> DEFINE l == Strictest(d, f)
<1>1. FirstVisual(Found(d, f, l)) \in Found(d, f, l)
  BY StrictestFound, FoundVisuals, FirstVisualFound
<1>2. Found(d, f, l) \subseteq d.visuals
  BY DEF Found, XGetVisualInfo
<1>3. DOMAIN Template(d, f, l) \subseteq VisualField
  BY StrictestFound, TemplateFields
<1> QED
  BY <1>1, <1>2, <1>3 DEF FmtFromWl, NewFmt, PixelFmt, IsDisplay

(* The visual a format of wolfen_fmt_from_wl_fmt has: without a fish it matched
   the strict template; with one, the fields that would make a fish needless
   are not all in its mask. *)
LEMMA FmtFromWlFish ==
  ASSUME NEW d, IsDisplay(d), NEW f \in ShmFormat
  PROVE  LET fmt == FmtFromWl(d, f) IN
         /\ ~fmt.fish => /\ fmt.xvi_mask = {"screen", "class", "depth", "rgb", "bits_per_rgb"}
                         /\ SameLayout(fmt.xvi)
         /\ fmt.fish => "rgb" \notin fmt.xvi_mask
<1> DEFINE l == Strictest(d, f)
           fmt == FmtFromWl(d, f)
<1> HIDE DEF l
<1>0. l \in 0 .. 3 /\ Found(d, f, l) # {}
  BY StrictestFound DEF l, STRICT, SUPER_LOOSE
<1>1. /\ fmt.xvi = FirstVisual(Found(d, f, l))
      /\ fmt.xvi_mask = DOMAIN Template(d, f, l)
      /\ fmt.fish = (l # 0)
  BY DEF FmtFromWl, NewFmt, l, STRICT
<1>2. fmt.xvi \in Found(d, f, l)
  BY <1>0, <1>1, FoundVisuals, FirstVisualFound
<1>3. CASE l = 0
  <2>1. Template(d, f, l) = StrictTemplate(d)
    BY <1>3, Templates
  <2>2. fmt.xvi_mask = {"screen", "class", "depth", "rgb", "bits_per_rgb"}
    BY <1>1, <2>1 DEF StrictTemplate
  <2>3. SameLayout(fmt.xvi)
    BY <1>2, <2>1 DEF Found, XGetVisualInfo, StrictTemplate, SameLayout
  <2> QED
    BY <1>1, <1>3, <2>2, <2>3
<1>4. CASE l # 0
  <2>1. CASE l = 1
    <3>1. fmt.xvi_mask = DOMAIN Template(d, f, 1)
      BY <1>1, <2>1
    <3>2. "rgb" \notin DOMAIN Template(d, f, 1)
      BY Templates
    <3> QED
      BY <1>1, <1>4, <3>1, <3>2
  <2>2. CASE l = 2
    <3>1. fmt.xvi_mask = DOMAIN Template(d, f, 2)
      BY <1>1, <2>2
    <3>2. "rgb" \notin DOMAIN Template(d, f, 2)
      BY Templates
    <3> QED
      BY <1>1, <1>4, <3>1, <3>2
  <2>3. CASE l = 3
    <3>1. fmt.xvi_mask = DOMAIN Template(d, f, 3)
      BY <1>1, <2>3
    <3>2. "rgb" \notin DOMAIN Template(d, f, 3)
      BY Templates
    <3> QED
      BY <1>1, <1>4, <3>1, <3>2
  <2> QED
    BY <1>0, <1>1, <1>4, <2>1, <2>2, <2>3
<1> QED
  BY <1>3, <1>4

(* The two ways to make a format agree: a format made for the visual and the
   mask of one that wolfen_fmt_from_wl_fmt returned needs a fish exactly if
   that one does, whatever the two wl formats are. *)
THEOREM FormatsAgree ==
  ASSUME NEW d, IsDisplay(d), NEW f \in ShmFormat, NEW g \in ShmFormat
  PROVE  LET fmt == FmtFromWl(d, f) IN
         FmtFromXvi(fmt.xvi, fmt.xvi_mask, g) = [fmt EXCEPT !.wl_fmt = g]
<1> DEFINE fmt == FmtFromWl(d, f)
<1>1. fmt \in PixelFmt
  BY FmtFromWlType
<1>2. [fmt EXCEPT !.wl_fmt = g] =
        [wl_fmt |-> g, xvi |-> fmt.xvi, xvi_mask |-> fmt.xvi_mask, fish |-> fmt.fish]
  BY <1>1 DEF PixelFmt
<1>3. fmt.fish \in BOOLEAN
  BY <1>1 DEF PixelFmt
<1>4. fmt.fish = ~( /\ {"class", "depth", "rgb", "bits_per_rgb"} \subseteq fmt.xvi_mask
                    /\ SameLayout(fmt.xvi))
  BY <1>3, FmtFromWlFish
<1> QED
  BY <1>2, <1>4 DEF FmtFromXvi

(* On a server with a TrueColor visual of 24 or 32 planes the format found has
   a TrueColor visual, so babl is never given a NULL format. *)
LEMMA FmtFromWlTrueColor ==
  ASSUME NEW d, IsDisplay(d), NEW f \in ShmFormat,
         \E v \in d.visuals : v.class = "TrueColor" /\ v.depth \in {24, 32}
  PROVE  HasBabl(FmtFromWl(d, f).xvi)
<1> DEFINE l == Strictest(d, f)
           xvi == FmtFromWl(d, f).xvi
<1> HIDE DEF l
<1>0. /\ l \in 0 .. 3 /\ Found(d, f, l) # {}
      /\ \A k \in 0 .. (l - 1) : Found(d, f, k) = {}
  BY StrictestFound DEF l, STRICT, SUPER_LOOSE
<1>1. xvi \in Found(d, f, l)
  BY <1>0, FoundVisuals, FirstVisualFound DEF FmtFromWl, NewFmt, l
<1>2. PICK v \in d.visuals : v.class = "TrueColor" /\ v.depth \in {24, 32}
  OBVIOUS
<1>3. l # 3
  <2>1. CASE v.depth = 32
    <3>1. v \in Found(d, f, 1)
      BY <1>2, <2>1, Templates DEF Found, XGetVisualInfo
    <3> QED
      BY <1>0, <3>1
  <2>2. CASE v.depth = 24
    <3>1. v \in Found(d, f, 2)
      BY <1>2, <2>2, Templates DEF Found, XGetVisualInfo
    <3> QED
      BY <1>0, <3>1
  <2> QED
    BY <1>2, <2>1, <2>2
<1>4. CASE l = 0
  BY <1>1, <1>4, Templates DEF Found, XGetVisualInfo, StrictTemplate, HasBabl
<1>5. CASE l = 1
  BY <1>1, <1>5, Templates DEF Found, XGetVisualInfo, HasBabl
<1>6. CASE l = 2
  BY <1>1, <1>6, Templates DEF Found, XGetVisualInfo, HasBabl
<1> QED
  BY <1>0, <1>3, <1>4, <1>5, <1>6

(* The visual found is of the screen in use if this has one of the strict
   template, or if there is no other screen.  (Otherwise the first screen with a
   TrueColor visual of 32 planes, or else of 24, is taken.) *)
THEOREM SearchStaysOnScreen ==
  ASSUME NEW d, IsDisplay(d), NEW f \in ShmFormat,
         \/ Found(d, f, STRICT) # {}
         \/ \A v \in d.visuals : v.screen = d.screen
  PROVE  FmtFromWl(d, f).xvi.screen = d.screen
<1>1. CASE Found(d, f, STRICT) # {}
  <2>1. Strictest(d, f) = STRICT
    BY <1>1, StrictestFound DEF STRICT, SUPER_LOOSE
  <2>2. FmtFromWl(d, f).xvi \in Found(d, f, 0)
    BY <1>1, <2>1, FoundVisuals, FirstVisualFound DEF FmtFromWl, NewFmt, STRICT
  <2> QED
    BY <2>2, Templates DEF Found, XGetVisualInfo, StrictTemplate
<1>2. CASE \A v \in d.visuals : v.screen = d.screen
  BY <1>2, FmtFromWlType
<1> QED
  BY <1>1, <1>2

-----------------------------------------------------------------------------
(* The search. *)

(* Every template before the present one was tried in vain, so the one that
   some visual satisfies is the strictest. *)
SearchInv ==
  /\ display \in Display /\ format \in ShmFormat
  /\ looseness \in STRICT .. SUPER_LOOSE
  /\ \A k \in STRICT .. (looseness - 1) : Found(display, format, k) = {}
  /\ xvis \subseteq Visual
  /\ pc \in {"loop", "found", "done", "aborted"}
  /\ pc = "loop" => ret = NULL
  /\ pc = "found" => /\ xvis = Found(display, format, looseness) /\ xvis # {}
                     /\ ret = NULL
  /\ pc = "done" => ret = FmtFromWl(display, format)
  /\ pc = "aborted" => ret = NULL /\ ~HasBabl(FmtFromWl(display, format).xvi)

(* Only one template is the strictest. *)
LEMMA StrictestIs ==
  ASSUME NEW d, IsDisplay(d), NEW f, NEW l \in STRICT .. SUPER_LOOSE, Found(d, f, l) # {},
         \A k \in STRICT .. (l - 1) : Found(d, f, k) = {}
  PROVE  Strictest(d, f) = l
<1> DEFINE m == Strictest(d, f)
<1>1. /\ m \in STRICT .. SUPER_LOOSE /\ Found(d, f, m) # {}
      /\ \A k \in STRICT .. (m - 1) : Found(d, f, k) = {}
  BY StrictestFound
<1> HIDE DEF m
<1>2. ~(m < l)
  BY <1>1 DEF STRICT, SUPER_LOOSE
<1>3. ~(l < m)
  BY <1>1 DEF STRICT, SUPER_LOOSE
<1> QED
  BY <1>1, <1>2, <1>3 DEF STRICT, SUPER_LOOSE, m

LEMMA InitSearch == SearchInit => SearchInv
BY DEF SearchInit, SearchInv, STRICT, SUPER_LOOSE

LEMMA NextSearch == SearchInv /\ [SearchNext]_searchVars => SearchInv'
<1> SUFFICES ASSUME SearchInv, [SearchNext]_searchVars  PROVE  SearchInv'
  OBVIOUS
<1>1. IsDisplay(display)
  BY DisplayAssumption DEF SearchInv
<1>2. CASE TryTemplate
  <2>1. Found(display, format, looseness) \subseteq Visual
    BY <1>1 DEF Found, XGetVisualInfo, IsDisplay
  <2>2. looseness = SUPER_LOOSE => Found(display, format, looseness) # {}
    BY <1>1, DefaultFound
  <2>3. CASE Found(display, format, looseness) = {}
    <3>1. looseness' = looseness + 1 /\ pc' = "loop" /\ xvis' = {}
      BY <1>2, <2>3 DEF TryTemplate
    <3>2. looseness' \in STRICT .. SUPER_LOOSE
      BY <2>2, <2>3, <3>1 DEF SearchInv, STRICT, SUPER_LOOSE
    <3>3. \A k \in STRICT .. (looseness' - 1) : Found(display, format, k) = {}
      <4>1. \A k \in STRICT .. (looseness' - 1) : k = looseness \/ k \in STRICT .. (looseness - 1)
        BY <3>1 DEF SearchInv, STRICT, SUPER_LOOSE
      <4> QED
        BY <2>3, <4>1 DEF SearchInv
    <3>4. UNCHANGED <<display, format, ret>> /\ ret = NULL
      BY <1>2 DEF TryTemplate, SearchInv
    <3> QED
      BY <3>1, <3>2, <3>3, <3>4 DEF SearchInv
  <2>4. CASE Found(display, format, looseness) # {}
    <3>1. /\ looseness' = looseness /\ pc' = "found"
          /\ xvis' = Found(display, format, looseness)
          /\ UNCHANGED <<display, format, ret>> /\ ret = NULL
      BY <1>2, <2>4 DEF TryTemplate, SearchInv
    <3> QED
      BY <2>1, <2>4, <3>1 DEF SearchInv
  <2> QED
    BY <2>3, <2>4
<1>3. CASE TakeVisual
  <2>1. /\ xvis = Found(display, format, looseness) /\ xvis # {}
        /\ UNCHANGED <<display, format, looseness, xvis>>
    BY <1>3 DEF TakeVisual, SearchInv
  <2>2. Strictest(display, format) = looseness
    BY <1>1, <2>1, StrictestIs DEF SearchInv
  <2>3. FmtFromWl(display, format) =
          [wl_fmt   |-> format,
           xvi      |-> FirstVisual(xvis),
           xvi_mask |-> DOMAIN Template(display, format, looseness),
           fish     |-> looseness # STRICT]
    BY <2>1, <2>2 DEF FmtFromWl, NewFmt
  <2>4. \/ pc' = "done" /\ ret' = FmtFromWl(display, format)
        \/ pc' = "aborted" /\ ret' = NULL /\ ~HasBabl(FirstVisual(xvis))
    BY <1>3, <2>3 DEF TakeVisual
  <2>5. FirstVisual(xvis) = FmtFromWl(display, format).xvi
    BY <2>3
  <2> QED
    BY <2>1, <2>4, <2>5 DEF SearchInv
<1>4. CASE UNCHANGED searchVars
  BY <1>4 DEF searchVars, SearchInv
<1> QED
  BY <1>2, <1>3, <1>4 DEF SearchNext

LEMMA SearchInvariance == SearchSpec => []SearchInv
BY InitSearch, NextSearch, PTL DEF SearchSpec

(* The search returns what FmtFromWl promises, on every server. *)
THEOREM SearchIsStrictest == SearchSpec => []ReturnsStrictest
<1>1. SearchInv => ReturnsStrictest
  BY DEF SearchInv, ReturnsStrictest
<1> QED
  BY <1>1, SearchInvariance, PTL

(* It ends in babl's abort only on a server without a TrueColor visual of 24
   or 32 planes. *)
THEOREM AbortsRightly == SearchSpec => []AbortsOnlyWithoutTrueColor
<1>1. SearchInv => AbortsOnlyWithoutTrueColor
  BY DisplayAssumption, FmtFromWlTrueColor DEF SearchInv, AbortsOnlyWithoutTrueColor
<1> QED
  BY <1>1, SearchInvariance, PTL

(* Pixels are shown unconverted only on a visual of their own layout. *)
THEOREM FishWhereNeeded == SearchSpec => []NoFishMeansSameLayout
<1>1. SearchInv => NoFishMeansSameLayout
  BY DisplayAssumption, FmtFromWlFish DEF SearchInv, NoFishMeansSameLayout
<1> QED
  BY <1>1, SearchInvariance, PTL

(* The search keeps to its templates, and what it returns is a pixel format. *)
THEOREM SearchTypeCorrect == SearchSpec => []SearchTypeOK
<1>1. SearchInv => SearchTypeOK
  BY DisplayAssumption, FmtFromWlType DEF SearchInv, SearchTypeOK
<1> QED
  BY <1>1, SearchInvariance, PTL

=============================================================================
