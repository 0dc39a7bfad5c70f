---------------------------- MODULE WolfenImage -----------------------------
(***************************************************************************)
(* The pixels of a wl_shm buffer on their way to the screen: converted by  *)
(* a fish if the visual needs it, copied into a shared memory segment if   *)
(* there is Xext, and put on the window by its thread.  Before that, the   *)
(* commit that makes the window gives it the shape of the image if there   *)
(* is no compositor: wolfen_surface_mask_generate makes one bit per pixel, *)
(* set where its alpha is not zero, one action per iteration of its inner  *)
(* loop.  The mask is never freed: nothing calls wolfen_surface_mask_free. *)
(*                                                                         *)
(* Memory is counted in pixels, which are of four bytes in every wl_shm    *)
(* format and every babl format the code makes (the visual is taken to be  *)
(* of 24 or 32 planes).  A word is the pixel of the buffer it comes from   *)
(* and whether a fish has converted it; memory past an end holds Junk.  A  *)
(* read or a write there may end the server (crash) or go on with whatever *)
(* is there.                                                               *)
(***************************************************************************)
EXTENDS Integers

CONSTANTS
  ShmBuffer,  \* width, height and stride, as wl_shm accepts them, and the
              \* words of its memory whose alpha is not zero
  ByteBits,   \* 8 in the code
  Junk

(* libwayland only checks that a row has as many bytes as the width. *)
ASSUME ImageAssumption ==
  /\ ByteBits \in Nat \ {0}
  /\ \A b \in ShmBuffer : /\ b.width \in Nat \ {0} /\ b.height \in Nat \ {0}
                          /\ b.stride \in Nat \ {0} /\ 4 * b.stride >= b.width
                          /\ b.opaque \subseteq Nat
  /\ Junk \notin [pixel : Nat, fished : BOOLEAN]

VARIABLES
  buffer,
  fish,               \* the format needs a conversion
  x_has_shm,
  shaped,             \* the commit makes a window that is to have a shape
  conversion_buffer,
  x_data,             \* what x_img->data points to
  bytes_per_line,     \* of x_img
  x, y,               \* the pixel whose turn it is
  c, s,               \* the bit and the byte of data before it
  data,               \* the bits set, each <<byte, bit>>
  mask,               \* the bitmap: the pixels of the window's shape
  screen,             \* the pixels of the window
  pc

importVars == <<conversion_buffer, x_data, bytes_per_line>>
loopVars == <<x, y, c, s, data>>
vars == <<buffer, fish, x_has_shm, shaped, importVars, loopVars, mask, screen, pc>>

width == buffer.width
height == buffer.height
strid == buffer.stride

Word(k, fished) == [pixel |-> k, fished |-> fished]

(* The buffer's memory: stride * height words. *)
Source == [k \in 0 .. strid * height - 1 |-> Word(k, FALSE)]

At(memory, k) == IF k \in DOMAIN memory THEN memory[k] ELSE Junk

Fished(word) == IF word = Junk THEN Junk ELSE Word(word.pixel, TRUE)

Init ==
  /\ buffer \in ShmBuffer
  /\ fish \in BOOLEAN /\ x_has_shm \in BOOLEAN
  /\ shaped \in {FALSE, x_has_shm}
  /\ conversion_buffer = <<>> /\ x_data = <<>> /\ bytes_per_line = 0
  /\ x = 0 /\ y = 0 /\ c = 0 /\ s = 0
  /\ data = {} /\ mask = {}
  /\ screen = <<>>
  /\ pc = "convert"

Given == UNCHANGED <<buffer, fish, x_has_shm, shaped>>

-----------------------------------------------------------------------------
(* The import. *)

(* The conversion counts pixels in a row, whatever the stride. *)
Pxcount == width * height

Convert ==
  /\ pc = "convert"
  /\ conversion_buffer' =
       IF fish THEN [k \in 0 .. Pxcount - 1 |-> Fished(At(Source, k))] ELSE conversion_buffer
  /\ pc' = "image"
  /\ Given /\ UNCHANGED <<x_data, bytes_per_line, loopVars, mask, screen>>

(* Mutant: the conversion is forgotten. *)
MutDataForX == Source

DataForX == IF fish THEN conversion_buffer ELSE Source

(* Mutant: rows are copied with one word of padding. *)
MutCopied == (strid + 1) * height

(* What shmget and memcpy count. *)
Copied == strid * height

(* XShmCreateImage computes the length of its lines from the width. *)
CreateShmImage ==
  /\ pc = "image" /\ x_has_shm
  /\ x_data' = [k \in 0 .. Copied - 1 |-> At(DataForX, k)]
  /\ bytes_per_line' = width
  /\ pc' = IF shaped THEN "scan" ELSE "put"
  /\ Given /\ UNCHANGED <<conversion_buffer, loopVars, mask, screen>>

(* XCreateImage takes the stride, and answers NULL when it is too short. *)
CreateImage ==
  /\ pc = "image" /\ ~x_has_shm
  /\ IF strid < width THEN pc' = "null_image" /\ UNCHANGED <<x_data, bytes_per_line>>
     ELSE pc' = "put" /\ x_data' = DataForX /\ bytes_per_line' = strid
  /\ Given /\ UNCHANGED <<conversion_buffer, loopVars, mask, screen>>

(* The fish reads a word for each pixel, memcpy a buffer's worth of whatever
   the image is made from. *)
ConversionInside == fish => Pxcount <= strid * height
CopyInside == 0 .. Copied - 1 \subseteq DOMAIN DataForX

-----------------------------------------------------------------------------
(* The mask. *)

(* The bytes calloc returned. *)
Allocated == (width * height) \div ByteBits

(* Mutant: rows and columns the right way round. *)
MutIndex == y * width + x

(* The pixel the code reads for (x, y). *)
Index == x * width + y

(* What its alpha says: what the client drew, unless a fish has been at it or
   it is past the end of the image. *)
Alpha ==
  LET word == At(x_data, Index)
  IN IF word = Junk THEN BOOLEAN
     ELSE IF word.fished THEN BOOLEAN
     ELSE {word.pixel \in buffer.opaque}

(* Mutant: the byte is full one bit later. *)
MutFull == c > ByteBits

(* Mutant: the byte is full one bit earlier. *)
MutFullEarly == c >= ByteBits - 1

Full == c >= ByteBits

(* Mutant: the bit skipped over at the end of a byte is the next one's first. *)
MutBit == IF Full THEN 1 ELSE c

Byte == IF Full THEN s + 1 ELSE s
Bit == IF Full THEN 0 ELSE c

Scan ==
  /\ pc = "scan"
  /\ \E alpha \in Alpha : data' = IF alpha THEN data \cup {<<Byte, Bit>>} ELSE data
  /\ c' = Bit + 1 /\ s' = Byte
  /\ x' = IF x + 1 < width THEN x + 1 ELSE 0
  /\ y' = IF x + 1 < width THEN y ELSE y + 1
  /\ pc' = IF x + 1 < width \/ y + 1 < height THEN "scan" ELSE "bitmap"
  /\ Given /\ UNCHANGED <<importVars, mask, screen>>

ReadsInside == Index \in DOMAIN x_data
WritesInside == Byte < Allocated

(* XCreateBitmapFromData: every row starts on a byte of its own. *)
RowBytes == (width + ByteBits - 1) \div ByteBits

BitmapInside == RowBytes * height <= Allocated

InBitmap(px, py) == <<py * RowBytes + px \div ByteBits, px % ByteBits>>

(* The bits past the memory are anything. *)
CreateBitmap ==
  /\ pc = "bitmap"
  /\ \E junk \in SUBSET ((Allocated .. RowBytes * height - 1) \X (0 .. ByteBits - 1)) :
       mask' = {p \in (0 .. width - 1) \X (0 .. height - 1) :
                  InBitmap(p[1], p[2]) \in data \cup junk}
  /\ pc' = "put"
  /\ Given /\ UNCHANGED <<importVars, loopVars, screen>>

-----------------------------------------------------------------------------
Pixel == (0 .. width - 1) \X (0 .. height - 1)

(* Where a pixel of the image is in its memory. *)
InImage(px, py) == py * bytes_per_line + px

(* The thread puts the image: Xlib reads its lines, or the X server does, and a
   segment too small for them is a BadAccess. *)
Put ==
  /\ pc = "put"
  /\ IF x_has_shm /\ strid < width THEN pc' = "bad_access" /\ UNCHANGED screen
     ELSE /\ pc' = "done"
          /\ screen' = [p \in Pixel |-> At(x_data, InImage(p[1], p[2]))]
  /\ Given /\ UNCHANGED <<importVars, loopVars, mask>>

LinesInside == \A p \in Pixel : InImage(p[1], p[2]) \in DOMAIN x_data

-----------------------------------------------------------------------------
(* Any read or write past an end may be the last one. *)
MayCrash ==
  /\ \/ pc = "convert" /\ ~ConversionInside
     \/ pc = "image" /\ x_has_shm /\ ~CopyInside
     \/ pc = "scan" /\ (~ReadsInside \/ (~WritesInside /\ TRUE \in Alpha))
     \/ pc = "bitmap" /\ ~BitmapInside
     \/ pc = "put" /\ ~x_has_shm /\ ~LinesInside
  /\ pc' = "crashed"
  /\ Given /\ UNCHANGED <<importVars, loopVars, mask, screen>>

Next == Convert \/ CreateShmImage \/ CreateImage \/ Scan \/ CreateBitmap \/ MayCrash \/ Put

Spec == Init /\ [][Next]_vars

-----------------------------------------------------------------------------
Words == [pixel : 0 .. strid * height - 1, fished : BOOLEAN] \cup {Junk}

(* The type invariant: the conversion buffer has the size of the picture, the
   segment that of the buffer. *)
TypeOK ==
  /\ buffer \in ShmBuffer /\ fish \in BOOLEAN /\ x_has_shm \in BOOLEAN /\ shaped \in BOOLEAN
  /\ conversion_buffer \in [0 .. width * height - 1 -> Words] \cup {<<>>}
  /\ x_data \in [0 .. strid * height - 1 -> Words] \cup [0 .. width * height - 1 -> Words] \cup {<<>>}
  /\ bytes_per_line \in {0, width, strid}
  /\ x \in 0 .. width - 1 /\ y \in 0 .. height
  /\ c \in 0 .. ByteBits /\ s \in Nat
  /\ data \subseteq Nat \X (0 .. ByteBits - 1)
  /\ mask \subseteq Pixel
  /\ screen \in [Pixel -> Words] \cup {<<>>}
  /\ pc \in {"convert", "image", "scan", "bitmap", "put", "null_image", "bad_access", "crashed", "done"}

(* What the client drew, in the colours of the visual. *)
Wanted == [p \in Pixel |-> Word(p[2] * strid + p[1], fish)]

(* A buffer without padding is shown as it was drawn, with or without Xext or a
   conversion, whatever shape the window gets. *)
TightIsRight ==
  strid = width => /\ pc \notin {"null_image", "bad_access"}
                   /\ pc = "done" => screen = Wanted

(* Without a conversion only memory of the buffer itself is read, whatever its
   stride. *)
NoJunkUnlessFished ==
  ~fish => /\ \A k \in DOMAIN x_data : x_data[k] # Junk
           /\ \A p \in DOMAIN screen : screen[p] # Junk

(* The pixels scanned so far are counted by the bits passed, whatever happens
   to the two counters at the end of a byte and of a row. *)
BitsCountPixels ==
  /\ s * ByteBits + c = y * width + x
  /\ c = 0 => s = 0 /\ x = 0 /\ y = 0

(* No import, mask or put of a regular buffer reads or writes past an end: its
   rows are not too short, and not padded if a fish converts them, and where
   the window gets a shape, no wider than high and of whole bytes. *)
RegularShape == width <= height /\ width % ByteBits = 0

Regular ==
  /\ strid >= width
  /\ fish => strid = width
  /\ shaped => RegularShape

RegularIsSafe ==
  Regular => /\ pc = "scan" => ReadsInside /\ WritesInside
             /\ pc # "crashed"

(* A square window of whole bytes per row, whose buffer is neither padded nor
   converted, has the shape of the pixels it shows opaque, transposed. *)
ShapeTransposed ==
  pc = "done" /\ shaped /\ RegularShape /\ strid = width /\ width = height /\ ~fish =>
    mask = {p \in Pixel : screen[<<p[2], p[1]>>].pixel \in buffer.opaque}

=============================================================================
