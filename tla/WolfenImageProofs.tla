-------------------------- MODULE WolfenImageProofs -------------------------
(***************************************************************************)
(* Whatever the buffers and the number of bits in a byte: a buffer without *)
(* padding is shown as it was drawn, and one that needs no conversion      *)
(* never shows memory past its end; the loop of the mask counts its pixels *)
(* rightly, and a regular buffer is converted, copied, scanned and put     *)
(* inside its memory; a square window gets the shape of its picture        *)
(* transposed.                                                             *)
(***************************************************************************)
EXTENDS WolfenImage, TLAPS

LEMMA Sizes ==
  ASSUME buffer \in ShmBuffer
  PROVE  /\ width \in Nat \ {0} /\ height \in Nat \ {0} /\ strid \in Nat \ {0}
         /\ ByteBits \in Nat \ {0}
         /\ width * height \in Nat /\ strid * height \in Nat
<1>1. /\ width \in Nat \ {0} /\ height \in Nat \ {0} /\ strid \in Nat \ {0}
      /\ ByteBits \in Nat \ {0}
  BY ImageAssumption DEF width, height, strid
<1> QED
  BY <1>1

(* What an action leaves alone. *)
LEMMA GivenStays ==
  ASSUME Given
  PROVE  /\ buffer' = buffer /\ fish' = fish /\ x_has_shm' = x_has_shm /\ shaped' = shaped
         /\ width' = width /\ height' = height /\ strid' = strid
BY DEF Given, width, height, strid

LEMMA NextGiven ==
  ASSUME [Next]_vars
  PROVE  Given
BY DEF Next, Convert, CreateShmImage, CreateImage, Scan, CreateBitmap, MayCrash, Put, vars, Given

(* After the import there is an image, unless the server ended. *)
Imported == pc \in {"scan", "bitmap", "put", "bad_access", "done"}

Drawn == [k \in 0 .. strid * height - 1 |-> Word(k, fish)]

(* What the image holds: without a conversion the buffer's own words, with one
   the words of a buffer without padding. *)
PixelInv ==
  /\ fish \in BOOLEAN
  /\ pc = "convert" => x_data = <<>> /\ screen = <<>>
  /\ pc = "image" => /\ x_data = <<>> /\ screen = <<>>
                     /\ fish /\ strid = width => conversion_buffer = Drawn
  /\ pc = "null_image" => x_data = <<>> /\ screen = <<>> /\ strid < width
  /\ pc = "bad_access" => strid < width
  /\ pc = "crashed" => screen = <<>> /\ (~fish => x_data \in {<<>>, Drawn})
  /\ Imported => /\ (fish => strid = width) => x_data = Drawn
                 /\ bytes_per_line = IF x_has_shm THEN width ELSE strid
                 /\ ~x_has_shm => strid >= width
                 /\ pc # "done" => screen = <<>>
  /\ pc = "done" => /\ strid = width => screen = Wanted
                    /\ ~fish => \A p \in DOMAIN screen : screen[p] # Junk
  /\ Imported \/ pc \in {"convert", "image", "null_image", "crashed"}

(* A word of the buffer is not Junk, and a fish makes its pixel the visual's. *)
LEMMA WordsApart ==
  ASSUME NEW k \in Nat, NEW f \in BOOLEAN
  PROVE  Word(k, f) # Junk /\ Fished(Word(k, FALSE)) = Word(k, TRUE)
<1>1. \A g \in BOOLEAN : Word(k, g) \in [pixel : Nat, fished : BOOLEAN]
  BY DEF Word
<1>2. \A g \in BOOLEAN : Word(k, g) # Junk
  BY <1>1, ImageAssumption
<1>3. Word(k, FALSE).pixel = k
  BY DEF Word
<1> QED
  BY <1>2, <1>3 DEF Fished

(* Where a pixel is in memory. *)
LEMMA PixelInside ==
  ASSUME buffer \in ShmBuffer, strid >= width, NEW line \in {width, strid},
         NEW px \in 0 .. width - 1, NEW py \in 0 .. height - 1
  PROVE  py * line + px \in 0 .. strid * height - 1
<1>1. /\ width \in Nat \ {0} /\ height \in Nat \ {0} /\ strid \in Nat \ {0}
      /\ strid * height \in Nat
  BY Sizes
<1>2. PICK m \in Nat : height = m + 1 /\ py <= m
  BY <1>1
<1>3. py * line \in Nat /\ m * strid \in Nat
  BY <1>1, <1>2
<1>4. py * line <= py * strid
  <2>1. PICK n \in Nat : strid = line + n
    BY <1>1
  <2>2. py * strid = py * line + py * n /\ py * n \in Nat
    BY <1>1, <2>1
  <2> QED
    BY <1>1, <1>3, <2>2
<1>5. py * strid <= m * strid
  <2>1. PICK n \in Nat : m = py + n
    BY <1>1, <1>2
  <2>2. m * strid = py * strid + n * strid /\ n * strid \in Nat
    BY <1>1, <2>1
  <2> QED
    BY <1>1, <1>3, <2>2
<1>6. strid * height = m * strid + strid
  BY <1>1, <1>2
<1> QED
  BY <1>1, <1>3, <1>4, <1>5, <1>6

LEMMA PixelInvariance == Spec => [](buffer \in ShmBuffer /\ PixelInv)
<1> DEFINE Inv == buffer \in ShmBuffer /\ PixelInv
<1>1. Init => Inv
  BY DEF Init, PixelInv, Imported
<1>2. Inv /\ [Next]_vars => Inv'
  <2> SUFFICES ASSUME Inv, [Next]_vars PROVE Inv'
    OBVIOUS
  <2>g. /\ buffer' = buffer /\ fish' = fish /\ x_has_shm' = x_has_shm /\ shaped' = shaped
        /\ width' = width /\ height' = height /\ strid' = strid
    BY NextGiven, GivenStays
  <2>d. Drawn' = Drawn /\ Wanted' = Wanted
    BY <2>g DEF Drawn, Wanted, Pixel, Word
  <2>s. /\ width \in Nat \ {0} /\ height \in Nat \ {0} /\ strid \in Nat \ {0}
        /\ width * height \in Nat /\ strid * height \in Nat
    BY Sizes
  <2>1. CASE Convert
    <3>1. ASSUME fish, strid = width PROVE conversion_buffer' = Drawn
      <4>1. conversion_buffer' = [k \in 0 .. Pxcount - 1 |-> Fished(At(Source, k))]
        BY <2>1, <3>1 DEF Convert
      <4>2. Pxcount = strid * height
        BY <3>1 DEF Pxcount
      <4>3. \A k \in 0 .. strid * height - 1 : Fished(At(Source, k)) = Word(k, TRUE)
        <5> TAKE k \in 0 .. strid * height - 1
        <5>1. k \in Nat
          BY <2>s
        <5>2. At(Source, k) = Word(k, FALSE)
          BY DEF At, Source
        <5> QED
          BY <5>1, <5>2, WordsApart
      <4> QED
        BY <3>1, <4>1, <4>2, <4>3 DEF Drawn, PixelInv
    <3> QED
      BY <2>1, <2>g, <2>d, <3>1 DEF Convert, PixelInv, Imported
  <2>2. CASE CreateShmImage \/ CreateImage
    <3>1. ASSUME fish => strid = width PROVE DataForX = Drawn
      BY <2>2, <3>1 DEF PixelInv, DataForX, Drawn, Source, CreateShmImage, CreateImage
    <3>2. CASE CreateShmImage
      <4>1. ASSUME fish => strid = width PROVE x_data' = Drawn
        <5>1. \A k \in 0 .. strid * height - 1 : At(DataForX, k) = Word(k, fish)
          BY <3>1, <4>1 DEF At, Drawn
        <5> QED
          BY <3>2, <5>1 DEF CreateShmImage, Copied, Drawn
      <4> QED
        BY <2>g, <2>d, <3>2, <4>1 DEF CreateShmImage, PixelInv, Imported
    <3>3. CASE CreateImage
      BY <2>s, <2>g, <2>d, <3>1, <3>3 DEF CreateImage, PixelInv, Imported
    <3> QED
      BY <2>2, <3>2, <3>3
  <2>3. CASE Scan \/ CreateBitmap \/ MayCrash
    BY <2>3, <2>g, <2>d DEF Scan, CreateBitmap, MayCrash, PixelInv, Imported, importVars
  <2>4. CASE Put
    <3>1. CASE x_has_shm /\ strid < width
      BY <2>4, <2>g, <2>d, <3>1 DEF Put, PixelInv, Imported, importVars
    <3>2. CASE ~(x_has_shm /\ strid < width)
      <4>1. /\ strid >= width
            /\ bytes_per_line \in {width, strid}
        BY <2>4, <2>s, <3>2 DEF Put, PixelInv, Imported
      <4>2. screen' = [p \in Pixel |-> At(x_data, p[2] * bytes_per_line + p[1])]
        BY <2>4, <3>2 DEF Put, InImage
      <4>3. ASSUME fish => strid = width, NEW p \in Pixel
            PROVE  screen'[p] = Word(p[2] * bytes_per_line + p[1], fish)
        <5>1. p[1] \in 0 .. width - 1 /\ p[2] \in 0 .. height - 1
          BY DEF Pixel
        <5>2. p[2] * bytes_per_line + p[1] \in 0 .. strid * height - 1
          BY <4>1, <5>1, PixelInside
        <5>3. x_data = Drawn
          BY <2>4, <4>3 DEF Put, PixelInv, Imported
        <5> QED
          BY <4>2, <5>2, <5>3 DEF At, Drawn
      <4>4. ASSUME strid = width PROVE screen' = Wanted
        <5>1. \A p \in Pixel : screen'[p] = Word(p[2] * strid + p[1], fish)
          BY <4>1, <4>3, <4>4
        <5> QED
          BY <4>2, <5>1 DEF Wanted
      <4>5. ASSUME ~fish, NEW p \in DOMAIN screen' PROVE screen'[p] # Junk
        <5>1. p \in Pixel
          BY <4>2
        <5>2. p[2] * bytes_per_line + p[1] \in Nat
          BY <2>s, <4>1, <5>1, PixelInside DEF Pixel
        <5> QED
          BY <4>3, <4>5, <5>1, <5>2, WordsApart DEF PixelInv
      <4> QED
        BY <2>4, <2>g, <2>d, <3>2, <4>4, <4>5 DEF Put, PixelInv, Imported, importVars
    <3> QED
      BY <3>1, <3>2
  <2>5. CASE UNCHANGED vars
    BY <2>g, <2>d, <2>5 DEF vars, PixelInv, Imported, importVars
  <2> QED
    BY <2>1, <2>2, <2>3, <2>4, <2>5 DEF Next
<1> QED
  BY <1>1, <1>2, PTL DEF Spec

(* A buffer whose rows are not padded is shown as its client drew it, in the
   colours of the visual, with Xext or without. *)
THEOREM TightIsShown == Spec => []TightIsRight
<1>1. buffer \in ShmBuffer /\ PixelInv => TightIsRight
  BY Sizes DEF PixelInv, TightIsRight
<1> QED
  BY <1>1, PixelInvariance, PTL

(* Memory that is not the buffer's is never copied nor shown unless a conversion
   has been through it. *)
THEOREM OwnMemoryOnly == Spec => []NoJunkUnlessFished
<1>1. ASSUME buffer \in ShmBuffer, PixelInv PROVE NoJunkUnlessFished
  <2>1. ASSUME ~fish, NEW k \in DOMAIN x_data PROVE x_data[k] # Junk
    <3>1. CASE x_data = Drawn
      <4>1. k \in Nat
        BY <1>1, <2>1, <3>1, Sizes DEF Drawn
      <4> QED
        BY <1>1, <2>1, <3>1, <4>1, WordsApart DEF Drawn, PixelInv
    <3>2. CASE x_data = <<>>
      BY <2>1, <3>2
    <3> QED
      BY <1>1, <2>1, <3>1, <3>2 DEF PixelInv
  <2>2. ASSUME ~fish, NEW p \in DOMAIN screen PROVE screen[p] # Junk
    <3>1. CASE pc = "done"
      BY <1>1, <2>2, <3>1 DEF PixelInv
    <3>2. CASE screen = <<>>
      BY <2>2, <3>2
    <3> QED
      BY <1>1, <3>1, <3>2 DEF PixelInv
  <2> QED
    BY <2>1, <2>2 DEF NoJunkUnlessFished
<1> QED
  BY <1>1, PixelInvariance, PTL

-----------------------------------------------------------------------------
(* Where the loop is: what relates its counters. *)
InLoop ==
  /\ x \in Nat /\ y \in Nat /\ x < width
  /\ c \in 0 .. ByteBits /\ s \in Nat
  /\ BitsCountPixels
  /\ pc \in {"convert", "image", "scan"} => y < height
  /\ pc = "scan" => DOMAIN x_data = 0 .. strid * height - 1
  /\ pc \in {"scan", "bitmap"} => shaped

(* The next bit of the mask follows the one before. *)
LEMMA NextBit ==
  ASSUME buffer \in ShmBuffer, InLoop
  PROVE  Byte * ByteBits + Bit = y * width + x /\ Bit \in 0 .. ByteBits - 1 /\ Byte \in Nat
<1>1. width \in Nat \ {0} /\ ByteBits \in Nat \ {0}
  BY Sizes
<1>2. CASE Full
  <2>1. c = ByteBits
    BY <1>1, <1>2 DEF InLoop, Full
  <2>2. (s + 1) * ByteBits + 0 = s * ByteBits + c
    BY <1>1, <2>1 DEF InLoop
  <2> QED
    BY <1>1, <1>2, <2>2 DEF Byte, Bit, InLoop, BitsCountPixels
<1>3. CASE ~Full
  BY <1>1, <1>3 DEF Byte, Bit, Full, InLoop, BitsCountPixels
<1> QED
  BY <1>2, <1>3, Zenon

LEMMA LoopInvariance == Spec => [](buffer \in ShmBuffer /\ InLoop)
<1> DEFINE Inv == buffer \in ShmBuffer /\ InLoop
<1>1. Init => Inv
  <2> SUFFICES ASSUME Init PROVE Inv
    OBVIOUS
  <2>1. width \in Nat \ {0} /\ height \in Nat \ {0} /\ ByteBits \in Nat \ {0}
    BY Sizes DEF Init
  <2> QED
    BY <2>1 DEF Init, InLoop, BitsCountPixels
<1>2. Inv /\ [Next]_vars => Inv'
  <2> SUFFICES ASSUME Inv, [Next]_vars PROVE Inv'
    OBVIOUS
  <2>1. width \in Nat \ {0} /\ height \in Nat \ {0} /\ ByteBits \in Nat \ {0}
    BY Sizes
  <2>g. buffer' = buffer /\ shaped' = shaped /\ width' = width /\ height' = height /\ strid' = strid
    BY NextGiven, GivenStays
  <2>2. CASE Scan
    <3>2. Byte * ByteBits + Bit = y * width + x /\ Bit \in 0 .. ByteBits - 1 /\ Byte \in Nat
      BY NextBit
    <3>3. c' = Bit + 1 /\ s' = Byte /\ c' \in 0 .. ByteBits /\ s' \in Nat /\ c' # 0
      BY <2>1, <2>2, <3>2 DEF Scan
    <3>4. s' * ByteBits + c' = y * width + x + 1
      <4>1. Byte * ByteBits \in Nat /\ y * width \in Nat
        BY <2>1, <3>2 DEF InLoop
      <4> QED
        BY <2>1, <3>2, <3>3, <4>1 DEF InLoop
    <3>5. y' * width + x' = y * width + x + 1
      <4>1. CASE x + 1 < width
        BY <2>1, <2>2, <4>1 DEF Scan, InLoop
      <4>2. CASE ~(x + 1 < width)
        <5>1. x + 1 = width
          BY <2>1, <4>2 DEF InLoop
        <5>2. (y + 1) * width = y * width + width
          BY <2>1 DEF InLoop
        <5>3. x' = 0 /\ y' = y + 1
          BY <2>2, <4>2 DEF Scan
        <5> QED
          BY <2>1, <5>1, <5>2, <5>3 DEF InLoop
      <4> QED
        BY <4>1, <4>2
    <3>6. x' \in Nat /\ y' \in Nat /\ x' < width /\ (pc' = "scan" => y' < height)
          /\ pc' \in {"scan", "bitmap"} /\ x_data' = x_data
      BY <2>1, <2>2 DEF Scan, InLoop, importVars
    <3> QED
      BY <2>2, <2>g, <3>3, <3>4, <3>5, <3>6 DEF InLoop, BitsCountPixels, Scan
  <2>3. CASE CreateShmImage
    BY <2>1, <2>3, <2>g DEF CreateShmImage, Copied, InLoop, BitsCountPixels, loopVars
  <2>4. CASE Convert \/ CreateImage \/ CreateBitmap \/ MayCrash \/ Put
    <3>1. /\ UNCHANGED loopVars
          /\ pc' # "scan" /\ pc' # "bitmap" /\ pc' # "convert" /\ (pc' = "image" => pc = "convert")
      BY <2>4 DEF Convert, CreateImage, CreateBitmap, MayCrash, Put
    <3> QED
      BY <2>1, <2>g, <3>1 DEF InLoop, BitsCountPixels, loopVars
  <2>5. CASE UNCHANGED vars
    BY <2>1, <2>g, <2>5 DEF vars, InLoop, BitsCountPixels, loopVars, importVars
  <2> QED
    BY <2>2, <2>3, <2>4, <2>5 DEF Next
<1> QED
  BY <1>1, <1>2, PTL DEF Spec

(* The bits passed count the pixels scanned. *)
THEOREM BitsAreCounted == Spec => []BitsCountPixels
<1>1. InLoop => BitsCountPixels
  BY DEF InLoop
<1> QED
  BY <1>1, LoopInvariance, PTL

(* Division of whole bytes. *)
LEMMA Quotient ==
  ASSUME NEW b \in Nat \ {0}, NEW n \in Nat
  PROVE  (b * n) \div b = n /\ (b * n + b - 1) \div b = n
<1>1. b * n \in Nat
  OBVIOUS
<1>2. (b * n) \div b = n
  BY <1>1, SMTT(30)
<1>3. (b * n + b - 1) \div b = n
  BY <1>1, SMTT(30)
<1> QED
  BY <1>2, <1>3

(* Rows of a regular shape are whole bytes. *)
LEMMA RegularRows ==
  ASSUME buffer \in ShmBuffer, RegularShape
  PROVE  \E q \in Nat : /\ width = ByteBits * q
                       /\ RowBytes = q
                       /\ Allocated = q * height
<1>1. width \in Nat \ {0} /\ height \in Nat \ {0} /\ ByteBits \in Nat \ {0}
  BY Sizes
<1> DEFINE q == width \div ByteBits
<1>2. q \in Nat /\ width = ByteBits * q
  BY <1>1, SMTT(30) DEF RegularShape
<1> HIDE DEF q
<1>3. RowBytes = q
  BY <1>1, <1>2, Quotient DEF RowBytes
<1>4. width * height = ByteBits * (q * height) /\ q * height \in Nat
  BY <1>1, <1>2, SMTT(30)
<1>5. Allocated = q * height
  BY <1>1, <1>4, Quotient DEF Allocated
<1> QED
  BY <1>2, <1>3, <1>5

LEMMA ScanInside ==
  ASSUME buffer \in ShmBuffer, InLoop, RegularShape, strid >= width, pc = "scan"
  PROVE  ReadsInside /\ WritesInside
<1>1. /\ width \in Nat \ {0} /\ height \in Nat \ {0} /\ ByteBits \in Nat \ {0}
      /\ strid \in Nat \ {0} /\ width * height \in Nat /\ strid * height \in Nat
  BY Sizes
<1>2. /\ x \in Nat /\ y \in Nat /\ x < width /\ y < height
      /\ c \in 0 .. ByteBits /\ s \in Nat
      /\ s * ByteBits + c = y * width + x
  BY DEF InLoop, BitsCountPixels
<1>3. ReadsInside
  <2>1. width <= height
    BY DEF RegularShape
  <2>2. PICK m \in Nat : width = m + 1
    BY <1>1
  <2>3. x * width <= m * width
    BY <1>1, <1>2, <2>2
  <2>4. width * height = m * height + height /\ m * width <= m * height
    BY <1>1, <2>1, <2>2
  <2>5. x * width \in Nat /\ m * width \in Nat /\ m * height \in Nat
    BY <1>1, <1>2, <2>2
  <2>6. x * width + y < m * width + height
    BY <1>1, <1>2, <2>3, <2>5
  <2>7. x * width + y < width * height
    BY <1>1, <1>2, <2>4, <2>5, <2>6
  <2>8. width * height <= strid * height
    <3>1. PICK n \in Nat : strid = width + n
      BY <1>1
    <3>2. strid * height = width * height + n * height /\ n * height \in Nat
      BY <1>1, <3>1
    <3> QED
      BY <1>1, <3>2
  <2>9. DOMAIN x_data = 0 .. strid * height - 1
    BY DEF InLoop
  <2>10. x * width + y \in 0 .. strid * height - 1
    BY <1>1, <1>2, <2>5, <2>7, <2>8
  <2> QED
    BY <2>9, <2>10 DEF ReadsInside, Index
<1>4. WritesInside
  <2>1. PICK q \in Nat : width = ByteBits * q /\ Allocated = q * height
    BY RegularRows
  <2>2. y * width + x < height * width
    <3>1. PICK m \in Nat : height = m + 1
      BY <1>1
    <3>2. y * width <= m * width /\ height * width = m * width + width
      BY <1>1, <1>2, <3>1
    <3> QED
      BY <1>1, <1>2, <3>1, <3>2
  <2>3. height * width = ByteBits * (q * height) /\ q * height \in Nat
    BY <1>1, <2>1, SMTT(30)
  <2>4. Byte * ByteBits <= s * ByteBits + c /\ Byte \in Nat
    <3>1. CASE Full
      <4>1. c = ByteBits /\ (s + 1) * ByteBits = s * ByteBits + ByteBits
        BY <1>1, <1>2, <3>1 DEF Full
      <4> QED
        BY <1>1, <1>2, <3>1, <4>1 DEF Byte
    <3>2. CASE ~Full
      BY <1>1, <1>2, <3>2 DEF Byte
    <3> QED
      BY <3>1, <3>2
  <2>5. ByteBits * Byte < ByteBits * (q * height)
    BY <1>1, <1>2, <2>2, <2>3, <2>4
  <2>6. Byte < q * height
    <3>1. SUFFICES ASSUME q * height <= Byte PROVE FALSE
      BY <2>3, <2>4
    <3>2. ByteBits * (q * height) <= ByteBits * Byte
      BY <1>1, <2>3, <2>4, <3>1
    <3> QED
      BY <1>1, <2>3, <2>4, <2>5, <3>2
  <2> QED
    BY <2>1, <2>6 DEF WritesInside
<1> QED
  BY <1>3, <1>4

(* The import and the put of a regular buffer stay inside their memory: the
   fish reads no more pixels than there are, what is copied is as long as the
   segment, and every pixel of the image is in it. *)
LEMMA ImportInside ==
  ASSUME buffer \in ShmBuffer, PixelInv, Regular
  PROVE  /\ ConversionInside
         /\ pc = "image" => CopyInside
         /\ pc = "put" /\ ~x_has_shm => LinesInside
<1>1. /\ width \in Nat \ {0} /\ height \in Nat \ {0} /\ strid \in Nat \ {0}
      /\ strid >= width /\ (fish => strid = width)
  BY Sizes DEF Regular
<1>2. ConversionInside
  BY <1>1 DEF ConversionInside, Pxcount
<1>3. ASSUME pc = "image" PROVE CopyInside
  <2>1. DataForX = Drawn
    BY <1>1, <1>3 DEF PixelInv, DataForX, Drawn, Source
  <2> QED
    BY <2>1 DEF CopyInside, Copied, Drawn
<1>4. ASSUME pc = "put", ~x_has_shm PROVE LinesInside
  <2>1. x_data = Drawn /\ bytes_per_line = strid
    BY <1>1, <1>4 DEF PixelInv, Imported
  <2>2. ASSUME NEW p \in Pixel PROVE InImage(p[1], p[2]) \in 0 .. strid * height - 1
    BY <1>1, <2>1, PixelInside DEF InImage, Pixel
  <2> QED
    BY <2>1, <2>2 DEF LinesInside, Drawn
<1> QED
  BY <1>2, <1>3, <1>4

(* A regular buffer is converted, copied, scanned and put inside its memory, and
   so is the bitmap made of it: nothing that is read or written for it ends the
   server. *)
THEOREM RegularNeverFaults == Spec => []RegularIsSafe
<1> DEFINE Inv == buffer \in ShmBuffer /\ InLoop /\ PixelInv
           Safe == Regular => pc # "crashed"
<1>1. Init => Safe
  BY DEF Init
<1>2. Inv /\ Safe /\ [Next]_vars => Safe'
  <2> SUFFICES ASSUME Inv, Safe, [Next]_vars, Regular' PROVE (pc # "crashed")'
    OBVIOUS
  <2>1. /\ width' = width /\ height' = height /\ strid' = strid /\ fish' = fish /\ shaped' = shaped
    BY NextGiven, GivenStays
  <2>2. Regular
    BY <2>1 DEF Regular, RegularShape
  <2>3. ~MayCrash
    <3>1. pc = "scan" => ReadsInside /\ WritesInside
      BY <2>2, ScanInside DEF Regular, InLoop
    <3>2. pc = "bitmap" => BitmapInside
      <4>1. height \in Nat
        BY Sizes
      <4> QED
        BY <2>2, <4>1, RegularRows DEF BitmapInside, Regular, InLoop
    <3> QED
      BY <2>2, <3>1, <3>2, ImportInside DEF MayCrash
  <2>4. CASE Scan \/ CreateBitmap \/ Convert \/ CreateShmImage \/ CreateImage \/ Put
    BY <2>4 DEF Scan, CreateBitmap, Convert, CreateShmImage, CreateImage, Put
  <2>5. CASE UNCHANGED vars
    BY <2>2, <2>5 DEF vars
  <2> QED
    BY <2>3, <2>4, <2>5 DEF Next
<1>3. Inv /\ Safe => RegularIsSafe
  BY ScanInside DEF RegularIsSafe, Regular, InLoop
<1> QED
  BY <1>1, <1>2, <1>3, LoopInvariance, PixelInvariance, PTL DEF Spec

-----------------------------------------------------------------------------
(* Types. *)

LEMMA WordsTyped ==
  ASSUME buffer \in ShmBuffer, NEW S, NEW memory \in [S -> Words] \cup {<<>>}, NEW k
  PROVE  At(memory, k) \in Words /\ Fished(At(memory, k)) \in Words
<1>1. At(memory, k) \in Words
  BY DEF At, Words
<1>2. ASSUME NEW w \in Words PROVE Fished(w) \in Words
  <2>1. CASE w = Junk
    BY <2>1 DEF Fished, Words
  <2>2. CASE w # Junk
    BY <2>2 DEF Fished, Words, Word
  <2> QED
    BY <2>1, <2>2
<1> QED
  BY <1>1, <1>2

LEMMA SourceTyped ==
  ASSUME buffer \in ShmBuffer
  PROVE  Source \in [0 .. strid * height - 1 -> Words]
BY DEF Source, Word, Words

(* The conversion buffer has the size of the picture, a segment that of the
   buffer, and no counter leaves its range, whatever the buffer. *)
THEOREM ImageTypeCorrect == Spec => []TypeOK
<1> DEFINE Inv == buffer \in ShmBuffer /\ InLoop
<1>1. ASSUME Init PROVE TypeOK
  <2>1. width \in Nat \ {0} /\ height \in Nat \ {0} /\ ByteBits \in Nat \ {0}
    BY <1>1, Sizes DEF Init
  <2>2. 0 \in 0 .. width - 1 /\ 0 \in 0 .. height /\ 0 \in 0 .. ByteBits
    BY <2>1
  <2>3. shaped \in BOOLEAN
    BY <1>1 DEF Init
  <2>4. /\ buffer \in ShmBuffer /\ fish \in BOOLEAN /\ x_has_shm \in BOOLEAN
        /\ conversion_buffer = <<>> /\ x_data = <<>> /\ bytes_per_line = 0
        /\ x = 0 /\ y = 0 /\ c = 0 /\ s = 0 /\ data = {} /\ mask = {} /\ screen = <<>> /\ pc = "convert"
    BY <1>1 DEF Init
  <2> QED
    BY <2>2, <2>3, <2>4 DEF TypeOK
<1>2. ASSUME Inv, TypeOK, [Next]_vars PROVE TypeOK'
  <2>1. /\ width \in Nat \ {0} /\ height \in Nat \ {0} /\ strid \in Nat \ {0} /\ ByteBits \in Nat \ {0}
        /\ width * height \in Nat /\ strid * height \in Nat
    BY <1>2, Sizes
  <2>2. /\ buffer' = buffer /\ fish' = fish /\ x_has_shm' = x_has_shm /\ shaped' = shaped
        /\ width' = width /\ height' = height /\ strid' = strid
    BY <1>2, NextGiven, GivenStays
  <2>3. Pixel' = Pixel /\ Words' = Words
    BY <2>2 DEF Pixel, Words
  <2>4. Source \in [0 .. strid * height - 1 -> Words]
    BY <1>2, SourceTyped
  <2>5. CASE Convert
    <3>1. conversion_buffer' \in [0 .. width * height - 1 -> Words] \cup {<<>>}
      <4>1. \A k : Fished(At(Source, k)) \in Words
        BY <1>2, <2>4, WordsTyped
      <4> QED
        BY <1>2, <2>5, <4>1 DEF Convert, Pxcount, TypeOK
    <3> QED
      BY <1>2, <2>2, <2>3, <2>5, <3>1 DEF Convert, TypeOK, loopVars
  <2>6. CASE CreateShmImage
    <3>1. \A k : At(DataForX, k) \in Words
      BY <1>2, <2>4, WordsTyped DEF DataForX, TypeOK
    <3>2. x_data' \in [0 .. strid * height - 1 -> Words]
      BY <2>6, <3>1 DEF CreateShmImage, Copied
    <3> QED
      BY <1>2, <2>2, <2>3, <2>6, <3>2 DEF CreateShmImage, TypeOK, loopVars
  <2>7. CASE CreateImage
    <3>1. DataForX \in [0 .. strid * height - 1 -> Words] \cup [0 .. width * height - 1 -> Words] \cup {<<>>}
      BY <1>2, <2>4 DEF DataForX, TypeOK
    <3> QED
      BY <1>2, <2>2, <2>3, <2>7, <3>1 DEF CreateImage, TypeOK, loopVars
  <2>8. CASE Scan
    <3>1. Bit \in 0 .. ByteBits - 1 /\ Byte \in Nat
      BY <1>2, NextBit
    <3>2. c' \in 0 .. ByteBits /\ s' \in Nat /\ data' \subseteq Nat \X (0 .. ByteBits - 1)
      BY <1>2, <2>1, <2>8, <3>1 DEF Scan, TypeOK
    <3>3. x' \in 0 .. width - 1 /\ y' \in 0 .. height
      BY <1>2, <2>1, <2>8 DEF Scan, TypeOK, InLoop
    <3> QED
      BY <1>2, <2>2, <2>3, <2>8, <3>2, <3>3 DEF Scan, TypeOK, importVars
  <2>9. CASE CreateBitmap
    BY <1>2, <2>2, <2>3, <2>9 DEF CreateBitmap, TypeOK, importVars, loopVars, Pixel
  <2>10. CASE MayCrash
    BY <1>2, <2>2, <2>3, <2>10 DEF MayCrash, TypeOK, importVars, loopVars
  <2>11. CASE Put
    <3>1. \A k : At(x_data, k) \in Words
      BY <1>2, WordsTyped DEF TypeOK
    <3>2. screen' \in [Pixel -> Words] \cup {<<>>}
      BY <1>2, <2>11, <3>1 DEF Put, TypeOK, Pixel
    <3> QED
      BY <1>2, <2>2, <2>3, <2>11, <3>2 DEF Put, TypeOK, importVars, loopVars
  <2>12. CASE UNCHANGED vars
    BY <1>2, <2>2, <2>3, <2>12 DEF vars, TypeOK, importVars, loopVars
  <2> QED
    BY <1>2, <2>5, <2>6, <2>7, <2>8, <2>9, <2>10, <2>11, <2>12 DEF Next
<1> QED
  BY <1>1, <1>2, LoopInvariance, PTL DEF Spec

-----------------------------------------------------------------------------
(* The shape of a window. *)

(* A square buffer that is neither padded nor converted. *)
Plain == RegularShape /\ strid = width /\ width = height /\ ~fish

(* When the loop comes to a pixel, and whether what it reads for it is set. *)
Position(p) == p[2] * width + p[1]
ReadsOpaque(p) == p[1] * width + p[2] \in buffer.opaque

(* The bit of a pixel. *)
BitOf(p) == <<Position(p) \div ByteBits, Position(p) % ByteBits>>

(* The bits set once n pixels are scanned. *)
SetBits(n) == {BitOf(p) : p \in {q \in Pixel : Position(q) < n /\ ReadsOpaque(q)}}

(* The bits set are those of the pixels scanned whose transposed ones are opaque;
   the bitmap made of all of them has these pixels. *)
ShapeInv ==
  /\ shaped => x_has_shm
  /\ Plain =>
       /\ data = SetBits(y * width + x)
       /\ pc \in {"convert", "image"} => x = 0 /\ y = 0
       /\ pc = "bitmap" => x = 0 /\ y = height
       /\ shaped /\ pc \in {"put", "done"} => mask = {p \in Pixel : ReadsOpaque(p)}

(* The loop comes to one pixel at a time, and has been to all of them at its end. *)
LEMMA PositionUnique ==
  ASSUME buffer \in ShmBuffer,
         NEW a \in 0 .. width - 1, NEW b \in Nat, NEW p \in Nat, NEW q \in Nat, p < width,
         b * width + a = q * width + p
  PROVE  a = p /\ b = q
<1>1. width \in Nat \ {0}
  BY Sizes
<1>2. ~(b < q)
  <2> SUFFICES ASSUME b < q PROVE FALSE
    OBVIOUS
  <2>1. PICK n \in Nat : q = b + 1 + n
    BY <1>1
  <2>2. q * width = b * width + width + n * width /\ n * width \in Nat /\ b * width \in Nat
    BY <1>1, <2>1
  <2> QED
    BY <1>1, <2>2
<1>3. ~(q < b)
  <2> SUFFICES ASSUME q < b PROVE FALSE
    OBVIOUS
  <2>1. PICK n \in Nat : b = q + 1 + n
    BY <1>1
  <2>2. b * width = q * width + width + n * width /\ n * width \in Nat /\ q * width \in Nat
    BY <1>1, <2>1
  <2> QED
    BY <1>1, <2>2
<1>4. b = q
  BY <1>2, <1>3
<1>5. b * width \in Nat
  BY <1>1
<1> QED
  BY <1>1, <1>4, <1>5

LEMMA PositionBound ==
  ASSUME buffer \in ShmBuffer, NEW p \in Pixel
  PROVE  Position(p) \in Nat /\ Position(p) < height * width
<1>1. width \in Nat \ {0} /\ height \in Nat \ {0} /\ p[1] \in 0 .. width - 1 /\ p[2] \in 0 .. height - 1
  BY Sizes DEF Pixel
<1>2. PICK b \in Nat : b = p[2] /\ b < height
  BY <1>1
<1>3. PICK n \in Nat : height = b + n + 1
  <2>1. height - 1 - b \in Nat /\ height = b + (height - 1 - b) + 1
    BY <1>1, <1>2
  <2> QED
    BY <2>1
<1>4. /\ height * width = b * width + n * width + width
      /\ b * width \in Nat /\ n * width \in Nat
  BY <1>1, <1>3
<1> QED
  BY <1>1, <1>2, <1>4 DEF Position

(* A number of bits is its whole bytes and the rest. *)
LEMMA Division ==
  ASSUME NEW b \in Nat \ {0}, NEW k \in Nat, NEW r \in 0 .. b - 1
  PROVE  (k * b + r) \div b = k /\ (k * b + r) % b = r
<1>1. k * b \in Nat
  OBVIOUS
<1>2. (k * b + r) \div b = k
  BY <1>1, SMTT(30)
<1>3. (k * b + r) % b = r
  BY <1>1, <1>2, SMTT(30)
<1> QED
  BY <1>2, <1>3

LEMMA Divided ==
  ASSUME NEW b \in Nat \ {0}, NEW n \in Nat
  PROVE  n \div b \in Nat /\ n % b \in 0 .. b - 1 /\ n = (n \div b) * b + (n % b)
<1>1. n \div b \in Nat /\ n % b \in 0 .. b - 1
  BY SMTT(30)
<1>2. n = (n \div b) * b + (n % b)
  BY SMTT(30)
<1> QED
  BY <1>1, <1>2

(* Pixels have bits of their own. *)
LEMMA BitsDiffer ==
  ASSUME buffer \in ShmBuffer, NEW p \in Pixel, NEW q \in Pixel, BitOf(p) = BitOf(q)
  PROVE  p = q
<1>1. /\ width \in Nat \ {0} /\ height \in Nat \ {0} /\ ByteBits \in Nat \ {0}
      /\ p[1] \in 0 .. width - 1 /\ p[2] \in 0 .. height - 1 /\ p = <<p[1], p[2]>>
      /\ q[1] \in 0 .. width - 1 /\ q[2] \in 0 .. height - 1 /\ q = <<q[1], q[2]>>
  BY Sizes DEF Pixel
<1>2. Position(p) \in Nat /\ Position(q) \in Nat
  BY PositionBound
<1>3. /\ Position(p) \div ByteBits = Position(q) \div ByteBits
      /\ Position(p) % ByteBits = Position(q) % ByteBits
  BY DEF BitOf
<1>4. Position(p) = Position(q)
  BY <1>1, <1>2, <1>3, Divided
<1>5. p[1] = q[1] /\ p[2] = q[2]
  BY <1>1, <1>4, PositionUnique DEF Position
<1> QED
  BY <1>1, <1>5

(* Where rows are whole bytes, XCreateBitmapFromData finds the bit of a pixel
   where the loop has put it. *)
LEMMA BitmapOfLoop ==
  ASSUME buffer \in ShmBuffer, RegularShape, NEW p \in Pixel
  PROVE  InBitmap(p[1], p[2]) = BitOf(p)
<1>1. ByteBits \in Nat \ {0} /\ p[1] \in Nat /\ p[2] \in Nat
  BY Sizes DEF Pixel
<1>2. PICK q \in Nat : width = ByteBits * q /\ RowBytes = q
  BY RegularRows
<1> DEFINE k == p[1] \div ByteBits
           r == p[1] % ByteBits
<1>3. k \in Nat /\ r \in 0 .. ByteBits - 1 /\ p[1] = k * ByteBits + r
  BY <1>1, Divided
<1> HIDE DEF k, r
<1>4. Position(p) = (p[2] * q + k) * ByteBits + r
  <2>1. p[2] * width = (p[2] * q) * ByteBits
    BY <1>1, <1>2
  <2>2. (p[2] * q + k) * ByteBits = (p[2] * q) * ByteBits + k * ByteBits
    BY <1>1, <1>2, <1>3
  <2>3. (p[2] * q) * ByteBits \in Nat /\ k * ByteBits \in Nat
    BY <1>1, <1>2, <1>3
  <2> QED
    BY <1>1, <1>3, <2>1, <2>2, <2>3 DEF Position
<1>5. p[2] * q + k \in Nat
  BY <1>1, <1>2, <1>3
<1>6. Position(p) \div ByteBits = p[2] * q + k /\ Position(p) % ByteBits = r
  <2> DEFINE n == p[2] * q + k
  <2> HIDE DEF n
  <2>1. (n * ByteBits + r) \div ByteBits = n /\ (n * ByteBits + r) % ByteBits = r
    BY <1>1, <1>3, <1>5, Division DEF n
  <2> QED
    BY <1>4, <2>1 DEF n
<1> QED
  BY <1>2, <1>6 DEF InBitmap, BitOf, k, r

(* One iteration of the loop sets the bit of its pixel. *)
LEMMA ScanSetsBit ==
  ASSUME buffer \in ShmBuffer, InLoop, InLoop', PixelInv, Plain, Scan,
         data = SetBits(y * width + x)
  PROVE  data' = SetBits(y' * width + x')
<1> DEFINE n == y * width + x
           p == <<x, y>>
<1>1. /\ width \in Nat \ {0} /\ height \in Nat \ {0} /\ ByteBits \in Nat \ {0}
      /\ x \in Nat /\ y \in Nat /\ x < width /\ y < height /\ pc = "scan" /\ width' = width
  BY Sizes, GivenStays DEF InLoop, Scan
<1>2. p \in Pixel /\ Position(p) = n /\ n \in Nat
  BY <1>1 DEF Pixel, Position
<1>3. Byte * ByteBits + Bit = n /\ Bit \in 0 .. ByteBits - 1 /\ Byte \in Nat
  BY NextBit
<1>4. BitOf(p) = <<Byte, Bit>>
  <2>1. n \div ByteBits = Byte /\ n % ByteBits = Bit
    BY <1>1, <1>3, Division
  <2> QED
    BY <1>2, <2>1 DEF BitOf
<1>5. Alpha = {ReadsOpaque(p)}
  <2>1. Index \in DOMAIN x_data /\ x_data = Drawn /\ ~fish
    BY <1>1, ScanInside DEF Plain, ReadsInside, PixelInv, Imported
  <2>2. Index \in Nat /\ Index = p[1] * width + p[2]
    BY <1>1 DEF Index
  <2>3. At(x_data, Index) = Word(Index, FALSE)
    BY <2>1 DEF At, Drawn, PixelInv
  <2>4. Word(Index, FALSE) # Junk /\ Word(Index, FALSE).pixel = Index /\ ~Word(Index, FALSE).fished
    BY <2>2, WordsApart DEF Word
  <2> QED
    BY <2>2, <2>3, <2>4 DEF Alpha, ReadsOpaque
<1>6. data' = IF ReadsOpaque(p) THEN data \cup {BitOf(p)} ELSE data
  BY <1>4, <1>5 DEF Scan
<1>7. y' * width + x' = n + 1
  <2>1. s' * ByteBits + c' = y' * width + x' /\ s' = Byte /\ c' = Bit + 1
    BY <1>1 DEF InLoop, BitsCountPixels, Scan
  <2>2. Byte * ByteBits \in Nat
    BY <1>1, <1>3
  <2> QED
    BY <1>1, <1>3, <2>1, <2>2
<1>8. ASSUME NEW q \in Pixel PROVE Position(q) < n + 1 <=> Position(q) < n \/ q = p
  <2>1. Position(q) \in Nat
    BY PositionBound
  <2>2. ASSUME Position(q) = n PROVE q = p
    <3>1. q[1] \in 0 .. width - 1 /\ q[2] \in Nat /\ q = <<q[1], q[2]>>
      BY <1>1 DEF Pixel
    <3>2. q[1] = x /\ q[2] = y
      BY <1>1, <2>2, <3>1, PositionUnique DEF Position
    <3> QED
      BY <3>1, <3>2
  <2> QED
    BY <1>2, <2>1, <2>2
<1>9. SetBits(n + 1) = IF ReadsOpaque(p) THEN SetBits(n) \cup {BitOf(p)} ELSE SetBits(n)
  <2> DEFINE Here(k) == {q \in Pixel : Position(q) < k /\ ReadsOpaque(q)}
  <2>1. Here(n + 1) = IF ReadsOpaque(p) THEN Here(n) \cup {p} ELSE Here(n)
    BY <1>2, <1>8
  <2> HIDE DEF p, n
  <2> QED
    BY <2>1 DEF SetBits
<1> QED
  BY <1>6, <1>7, <1>9

(* All the pixels of the loop are in the bitmap. *)
LEMMA BitmapIsShape ==
  ASSUME buffer \in ShmBuffer, Plain, CreateBitmap, x = 0, y = height,
         data = SetBits(y * width + x)
  PROVE  mask' = {p \in Pixel : ReadsOpaque(p)}
<1>1. /\ width \in Nat \ {0} /\ height \in Nat \ {0} /\ RegularShape
      /\ height * width + 0 = height * width
  BY Sizes DEF Plain
<1>2. PICK junk \in SUBSET ((Allocated .. RowBytes * height - 1) \X (0 .. ByteBits - 1)) :
        mask' = {p \in Pixel : InBitmap(p[1], p[2]) \in data \cup junk}
  BY DEF CreateBitmap, Pixel
<1>3. junk = {}
  <2>1. PICK q \in Nat : RowBytes = q /\ Allocated = q * height
    BY <1>1, RegularRows
  <2>2. q * height \in Nat
    BY <1>1, <2>1
  <2>3. Allocated .. RowBytes * height - 1 = {}
    BY <2>1, <2>2
  <2> QED
    BY <1>2, <2>3
<1>4. ASSUME NEW p \in Pixel PROVE BitOf(p) \in data <=> ReadsOpaque(p)
  <2>1. Position(p) < y * width + x
    BY <1>1, PositionBound
  <2>2. ReadsOpaque(p) => BitOf(p) \in data
    BY <2>1 DEF SetBits
  <2>3. ASSUME BitOf(p) \in data PROVE ReadsOpaque(p)
    <3>1. PICK q \in Pixel : ReadsOpaque(q) /\ BitOf(q) = BitOf(p)
      BY <2>3 DEF SetBits
    <3>2. q = p
      BY <3>1, BitsDiffer
    <3> QED
      BY <3>1, <3>2
  <2> QED
    BY <2>2, <2>3
<1> QED
  BY <1>1, <1>2, <1>3, <1>4, BitmapOfLoop

(* Each step keeps ShapeInv, given what the loop and the import keep. *)
LEMMA ShapeInvariance == Spec => [](buffer \in ShmBuffer /\ PixelInv /\ InLoop /\ ShapeInv)
<1> DEFINE Inv == buffer \in ShmBuffer /\ PixelInv /\ InLoop
<1>1. ASSUME Init PROVE ShapeInv
  <2>1. 0 * width + 0 = 0 /\ width \in Nat
    BY <1>1, Sizes DEF Init
  <2>2. \A p \in Pixel : ~(Position(p) < 0)
    BY <1>1, PositionBound DEF Init
  <2>3. SetBits(0) = {}
    BY <2>2 DEF SetBits
  <2>4. x = 0 /\ y = 0 /\ data = {} /\ pc = "convert"
    BY <1>1 DEF Init
  <2>5. shaped => x_has_shm
    BY <1>1, Zenon DEF Init
  <2> QED
    BY <2>1, <2>3, <2>4, <2>5 DEF ShapeInv
<1>2. ASSUME Inv, Inv', ShapeInv, [Next]_vars PROVE ShapeInv'
  <2>1. /\ buffer' = buffer /\ fish' = fish /\ x_has_shm' = x_has_shm /\ shaped' = shaped
        /\ width' = width /\ height' = height /\ strid' = strid
    BY <1>2, NextGiven, GivenStays
  <2>2. Plain' = Plain /\ Pixel' = Pixel /\ (\A n : SetBits(n)' = SetBits(n))
        /\ (\A p : ReadsOpaque(p)' = ReadsOpaque(p))
    BY <2>1 DEF Plain, RegularShape, Pixel, SetBits, BitOf, Position, ReadsOpaque
  <2>3. CASE Scan
    <3>1. Plain => data' = SetBits(y' * width + x')
      BY <1>2, <2>3, ScanSetsBit DEF ShapeInv
    <3>2. pc' = "bitmap" => x' = 0 /\ y' = height
      BY <1>2, <2>3, Sizes DEF Scan, InLoop
    <3>3. pc' \in {"scan", "bitmap"}
      BY <2>3 DEF Scan
    <3> QED
      BY <1>2, <2>1, <2>2, <3>1, <3>2, <3>3 DEF ShapeInv
  <2>4. CASE CreateBitmap
    <3>1. pc = "bitmap" /\ pc' = "put" /\ UNCHANGED loopVars
      BY <2>4 DEF CreateBitmap
    <3>2. Plain => mask' = {p \in Pixel : ReadsOpaque(p)}
      BY <1>2, <2>4, <3>1, BitmapIsShape DEF ShapeInv
    <3> QED
      BY <1>2, <2>1, <2>2, <3>1, <3>2 DEF ShapeInv, loopVars
  <2>5. CASE Convert \/ CreateShmImage \/ CreateImage \/ MayCrash \/ Put \/ UNCHANGED vars
    <3>1. UNCHANGED loopVars /\ mask' = mask
      BY <2>5 DEF Convert, CreateShmImage, CreateImage, MayCrash, Put, vars
    <3>2. /\ pc' \in {"convert", "image"} => pc \in {"convert", "image"}
          /\ pc' = "bitmap" => pc = "bitmap"
          /\ shaped /\ pc' \in {"put", "done"} => pc \in {"put", "done"}
      BY <1>2, <2>5 DEF Convert, CreateShmImage, CreateImage, MayCrash, Put, vars, ShapeInv
    <3> QED
      BY <1>2, <2>1, <2>2, <3>1, <3>2 DEF ShapeInv, loopVars
  <2> QED
    BY <1>2, <2>3, <2>4, <2>5 DEF Next
<1> QED
  BY <1>1, <1>2, PixelInvariance, LoopInvariance, PTL DEF Spec

(* A square window of whole bytes per row has the shape of its picture transposed,
   whatever its size and whatever the client drew. *)
THEOREM ShapeIsTransposed == Spec => []ShapeTransposed
<1>1. ASSUME buffer \in ShmBuffer, PixelInv, ShapeInv PROVE ShapeTransposed
  <2>1. SUFFICES ASSUME pc = "done", shaped, Plain
                 PROVE  mask = {p \in Pixel : screen[<<p[2], p[1]>>].pixel \in buffer.opaque}
    BY Zenon DEF ShapeTransposed, Plain
  <2>2. width = height /\ strid = width
    BY <2>1 DEF Plain
  <2>3. screen = Wanted
    BY <1>1, <2>1, <2>2, Zenon DEF PixelInv
  <2>4. mask = {p \in Pixel : ReadsOpaque(p)}
    BY <1>1, <2>1 DEF ShapeInv
  <2>5. ASSUME NEW p \in Pixel PROVE screen[<<p[2], p[1]>>].pixel = p[1] * width + p[2]
    <3> DEFINE q == <<p[2], p[1]>>
    <3>1. q \in Pixel /\ q[1] = p[2] /\ q[2] = p[1]
      BY <2>2 DEF Pixel
    <3>2. Wanted[q] = Word(q[2] * strid + q[1], fish)
      BY <3>1 DEF Wanted
    <3>3. screen[q].pixel = q[2] * strid + q[1]
      BY <2>3, <3>2 DEF Word
    <3> QED
      BY <2>2, <3>1, <3>3
  <2> QED
    BY <2>4, <2>5 DEF ReadsOpaque
<1> QED
  BY <1>1, ShapeInvariance, PTL

=============================================================================
