------------------------------- MODULE Planes -------------------------------
(***************************************************************************)
(* From a decoded picture to a frame: the buffers each decoder hands over  *)
(* (convert of decode/h264.rs, vpx.rs and av1.rs, State::display of        *)
(* nvdec.rs, on_frame of vaapi.rs and the helper's frames) and to_bgra of  *)
(* src/media/video/yuv.rs, which reads them.  Sizes are what counts here;  *)
(* colours are left out.                                                   *)
(*                                                                         *)
(* External: the engines' buffers.  A plane of theirs holds stride * rows  *)
(* bytes, a stride holds a row.                                            *)
(***************************************************************************)
EXTENDS Naturals, FiniteSets, FiniteSetsExt

CONSTANTS
    MaxSide,        \* bound: width and height of a picture
    ParallelFrom,   \* pixels from which several threads convert
    MaxThreads,
    Paddings,       \* bytes a stride may be longer than its row
    NoFrame         \* in place of a picture, an image or its rows

VARIABLES
    decoder, pic,   \* the picture: [w, h, depth, chroma, padding]
    img,            \* the YuvImage made from it, or NoFrame
    picture         \* <<>>, NoFrame, or the rows of each thread

planesVars == <<decoder, pic, img, picture>>

DivCeil(a, b) == (a + b - 1) \div b
BytesPer(depth) == IF depth > 8 THEN 2 ELSE 1

(* Chroma::shift, as the number of pixels that share a sample *)
Shift(chroma) == CASE chroma = "420" -> <<2, 2>>
                   [] chroma = "422" -> <<2, 1>>
                   [] OTHER -> <<1, 1>>
ChromaSize(p) == <<DivCeil(p.w, Shift(p.chroma)[1]), DivCeil(p.h, Shift(p.chroma)[2])>>

-----------------------------------------------------------------------------
(* A plane is [stride, len, room]: len bytes of a buffer of room bytes.    *)

Buffer(stride, rows, len) == [stride |-> stride, len |-> len, room |-> stride * rows]

(* from_raw_parts(p, stride * (rows - 1) + width * bpp) *)
Slice(p, width, rows, bpp) ==
    LET stride == width * bpp + p.padding
    IN Buffer(stride, rows, stride * (rows - 1) + width * bpp)

Image(p, depth, y, planes, kind) ==
    [w |-> p.w, h |-> p.h, depth |-> depth, chroma |-> p.chroma, y |-> y, uv |-> planes,
     kind |-> kind]

Planar(p, bpp) ==
    LET c == ChromaSize(p)
    IN Image(p, p.depth, Slice(p, p.w, p.h, bpp),
             IF p.chroma = "mono" THEN <<>> ELSE <<Slice(p, c[1], c[2], bpp), Slice(p, c[1], c[2], bpp)>>,
             IF p.chroma = "mono" THEN "none" ELSE "planar")

H264Convert(p) == Planar(p, 1)
VpxConvert(p) == Planar(p, BytesPer(p.depth))
Av1Convert(p) == Planar(p, BytesPer(p.depth))

\* Variant: the chroma rows are counted down.
HostOneRowLess(p) ==
    LET row == p.w * BytesPer(p.depth)
        ch  == p.h \div 2
    IN Image(p, IF p.depth > 8 THEN 16 ELSE 8, Buffer(row, p.h, row * p.h),
             <<Buffer(row, DivCeil(p.h, 2), row * ch)>>, "interleaved")

(* NVDEC copies both planes, row by row and without padding, into host.    *)
NvHost(p) ==
    LET row == p.w * BytesPer(p.depth)
        ch  == DivCeil(p.h, 2)
    IN Image(p, IF p.depth > 8 THEN 16 ELSE 8, Buffer(row, p.h, row * p.h),
             <<Buffer(row, ch, row * ch)>>, "interleaved")

(* The helper's frame: even sizes, one pitch for both planes. *)
VaFrame(p) == LET width == 2 * DivCeil(p.w, 2) + p.padding IN
              [pitch |-> width, rows |-> 2 * DivCeil(p.h, 2)]
VaConvert(p) ==
    LET f  == VaFrame(p)
        ch == DivCeil(p.h, 2)
    IN Image(p, 8, Buffer(f.pitch, f.rows, f.pitch * (p.h - 1) + p.w),
             <<Buffer(f.pitch, f.rows \div 2, f.pitch * (ch - 1) + 2 * DivCeil(p.w, 2))>>,
             "interleaved")

Engines == {"openh264", "libvpx", "rav1d", "nvdec", "vaapi"}

(* The pictures each decoder passes on. *)
Pictures(d) ==
    [w : 1..MaxSide, h : 1..MaxSide, padding : Paddings,
     depth : IF d \in {"openh264", "vaapi"} THEN {8} ELSE {8, 10},
     chroma : CASE d \in {"openh264", "vaapi"} -> {"420"}
                [] d = "libvpx" -> {"420", "422", "444"}
                [] d = "rav1d" -> {"mono", "420", "422", "444"}
                [] d = "nvdec" -> {"mono", "420"}]

Convert(d, p) == CASE d = "openh264" -> H264Convert(p)
                   [] d = "libvpx" -> VpxConvert(p)
                   [] d = "rav1d" -> Av1Convert(p)
                   [] d = "nvdec" -> NvHost(p)
                   [] d = "vaapi" -> VaConvert(p)

-----------------------------------------------------------------------------
(* to_bgra *)

PlaneOk(plane, w, h, bpp) ==
    h = 0 \/ (plane.stride >= w * bpp /\ plane.len >= plane.stride * (h - 1) + w * bpp)

Accepts(i) ==
    LET bpp == BytesPer(i.depth)
        c   == ChromaSize(i)
    IN /\ i.w > 0 /\ i.h > 0 /\ i.depth \in 8..16
       /\ PlaneOk(i.y, i.w, i.h, bpp)
       /\ \/ i.chroma = "mono"
          \/ i.kind = "planar" /\ \A n \in {1, 2} : PlaneOk(i.uv[n], c[1], c[2], bpp)
          \/ i.kind = "interleaved" /\ PlaneOk(i.uv[1], 2 * c[1], c[2], bpp)

(* The bytes read for row y: [plane, last byte + 1].  The fast path slices *)
(* a row of each plane, `sample' reads one or two bytes per pixel.         *)
FastPath(i) == i.depth = 8 /\ i.chroma = "420" /\ i.kind = "planar"

RowEnd(plane, y, samples, bpp) == y * plane.stride + samples * bpp

FastReads(i, y) ==
    LET c == ChromaSize(i)
    IN {<<i.y, RowEnd(i.y, y, i.w, 1)>>}
       \cup {<<i.uv[n], RowEnd(i.uv[n], y \div 2, c[1], 1)>> : n \in {1, 2}}

SlowReads(i, y) ==
    LET bpp == BytesPer(i.depth)
        s   == Shift(i.chroma)
        cy  == y \div s[2]
    IN {<<i.y, RowEnd(i.y, y, x + 1, bpp)>> : x \in 0..i.w - 1}
       \cup (IF i.chroma = "mono" THEN {}
             ELSE IF i.kind = "planar"
             THEN {<<i.uv[n], RowEnd(i.uv[n], cy, (x \div s[1]) + 1, bpp)>> :
                     n \in {1, 2}, x \in 0..i.w - 1}
             ELSE {<<i.uv[1], RowEnd(i.uv[1], cy, 2 * (x \div s[1]) + 2, bpp)>> :
                     x \in 0..i.w - 1})

Reads(i, y) == IF FastPath(i) THEN FastReads(i, y) ELSE SlowReads(i, y)

(* chunks_mut(rows_per * w * 4): the last band may be shorter. *)
Threads(i, cores) == IF i.w * i.h >= ParallelFrom THEN Min({cores, MaxThreads}) ELSE 1
Bands(i, threads) ==
    LET rowsPer == DivCeil(i.h, threads)
    IN [b \in 0..DivCeil(i.h, rowsPer) - 1 |->
          b * rowsPer..Min({(b + 1) * rowsPer, i.h}) - 1]

-----------------------------------------------------------------------------
PlanesInit ==
    /\ decoder \in Engines
    /\ pic = NoFrame /\ img = NoFrame /\ picture = <<>>

Picture ==
    /\ pic = NoFrame
    /\ pic' \in Pictures(decoder)
    /\ img' = Convert(decoder, pic')
    /\ UNCHANGED <<decoder, picture>>

ToBgra ==
    /\ img # NoFrame /\ picture = <<>>
    /\ \E cores \in 1..MaxThreads + 1 :
          picture' = IF Accepts(img) THEN Bands(img, Threads(img, cores)) ELSE NoFrame
    /\ UNCHANGED <<decoder, pic, img>>

PlanesNext == Picture \/ ToBgra
PlanesSpec == PlanesInit /\ [][PlanesNext]_planesVars

(* NoFrame is not one of the values it stands in for. *)
ASSUME PlanesAssumption ==
    /\ MaxSide \in Nat /\ Paddings \subseteq Nat
    /\ ParallelFrom \in Nat /\ MaxThreads \in Nat \ {0}
    /\ NoFrame # <<>>
    /\ \A d \in Engines : NoFrame \notin Pictures(d)
    /\ \A n \in 1..MaxSide : NoFrame \notin [0..n - 1 -> SUBSET (0..MaxSide - 1)]

-----------------------------------------------------------------------------
(* "Checks that the planes actually fit the image (so we return None        *)
(* instead of panicking)" (yuv.rs:156) and "libvpx allocates stride*rows    *)
(* bytes per plane" (vpx.rs:256): what a decoder hands over lies inside its *)
(* buffers; a picture is converted without reading past a plane, each row   *)
(* by exactly one thread; and a picture of an even width is never refused.  *)
ReadsInside ==
    /\ img # NoFrame => \A b \in {img.y} \cup {img.uv[n] : n \in DOMAIN img.uv} : b.len <= b.room
    /\ picture \notin {<<>>, NoFrame} =>
         /\ \A y \in 0..img.h - 1 : Cardinality({b \in DOMAIN picture : y \in picture[b]}) = 1
         /\ \A b \in DOMAIN picture : \A y \in picture[b] : y < img.h
         /\ \A y \in 0..img.h - 1 : \A r \in Reads(img, y) : r[2] <= r[1].len
    /\ picture = NoFrame => pic.w % 2 = 1 /\ decoder = "nvdec"
=============================================================================
