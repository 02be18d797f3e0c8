------------------------------ MODULE MCMedia ------------------------------
(***************************************************************************)
(* The parts of the media code that one caller drives alone, each on its   *)
(* own small inputs: images and GIFs, what a decoder is fed, and what is   *)
(* made of its pictures.  They share nothing, so a behaviour is one of one *)
(* of them.                                                                *)
(***************************************************************************)
EXTENDS Images, Bitstream, Planes

VARIABLE part       \* which one runs

mediaVars == <<part, imageVars, bitstreamVars, planesVars>>

(* 2 x 2 GIFs: an opaque first frame, then a column that sticks out and a   *)
(* frame with a transparent pixel, with every combination of disposals, on  *)
(* no background, and some on one of the palette.                           *)
Rgba(w, h, c, holes) == [p \in Pixels(w, h) |-> IF p \in holes THEN Clear ELSE c]
GifFrame(left, top, w, h, delay, dispose, rgba) ==
    [left |-> left, top |-> top, w |-> w, h |-> h, delay |-> delay, dispose |-> dispose,
     rgba |-> rgba]
GifFrames(d1, d2, d3) ==
    <<GifFrame(0, 0, 2, 1, 1, d1, Rgba(2, 1, "red", {})),
      GifFrame(1, 0, 2, 2, 2, d2, Rgba(2, 2, "green", {})),
      GifFrame(0, 0, 1, 2, 1, d3, Rgba(1, 2, "blue", {<<0, 0>>})),
      GifFrame(0, 1, 2, 1, 1, "keep", Rgba(2, 1, "white", {<<1, 0>>}))>>
Disposals == {"keep", "background", "previous"}
NoPixels == Rgba(1, 1, [c |-> 0, a |-> 0], {})
ImageFile(ext, sig, frames, rgba) ==
    [exists |-> TRUE, ext |-> ext, sig |-> sig, w |-> 2, h |-> 2, bg |-> Clear,
     frames |-> frames, rgba |-> rgba]
MCImageFiles ==
    {ImageFile("gif", "gif", GifFrames(d1, d2, d3), NoPixels) :
        d1 \in Disposals, d2 \in Disposals, d3 \in Disposals}
    \cup {[ImageFile("gif", "gif", GifFrames(d, "background", "previous"), NoPixels)
               EXCEPT !.bg = "grey"] : d \in Disposals}
    \cup {ImageFile("png", "jpeg", <<>>, Rgba(1, 2, [c |-> c, a |-> a], {})) :
             c \in {0, 1, 128, 254, 255}, a \in {0, 1, 127, 255}}
    \cup {ImageFile("png", "gif", GifFrames("keep", "keep", "keep"), NoPixels),
          ImageFile("gif", "gif", <<>>, NoPixels),
          ImageFile("mp4", "mp4", <<>>, NoPixels), ImageFile("avi", "mp4", <<>>, NoPixels),
          [ImageFile("gif", "gif", <<>>, NoPixels) EXCEPT !.exists = FALSE]}

(* An SPS with a high and with a low level, other units, with zeros at the *)
(* end, too short to have a level, and none at all.                        *)
MCNals == {<<103, 66, 0, 60>>, <<39, 66, 0, 52, 9>>, <<104, 60, 60, 60>>, <<101, 0>>, <<7>>, <<>>}
MCParameterSets == {<<103, 66, 0, 60>>, <<104, 60, 60, 60>>}

IdleImages == /\ image = Nothing /\ source = "unopened" /\ frame = Nothing /\ now = 0
              /\ started = Nothing /\ looped = FALSE /\ speed = 1 /\ canvas = <<>>
              /\ backup = Nothing /\ shown = 0 /\ sent = Nothing
              /\ texture = [generation |-> 0, pixels |-> Nothing]
IdleBitstream == /\ codecOf = "h264" /\ sets = <<>> /\ lengthSize = 1 /\ cfg = Unparsed
                 /\ units = <<>> /\ cut = 0 /\ keyframe = FALSE /\ data = NoBytes
IdlePlanes == decoder = "none" /\ pic = NoFrame /\ img = NoFrame /\ picture = <<>>

Init == \/ part = "images" /\ ImagesInit /\ IdleBitstream /\ IdlePlanes
        \/ part = "bitstream" /\ BitstreamInit /\ IdleImages /\ IdlePlanes
        \/ part = "planes" /\ PlanesInit /\ IdleImages /\ IdleBitstream

Next == \/ part = "images" /\ ImagesNext /\ UNCHANGED <<part, bitstreamVars, planesVars>>
        \/ part = "bitstream" /\ BitstreamNext /\ UNCHANGED <<part, imageVars, planesVars>>
        \/ part = "planes" /\ PlanesNext /\ UNCHANGED <<part, imageVars, bitstreamVars>>

Spec == Init /\ [][Next]_mediaVars
=============================================================================
