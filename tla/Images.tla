------------------------------- MODULE Images -------------------------------
(***************************************************************************)
(* Opening a file as a source (media::open, src/media/mod.rs) and the two  *)
(* sources without a thread: still pictures (media/still.rs, frame.rs) and *)
(* GIFs (media/gif.rs) on the playback clock (clock.rs).                   *)
(*                                                                         *)
(* A file is [exists, ext, sig, w, h, bg, rgba, frames].  A colour is a    *)
(* byte, pixels are functions on Pixels(w, h); a GIF frame is [left, top,  *)
(* w, h, delay, dispose, rgba], with rgba[pixel] the colour or Clear, and  *)
(* bg is a colour of the palette, or Clear without one (gif.rs:61).        *)
(* External: the png, zune-jpeg and gif crates, which return those or an   *)
(* error.                                                                  *)
(***************************************************************************)
EXTENDS Integers, Sequences, FiniteSets

CONSTANTS
    ImageFiles,     \* files
    Jumps,          \* how far apart two calls may be
    MaxNow,         \* bound: the time of the last call
    Clear,          \* a transparent pixel
    Nothing         \* None

(* The colours of a GIF. *)
Colours(f) == {Clear, f.bg} \cup UNION {{g.rgba[p] : p \in DOMAIN g.rgba} :
                                        g \in {f.frames[i] : i \in DOMAIN f.frames}}
Pixels(w, h) == (0..w - 1) \X (0..h - 1)

(* What the crates return: frames that are shown for a while (gif.rs gives *)
(* those without a delay a default), pixels that are bytes.                *)
ASSUME ImagesAssumption ==
    /\ Jumps \subseteq Nat /\ MaxNow \in Nat
    /\ \A f \in ImageFiles :
         /\ f.frames \in Seq({f.frames[i] : i \in DOMAIN f.frames})
         /\ \A i \in DOMAIN f.frames :
              LET g == f.frames[i]
              IN /\ g.delay \in Nat \ {0} /\ g.left \in Nat /\ g.top \in Nat
                 /\ DOMAIN g.rgba = Pixels(g.w, g.h) /\ g.w \in Nat /\ g.h \in Nat
         /\ Nothing \notin [Pixels(f.w, f.h) -> Colours(f)]
         /\ \A p \in DOMAIN f.rgba : f.rgba[p].c \in 0..255 /\ f.rgba[p].a \in 0..255
         /\ Nothing \notin [DOMAIN f.rgba -> [c : Nat, a : Nat]]

VARIABLES
    image,      \* the file
    source,     \* "unopened", "still", "gif" or an error
    frame,      \* StillSource::frame: the picture, until it is handed out
    now,        \* the caller's time
    started,    \* PlaybackClock::started
    looped, speed,
    canvas, backup, shown,      \* GifSource
    sent,       \* GifSource::sent
    texture     \* what the caller got last, as [generation, pixels]

imageVars == <<image, source, frame, now, started, looped, speed, canvas, backup, shown, sent,
               texture>>
unlooked == <<image, source, looped, speed>>

-----------------------------------------------------------------------------
(* Opening *)

KindFor(ext) == CASE ext \in {"png", "jpg", "jpeg"} -> "still"
                  [] ext = "gif" -> "gif"
                  [] ext \in {"mp4", "m4v", "mov", "webm", "mkv"} -> "video"
                  [] OTHER -> Nothing

(* Still pictures go by the signature, not by the extension. *)
Decodes(f) == f.sig \in {"png", "jpeg"}
DecodesGif(f) == f.sig = "gif" /\ f.w > 0 /\ f.h > 0 /\ f.frames # <<>>

OpenKind(f) ==
    CASE ~f.exists -> "missing"
      [] f.exists /\ KindFor(f.ext) = Nothing -> "unknown"
      [] f.exists /\ KindFor(f.ext) = "still" ->
            IF Decodes(f) /\ f.w > 0 /\ f.h > 0 THEN "still" ELSE "broken"
      [] f.exists /\ KindFor(f.ext) = "gif" -> IF DecodesGif(f) THEN "gif" ELSE "broken"
      [] OTHER -> "video"

(* frame.rs: `c * a / 255' with rounding *)
Premul(c, a) == (c * a + 127) \div 255
FromRgba(rgba) == [p \in DOMAIN rgba |-> [c |-> Premul(rgba[p].c, rgba[p].a), a |-> rgba[p].a]]

Background(f) == [p \in Pixels(f.w, f.h) |-> f.bg]      \* clear_canvas: self.bg

-----------------------------------------------------------------------------
(* The clock; a moment is a whole number, the last one before the end d-1. *)

Position(start, at, total) ==
    LET raw == (at - start) * speed
    IN IF looped THEN raw % total ELSE IF raw < total THEN raw ELSE total - 1

EndOf(f, i) == LET sum[k \in 0..i] == IF k = 0 THEN 0 ELSE sum[k - 1] + f.frames[k].delay
               IN sum[i]
Total(f) == EndOf(f, Len(f.frames))

FrameAt(f, pos) ==
    LET after == {i \in DOMAIN f.frames : pos < EndOf(f, i)}
    IN IF after = {} THEN Len(f.frames) ELSE CHOOSE i \in after : \A j \in after : i <= j

-----------------------------------------------------------------------------
(* The canvas.  A state is [canvas, backup, shown], shown counting from 1  *)
(* and 0 for a clean canvas.                                               *)

Clean(f) == [canvas |-> Background(f), backup |-> Nothing, shown |-> 0]

Covers(g, p) == /\ p[1] \in g.left..g.left + g.w - 1
                /\ p[2] \in g.top..g.top + g.h - 1
FillRect(c, g, bg) == [p \in DOMAIN c |-> IF Covers(g, p) THEN bg ELSE c[p]]
Blit(c, g) ==
    [p \in DOMAIN c |-> IF Covers(g, p) /\ g.rgba[<<p[1] - g.left, p[2] - g.top>>] # Clear
                        THEN g.rgba[<<p[1] - g.left, p[2] - g.top>>] ELSE c[p]]

\* Variant: the backup is taken before the previous frame is disposed of.
BacksUpEarly(f, s) ==
    LET next == s.shown + 1
        g == f.frames[s.shown]
        disposed == IF s.shown = 0 THEN s.canvas
                    ELSE IF g.dispose = "background" THEN FillRect(s.canvas, g, f.bg)
                    ELSE IF g.dispose = "previous" /\ s.backup # Nothing THEN s.backup
                    ELSE s.canvas
    IN [canvas |-> Blit(disposed, f.frames[next]),
        backup |-> IF f.frames[next].dispose = "previous" THEN s.canvas ELSE Nothing,
        shown |-> next]

StepGif(f, s) ==
    LET next == s.shown + 1
        g == f.frames[s.shown]
        restores == s.shown > 0 /\ g.dispose = "previous" /\ s.backup # Nothing
        disposed == IF s.shown > 0 /\ g.dispose = "background" THEN FillRect(s.canvas, g, f.bg)
                    ELSE IF restores THEN s.backup ELSE s.canvas
    IN [canvas |-> Blit(disposed, f.frames[next]),
        backup |-> IF f.frames[next].dispose = "previous" THEN disposed
                   ELSE IF restores THEN Nothing ELSE s.backup,
        shown |-> next]

(* show: going back starts over, going forward composes what is between. *)
Show(f, s, target) ==
    LET from == IF target < s.shown THEN Clean(f) ELSE s
        go[i \in from.shown..target] == IF i = from.shown THEN from ELSE StepGif(f, go[i - 1])
    IN go[target]

-----------------------------------------------------------------------------
ImagesInit ==
    /\ image \in ImageFiles /\ looped \in BOOLEAN /\ speed \in {1, 2}
    /\ source = "unopened" /\ frame = Nothing /\ now = 0 /\ started = Nothing
    /\ canvas = <<>> /\ backup = Nothing /\ shown = 0 /\ sent = Nothing
    /\ texture = [generation |-> 0, pixels |-> Nothing]

OpenImage ==
    /\ source = "unopened"
    /\ source' = OpenKind(image)
    /\ frame' = IF source' = "still" THEN FromRgba(image.rgba) ELSE Nothing
    /\ canvas' = IF source' = "gif" THEN Background(image) ELSE <<>>
    /\ UNCHANGED <<image, now, started, looped, speed, backup, shown, sent, texture>>

(* StillSource::poll: `take()' *)
PollStill ==
    /\ source = "still"
    /\ now' \in {n \in {now + j : j \in Jumps} : n <= MaxNow}
    /\ texture' = IF frame = Nothing THEN texture ELSE [generation |-> 1, pixels |-> frame]
    /\ frame' = Nothing
    /\ UNCHANGED <<unlooked, started, canvas, backup, shown, sent>>

PollGif ==
    /\ source = "gif"
    /\ now' \in {n \in {now + j : j \in Jumps} : n <= MaxNow}
    /\ started' = IF started = Nothing THEN now' ELSE started
    /\ LET pos == Position(started', now', Total(image))
           target == FrameAt(image, pos)
           s == Show(image, [canvas |-> canvas, backup |-> backup, shown |-> shown], target)
       IN /\ canvas' = s.canvas /\ backup' = s.backup /\ shown' = s.shown
          /\ sent' = target
          /\ texture' = IF sent = target THEN texture
                        ELSE [generation |-> texture.generation + 1, pixels |-> s.canvas]
    /\ UNCHANGED <<unlooked, frame>>

(* Source::shown: a GIF restarts, a still picture has nothing to restart. *)
ShownFirst ==
    /\ source = "gif" /\ started # Nothing
    /\ started' = Nothing
    /\ UNCHANGED <<unlooked, frame, now, canvas, backup, shown, sent, texture>>

ImagesNext == OpenImage \/ PollStill \/ PollGif \/ ShownFirst

ImagesSpec == ImagesInit /\ [][ImagesNext]_imageVars

-----------------------------------------------------------------------------
(* What the GIF format says is seen of frame i: the frame drawn on what     *)
(* the one before it leaves behind.                                         *)
Leaves(f, i) ==
    LET behind[k \in 0..i] ==       \* the canvas the next frame is drawn on
            IF k = 0 THEN Background(f)
            ELSE LET g == f.frames[k] IN
                 CASE g.dispose = "previous" -> behind[k - 1]
                   [] g.dispose = "background" -> FillRect(Blit(behind[k - 1], g), g, f.bg)
                   [] OTHER -> Blit(behind[k - 1], g)
    IN behind[i]
Visible(f, i) == Blit(Leaves(f, i - 1), f.frames[i])

(* "GIF with correct frame compositing (disposal Keep / Background /        *)
(* Previous)" (gif.rs:1): however far apart the polls are, over loops,      *)
(* skipped frames and restarts, what the caller shows is the frame of the   *)
(* clock's position composed as the format says; a still picture is what    *)
(* was decoded, premultiplied, once it has been handed out, and stays.      *)
PictureRight ==
    /\ source = "gif" /\ texture.generation > 0 =>
         /\ texture.pixels = Visible(image, sent)
         /\ started # Nothing =>
              LET pos == Position(started, now, Total(image)) IN
              EndOf(image, sent - 1) <= pos /\ pos < EndOf(image, sent)
    /\ source = "still" /\ frame = Nothing =>
         /\ texture.generation = 1
         /\ \A p \in DOMAIN image.rgba :
              LET got == texture.pixels[p]
                  c == image.rgba[p].c * image.rgba[p].a
              IN got.a = image.rgba[p].a /\ 255 * got.c - c \in -127..127
=============================================================================
