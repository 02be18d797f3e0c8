----------------------------- MODULE MCPlayback -----------------------------
(* Small films for Playback: one for each thing a file can do to next_frame. *)
EXTENDS Playback

CONSTANTS Untimed, Unmarked     \* with films without a duration, without marks

Sample(pts, key, kind) == [pts |-> pts, key |-> key, kind |-> kind, size |-> 1]
Pic(pts) == Sample(pts, "no", "pic")
Key(pts) == Sample(pts, "yes", "pic")
Skip == Sample(0, "no", "skip")
Bad(pts) == Sample(pts, "no", "bad")
File(container, codec, duration, samples) ==
    [container |-> container, codec |-> codec, duration |-> duration, chroma |-> "420",
     samples |-> samples]

TimedFilms ==
    {\* B-frames: decoded 0 2 1 3, then a new format at a keyframe
     File("mp4", "h264", 6, <<Key(0), Pic(2), Pic(1), Skip, Pic(3),
                              [Key(4) EXCEPT !.size = 2], Pic(5)>>),
     File("mp4", "hevc", 3, <<Key(0), Skip, Pic(2), Pic(1)>>),
     \* damage in the middle, and at both ends of a pass
     File("mp4", "h264", 5, <<Key(0), Pic(2), Bad(1), Pic(4), Pic(3)>>),
     File("mp4", "h264", 4, <<[Bad(0) EXCEPT !.key = "yes"], Key(1), Pic(2), Bad(3)>>),
     File("mp4", "h264", 4, <<Key(0), Bad(1), Bad(2), Bad(3)>>),
     File("mkv", "vp8", 2, <<Key(0), Bad(1)>>),
     \* a hidden picture shown by a later sample, blocks that mark no keyframe
     File("mkv", "vp9", 4, <<Sample(0, "unknown", "pic"), Sample(1, "unknown", "hidden"), Skip,
                             Sample(2, "unknown", "pic"), Sample(3, "unknown", "again")>>),
     File("mp4", "av1", 3, <<Key(0), Sample(1, "no", "hidden"), Sample(2, "no", "again")>>),
     [File("mp4", "av1", 1, <<Key(0)>>) EXCEPT !.chroma = "444"],
     \* nothing to show at all
     File("mp4", "h264", None, <<Skip>>),
     File("mkv", "vp9", 1, <<Bad(0)>>)}
UntimedFilms == {File("mkv", "vp8", None, <<Key(0), Pic(1)>>)}
UnmarkedFilms ==
    {File("mkv", "h264", 2, <<Sample(0, "unknown", "pic"), Sample(1, "unknown", "pic")>>)}
ASSUME EncodersWriteThem == \A f \in TimedFilms \cup UntimedFilms : WellMade(f)

MCFilms == TimedFilms \cup (IF Untimed THEN UntimedFilms ELSE {})
                      \cup (IF Unmarked THEN UnmarkedFilms ELSE {})
=============================================================================
