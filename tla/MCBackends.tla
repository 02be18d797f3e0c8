----------------------------- MODULE MCBackends -----------------------------
(* Requests for Backends: one for each way through the list of decoders.   *)
EXTENDS Backends

File(is, codec) == [head |-> is, ext |-> is, is |-> is, track |-> TRUE, codec |-> codec,
                    config |-> TRUE]
Ask(backend, node, file) == [backend |-> backend, node |-> node, file |-> file]

MCRequests ==
    {Ask("auto", "nvidia", File("mp4", "h264")),
     Ask("gpu", "other", File("mp4", "h264")),
     Ask("auto", "nvidia", File("mkv", "other")),
     Ask("auto", "none", [File("mkv", "vp9") EXCEPT !.ext = "mp4"]),
     Ask("auto", "none", [File("mp4", "av1") EXCEPT !.ext = "mkv"]),
     Ask("cpu", "other", [File("mp4", "hevc") EXCEPT !.head = "other"]),
     Ask("cpu", "none", [File("mp4", "h264") EXCEPT !.config = FALSE])}
=============================================================================
