# noshare-cover: formal models

noshare-cover is a Hyprland plugin. Hyprland paints windows marked
`no_screen_share` black in screen captures; the plugin paints a *cover* there
instead, a still image, an animation or a video. A Rust core (`src/src`) owns the
covers; a C++ shim (`src/shim`) hooks the compositor's rendering and calls the
core through a C interface (`src/include/noshare_cover.h`, `src/src/ffi.rs`).

This directory holds TLA+ models of the program, TLC runs that check them on
small instances, and TLAPS proofs of the main safety properties for every value of
the constants.

    tlc -workers 2 -config registry_safety.cfg MCRegistry     # a run
    tlapm RegistryProofs.tla                                  # the proofs

## 1. The system

| component | code | state | operations |
|---|---|---|---|
| Cover registry | `registry.rs`, `worker.rs`, `notify.rs` | settings, epoch, map of covers (absent, opening, ready, missing, failed), parked loaders, message queue | set settings, prewarm, warm, begin frame, resolve, end frame, shutdown; loader threads: open, wait for a first frame, send, end |
| C interface | `ffi.rs` | the one registry, the frames lent to the shim | one function per registry operation, panic guard |
| Settings | `config.rs` | none | parse raw values, apply a window's rule |
| Video source | `media/video/mod.rs` | slot, generation counters, `watched`, `quit`, `ended`, `error` under a mutex; clock origin in the thread | run, poll, drop |
| Pipeline | `media/video/pipeline.rs`, `demux.rs` | ready frames, flushed, loop offset, position in the file | next frame |
| Decoders | `decode/*`, `vaapi-helper` | pictures held back, refused packets, parser, surfaces | decode, flush, reset, drop |
| Decoder and GPU choice | `backend.rs`, `gpu.rs`, the decoders' constructors | libraries, contexts and devices; the one VA-API helper of the process | open, fall back, release |
| Images, animations | `media/mod.rs`, `media/gif.rs`, `media/still.rs`, `frame.rs`, `clock.rs` | canvas, backup, position | open, poll, shown |
| Bitstream, planes | `bitstream.rs`, `yuv.rs` | none | parameter sets and packets, conversion of a picture |
| Extra rects | `extra.rs` | clients, rects by monitor, callbacks | register, unregister, set, clear, gone callback |
| Shim: capture | `shim/capture.cpp` | hooks, windows whose flags are off, retry timer | render a monitor, install and remove hooks |
| Shim: closing, pump | `shim/closing.cpp` | closing windows and layers, pump timer | track, release, tick |
| Shim: paint | `shim/paint.cpp`, `scene.cpp` | textures by cover id | paint covers, prune, take messages |
| Shim: life cycle | `shim/main.cpp`, `shim/config.cpp` | listeners | init, clean up, push settings |

How they interact. Everything but loaders and decode threads runs on the
compositor's main thread. On each capture frame the shim calls
`nsc_begin_frame`, `nsc_resolve` for each window it covers, paints what it was
handed, calls `nsc_end_frame` and takes the messages. `nsc_set_settings` is called
on a config reload and whenever the shim is about to use the core; `nsc_prewarm`
when a window gets a rule. The registry starts one loader thread per cover; the
result comes back through a channel that `resolve` looks into. A loader that opens
a video starts its decode thread, which from then on shares a mutex and a
condition variable with whoever owns the source.

What is hard about it, by component:

* *Registry.* Loaders outlive what they were started for: a settings change or an
  eviction takes their cover away, an unload must end them all before the code is
  unmapped, and the compositor must not wait for them. What must hold: each
  running thread has one owner that joins it; a stale result never lands; no join
  of a working thread outside the unload; pixels lent stay put during a frame; ids
  are never reused; a black cover is explained to the user, although messages are
  deduplicated and missing files retried silently.
* *Video source.* Three kinds of wait on one condition variable, a thread that
  sleeps when nobody watches, late frames dropped. What must hold: no lost
  wake-up, the slot and the counters agree, frames keep coming, no decoding for
  nobody, the drop ends at once.
* *Pipeline and decoders.* Decoders hand out pictures late and out of order, refuse
  some, and are drained at the end of every pass. What must hold: each picture
  once per pass, in display order, at its time; every call returns; time goes on
  over loops.
* *Choice of a decoder.* A dozen acquisitions per constructor, each of which fails on some
  machine, released on as many error paths; a library shared by threads through a
  `Weak`. What must hold: no resource outlives what its release needs, failures
  leave nothing behind, the best decoder that works is used.
* *Images, bitstream, planes.* Incremental composition must show what composition from
  scratch shows; packets must arrive whole; reads must stay in buffers whose sizes
  five decoders choose differently.
* *Extra rects.* Clients come and go around a reload of the plugin, and run inside its
  clean-up.
* *Shim.* State changed for the duration of a frame (window flags) and put back on
  every path; objects known by address after they are gone; textures keyed by ids;
  a pump that must run exactly as long as something moves; an order of
  installation and removal.

`PROJECT.json` lists the hazards at their lines with the properties that cover
them.

## 2. Modules

| module | what it is |
|---|---|
| `CoverLife` | abstract: what the shim's texture cache relies on about the covers |
| `Registry` | registry, loaders, workers, notifier, and the calls of the C interface; implements `CoverLife` |
| `MCRegistry` | instance for TLC |
| `RegistryProofs` | theorems about `Registry` |
| `VideoSource`, `VideoSourceProofs` | decode thread and owner; theorems about it |
| `Capture` | capture frames, window flags, the hold, closing covers, pump |
| `MCCapture` | instance for TLC |
| `CaptureProofs` | theorems about `Capture` |
| `Plugin` | loading and unloading, the hook, extra rects of other plugins |
| `MCPlugin` | instance for TLC |
| `PluginProofs` | theorems about `Plugin` |
| `Film` | abstract: what `Pipeline::next_frame` promises |
| `Playback`, `MCPlayback` | pipeline, demuxers and the five decoders, which implement `Film`; instance |
| `Backends`, `MCBackends`, `BackendsProofs` | choice, construction and release of decoders; instance; theorems |
| `Images` | opening a file, still pictures, GIFs and their clock |
| `PlaybackProofs` | theorems about `Playback`: it implements `Film` |
| `Bitstream`, `BitstreamProofs` | parameter sets and packets; theorem |
| `Planes` | the decoders' pictures and `to_bgra` |
| `PicturesProofs` | theorems about `Images` and `Planes` |
| `MCMedia` | instance of the three that one caller drives alone |

Definitions introduced by a comment "Variant" are deviating forms of the
definition that follows, kept to see that the properties tell them apart (each is
caught by the property it is paired with in `PROJECT.json`). No specification uses
them.

### Registry

One action per call of the C interface, and one per step of a loader thread. A call
runs on the compositor's thread from start to end, so it is atomic with respect to
other calls; a loader's steps come between any two calls. `resolve` is one call
split by what it finds (`ResolveAbsent`, ..., `ResolveFailed`), with the case
"opening, the result is there" followed by the poll of the source in the same step,
as in the code. `Shutdown` drops the registry; its loaders are then dropped one by
one, each `DropLoader` (cancel) and `JoinLoader` (join), with threads running in
between.

| model | code |
|---|---|
| `covers[p]`, `Absent` | entry of `Registry::covers`, no entry |
| `threads[t].phase` | `open`: in the opener; `poll`: waiting for a first frame; `sent`: result in the channel; `done`: `Worker::is_finished` |
| `NoThread` | `pthread_create` failed, the sender was dropped with the job |
| `retired` | `Registry::retired`; after `Shutdown` also the loaders that were in covers |
| `age`, `retryIn` | `now - last_used` and `retry_at - now`, saturated where they are compared |
| `polled` | `polled_in == frame_no` |
| `views[p]` | the frame lent to the shim for `p` in this capture frame |
| `queue`, `last` | `Notifier`; `told` is what the user has been shown since the last settings change |
| `pushed` | the raw values given to `nsc_set_settings` last |

Left out: the contents of frames, file names, speed and loop parameters (a play is
one value), `debug_*` functions. A loader's `catch_unwind` ends like an error, so
both are one outcome. An opener that succeeds and a source that yields no frame
are distinct outcomes. `animating` and `live_ids` are pure queries for the shim.

`CoverLife` is what `paint.cpp` relies on when it keeps one texture per cover id, replaces it
only when the generation differs (`paint.cpp:33`), drops all when the epoch changes, and reads
pixels until `nsc_end_frame`. A cover has an id, a stage and a frame. Each id is new; its frames are
of one source, as "ready" is entered once and left for "failed" only, so generations
of two sources, which number theirs independently, are never compared under one id; a frame is
followed by a frame until the source fails; what was shown in a capture frame stays until its
end; and between two frames only new settings, with a new epoch, and the unload close covers.
`Life` in `Registry` maps `covers[p]` to it (`LifeOf`): loaders, times, retries and messages are
left out.

### VideoSource

One action per critical section of the mutex, and waits split in release and
wake-up: `check -> asleep -> check` (sleep), `due -> early -> due` (display time),
`over -> parked -> over` (ended). `Woken` is `notify_all`. `drop` is three steps
because quit is set under the lock and the notification comes after it. The clock
is `lag = now - due` of the frame handled last: it grows by one per tick and
shrinks by `Step` per decoded frame, so nothing unbounded is stored. A tick cannot
pass while the thread has something to do, except within `DecodeTime` per frame
or out of a budget `MaxSlack` that stands for a busy machine.

### Capture

A capture frame for a client (`Frame(c)`), a close event, a tick of the pump: each
is one action, as each runs on the compositor's thread from start to end. The
passes of a frame over the windows' `no_screen_share` are operators that name the
slot after each pass (`SlotRevealed`, `SlotHeld`, `SlotSuppressed`, `SlotPainted`,
`SlotAfter`), so that the order of the passes is the order of the definitions.

| model | code |
|---|---|
| a surface | the address of a window or layer; `kind` says what is there |
| `slot[s]` | the override at `PRIORITY_SET_PROP`, which `hyprctl setprop` uses too |
| `rule[s]`, `RulesOf` | whether the rule matches; hold and show list it gives, else the options |
| `fade[s]` | Hyprland's fade-out: running, done, freed |
| `last[s]` | entry of `g_lastCovers`: kind, age, rules, gone |
| `closing[s]` | entry of `g_closing`: `bind` is what is left of `bindUntil`, `bound` whether the fade-out was found, `hold` what is left of `holdUntil` or `Searching` |
| `armed`, `boxes` | the pump's timer; `g_animBoxes` not empty |
| `pending`, `quiet` | frames asked for, time since the last one: `beingCaptured` |
| `dirty` | clients for which the monitor was damaged since their last frame |

`recent`, `stayed`, `left` and `fade[s].owed` are history the properties speak of;
no guard reads them. Abstracted: geometry and drawing ("covered" is membership in
a set; surfaces lie apart, so `findFadeFor` finds the surface's own fade-out), the
transparent kind of cover, several monitors. Hyprland's lists of windows and layers hold the mapped
ones (`Mapped`); `revealFor` and `suppressNoScreenShare` themselves ask no more than to be in them.

An address of `Reused` may be taken again by another window or layer (`Open`) while
what outlives the one that had it is still there: its fade-out, its closing cover, its entry in
`g_lastCovers` marked gone. In `Reused = {}` it waits until the fade-out and the cover are gone. One bound
is the model's own: an address has one closing cover and one fade-out, so the new surface neither
closes nor moves (`Close`, `Move`) before those of the previous one are over. `g_closing` is a list and would
hold both.

`FadesCovered` speaks of fade-outs that are owed a cover (`fade[s].owed`): "live" from the close of a
hidden surface during a capture, "waiting" when the next frame has to notice the close, which is "live"
from that frame on, and "lost" once captures have paused or the bind window has passed without a frame
(`Missed`). What is lost is what the code gives up: two shots further apart than the bind
window leave the animation without its cover. A close that waits for the next frame is not owed
anything either when that frame finds a new surface at the address covered: the entry of `g_lastCovers` is
then the new one's, and the code has forgotten the close.

### Plugin

`PLUGIN_INIT` and `PLUGIN_EXIT` run from start to end on the compositor's thread, with
one exception: `nsc_api_notify_gone` runs code of other plugins in the middle of the
clean-up. So a load is one step, and so is the clean-up before the callbacks
(`CleanUp`), each callback (`Told`) and the rest (`FinishCleanUp`). A load that throws
goes the way of an unload, as the `catch` in `PLUGIN_INIT` does.

| model | code |
|---|---|
| `held` | listeners, configuration, core, zoom hook and the three timers that exist |
| `hook` | who has hooked `renderMonitor`; hooks are exclusive |
| `clients`, `nextId` | `CLIENTS`, by id: a client's rects as pairs of a monitor and a number |
| `gone`, `tell` | `GONE`, and the list taken by `nsc_api_notify_gone`; called in any order |
| `bound`, `pins`, `id` | another plugin's pointers, `dlopen` handle and client id |
| `Join`, `Leave` | the usage in the public header: bind, register, set a callback, drop the handle; unregister, unbind |

What `set_rects` keeps and adds depends on the monitor and the number of rects only, so
rects are numbered on their monitor. `put` is what a peer has asked for, computed from its
calls alone; `stale` marks ids from
before a reset. Left out: geometry and fill of a rect, client names. When the library
leaves memory its statics have been reset already, so a fresh one is no different.

### Film and Playback

`Film` is the promise in the trait comments of `pipeline.rs`: the pictures of the file in
display order, each once per pass, the k-th pass later by (k - 1) times the length;
then the end; an error only with an excuse. `Playback` is the code, one action per turn
of `next_frame`'s loop, and `ImplementsFilm` says that it implements `Film`, with the
file's pictures computed from the samples alone (`Times`) and the excuses spelled out
(`Excuse`: something failed, nothing to show, damage the decoder does not forgive).

| model | code |
|---|---|
| `film.samples` | the track: time, keyframe mark, format, kind (picture, hidden, shown again, damaged, skipped) |
| `packet` | the last packet given to the decoder in this pass |
| `dec` | what the five wrappers keep: pictures in the engine, openh264's count of refusals, NVDEC's parser, VA-API's format and frames |
| `ready`, `flushed`, `offset`, `tries` | the fields of `Pipeline`, the guard of the loop |
| `Breaks` | a read, a seek or a driver call fails |

The engines (openh264, libvpx, rav1d, the NVIDIA parser, cros-codecs) are external:
`Engine` reorders up to `Depth` pictures for H.264 and HEVC and none for the others. What
the wrappers add is modelled one by one: when they refuse, drain, renegotiate, drop a
format, take a picture's time from the handle or from the packet. A picture that `to_bgra` refuses is dropped
by each wrapper (`nvdec.rs:783`, for one); `Playback` has no such picture, as by `ReadsInside` they
are those of NVDEC's odd widths, and then every picture of the file.

### Backends

A constructor is a sequence of steps `[does, gets]`; each works, and gives its
resource, or fails, and the error path of the code is what is then released, one
resource at a time. Threads run their steps and releases interleaved. `helper()` is
four actions: the mutex, the upgrade of the `Weak`, the load, the failure. The last
`Arc` unloads the library outside the mutex (`Unload`), so a thread may load a second
instance before the first is gone, as in the code.

| model | code |
|---|---|
| `left[p]` | the candidates of `open_decoder` still to be tried |
| `held[p]`, `todo[p]` | what a decoder or a failed constructor has; the order of the code in which what it has is released |
| `Needs` | external: what a release must still find (CUDA, NVDEC, VA-API, `dlclose`) |
| `lock`, `slot`, `arc`, `loaded` | `HELPER`, the `Weak` in it, the `Arc`s, the library instances in the process |
| `reasons`, `told` | the reasons collected, and those the caller learns |

### Images, Bitstream, Planes

`Images`: `open` by extension and signature; a picture is handed out once; a GIF's frame is
chosen by the clock and composed step by step on one canvas with a backup. The time is
the caller's and jumps. `PictureRight` compares with `Visible`, the composition from
scratch that the GIF format defines. The background is transparent or, with a global palette, one of
its colours (`gif.rs:61`). Pixels are 2 x 2, a colour is a name, or a byte and
an alpha for still pictures.

`Bitstream`: `AvcC`, `HvcC` and `StoredAll` write what a muxer writes (external);
`ParseAvcc`, `ParseHvcc` and `ToAnnexB` are the code, on bytes, with recursive functions
where the code loops: `Turn` is a turn of the loop of `to_annexb`. `ClampSpsLevel` is openh264's own
copy, which it makes of keyframes only. What a file holds satisfies what the formats ask
of a writer: no start code inside a NAL unit or set (`NoStartCode`), and units and sets whose
length fits the field in front of them (`Fits`).

`Planes`: strides, lengths and buffer sizes as each decoder makes them, the checks of
`to_bgra` and the last byte of each read, in both of its paths; bands of rows per thread.
Colours are left out.

## 3. Runs

| run | module | what it asks |
|---|---|---|
| `registry_safety` | `MCRegistry` | all safety properties and `CoverLife`, two covers and two threads |
| `registry_live` | `MCRegistry` | liveness and the bound of the queue, one cover and two threads |
| `video` | `VideoSource` | safety and liveness of the decode thread |
| `capture` | `MCCapture` | what capture frames of two clients show, flags, hold |
| `capture_live` | `MCCapture` | closing animations are covered, once, and the covers end; addresses taken again |
| `capture_hold` | `MCCapture` | finding: an allowed client's shot ends the hold for others |
| `plugin` | `MCPlugin` | safety and liveness with two other plugins that set a gone callback |
| `playback` | `MCPlayback` | every decoder implements `Film`, every call returns |
| `loop_time` | `MCPlayback` | finding: time stamps start again when the file has no duration |
| `mkv_keyframe` | `MCPlayback` | finding: no parameter sets for a first frame in a BlockGroup |
| `backends` | `MCBackends` | two threads open, fail and close: order of releases, leaks, the choice, no hang |
| `media` | `MCMedia` | GIF composition, packets, planes |

Five more configurations show what section 4 says of them and can be run the same way:
`registry_config_error.cfg` (`MCRegistry`), `video_error.cfg` (`VideoSource`),
`capture_fade.cfg` (`MCCapture`), `plugin_ids.cfg` (`MCPlugin`) and
`backend_reasons.cfg` (`MCBackends`). Each checks one property and TLC finds it violated.

Bounds of the registry runs and why they are enough:

* Two covers: the default one (`p1`, prewarmed and never evicted) and one from a
  rule (`p2`, evicted). Properties relate at most two covers. Only `p2` has a file
  that comes and goes (`Fickle`) and a source that may fail (`Faulty`); `p1`
  exercises the paths of a file that is there. The live run gives the one cover
  the fickle file and the default's role.
* Two threads: one working for a cover that is gone and one for its successor; with
  both taken, `pthread_create` fails (`NoThread`), which may also happen at any
  other time. Threads are symmetric in the safety run; the live run uses no
  symmetry.
* `MissingRetry = EvictAfter = 1` tick in the safety run: reached, not reached,
  passed. The live run uses 2 for the retry, so that pushing it back is seen.
* `MaxEpoch = 2`: the first settings, then a change with covers in every state,
  and loaders parked from before. `MaxId = 3` (2 in the live run): a cover opened
  again after a reset or an eviction. Both counters only appear in guards, as
  bounds.
* `QueueCap = 2` in the safety run (16 in the code, `notify.rs:20`) is one message per
  cover, just what `FailuresReported` needs: with 1 TLC finds it violated, as a cover's
  message is dropped before the shim has taken it. `QueueCap = 1` in the live run
  is reached by a failing cover and a bad setting, so that the oldest message is dropped; `TypeOK` is
  checked there, with the bound of the queue.

Bounds of the video runs: three frames two ticks apart, late after one tick, idle
after three (`IdleAfter` longer than a frame, shorter than the clip). A tick is
about 40 ms of the code's clock. `MaxSlack = 4` lets the thread fall two frames
behind, `MaxLag = 5` is past every comparison with `lag`.

Bounds of the capture runs:

* One surface: surfaces meet only in `armed`, `boxes` and whether anything is being
  captured; each of these is also driven by the clients and by the surface's own
  life. The proofs cover any set of surfaces.
* Two clients, one let through by the rule and one not, whose frames alternate in
  every order. The live run needs one.
* `Bind = 1 < Share = 2 < Stale = 3` ticks in `capture` keeps the order of 150 ms, 500 ms and
  1 s; the hold of two ticks spans a frame before, at
  and after its end; the options' hold of 0 covers "just the animation". `capture_live` has
  `Bind = Share = Stale = 2`: with a bind window of two ticks a frame may come within it, at its
  end or after it, and an entry may be too old for a cover without a running fade-out.
* `Reused = {shared}` in `capture_live`: the address is taken again by a window or a layer in every state of
  the closing cover and the fade-out. In `capture` it is not: what its properties say of a
  frame does not depend on who had the address, and the proofs, which allow any `Reused`, cover it.

Bounds of the plugin runs: two peers (ids, callbacks and the hook concern at most two),
two monitors with room for two rects (one monitor's rects limit the other's), three
ids between resets, so that a peer leaves and comes back. All peers set a gone
callback in `plugin`; in `plugin_ids` one does not.

Bounds of the playback runs: one film for each thing a file can do to the pipeline
(B-frames, a new format at a keyframe, damage first, last, in the middle and all over,
skipped samples, hidden pictures, an unsupported chroma, no pictures at all), up to
seven samples, played with every engine of its codec, looped and not. `Depth = 2`
reorders pictures across a skipped sample and across the end of a pass;
`MaxRefused = 2` (the code's limit is larger) is reached within a pass and across
one; `GuardLimit = 16` is above the turns any of these films needs and below an
endless loop; `Headroom = 2` makes the VA-API pool `Depth + 1 + Headroom` frames, which
never runs out (`PlaybackAssumption` asks for more than 0 for that); `MaxShown = 13` is two
passes of the longest film and the start of a third.

Bounds of the backends run: two threads (the helper and its mutex concern at most two at a
time), one request per way through the list of candidates, with a codec that every decoder
refuses among them, two loads of the helper, so that it is unloaded and loaded anew while the other thread looks it up.

Bounds of the media run: GIFs of four frames with all combinations of three disposals,
polls 0, 1 or 3 apart until time 12, past two loops (four at speed 2); samples of up to three NAL units
out of six, cut or not, lengths of one to four bytes (three is refused by the code);
pictures of up to 5 x 5 with padding 0 and 1, one to three threads. `PicturesProofs` and
`BitstreamProofs` cover all sizes.

Fairness of `Playback!Spec`: a call that has been made runs on. Fairness of
`Backends!Spec`: a thread with work does it, and gets the helper's mutex if it is free again
and again. Neither is assumed to succeed, to be called or to close.

Fairness of `Plugin!LiveSpec`: the retry timer fires, and a plugin that has
`renderMonitor` lets go of it once it sees noshare-cover (`README.md:239` says so of
gloview).

Fairness of `Registry!LiveSpec`: loader threads run (weak fairness of their
steps); the compositor finishes a frame it started and starts the next one; a cover
on screen is resolved (strong fairness, as `Resolve` is only enabled inside a
frame); the clock moves (strong fairness of `Tick`). Nothing is assumed of the
settings, the files, the rules, nor that the plugin is ever unloaded. The
first-frame deadline is relied upon for loaders that have not been parked, not for
parked ones: those must end because of their cancel flag, and this is why `Unloads`
and `ParkedEnd` say something about the flag. `MissingRecovers`
needs the frames to go on, which the shim guarantees while a capture runs.

Fairness of `VideoSource!LiveSpec`: the thread runs, its timed wait for a display
time ends, polls recur, a drop that has started ends, and the clock moves. The
time-out of the sleep is *not* fair: a wake-up must come from a poll or the drop.
Decoding is assumed faster than the frame rate (`DecodeTime < Step`).

Fairness of `Capture!LiveSpec`: the pump's timer fires, animations end and are freed,
time passes; a frame that a client has asked for is served when the monitor is
damaged
again and again (strong fairness: it can only be served after damage).
Clients need not ask, windows need not change.

Deadlock is checked but in the playback runs and in `media`, where the caller stops after
the end or an error, or when its time is up; the unloaded plugin and the joined source
stutter in an action of their own (`Stopped`).

## 4. What the runs show

* Threads are owned and joined exactly once (`ThreadsOwned`), never joined at work
  (`NeverJoinsWorking`), end when parked (`ParkedEnd`) and on unload (`Unloads`).
* A settings change cannot be overtaken by an old loader (`CurrentSettings`).
* Lent pixels stay, and a texture kept under a cover's id never shows another cover's or
  source's picture (`ImplementsLife`).
* A failed or missing cover has been explained since the last settings change
  (`FailuresReported`), and missing files are retried (`MissingRecovers`).
* The video slot and counters agree (`Handoff`), no wake-up is lost and falling
  behind is recovered from (`FramesKeepComing`), the thread sleeps when it should
  (`NoLoneDecoding`), the drop needs no time-out (`DropEnds`).
* With each of the five decoders the pipeline implements `Film` (`ImplementsFilm`), and no
  file keeps it from returning (`CallReturns`).
* Decoders are released in an order in which nothing outlives what it needs, the `Arc` of the
  shared helper included (`NothingDangles`), and those that have one share one loaded instance
  (`HelperShared`); failed ones leave nothing (`NothingHeld`); what
  plays is the best that works, and an error has a reason for each candidate
  (`BestChosen`); no open hangs on the helper's mutex (`OpenEnds`).
* GIFs look as the format says whatever was skipped (`PictureRight`), decoders get every
  NAL unit and parameter set (`NalsKept`), the conversion stays in its buffers
  (`ReadsInside`). The last clause of `ReadsInside` names an exception: NVDEC's rows are
  `w * bpp` bytes, and of an odd width `plane_ok` (`yuv.rs:156`) wants one sample more for
  interleaved chroma, so these pictures are refused, all of them.
* No frame shows a hidden surface to a client that its rules keep from it
  (`NeverExposed`), or covers one for a client they let through
  (`ShownAsAllowed`), although three passes share one override slot with the user;
  the slot is put back (`FlagsRestored`). A surface stays covered for its hold after
  it stops being hidden (`HeldAfterUnhiding`) and no longer (`HoldEnds`); close
  animations are covered while captures go on (`FadesCovered`), by one cover (`StartedOnce`) that goes
  (`ClosingEnds`) and leaves the picture of a stream that waits for damage
  (`PictureRecovers`), as the pump lives as long as it is needed (`PumpArmed`).

`HeldAfterUnhiding` states the hold as the code counts it, from the last frame that
covered the surface: on a screen that stood still for longer than the hold, nothing
is held.

* After loads, failed loads and unloads in any order nothing is left in the compositor,
  and no frame enters the plugin once its clean-up has begun (`NothingLeft`); plugins
  that set a gone callback neither dangle nor pin the library (`PeersLetGo`); each
  client has exactly the rects it asked for (`RectsOwned`); the hook comes, whoever
  was loaded first (`HookComes`).

Statements of the sources that do not hold, shown by runs of the project:

1. `pipeline.rs:66` says a looped file's time stays monotonic. The offset grows by the
   container's duration, or by zero when it has none (`pipeline.rs:107`): a Matroska file
   without the element (`demux.rs:221`) or an MP4 that says zero (`demux.rs:122`). Every
   frame of the later passes is then late for the clock of `media/video/mod.rs`, and dropped
   (`loop_time`).
2. `demux.rs:273` says the first frame of a Matroska file is treated as a keyframe when the
   container does not say. The code takes `unwrap_or(false)`; H.264 in BlockGroups never gets
   its parameter sets (`mkv_keyframe`).
3. `tests/e2e/closing-show-to.sh:4` says a shot of an allowed client does not cost the
   others the hold. It does if it is taken after the surface stopped being hidden:
   the frame neither reveals nor holds the surface, so `trackClosed` drops its entry
   of `g_lastCovers` (`closing.cpp:189`), which the others' hold is counted from
   (`capture_hold`). The test takes that shot before.

And by the further configurations:

4. `config.rs:69` says a config error is shown to the user. `set_settings` compares
   the *parsed* settings first and returns when they are equal
   (`registry.rs:201`). An unknown backend word parses to the default backend, so
   a user who writes a wrong word while the default is in force sees nothing
   (`registry_config_error`, property `ConfigErrorShown`).
5. `media/video/mod.rs:37` says a fatal thread error is shown to the user. `poll`
   returns it only before the first frame (`mod.rs:115`); later the cover keeps
   its last frame and nobody is told (`video_error`, `ErrorShown`).
6. `README.md:143` says the cover follows the snapshot until the animation ends. The
   pump drops the closing covers when nothing was captured for half a second
   (`closing.cpp:115`), and nothing makes them again: the second of two shots during
   one long close animation shows the window (`capture_fade`, `FadesAlwaysCovered`).
7. `README.md:231` says a plugin cannot wipe another's rects. `reset` starts the ids again
   (`extra.rs:194`); a client without the optional callback pins the library, keeps
   its id over an unload, and shares it with whoever registers next (`plugin_ids`,
   `RectsOwned` with a peer that sets no callback). `extra.rs:5` says the same of "each
   plugin gets its own client".
8. `backend.rs:5` says every rejection's reason is shown to the user. In `auto` the GPU
   decoders' reasons are dropped when a CPU decoder opens (`backend.rs:45`;
   `backend_reasons`, `RejectionsShown`).

## 5. What is proved

`RegistryProofs` proves for every set of plays, threads, settings and every bound
(from `RegistryAssumption` only, which says that the constants have their types):

    TypeCorrect              Spec => []TypeOK
    InvCorrect               Spec => []IInv
    ThreadsOwnedCorrect      Spec => []ThreadsOwned
    CurrentSettingsCorrect   Spec => []CurrentSettings
    IdsDistinctCorrect       Spec => []IdsDistinct
    ViewsStayValidCorrect    Spec => ViewsStayValid
    NeverJoinsWorkingCorrect Spec => NeverJoinsWorking
    ImplementsLifeCorrect    Spec => ImplementsLife
    FailuresReportedCorrect  Cardinality(Plays) <= QueueCap |- Spec => []FailuresReported

None of the safety properties is inductive by itself. `ThreadsOwned`, for instance,
needs that a loader in a cover belongs to an *opening* cover (else eviction of a
ready cover would have to look at it) and that after `Shutdown` no cover holds one.
`IInv` collects what they need:

* `LoadersHeld`: a loader is held by one opening cover, works for it, with the
  settings in force, and is not parked;
* `ThreadsKept`: a thread runs iff it is held or parked;
* `DownClean`: after the shutdown no cover is left; a join is only in progress then;
* `FramesReady`: a cover with a frame is ready; a ready one has the settings in
  force;
* `ViewsHeld`: a lent frame is the frame of a ready cover polled in this capture
  frame;
* `IdsDistinct`.

The proof has a lemma per action, with the steps that only move a thread or the
clock sharing one, and splits along the conjuncts of `IInv`; the properties follow
from `IInv`, the two action properties from `IInv` and one step.

`ViewsStayValid` is the clause of `CoverLife` about lent pixels by itself; the runs check the
whole. `ImplementsLife` is a refinement, one step to one step: `PushNew` is `Reset`, `Warm` is
`Prewarm`, a call of `Resolve` is `OpenInFrame`, `Look` or, when the frame has been lent already,
nothing; all steps of threads, timers and files are nothing. `LooksOn` and `PollLooks` carry it:
from what was stored, by the stage before and after. A cover that `EndFrame` closes must not
have been shown, which needs one fact that is not in `IInv`: no time passes within a capture
frame, so what was shown in it has age 0 (`ShownIsUsed`), and `EVICT_AFTER` is not 0.

`FailuresReported` has an invariant of its own, `ToldInv`. The explanation of a black cover
is among what the user has been told or among the newest messages in the queue (`Recent`),
as many of them as covers have been resolved in this frame (`Settled`) at most: the
deduplication may swallow a message only if it repeats the newest one (`Repeats`), and a
full queue drops only what is older than that many, given room for one message per cover.
The hypothesis is tight (see the bounds above): when more covers fail between two
drains than the queue holds, one stays black without a word.

`CaptureProofs` proves, for every set of surfaces and clients, any rules and any time
constants (from `CaptureAssumption`):

    TypeCorrect              Spec => []TypeOK
    PumpArmedCorrect         Spec => []PumpArmed
    FlagsRestoredCorrect     Spec => FlagsRestored
    NeverExposedCorrect      Spec => NeverExposed
    ShownAsAllowedCorrect    Spec => ShownAsAllowed
    HeldAfterUnhidingCorrect Spec => HeldAfterUnhiding
    HoldEndsCorrect          Spec => HoldEnds
    FadesCoveredCorrect      Spec => FadesCovered
    StartedOnceCorrect       Spec => StartedOnce

`Shapes` is the part of `TypeOK` that most proofs need: slots, tracked covers and
closing covers are what they should be; for ages and time limits
they need `ThresholdsAssumption`, that one of the time limits is the longest. `FlagsRestored` rests on two lemmas about the
passes (a pass that overrides and one that restores cancel out, and a surface is
never both revealed and held); `NeverExposed` and `ShownAsAllowed` on the equivalence
`CoveredIffKept`: a hidden surface is covered exactly for those who may not see it.
The hold rests on `HoldInv`: a surface that is owed a hold has its entry in `g_lastCovers`
with the age it was covered at, whatever frames of other clients came between. The closing
animations rest on `FadeInv`: a fade-out that is owed a cover has a closing cover that is
bound to it, or still looks for it within the bind window, or the tracker will start one
on the next frame. `StartedOnce` rests on `StartInv`: an address with a closing cover has no entry
of `g_lastCovers` that is gone, or could go, because `startClosing` erases it and a new surface that is covered
makes one that is its own.

`PluginProofs` proves from `PluginAssumption`, for any number of peers:

    NothingLeftCorrect       Spec => []NothingLeft
    PeersLetGoCorrect        Heeding = Peers |- Spec => []PeersLetGo
    TypeCorrect              Spec => []TypeOK
    RectsOwnedCorrect        Heeding = Peers |- Spec => []RectsOwned

`NothingLeft` is inductive together with the types and with what the clean-up has left
when the callbacks run (`Stripped`). `PeersLetGo` needs that every peer will be told
(`WillBeTold`), and that, since callbacks are kept by client, because no two peers have
the same id (`IdsApart`): this is what fails in `plugin_ids`. `RectsOwned` adds `OwnInv`: the
callbacks are those of the peers that have pointers, each for its present client
(`CallbacksAreCurrent`), so a callback that unregisters takes away no other's rects; nobody
has an id from before a reset (`IdsAreCurrent`); and each client has what was asked for
(`RectsAsAsked`), which `SetAsAsked` shows of `set_rects` with rects on other monitors and
too little room. `TypeOK` counts: whatever is asked for, a client fits (`Fits`).

`PicturesProofs` proves from `PlanesAssumption`, for pictures of any size, depth, chroma and
padding, any number of threads and all five decoders:

    ReadsInsideCorrect       PlanesSpec => []ReadsInside

`RowFits` is the heart of it: what `plane_ok` has checked of the last row bounds the end of
every row; `SampleExists` relates the shift of a chroma sample to the rounded-up size;
`BandsPartition` says that each row is in the band of its quotient; one lemma per kind of
decoder shows that its buffers pass the check.

`VideoSourceProofs` proves from `VideoAssumption`, for any clip, frame rate and times:

    VideoTypeCorrect         Spec => []TypeOK
    HandoffCorrect           Spec => []Handoff
    NoLoneDecodingCorrect    Spec => []NoLoneDecoding

The bounds of `lag` need that only a thread that waits for a display time is early
(`NotEarly`), and `NoLoneDecoding` that after one frame for nobody the thread is on its way
to sleep until a poll (`NobodyServed`).

`BackendsProofs` proves from `BackendsAssumption`, for any number of threads and requests:

    HelperSharedCorrect      Spec => []HelperShared
    NothingDanglesCorrect    Spec => []NothingDangles
    NothingHeldCorrect       Spec => []NothingHeld
    BestChosenCorrect        Spec => []BestChosen
    TypeCorrect              Spec => []TypeOK

Every `Arc` is of the
instance in the `Weak` (`Shared`), because a new one is only loaded when nobody has one, and
an instance is only unloaded then; that a thread has an `Arc` exactly when the helper is
among its resources needs that a constructor's next step exists (`Places`) and which steps
give it (`HelperSteps`). `NothingDangles` needs `HeldInv`: a thread in a
constructor holds exactly what the steps so far have given it, and whatever its error path
or its drop releases comes before all it needs (`Unwinds`), which is checked for each of the
five constructors and each step that may fail. `BestChosen` needs `ChosenInv`: what is left
to try is a tail of the candidates, and each one before it was rejected with its reason.

`PicturesProofs` proves from `ImagesAssumption`, for GIFs of any size, any number of frames and any
times of the polls:

    PictureRightCorrect      ImagesSpec => []PictureRight

The specification is recursive in three places (the end of a frame, the composition from
scratch, the steps of `show`). `Counting` is induction with a set in place of a predicate,
from the well-foundedness of the natural numbers; it shows that the recursive functions exist
and have the values of their equations (`EndOfStep`, `LeavesStep`). Then one step composes
(`StepGifComposes`, where the backup matters), any number of steps do (`ShowComposes`), and the
frame chosen is that of the position (`FrameAtPosition`). `ImagesInv` joins them: canvas and
backup are those of the frame shown, and the frame sent is that of the clock.

`PlaybackProofs` proves from `PlaybackAssumption`, for files of any length with any times and
damage, any `Depth`, any bound on the turns of the loop and each of the five decoders:

    TypeCorrect              Spec => []TypeOK
    ImplementsFilmCorrect    \A f \in Films : WellMade(f) |- Spec => ImplementsFilm

`PlaybackAssumption` gives the constants their types and says that openh264's limit is not 0
(`MAX_REFUSED`, `decode/h264.rs:161`) and that the VA-API pool has frames to spare (`POOL_HEADROOM`,
`vaapi-helper/src/lib.rs:355`): without one, the picture that is kept for later may take the last.
`WellMade` says what an encoder writes and damage leaves: times of their own, pictures at most
`Depth` late and not across a new format, after a keyframe, and fewer samples without a picture
than `next_frame` has turns. The pipeline does less than `Film` says where, for instance, two
pictures have one time, one is later than the engine waits, or more hidden frames than the guard
has turns follow each other. `MCPlayback!EncodersWriteThem` has TLC evaluate it for the files of the runs.

The refinement is one step to one step: `Deliver`, `Finish` and what sets `call` to "failed" are
steps of `Film`, all others leave its variables alone. `ImplInv` is `PlayInv`, the types, and while
the pipeline has not failed:

* `CourseInv`: what has come out in this pass is a beginning of the pictures in display
  order, and so is it with what is held and what has not been fed; pass `q` with `d` pictures
  returned is where the caller is (`Place`); and the turns of this call are bounded by what they
  have fed (`Pace`), so a file that is `WellMade` and shows something never ends at the guard;
* `EngineInv`: the decoder knows the parameter sets, the format and the hidden picture that the
  samples before `next` have taught it (`Learnt`), so what it refuses is damaged;
* `RefusalInv`: the packets that openh264 has refused in a row are a run of damaged ones,
  possibly across the end of a pass, so when it gives up `BadRun` excuses it.

The display order is by rank (`InOrder`), in the model too, since the prover cannot look into
`SortSeq`: `Ranks` shows that ranks list a set without gaps, and `Segment` that what is
listed from a beginning on is what comes next. Where pictures come late, `Depth` of them at most
have an earlier time than one that was fed before, so the least of more than `Depth` held is
before all that is still to come; a new format brings out what is held first, and nothing after it is
earlier.

`BitstreamProofs` proves from `BitstreamAssumption`, for payloads of any bytes and length, any number
of units in a sample and each size of a length:

    NalsKeptCorrect          BitstreamSpec => []NalsKept

`BitstreamAssumption` says of the payloads that they are bytes, that none has a start code inside, and
that the sets fit in the 16 bits avcC and hvcC have for their lengths; TLC evaluates it for the
payloads of the run. Without `NoStartCode` the clamp would lower a byte of a unit that is no SPS.

What `NalsKept` compares are bytes at positions that depend on every length before them.
`LengthIsRead` is the first half of the way: a length that fits is read back as it was written,
by induction over the bytes shifted out. `ReadsBack` makes of it that `Prefixed` reads a payload
wherever it stands (`At`), and `CutShort` that it reads nothing where the payload's end is
missing. `Annexed` is the second: the loop of `to_annexb` takes a turn for each unit and then stands
still, so its result is the units with start codes (`WholeSample`), and of a sample that was
cut short it is nothing, unless all that was cut off is an empty unit (`CutSample`).
`ClampsSets` and `ClampsUnits` show that a level found after the clamp's start code is that of an
SPS, and that the joints between units make no others. The invariant adds to `NalsKept` what
`BitsInv` says: what the file holds does not change, a configuration is
refused for lengths of three bytes only (`AvcParsed`, `HvcParsed`), and no sample is read before it.

Only model-checked: everything under fairness, which is beyond the prover (`FramesKeepComing`,
`CallReturns` and the others of the runs that state fairness). All invariants of the runs
are stated by a theorem. `TypeOK` of `Capture` and of `Backends` is proved only.

## 6. Not modelled

Not modelled, and why:

* Colours (`yuv.rs`, the matrix and the ranges): arithmetic per pixel that a table in a
  test settles.
* What the engines and drivers do inside: openh264, libvpx, rav1d, CUDA, cros-codecs.
  Their contracts are in `Engine`, `Needs` and `Pictures`.
* `config.rs` beyond the parsing in `Registry!ParseOf`: a table of defaults, and the trimming
  and parsing of a rule's path, speed and loop (`with_rule`), without state. The hold and show lists
  of rules are `Capture!RulesOf`.
* String conversion and panic guards of `ffi.rs`; painting, geometry and GL in
  `paint.cpp` and `scene.cpp`; build and packaging.
* Speeds other than 1 and 2. A tiny positive speed overflows `div_f64` in the decode
  thread (`mod.rs:193`), a huge one `mul_f64` (`clock.rs:30`); TLC has no floats.

Worth adding:

1. `Textures`: the shim's cache by id and generation, composed with `CoverLife`.
2. A decoder slower than real time in `VideoSource`.
3. A second closing cover for an address that is taken again and closed at once.
