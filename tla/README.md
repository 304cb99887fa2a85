# FFusion: specifications and proofs

FFusion is a QuickTime image decompressor component that decodes VP9 and AV1
with FFmpeg 4.4. This directory holds TLA+ modules that model its core, TLC
configurations that check them on small instances, and TLAPS proofs of the
properties that matter most.

Run TLC with `tlc -config MCBandsPlay.cfg MCFFusionBands.tla` and the prover with
`tlapm FFusionBandsProofs.tla`.

## The system

QuickTime's *base image decompressor* drives the component. It schedules frames,
keeps several decompress records in use at once, and calls the component on each.

| Component | Source | State | Operations | What makes it hard | What makes it correct |
|---|---|---|---|---|---|
| Band routines | `FFusionCodec.c` 690-938 | the records, `begin.lastIFrame`, `decode.lastFrame`, `colorConv` | BeginBand, DecodeBand, DrawBand, EndBand | bands are begun ahead, dropped, given up, drawn before they are decoded; one flush test must cope with all | an intact frame is shown as itself, a damaged one never as another |
| Frame buffer slots | `FFusionCodec.c` 50-59, 804-829, 1009-1028 | `buffers`, `lastAllocatedBuffer` | search, store, release | 64 slots, allocation failures, release far from allocation | one owner per slot, none lost |
| Component lifecycle | `FFusionCodec.c` 200-660 | the instance's globals, the codec context and its extradata | Open, Preflight, Close | Preflight fails half-way and is repeated | no bad pointer followed, everything freed |
| Decoder set-up | `codecID.c`, `FFusionCodec.c` 256-265, 541-598 | - | getCodecID, choice of decoder, flags, threads | a delaying decoder shifts every picture | the decoder answers every packet at once |
| libavcodec interface | `libavcodec/decode.c`, `avcodec.c`, `options.c` | input packet, picture decoded ahead, references | alloc, open, send, receive, flush | EAGAIN, delay, missing references | (assumed as coded) |
| Converter choice | `ColorConversions.c` 562-666 | `colorConv` | FindFor, DstForPixFmt | cached while format and alignment change | pictures are converted by a function for their format, and SSE2 ones only run on aligned destinations (violated: `bands_unaligned`) |
| Pixel conversion loops | `ColorConversions.c` 53-560 | the picture written so far | eleven converters, four that clear | vector blocks, rests, odd rows and columns, lanes of registers | every pixel converted, from its own samples; nothing written beside the picture (but for narrow ones, see below) |
| MP task | `FFusionCodec.c` 454-460 | the task's place in DrawBand | DrawBand beside BeginBand and EndBand | slots searched and freed on two CPUs | (violated: `bands_task`) |
| Slice threads | `libavutil/slicethread.c`, `libavcodec/pthread_slice.c` | one mutex, condition and flag per worker, two atomic counters | create, execute, free, thread_worker, run_jobs | fields read without a lock, the last job found by counting, wakeups | each job once, nobody inside after execute, nobody asleep for ever |
| VP9 tiles | `libavcodec/vp9.c` 52-91, 1270-1505, 1690-1767 | the picture, the saved lines, one progress entry per row | decode_tiles_mt, loopfilter_proc, decode_tiles | the filter follows the jobs through the picture | what the threads make is what one thread makes |
| Picture buffer pools | `libavutil/buffer.c`, `libavcodec/decode.c` 1463-1601, `libavcodec/libdav1d.c` 71-95 | free lists and two levels of reference counts | get, ref, unref, release, uninit, free | pictures outlive their pool and are given up on any thread | no use after free, no leak, no buffer twice |
| One-time initialisation | `CommonUtils.c` 603-618, `FFmpegUtils.c` 64-118, `bitstream_info.c` 889-908 | a mutex, one flag each | Enter, Exit | flag read without the mutex | once, alone, nobody blocked |
| Frame data ring | `FrameBuffer.c` | ring of bytes and of frames | no longer called, but for a scratch buffer | - | (not modelled, see below) |
| Parsers, importer, utilities, tables | `bitstream_info.c`, `ff_private.c`, `CommonUtils.c`, ... | - | - | - | (not modelled, see below) |

The component's routines call each other and libavcodec directly. What couples
them is shared state: Preflight opens the context the band routines decode with;
BeginBand leaves the group-of-pictures start in the record that DecodeBand's flush
test reads later; DecodeBand leaves the picture in a slot that DrawBand reads
and EndBand releases; the first draw chooses the converter of all later ones.
Below them, one decode of a VP9 frame is a batch of jobs for the slice threads;
the picture it yields is made of buffers of a pool, referenced by the decoder, by
its threads and by the slot until EndBand gives it up.

## Modules

| Module | Models | Uses |
|---|---|---|
| `Libavcodec` | libavcodec's decoding interface, as pure operators on a context | - |
| `ColorConversion` | the choice of converters and destination layouts | `Libavcodec` |
| `DecoderSetup` | decoder, flags and threading chosen by Preflight | `ColorConversion` |
| `FFusionBands` | the band routines and the slots, on an opened decoder | `DecoderSetup` |
| `PictureStore` | abstract: what the slots promise, a private place per record | - |
| `BandsTask` | DrawBand on an MP task, beside the host's calls, access by access | `FFusionBands` |
| `FFusionCodec` | a component's life: Open, Preflight, bands, Close | `FFusionBands` |
| `ConverterRows` | the loops that convert and clear pictures | - |
| `InitOnce` | the one-time initialisations, one atomic access per step | - |
| `SliceThread` | the pool of slice threads, as a module others compose with | - |
| `TiledFrame` | abstract: what decoding a tiled frame promises | - |
| `Vp9Tiles` | the tiles of a VP9 frame on the slice threads, or without them | `SliceThread`, `TiledFrame` |
| `BufferPool` | buffer pools and the pictures made of their buffers | - |
| `MCFFusionBands`, `MCBandsTask`, `MCFFusionCodec`, `MCInitOnce`, `MCVp9Tiles`, `MCBufferPool`, `MCConverterRows` | instances for TLC | |
| `FFusionBandsProofs`, `FFusionIntactProofs`, `FFusionCodecProofs`, `ConverterRowsProofs`, `InitOnceProofs`, `SliceThreadProofs`, `Vp9TilesProofs`, `BufferPoolProofs` | proofs | |

**State.** In `FFusionBands`, `av` is `*glob->avContext`; `buffers`,
`lastAllocatedBuffer`, `lastIFrame`, `lastFrame` and `colorConv` are the globals of
these names; `drp[r]` is the `FFusionDecompressRecord` of record `r`, with the
picture its last draw showed. `ahead` and `scheduled` belong to the base
decompressor. `FFusionCodec` adds the fields of the instance that Preflight and
Close work with, and `leaked`, what was lost without being freed.

In `SliceThread`, `wpc[w]` and `mpc` are where worker `w` and the owner of the pool
are; the other variables are the fields of `AVSliceThread` and `WorkerContext` and
the local variables of their functions. A thread in `pthread_cond_wait` is at a
place of its own, which a signal (or a spurious wakeup) leaves. A critical section
that does not wait is one step; but a worker holds its own mutex while it runs
jobs (`HoldsMutex`), so that who signals it may have to wait. `Vp9Tiles` adds, for
each tile of each row, whether `CUR_FRAME` holds it decoded, filtered or wrong, the
line saved for each column (`above`), and `entries`. In `BufferPool`, `refcount`
counts a pool's users, `count` a buffer's, and `refs` is which thread holds how many
references; a thread between two atomic accesses of a function has its place in
`pc`. In `ConverterRows`, `out` maps each byte written to the sample it was made of.

**Actions.** Each component call is one action: `BeginBand`, `BeginBandDecoded`
(BeginBand's early return for `icmFrameAlreadyDecoded`), `DecodeBand`, `DrawBand`,
`DecodeAndDrawBand` (a DrawBand that calls DecodeBand first), `EndBand`, `Open`,
`Preflight`, `Close`. `DecodeCrashes` is a decode that follows a null pointer.
`BandsTask` splits DrawBand and EndBand: `TaskDecompress` to `TaskDraw` on the task,
`HostEnd`, `HostTest`, `HostFree` and `HostDone` beside it. In the modules about FFmpeg an
action is what a thread does between two points where another could come in
between: `BeginFrame` is `Execute` with what `vp9_decode_frame` does before it, `EndTile`
is a job's return, `Open` and `Close` are the pool's creation and end.

**Data.** A packet and its picture are the frame's number. The packet of `f`
decodes to `f` if the decoder holds the picture `f` predicts from, to `GARBLED`
if it holds another, and to nothing if it holds none or the packet is damaged.
So what a draw shows can be compared with what was asked for. Of the pixel
formats those are told apart that `ColorConversions.c` tells apart. A tile is right
if it was decoded when the unfiltered line of the row above it was saved. A pool's
list is a set: which of the waiting buffers is reused is left open.

Definitions named as faulty in their comments (`FlushAtEveryGap`, ...) are not
part of the model: each is a plausible bug that some property must detect.

## Assumptions about the host and the libraries

These come from the comments in `FFusionCodec.c` (284-289, 679-687, 842-858,
907-922), from what Apple's base decompressor does with such a component, and
from the vendored FFmpeg.

- Bands are decoded in the order they are begun (`ahead`); a record may be drawn
  any number of times, or never; EndBand always comes. (`MayFollow`,
  `MayTerminate`.)
- A frame is scheduled when it is a key frame or when it follows the frame
  scheduled last with only droppable frames skipped. A band of a frame others
  predict from is given up before its decode only if nothing that depends on it is
  waiting, and playback then resumes at a key frame.
- Bands are begun only after a Preflight that returned noErr, and Close comes when
  every band has ended.
- A packet holds one visible picture. libdav1d is built in, in a version that
  honours `max_frame_delay`; FFmpeg's own AV1 decoder is listed after it.
- With an MP task, the base decompressor still decodes in order and gives one band at
  a time to the task; it may begin other bands and end drawn ones meanwhile.
- One thread at a time uses a decoder; the pictures it returns may be passed to,
  and given up by, any thread.
- Accesses to atomic variables are atomic and seen in order; what a mutex guards
  is seen by the next to lock it.
- The sizes and bytes of packets, and the scratch copy `FFusionCreateEntireDataBuffer`
  makes of them, are abstracted.

## What TLC checks

Eight runs pass:

| Run | Instance | Shows |
|---|---|---|
| `bands_play` | 3 records, 2 slots, frames 0..5, key frames 0 and 3, droppable 1 and 4 | Play, seek, drop, give up and redisplay an intact stream. `IntactFramesShown`: a band that got a slot shows the very frame asked for. `SlotOwnership`, `NoSlotLeak`, `StarvedOnlyWhenFull`: one owner per slot, none lost, none refused without need. `DecoderDrained`, and `StoreSpec`, the refinement of `PictureStore`. |
| `bands_damaged` | 2 records, 2 slots, frames 0..4, a damaged key frame, 10-bit video, failing allocations, destinations aligned and not | `ShowsNoOtherFrame`: a draw may turn black or garbled but shows no other frame. `ConverterOfTheFormat`: pictures are converted by a function for their format, though draws come before the format is known. `SlotOwnership`. |
| `codec_life` | 2 records, 2 slots, key frames 0, 1 and 4, 4:2:2; `avcodec_open2` fails at will | Open, repeated Preflight, play, Close, Open again: `NoCrash`, `ContextAndPicturesFreed`, `IntactFramesShown`, `DestinationFits`, `RepeatedPreflightHarmless`. |
| `codec_faults` | the same with extradata, failing allocations and a host that repeats a failed Preflight | `ContextAndPicturesFreed` and `ShowsNoOtherFrame`, up to and including the crashes. |
| `init_once` | 3 threads, 2 initialisations | `OneAtATime`, `InitialisedAtMostOnce`, `UnlockedByOwner`, and that every call returns (`EveryCallReturns`). |
| `vp9_tiles` | up to 2 workers beside the main function, 1, 2 or 4 tile columns, 3 rows, creation failing | `JobsDistinct`, `QuietBetweenBatches`, `FrameSpec` (the refinement of `TiledFrame`), and that every open, decode and close ends (`EveryCallEnds`). |
| `buffer_pool` | decoder, host and a third thread, 2 pools, 3 buffers | `PoolOutlivesUsers`, `BuffersNotShared`, `NothingLeaks`. |
| `converter_rows` | widths 1, 2, 3, 16, 31, 32, 33, 49, 64 and 67, heights 1 to 4, every converter | `InsideThePicture` and `EveryPixelConverted`, of all but the pictures `Narrow` names; `ClearedToBlack`. |

Four runs find a statement of the source, or of FFmpeg's headers, violated:

| Run | The code | The statement |
|---|---|---|
| `bands_unaligned` | an SSE2 converter is kept and run on an unaligned destination (`ColorConversions.c:597`, `FFusionCodec.c:893`) | "not aligned to 16 bits; using scalar ... for safety" (`ColorConversions.c:599`) |
| `bands_task` | EndBand lowers `retainCount` before it frees the AVFrame; a DrawBand on an MP task may take the slot in between (`FFusionCodec.c:1019`) | "your DrawBand function must be MP-safe" (`FFusionCodec.c:446`) |
| `codec_retry` | after a failed `avcodec_open2` the next Preflight returns noErr with the decoder not open (`FFusionCodec.c:533`) | "We first open ... the codec ... if it has not been done before" (`FFusionCodec.c:526`) |
| `codec_extradata` | probing the pixel format frees the extradata of the real context (`FFusionCodec.c:214`) | "decoding: Set/allocated/freed by user" (`avcodec.h:635`) |

Two more facts of the code are in the models without a run of their own.
`ColorConversionDstForPixFmt` never returns 0, so that Preflight accepts formats
without a converter (`"GRAY8"`), which are then not drawn at all. And
`ColorConversionFindFor` picks `Y420toY422_sse2` at any width, while its assembly loop
(`ColorConversions.c:96`) tests its count at the end only: below 32 columns, with two rows
or more, the count starts at zero and the loop runs 2^32 blocks past the ends of the
picture. `ConverterRows` models the loop as it is (`EntersBlocks`, `Vector`), and
`InsideThePicture` and `EveryPixelConverted` are stated for the other pictures (`~Narrow`).
The AVFrame that DecodeBand allocates at line 777 and copies is not lost: the copy's
`extended_data` points to it, and `avcodec_receive_frame` frees it when it resets the
copy (`libavutil/frame.c:141`). Only the NULL it may be is not tested.

**Bounds.** *Bands:* `MaxFrame`, `MaxBuffers` and the set of records. Two groups of
pictures, each with a droppable frame between reference frames, are what the
flush test distinguishes (same group, another group, key frame, backwards, a gap
of droppable frames). Three records for two slots let one record be begun ahead
while another waits to end, a slot be reused, and a record go without; 64 slots
differ only in how long that takes. *Codec:* frames 0 and 1 are both key frames: a
stream entered at 0 flushes at its first decode (0 is not `lastFrame` + 1), one
entered at 1 does not. *Tiles:* two workers beside the main function are the least
with which a worker takes a job another could have had; 4 jobs for them include
jobs taken by `current_job`, beyond those each starts with; three rows are a
first, an inner and a last. *Pools:* `MaxRefs` bounds the references one thread holds
to one buffer to 1; two pools are an old one still in use and its replacement.
*Rows:* the widths are those around one and two vector blocks of 16 and 32 pixels, and
odd ones; `MaxOverrun` bounds the blocks followed of a loop that would run 2^32 times, where
the first is already outside. Bands, slots, threads, tiles and pictures of any number or size are what
the proofs are for.

Records, pools and buffers are symmetric where no liveness property is checked.
Deadlock is checked but in the runs of `FFusionCodec`, where a crashed instance
stops, and of `ConverterRows`, which ends when the picture is done.

**Fairness.** `InitOnce` assumes weak fairness of each thread inside a function: the
operating system keeps running it. Taking the mutex is only weakly fair, since a
POSIX mutex promises nothing to a particular waiter; the property holds because
threads stop locking the mutex once the flag is set. Entering a function is not
fair. `Vp9Tiles` assumes weak fairness of the main function's thread (`MainStep`) and of
each worker (`WorkerStep(w)`), for the same reason; the host's calls, spurious wakeups
and damaged tiles are not fair. The other modules are driven by a host that may
stop calling at any time, so no progress is promised.

## What is proved

Every invariant, action property and refinement that a passing run checks is also
proved, for every value of the constants that the assumptions named below allow: any stream, any
number of records, slots, threads, tile columns, rows, pools and buffers, and
pictures of any size, but for the exception that the properties about the conversion loops name.

**The band routines** (`FFusionBandsProofs`).
`TypeCorrect` and `Ownership` are one induction: that a slot index is in range
needs ownership (a record that waits has no slot yet), and ownership needs the
types. `SlotOwnership` includes that an owned slot's `retainCount` is exactly 1,
so that EndBand's decrement frees it, and that only begun and decoded records own
slots; without these conjuncts it is not inductive. `Drains` follows from
`Drained(av)`: the context is open, its delay is 0, and no packet or picture waits in
it; the delay is what the flags of `DecoderSetup` are for. `NoOtherFrame`: a drained
decoder answers a packet with its own frame, `GARBLED` or nothing (`DecodeStores`),
so that a slot holds only its owner's picture. `ImplementsStore`: every step is a step
of `PictureStore` or a stutter (`NextStore`). `NoLeak` and `Starves` assume that
allocations succeed: then every owned slot has an AVFrame, which is what EndBand
tests before it releases a slot; without that they are false. `ConverterKept` assumes
one pixel format in the stream, which holds of a track that keeps its profile; without it the
function kept is wrong. It allows for any mixture of destinations, of whose alignment
it says nothing (`bands_unaligned`). Its invariant `ConverterInv` says that the context
knows no format but that of the stream, and that a function chosen is one for it.

**Intact frames** (`FFusionIntactProofs`). `IntactShown`, while allocations succeed, is
the deepest result about the component. Its invariant `QueueInv` describes the records
begun and not yet decoded. `OrderInv`: `ahead` orders them in a queue. `ChainInv`:
a frame that is not a key frame follows, with only droppable frames skipped
and in the same group of pictures, the frame just ahead of it in the queue or, at the
head of the queue, the one decoded last. `TailInv`: what will be scheduled next follows the last of the
queue or, if none waits, the frame decoded last; the decoder then still holds
the picture to predict from (`RefHeld`). So when the flush test of DecodeBand runs on a delta frame,
`lastFrame` and the record's GOP start tell that nothing was jumped over, and the
reference stays. `IntactInv` then carries the decoded picture to the slot and the
draws. The facts about streams it needs (the reference of a frame, what damages
it, the greatest element of a set of frames) are lemmas of their own.

**The life of an instance** (`FFusionCodecProofs`).
`CodecTypeCorrect`. `Freed`, under every fault: an instance of a registered type loses
nothing, since frames are only in owned slots and it has a context only with its codec. `NeverCrashes`, from
`SetUpInv`: bands exist only after a Preflight that left the decoder open and
drained. Its three assumptions (no extradata, memory for each call's own frame, no retry
after an error) are needed: each of the crashes they exclude is reachable.
`RepeatsHarmless`: an open decoder belongs to an instance that has its codec, so that
Preflight does not set up another one. `LayoutRight` assumes formats that are drawn as
`'2vuy'`, which is what Preflight guesses while it does not know the format; for
others a guess may be wrong. Three theorems carry the facts about the bands
over to any number of Opens, Preflights and Closes: `LifeImplementsStore` and
`LifeNoOtherFrame` under every fault (a decoder that did not open yields no picture at
all), and `LifeIntactShown`, which needs memory and a host that does not repeat a failed
Preflight, for then the decoder is closed and every frame black; it holds
because the queue of bands is empty whenever the decoder is set up or freed.

**The conversion loops** (`ConverterRowsProofs`). `RowsStayInside`, `RowsConvertAll` and
`RowsClearAll` for every width and height; the first two leave out the `Narrow` pictures,
whose loop never leaves its first pair of rows (`NarrowInv`). For the others the invariant `RowsInv` says that `out` is
exactly the function that maps each byte written so far (`Covered`) to the sample it
must be made of (`Due`); `LoopInv` bounds the loop counters. Each step of each loop
extends `Covered` by what it writes (a pixel, a pair of pixels on two rows, the lanes
of a vector block), and at the end it is the whole picture.

**The pool of slice threads** (`SliceThreadProofs`). `PoolTypeCorrect`, `JobsAreDistinct`
and `QuietBetween` from `PoolInv`, which relates each worker's place to its `done` flag, its
mutex and the two counters. What makes it inductive is the count: the jobs taken
by `first_job` and by `current_job` are disjoint ranges, and each worker that found no job has moved
`current_job` beyond the batch by one (`CountInv`), so that only the last of them finds it
at its final value, when no other is inside.

**The tiles** (`Vp9TilesProofs`). `TilesUsePool`: every step is a step of the pool or leaves
it alone, from which `TilesDistinct` and `TilesQuiet` follow. `TilesTypeCorrect` and
`TilesDecodeTheFrame`, the refinement of `TiledFrame`, from `TilesInv`: a row's progress
entry counts the columns whose worker is past it (`EntriesInv`), the filter waits for
a full entry before it touches a row (`FilterInv`), so that a worker finds
the unfiltered line of the row above it saved (`AboveInv`) and the picture holds what the rows
done say it holds (`PixInv`).

**Buffer pools** (`BufferPoolProofs`). `PoolTypeCorrect`, `UsersOutlived`, `NotShared` and `AllFreed`,
from an invariant that says what each counter counts and where each buffer is.
`CountsInv`: a buffer's `count` is the number of references all threads hold.
`ClaimsInv`: a pool's `refcount` is its owner, its buffers in use and the threads about to
lower it; once nobody claims a pool exactly one thread frees it. `ListsInv`: a buffer
of a pool is in its list or in use. `PlacesInv`: what a thread in a function has in its hands.

**One-time initialisation** (`InitOnceProofs`). `MutualExclusion`, `AtMostOnce` and `OwnerUnlocks`,
from an invariant that ties `unlock`, the owner of the mutex and the flags to the
program counters.

**Assumptions.** `StreamAssumption` (the stream starts with a key frame; key frames are
not droppable) and `SentinelAssumption` of `Libavcodec`, `BandsAssumption`,
`ComponentAssumption`, `OwnerAssumption`, `SliceThreadAssumption`, `RowsAssumption`,
`BufferPoolAssumption` and `SizeAssumption` give the constants their types and keep the
model values apart. TLC evaluates each in the runs of its module. Further
assumptions are in the theorems that need them, named above.

**Only model-checked:** the two liveness properties, `EveryCallReturns` and `EveryCallEnds`:
liveness under fairness is out of the prover's reach. No recursive definitions are
used. The four violated statements have their counterexamples from TLC.

**What the proofs found.** The proof of `RowsConvertAll` failed at first where two cases of
`DestinationOrder` overlapped, of which TLC always takes the first but the semantics leaves open; it
is written with IF now. `LayoutRight` and `ConverterKept` do not
hold for streams of several formats, which the runs, with a single format each, did not show.

## Not modelled

- The frame data ring (`FrameBuffer.c`): of it only the scratch buffer is still
  used. The parsers of `bitstream_info.c`: none is registered. The importer
  `ff_private.c`: compiled out by `FFUSION_CODEC_ONLY`.
- The walks over image descriptions and preferences, timing, logging, version
  checks, resources and selector tables; the selectors that only answer
  questions (Version, GetCodecInfo, ...); `RecomputeMaxCounts`, whose result nothing
  reads.
- In FFmpeg, everything beyond the decoding interface, the slice threads, the
  tile loops of VP9 and the buffer pools: VP9's reference frames and probability
  adaptation are abstracted to which picture comes out, frame threading is
  switched off by the component, `av_buffer_realloc` and its like are not used on pictures
  of pools, and failures of `pthread_mutex_init` and `pthread_cond_init` end like that of
  `pthread_create`.
- Memory exhaustion in Open and Preflight, and the Windows version of the mutex.

Four hazards have no property. A frame flagged as already decoded is begun without
a picture of its own (`FFusionCodec.c:725`) and drawn black, by design: `ShowsNoOtherFrame`
allows it. The extension walk (`CommonUtils.c:316`) does not advance over an extension of
length zero; it is outside the models. And DecodeBand follows the pointer of
`av_frame_alloc` untested (`FFusionCodec.c:777`): `DecodeCrashes` models it, and `NoCrash` is
checked and proved only while allocations succeed. The fourth is the SSE2 loop on narrow
pictures, which goes wrong, as told above.

## Plan

Done: the modules above with their runs, and the theorems. What is left:

1. The band theorems that need allocations to succeed (`NoLeak`, `Starves`) over the whole
   life of an instance, as for `LifeIntactShown`.
2. That `BandsTask` without an MP task implements `FFusionBands`, and which order of the two
   writes in `releaseBuffer` would satisfy `DrawBandMPSafe`.
3. The walk over image description extensions as a function on bounded inputs.
