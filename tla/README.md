# A verification of NBP

NBP is a collection of native programs for embedded boards: a media player on
FFmpeg, a manager of child processes, the Android-on-Wayland graphics modules
`wl2droid`, the Pinyin input method engine, a codec library for the i.MX6, a
camera, a page-flipping and a file-server program, and samples. This directory
holds TLA+ models of the parts that have concurrency or a state of their own, TLC
configurations that check them on small instances, and TLAPS proofs for every
value of the constants.

| module | models | extends |
| --- | --- | --- |
| `Player` | `player/`: elements, worker threads, queues, memory | |
| `PlayerDriver` | `player/try.4.cpp`: main | `Player` |
| `StreamDelivery` | what a pipeline promises of a stream (abstract) | |
| `ProcessManager` | `processmanager/`: table, watchers, callers, kernel | |
| `FrameExchange` | `wl2droid/gralloc_wayland`: SurfaceFlinger and the Wayland client | |
| `UserDict` | `pinyin/share/userdict.cpp`: one object and its file | |
| `LemmaStore` | what a dictionary of the user's lemmas promises (abstract) | |
| `UserDictFile` | `userdict.cpp`: two objects on one file | |
| `SpellingTrie`, `SpellingTable` | `spellingtrie.cpp`, `splparser.cpp`; `spellingtable.cpp` | `SpellingTable` extends `SpellingTrie` |
| `PinyinSearch` | `matrixsearch.cpp` behind `pinyinime.cpp`: the decoder | `SpellingTrie` |
| `SystemDict` | `dictbuilder.cpp`, `dicttrie.cpp`, `dictlist.cpp`, `lpicache.cpp` | |
| `Codebook`, `TextReader` | `ngram.cpp`; `utf16reader.cpp`, `utf16char.cpp` | |
| `VpuCodec` | `vpucodec/src`: sessions of the VPU | |
| `Modeset` | `misc/drm/modeset-vsync.c` | |
| `VSync`, `FramebufferSlots` | `wl2droid`: `hwcomposer_wayland/vsync.cpp`, `gralloc_wayland/gralloc.cpp` | |
| `V4L2Capture` | `cpp/v4l2_capture.cpp` | |
| `ChildProcess` | `processmanager/new-impl/process.cpp` | |
| `FileServer` | `filesvr/utils.cpp`, `upload.cpp`, `download.cpp` | |
| `PlayerProofs` | theorems about the elements, and about the program and its refinement of `StreamDelivery` | `Player`, `PlayerDriver` |
| `ManagerProofs` | theorems and proofs | `ProcessManager` |
| `DisplayProofs` | theorems about what is drawn into while it is shown | `FrameExchange`, `Modeset` |
| `DeviceProofs` | theorems about the smaller programs | `FramebufferSlots`, `VSync`, `ChildProcess`, `FileServer`, `V4L2Capture`, `VpuCodec` |
| `DictProofs` | theorems about the system dictionary | `SystemDict`, `NumberProofs` |
| `PinyinProofs` | theorems about the spellings (table, half ids, parser), the reader of lines and the codes of frequencies | `SpellingTable`, `TextReader`, `Codebook`, `NumberProofs` |
| `UserDictProofs` | theorems about the user dictionary | `UserDict`, `NumberProofs` |
| `NumberProofs` | least and greatest elements, induction, products and ranks of natural numbers | |
| `MCPlayer`, `MCPlayerDriver`, `MCProcessManager`, `MCFrameExchange`, `MCSystemDict`, `MCCodebook` | values of the constants for TLC | the module each is named for |
| `MCPinyin`, `MCDevices` | the same, for several modules side by side | the modules of the engine; those from `VpuCodec` to `FileServer` |

Run `tlc -config X.cfg MCModule.tla` with the pairs of "The runs" below, and
`tlapm PlayerProofs.tla` (and so on, for each of the eight proof modules) for the proofs.

## The system

### player

A pipeline of *elements*. `Demuxer` reads packets from a file through
`FFWrapper` (FFmpeg) and pushes them to `VideoDecoder` or `AudioDecoder`;
`AudioDecoder` pushes frames to `AudioRender`; `VideoDecoder` hands its frames
to `VideoRender`, which is passive. Devices scale or resample and write to a
file.

* *State*: each active element has `states.current` (IDLE, READY, PAUSED,
  PLAYING), an event queue, a priority queue of buffers (`utils.h`, at most 256),
  a worker thread between PAUSED and PLAYING, and one pending packet or frame
  that the next element refused. `FFWrapper` has the file and its codec
  contexts, which all elements share.
* *Operations*: `setState`, one step at a time in either direction; `pushBuffer`,
  called by the producer's thread; `sendEvent`; the worker's loop; `open`,
  `close`, `readPacket`, `decodeVideo`, `decodeAudio`.
* *Interaction*: one control thread calls `setState`; workers talk through
  queues, and read each other's state when they push.
* *Hard*: the thread is started before its state is stored; STOP is sent, then
  the thread is joined, whatever `sendEvent` returned; a refused buffer changes
  hands; `pushBuffer` looks at a state and pushes afterwards; the demuxer closes
  what the decoders use; `open` fails half-way; bounded queues in a chain.
* *Correct when*: every call returns; threads match states; no buffer is used
  after it is freed, owned twice or lost; no queue exceeds its bound; a playing
  pipeline passes the whole file through, each stream in order.

### processmanager

`ProcessManager` creates children with pipes, keeps them in a table by pid,
signals them, and exchanges data with them. A *signal watcher* thread is woken
by a SIGCHLD handler through a socket pair, reaps children and notifies the
manager; a *descriptor watcher* thread polls the pipes, copies output to stderr,
and notifies errors.

* *State*: the table under `processesMutex`; the epoll set; the watchers'
  `need_stop` flags; what the kernel knows of children and descriptors.
* *Operations*: `start`, `stop`, `create`, `terminate`, `kill`, `isAlive`,
  `sendData`, `recvData`, `inFD`.., `notify`, and the loops of the watchers.
* *Hard*: the child runs before it has an entry; a descriptor is looked up under
  the lock and used without it; an error arrives by number when the number is
  somebody else's; SIGCHLDs merge; several parties call `waitpid`.
* *Correct when*: every running child has an entry; every descriptor is closed
  once; every dead child is reaped and its entry goes away; `stop` returns; data
  come from the child they were asked of.

### wl2droid: gralloc_wayland

Android's SurfaceFlinger draws each frame of a display into one of two buffers
in a shared file. A Wayland client in another process maps the same file and
attaches the buffers to its surface. A word per buffer in that file holds the
buffer's state (drawing, scanning, shown) and its display.

* *Operations*: `gralloc_lock` waits until the buffer is not scanning, ten times
  3 ms, and then takes it all the same; `hwc_set` calls `fb_post_ext`, which
  gives the buffer to the display and marks it as scanning; the client's frame
  callback marks the last buffer as shown, waits for a scanning one, attaches it.
* *Hard*: nobody locks a word, and each update is a read followed by a write; the
  wait is bounded; the callback may be late; the client chooses between two
  scanning buffers.
* *Correct when*: nobody draws into a buffer that is being shown, no update is
  undone, every posted frame is shown or drawn over.

### pinyin

The input method of AOSP, in `pinyin/share`. `MatrixSearch` decodes a string of
letters: `SpellingParser` cuts it into spellings with `SpellingTrie`, whose half ids
stand for ranges of full ids; `DictTrie` and `UserDict` are asked for the words
that match a sequence of ids; the best sentences are kept in a matrix with a row
behind each letter. `DictBuilder` makes the system dictionary from a list of words
(read by `Utf16Reader`), `NGram` codes the frequencies.

* *State*: the matrix, pools of DMIs and nodes, fixed words and candidates; the
  parallel arrays of `UserDict` with flags of removal, caches, a queue for
  synchronisation and a dirty state; the file, shared by objects, with `g_mutex_` and
  `g_last_update_`; the arrays of the system dictionary.
* *Operations*: `search`, `delsearch`, `choose`, `cancel_last_choice`, `reset_search`;
  `put_lemma`, `update_lemma`, `remove_lemma`, `reclaim`, `defragment`, `flush_cache`,
  `write_back`; building, saving and loading of dictionaries.
* *Hard*: incremental decoding keeps what is in front of a change; a write-back
  writes only the parts that are dirty, in place; caches outlive what they point
  to; two objects overwrite one file; flat arrays whose bounds are found by scanning.
* *Correct when*: what is kept equals what decoding from nothing finds; the arrays
  agree and the file read back is the dictionary; every search finds exactly the
  words that match; a flush returns.

### Smaller programs and drivers

* `vpucodec/src`: sessions of the i.MX6 VPU take a bit stream buffer, a `ps` buffer,
  an instance and frame buffers, in steps that can fail. *Correct when* each block
  is given back once, never while the VPU works with it, and a locked VPU is unlocked.
* `misc/drm/modeset-vsync.c`: a CRTC for each connector, two buffers, page flips and
  their events. *Hard*: freeing while a flip is pending. *Correct when* no buffer is
  drawn into or removed while it is shown, two screens do not share a CRTC, and the
  program ends.
* `hwcomposer_wayland/vsync.cpp`: a thread that sleeps to the next multiple of a period
  and fires a callback while enabled. *Correct when* events come at multiples, once.
* `gralloc_wayland/gralloc.cpp`: a bit mask of framebuffer slots. *Correct when* no slot
  is handed out twice.
* `cpp/v4l2_capture.cpp`: negotiation with a capture driver, mapped buffers that the
  driver or the program has. *Correct when* no index is queued twice, no buffer is
  unmapped in use, and `set` says what is in force.
* `processmanager/new-impl`: a second `Process`. *Correct when* its pid is that of its
  child, and no child or descriptor is lost.
* `filesvr`: a thread per connection that saves or sends a file. *Correct when* what is
  stored or sent is one upload, unless two connections use one name.

### Other parts

* `gralloc_wayland/input.c` turns pointer and touch events into Android input commands;
  `oip_wayland` and `droid_wayland` are single-threaded clients.
* `cpp/tcp_server.cpp`, `tcp_client.cpp`: send and receive a whole message before a deadline.
* `ipucvt/src`, `clut`, `jpeg`: wrappers of an ioctl, of OpenCL and of libjpeg;
  each call is independent.
* `cpp/` otherwise, `go`, `hik`, `fingerpaint`, `droid/bootcamera`,
  `droid/native-service`, `sh`: samples, scripts and demonstrations.
* `wl2droid/{src,cursor,protocol,tests,libffi,hello_wayland}`, `vpucodec/unit_test`, the
  rest of `misc`, `droid/omap5`, the device overlays: third-party code, mocks and
  configuration.

## Player

### Correspondence

An element is one of four strings; `state`, `pc`, `stops`, `queue`, `held` and
`pending` are functions of it. `pc[e]` is where the worker's loop is (`event`:
about to pop an event; `state`: the render's look at its own state; `take`:
pending buffer or next buffer; `route`, `decode`, `check`, `push`, `write`,
`drain`, `exited`; `none` when there is no thread). `held` is the local variable
of the loop, `pending` is `pendingPackets` or `pendingFrame`. `mem` is the memory of
packets and frames: allocating takes a free cell, `freePacket` and `freeFrame`
release it.

A step is one stretch of a thread between two accesses to shared data, so the
reading of the sink's state (`CheckSink`) and the push (`Push`) are two steps,
like starting a thread (`StartThread`) and storing PAUSED (`Started`), or sending
STOP (`SendStop`) and the join (`Join`).

* `Open` either opens the file as a whole, or fails before or after it has
  allocated contexts (`partial`).
* `Route` has two outcomes for every packet that is not video: `isAudio`
  (`ffwrapper.h:92`) has no return statement.
* The queue gives up a buffer with the smallest time stamp; among equal ones any.
* A decoder gets a frame, or nothing, for a packet.
* `AudioRenderTo`: the render reads the sample rate of the audio codec context,
  so with a closed engine the process dies; there is no such step.

`Controlled` is the set of elements on which the application calls `setState`.
`Player` lets it call any state on any of them at any time, from one thread, as
`setState` is not made for two. `PlayerDriver` is the application the repository
has: `try.4.cpp`, twenty-four calls in a fixed order that ignore every result.

### Abstractions

`played` remembers per stream the last time stamp written, and stands for the
output. Packets and frames are a stream and a time stamp. FFmpeg's work, scaling
and resampling, and `VideoRender::setState` (which fails from every state) are
left out, as are the contexts that a failing `open` leaks. A failed allocation is
the empty pool.

## ProcessManager

### Correspondence

An action is one critical section under `processesMutex`, or one system call
outside of it. `processes` is the table (`None`: no entry), `opened` says to which
child each descriptor number leads, `watched` is the epoll set; closing a
descriptor takes it out of that set, as the kernel does. `kernel[p]` goes
`unused`, `running`, `zombie`, `reaped`.

* `create` is `CreateStart` (fork, exec, descriptors), then `CreateInsert`; or
  `ExecFails`; or `ForkFails`. In between the child already runs.
* `recvData` and `sendData` are `LookUp`, `Exchange`, and, on an error,
  `ExchangeFailed` with `notify(FD_READ_ERR)` or `FD_WRITE_ERR`.
* `notify` of a descriptor is `NotifyError`. Without an owner `probeAlive` calls
  `waitpid(-1)`, which may reap any child.
* `SignalWatching` and `FDWatching` are the loops of the watchers, with one step
  for the test of `need_stop`, the wait, `waitpid`, `EPOLL_CTL_DEL` and `notify`.
* `Start`, `TerminateAll` (twice) and `JoinWatchers` are start and stop.

### Abstractions

The three descriptors of a child stand as one: they are opened, watched and
closed together. A pid is not used twice; descriptor numbers are. `pipe`,
`epoll_ctl` and `pthread_create` do not fail, and the pipe that reports a failed
`exec` is not interrupted. What a child inherits from a concurrent fork before
it closes all descriptors is ignored. Data are not modelled, only from whom they
come. `signal` is the strongest signal a running child was sent.

After `ForkFails` nothing is modelled: the process has become the image of a
child (`image = "child"`).

## FrameExchange

### Correspondence

`word[b]` is `bufferStates[b]`; `Read` and the action that follows it are the two
halves of `setBufferState` or `setBufferDisplay`: what is written back is the word
that was read, with one field changed. `sf` is the thread of SurfaceFlinger
(`gralloc_lock`, drawing, `fb_post_ext`), `client` the thread that runs
`dispatchFrame` and `onDrawn`. `seen` holds what the loop of `onDrawn` found of the
two buffers, which it reads one after the other. The frame callback itself is
the compositor's, so external: it comes at any time after a commit (`pending`).

`redrawn` and `overridden` are history: which buffers were drawn since they were
attached, and which were locked last without waiting any longer.

### Abstractions

One display: the words of the other one are others. A buffer is handed to
`fb_post_ext` after it was locked and drawn (`hwc_set` is the HWC 1.1 path;
`fb_post` is not used then). `DisplayRead` merges `getBufferDisplay` with the read
of `setBufferDisplay`: no other process writes that field. The creation of the window
is one step, possible when `getSharedIndexs` finds both buffers. `BUFFER_IDLE` is
stored nowhere and the memory is zeroed, so the first lock of every buffer ends
in an override; `Zero` is that state. A second SIGINT, which kills the client
(`SA_RESETHAND`), is not modelled.

## The Pinyin engine

`MCPinyin` puts seven modules side by side: `subject` is chosen at the start, its
module takes steps and the others stay in their initial states. They are never
interleaved; what one part needs of another is a constant of its module (the
decoder's table of spellings and lexicon, a dictionary's ranges of half ids).

### Correspondence

* **`UserDict`**: `dict` has the parallel arrays of the class (`lemmas`, `offsets` with
  the flag of removal, `predicts`, `scores`, `ids`, `byId`, `syncs`), `state` is
  `state_`, `caches` and `misses` the two rings, `room` the allocated places, `file` what
  the file holds, part by part. `LocateFirst` is the binary search over the offsets,
  `Locate` and `Search` the loops behind it; `WrittenBack` is the file with the parts rewritten that
  the code writes for the state. `ImplementsStore` is the refinement of `LemmaStore`: the
  live lemmas with their frequencies are `store`. When a put finds neither room nor a queue, the load inside the flush
  makes a queue, so the lemma enters it, and the old array and count come back with an entry that was
  left there (`InQueue`, `PutBack`).
* **`UserDictFile`**: two objects; `phase[o]` is where an object is inside
  `flush_cache`: closing (check of the time, lock, write, unlock) and loading
  (validate, reset, lock, read, unlock, `load_time_`). What was last written as a whole
  (`known`) and seen by an object (`seen`) are history.
* **`SpellingTable`**: `raw` is the hash table, which `Contain` searches until `ArrangeAndConstruct` freezes it and builds the trie;
  loading builds it anew; `SpellingTrie` has the half ids, their ranges, and `Parse`
  (`splstr_to_idxs`).
* **`PinyinSearch`**: one record `dec` holds `pys_`, the rows (DMIs and nodes), fixed words,
  the composing phrase and the candidates. `AddChar` is `add_char`, `ImSearch` a search, with the
  reuse of rows in front of the first change; `DelSearch`, `Choose`, `CancelLastChoice`, `GetSplStart`
  and `ImReset` are the calls of those names, each as one step as they are made by one thread. An
  assertion that fails sets `dec.failed` and the decoder takes no further step.
* **`SystemDict`**: reading line by line, saving, loading with a file
  that ends in any section, looking up through marks, and the cache of the best
  words of a half id. `BuildDict` is one step, made of the scans the builder makes: the items
  sorted by their spellings are a sequence, a node of `construct_subset` has a range of it
  (`PartOf`), whose first items end at the node (`HomosOf`) and whose rest is cut where the spelling of
  the next level changes (`SonBegins`); its asserted counts of 65535 and 255 are a guard
  (`MostCounted`). `get_top_lemmas` takes word by word (`InsertTop`). `GetLemmaId` answers `Aborts`
  where the assertion of `get_lemma_id` fails.
* **`Codebook`**: one step assigns the codes, one takes the means, or fails with the assertion
  that every code has a frequency (`AssertionFails`). **`TextReader`**: one step per
  filling and per copy.

`DecoderIsSound` and `ReuseIsExact` compare the decoder after any calls with
`FromScratch`, which decodes the whole string anew, and with the state before a choice; `DictionaryIsExact` compares the walks through the
trie, the list, prediction and the words on top with the list of words that was read; `SpellingsAreSound` parser and ids with the strings.

### Abstractions

A lemma takes one place of the buffer, a score is a frequency of at most `MaxFreq`, a
syllable's letters are a short sequence, `psb` values are given with the words. Pools
(of DMIs, nodes) are left out, so their exhaustion is; the address of the first node of a row without
nodes, which `choose` may fix (`matrixsearch.cpp:404`, `575`), is `StrayNode`. `Careful` keeps the client
off the calls after which an assertion of the decoder fails (below), so what these would do is
not checked. The `size_t` difference of `prepare_candidates` (`matrixsearch.cpp:1134`) does not wrap,
as nothing is offered when nothing is spelt. `OneFile` says that a
process loads one system dictionary, since `LpiCache` is never invalidated. Logarithms and
code values as floats are exact fractions in `Codebook`, so that rounding, on which the test for the end
of the iteration (`ngram.cpp:119`) depends, is not checked. A crash in the midst of
a write-back is not modelled: the code has no recovery but a comparison of sizes.

## The smaller programs and drivers

`MCDevices` puts seven modules side by side in the same way.

### Correspondence

* **`VpuCodec`**: `memory` says which block of physical memory was taken for what,
  `session` has the structures, `given` what an instance of the VPU was told of,
  `locked` whose frame is at work. An action is a call: open with its failures, the
  first frame with allocation and registration, a frame, its end or timeout, close.
* **`Modeset`**: `phase` is where `main` is; each device is prepared, shown and cleaned up in
  a step of its own; `flip`, `events`, `batch` are what the kernel has been asked,
  has done, and what `drmHandleEvent` has read. `WaitFails` is an error of that call in the
  clean-up, which breaks the loop and frees a device whose flip is pending.
* **`VSync`**: `thread` is where `threadLoop` is; the clock goes on in every step of its own
  (`Tick`); a signal ends the sleep.
* **`V4L2Capture`**: one record `cam`; each call is one step, and the chain of requests of
  `init_capture` maps a set of states to a set of states, as each request may be refused.
* **`ChildProcess`**: `pid`, `ends`, and the kernel's `procs`; create with its failures at each
  stage, `isAlive`, `kill`.
* **`FramebufferSlots`**: an update of `bufferMask` is a load and a store; allocation has both
  under the lock, `gralloc_free` (252) has not.
* **`FileServer`**: a step is the receipt of a request, the opening of a file, a piece read or
  written, a close.

### Known behaviour that the properties exclude, and where

* VPU: closing an H.264 decoder leaves its `ps` buffer and frame buffers, a JPEG decoder its
  frame buffers; a failing open leaves `ps` (H.264 decoder) or the bit stream (JPEG
  encoder); the encoder does not ask for the output after a timeout
  (`vpu_enc.cpp:286`), so the VPU stays locked, unlike the note at `vpu_dec.cpp:268`. After a
  refused registration a decoder never registers again. `LostByDecoders` and `LockedByEncoders` of
  `VpuIsKept` name what is lost.
* `Modeset`: after `WaitFails` (`broken`) an event may reach a freed device.
* `VSync`: `clock_nanosleep` returns its error and leaves `errno` alone (`vsync.cpp:56`), so a
  signal drops an event; one event may follow `setEnabled(false)`.
* `V4L2Capture`: after a mapping that fails half-way (`torn`) mappings stay; after a
  refused `REQBUFS` (`refused`) the next release unmaps addresses that are no longer the
  object's (520, 565); a driver that refuses both `STREAMOFF` (321) and `REQBUFS` of none (573) goes on with
  buffers the object has given up, and `read` may fail its assertion (590) or end the program (`stuck`); a refused `QBUF` loses a buffer (`lost`); `set` of a value already
  stored answers true although a restart failed (172). `open` of an open camera, which would lose the
  descriptor (96), is not called. The retry on EBUSY (339) may go on for
  ever.
* `ChildProcess`: `kill` with pid -1 (248) reaches every process; a second `create` before `isAlive`
  drops a child and descriptors (`again`).
* `FramebufferSlots`: when a store falls between another thread's load and store
  (`overlapped`) a slot is lost or given out twice; a refused allocation leaks its handle (143).
* `FileServer`: an upload that ends early is stored as if whole (`utils.cpp:200`), the size of the
  request is never compared; two connections on one name (`mixed`) mix their data.

## The runs

Every passing run also shows, with a mutant per property in `PROJECT.json`, that
the property is violated by a plausible error in the code (the operators marked
"Mutant of" or "A mutant of" in the modules).

| run | module | shows |
| --- | --- | --- |
| `PlayerAudio` | `MCPlayer` | any application on demuxer, audio decoder and render: threads, STOPs, buffers, capacity, the open file; every `setState` returns |
| `Driver` | `MCPlayerDriver` | main on a file of all stream kinds: clean shutdown, no closed engine under a decoder, refinement of `StreamDelivery`; the file goes through, main's calls return |
| `ManagerTable` | `MCProcessManager` | two callers, two children, both watchers, stop: table and descriptors agree |
| `ManagerLive` | `MCProcessManager` | dead children are reaped, `stop` returns |
| `Frames` | `MCFrameExchange` | tearing, loss, lost updates, waiting |
| `Pinyin` | `MCPinyin` | user dictionary and its refinement of `LemmaStore`, flushes, spellings, decoder, system dictionary, code book, lines |
| `Devices` | `MCDevices` | VPU memory, page flips and their end, VSync times, capture buffers, child, slots, files |
| `ManagerStale`, `ManagerData` | `MCProcessManager` | violations, below |
| `PinyinChoose`, `PinyinTop`, `CodebookUse` | `MCPinyin`, `MCSystemDict`, `MCCodebook` | violations, below |

### Bounds

* `PlayerAudio`: two cells of memory, queues of one, and a file of one audio packet and one
  that belongs to no known stream, which is read from its start at every open. With one
  place per queue every push meets a full queue, with two cells every allocation can
  fail, and the application may take the elements up and down for ever, so threads are
  started and stopped any number of times. No symmetry, as the run checks liveness.
* `Driver`: two cells and queues of two, so that two packets of a stream meet in a queue, where
  their order matters; packets wait because the next element is not PAUSED yet, and reading
  fails when both cells are taken. Full queues are in `PlayerAudio`. That order and shutdown do not
  depend on these numbers is proved (`PlayerProofs`).
* `ManagerTable`: two pids, two descriptors, two callers, so that a number is reused
  while another thread or a watcher still has it; one descriptor fewer than
  needed would only block `create`. `ManagerLive` has one caller.
* `Frames`: two retries in place of ten: none, one and the last are distinct; the
  proofs hold for any number.
* `Pinyin`: three lemmas of two lengths with shared first letters, none the beginning of another
  (with such a pair `LocateIsExact` fails, below), a limit of two and
  blocks of three (`MaxBlock`), so that removing, reclaiming and defragmenting meet; frequencies
  and the queue of one (`MaxFreq`, `MaxSyncs`); two objects on a file and four readings of the
  clock (`MaxTime`); a hash table of seven places for six syllables; a decoder of up to three
  letters over two spellings and four words with one learnt word (`MaxLearnt`),
  rows of two nodes, so that nodes are dropped; twelve lists of words with homophones, half
  ids, words of three lengths and lines to discard, more words than the three places on top (`TopLemmas`), and two places for the nodes of a level (`MaxExtendBuf`), as
  many as a search takes; TLC evaluates the two hypotheses of the proofs about them on these lists; four frequencies for three codes, and two
  lists of five with which a code loses its last one;
  all texts of at most five characters for a buffer of three.
* `Devices`: two sessions on six blocks, so that memory runs out; three connectors on two
  CRTCs, two of them bound to the same; a period of three units and fourteen of time; two
  buffers of a camera; three pids and three creates; three threads on two slots and three
  displays, one of which has no slot; three connections on two paths to one name, uploads
  of two pieces, a buffer of two.

`Pids` bounds the children ever created: the model comes to an end when all are
used. `CHECK_DEADLOCK FALSE` is set in `ManagerTable`, where the manager may become
the image of a child; in `Driver`, where main returns; in `Pinyin`,
`PinyinChoose`, `PinyinTop`, `CodebookUse` and `Devices`, where a file has been read, a book is coded, all bounded
calls are made or the program ends. All other passing runs check deadlock.

### Fairness

Each worker thread, watcher and dispatching thread is scheduled again and again,
so the next step of its loop has weak fairness: none of these steps waits for a
lock that another thread keeps. A call that was begun goes on, and a join ends
when the thread has ended. Applications and callers need not call anything, children
need not exit, SurfaceFlinger need not draw; only what it has begun
(`Locking`, `Posting`) goes on. In `PlayerDriver` main goes from call to call but sleeps for as long as it
likes once all elements are PLAYING, since the ten-second sleep of the code may or may
not suffice for a file. The compositor answers a commit at some time, as it promises
for a visible surface; `PostedIsShown` depends on it, the safety properties do not.

In `Pinyin` the flush an object has begun goes on (`FileStep` of each object; the mutex is
held for a bounded number of its holder's steps) and the loop of `iterate_codes` goes on. In
`Devices` the page-flipping program goes on, the kernel has a vertical blank for each CRTC
again and again, and drawing stops at some time: the loop compares the time with five
seconds in every round, so `StopDrawing`, enabled only between two events, has strong
fairness. Nothing else in either run is fair.

### Divergences that runs show

* `ManagerStale`: an exit consumed by `isAlive`, by the `waitpid(-1)` of `notify`, or
  by the signal watcher before `create` has inserted the entry, leaves the entry for ever.
* `ManagerData`: `recvData` may read another child's pipe (`process_manager.cpp:219`).
* `PinyinChoose`: type a letter, choose, type another, cancel the choice, choose: the
  candidates are those of the segmentation before the cancellation, and the assertion at
  `matrixsearch.cpp:851` fails.
* `PinyinTop`: `get_top_lemmas` moves the last but one word of a full list to the last place without comparing it
  (`dictbuilder.cpp:301-315`), so the list loses its order and later refuses better words, where
  `dictdef.h:72` speaks of the items with the highest score. With three places and the frequencies 90,
  70, 5, 65, 70, 80, 50 in the order of spellings the list ends as 90, 80, 65 and leaves out two words of 70.
* `CodebookUse`: `assert(item_num[code] > 0)` (`ngram.cpp:94`) fails. The frequencies 1, 20, 23,
  4, 5 are first given to the codes 1, 20 and 23; these become the means 2.5, 12.5 and 23, and
  then 5 is nearer to the first, 20 nearer to the third.

### Divergences seen while modelling, without a run

* `terminate` and `kill` refuse exactly the children in the table (`process_manager.cpp:143`, `160`):
  `SendSignal` models it.
* `stop` sends SIGTERM a second time under the comment "kill all child processess if
  still alive" (`process_manager.cpp:322`); `killAll` is never called. `TerminateAll`
  models what it does.
* `isAudio` has no return statement (`player/ffwrapper.h:92`), so a packet of another stream
  may reach the audio decoder: `Route` has both outcomes.
* The descriptor watcher may take a new child's descriptor out of the epoll set, by its
  reused number (`fd_watcher.cpp:32`); that child is then never listened to.
* `Process::fork` returns `false` on failure (`process.cpp:140`), which `start` takes
  for the child's 0. `ForkFails` models it.
* `AudioRender::rendering` may take its first look at the state while that is READY,
  and writes a frame before PLAYING (`audio_render.cpp:35`, `105`). `CheckState` has it.
* SIGINT is to end the client's loop (`wayland_client.c:591`), but `onDrawn` waits for
  a scanning buffer without looking at `running`: `Scan0`, `Scan1`.
* `userdict.cpp:57` says that load and write are thread-safe by the mutex. The time
  of a load is taken after the mutex is given back and validation runs without it, so
  an object may write back without having seen the other's lemmas, and a check during a write
  resets the file: `WritersHaveSeenTheFile` and `FileIsKept` of `UserDictFile` state what does
  not hold.
* A `put_lemma_no_sync` that finds no queue for synchronisation flushes the dictionary
  (`userdict.cpp:1700`) and loses what was in it: `PutKeepsTheOthers` of `UserDict` does not hold.
* `Locate` compares by the length of the lemma looked for, so a longer lemma with that
  beginning passes for it.
* `pinyinime.h:197` speaks of enabling all letters; the last first letter has no half id
  when the mode was off while the trie was built: `EnabledLettersAreIds` of `SpellingTable`.
* In `matrixsearch.cpp`: the branch of `reset_search` for a composing phrase leaves
  `pys_decoded_len_` behind; the assertion near 1262 fails for a phrase next to other fixed
  words, the one at 910 when a tail that does not decode is added again; both are kept off by
  `Careful`.
* In the dictionaries: the last id of a lemma has no string (`dictlist.cpp`), the look-up of the first word's id fails
  an assertion (`dictlist.cpp:356`; `ListIsExact` says that it does), `extend_dict1` and
  `extend_dict2` count marks for which there was no room and write that count into the mile stone without a check of
  its bound (`dicttrie.cpp:511`), `calculate_size` gives a length that no word has the place of the shorter
  words, a search with more than 200 nodes on a level leaves the others out (`dicttrie.cpp:668`), a failing load leaves the other
  singletons changed, `build_unigram` reads beyond the frequencies when there are fewer than
  codes. `Utf16Reader` counts the room for a line from the last filling, so a longer line
  overruns it (`LinesAreWhole` is stated for lines that fit), and keeps a CR at the end of the file.

## What is proved

Each component has one inductive invariant, one lemma per action (or group of actions)
that it is preserved, and theorems `Spec => []P` that follow. The assumptions are those named
in the modules: `PlayerAssumption` (`None` is no cell, queues have at least one place,
the file is a sequence of packets), `ManagerAssumption` (`None` is neither pid nor
descriptor), `RetriesAssumption` (a natural number), `SlotsAssumption` (`NoThread` and `NoSlot`
are what they say), `ChildAssumption` (pids are natural numbers, so that -1 is none),
`VpuAssumption` (finitely many blocks), `PeriodAssumption` (a positive period),
`ServerAssumption` (a length, and a buffer that holds something), `CaptureAssumption` (numbers of
buffers), `ModesetAssumption` (each connector is listed once),
`ReaderAssumption` (files are sequences of characters, buffer and line have a size),
`BookAssumption` (positive frequencies, as many different ones as codes),
`DictAssumption` (full ids follow one another, a half id stands for a run of them, a list is a sequence of lines,
sizes are natural numbers, at least three places on top),
`TableAssumption` (finitely many spellings, none empty), `SpellingAssumption` (each letter has one
place in the order, a half string stands behind those it begins with),
`UserDictAssumption` (finitely many lemmas of as many characters as spellings; the full ids of one half id
share their initial letter; positive sizes). `FileInOrder`,
`OneFile`, `ListsAreComplete`, `RoomToWalk`, `RoomForAnswers` and `NoneBegins` are hypotheses about the environment,
named where they are used.

* **Player** (`PlayerProofs`, `Inv`). Proved: `TypeOK`, `ThreadMatchesState`,
  `StopIsForThisThread`, `BuffersAreKept`, `ReadsOpenFile`. The
  properties alone are not inductive: that a refused buffer does not overwrite another
  one needs to know where each loop has a buffer in hand and where nothing can be
  pending (`InHand`, `AtOwnPC`), and that a STOP is neither lost nor left needs the states
  between which a call is suspended (`CallShape`). That a STOP always fits in the event
  queue follows: at most one is ever queued, and a queue has at least one place. The capacity
  of the queues (`WithinCapacity`) is an invariant of its own (`QueuesBounded`): a queue is
  a finite set that grows by one element, in a step guarded by its cardinality.
* **PlayerDriver** (`PlayerProofs`, `DriverInv`). Proved: `CleanShutdown`, `EngineOpenWhileDecoding`.
  Main ignores what `setState` returns, so the state of an element is not what main has asked
  for; the invariant says what it is (`Progress`): each element is where the calls
  have taken it, but for a demuxer that could not open its file and refuses the rest. An
  element that was stopped has no thread and an empty queue (`Drained`), because those that
  push to it were stopped before; so nothing is in memory when the demuxer closes the engine
  (`EngineMatches`). Each step of a worker enters by its effect on what is shared (`Effect`).
* **PlayerDriver implements StreamDelivery** (`PlayerProofs`, `OrderInv`). Proved:
  `InOrderDelivery`, under `FileInOrder` (a stream's time stamps increase). A buffer goes through five
  stages: the demuxer's hand, a decoder's queue, its hand, the render's queue, its hand;
  of two buffers of a stream the one that is further on is earlier (`FirstIsAhead`), and
  video takes the way over the video decoder only (`Routed`). Within a stage nothing is ordered but by
  the priority queue; that a hand holds one buffer, and that a refused one is taken again
  before the next (`InHand`), makes this enough. Every step of a worker is one of four: it leaves
  buffers where they are or frees them, moves one to its next stage, reads, or writes.
* **ProcessManager** (`ManagerProofs`, `ManagerInv`). Proved: `ManagerTypeOK`,
  `FDsAreAccountedFor`, `LiveIsManaged`. Added: a child is inserted by one thread, once
  (`InsertOnce`), an unused pid has no entry (`UnusedIsClean`), and the signal watcher
  recycles only what it has reaped (`RecyclesReaped`), without which a descriptor could be
  closed while its child runs. The argument for late errors is that `notify` looks the
  number up and probes the *present* owner under the lock.
* **FrameExchange** (`DisplayProofs`, `FrameInv`). Proved: `FrameTypeOK` (in no run, as the
  other properties need it), `NoTearing`,
  `FrameLostOnlyByOverride`, `DisplayIsKept`. The idea is a protocol without locks: a buffer
  is *locked* by SurfaceFlinger from the end of the wait to the post, *held* by the client
  from the moment it has seen it scanning until it has marked it as shown, and both only after an
  override (`HeldInv`). A held buffer that is not locked is scanning, so the next lock
  waits (`StateInv`); what either side has read is still valid in the field it does not
  change (`ReadInv`).
* **FramebufferSlots** (`DeviceProofs`, `SlotsInv`). Proved: `SlotsAreExclusive`, for any threads, slots and
  displays. As long as no two updates overlap, what a thread has loaded is the mask, and what an
  allocation has read under the lock contains every slot in use, though slots may have
  been given back since; a slot on its way back belongs to one thread.
* **ChildProcess** (`DeviceProofs`). Proved: `ChildIsKept`, for any pids and number of creates:
  the child of the object is in the kernel's table until `isAlive` has seen it end.
* **VpuCodec** (`DeviceProofs`, `VpuInv`). Proved: `VpuIsKept`, for any sessions and memory. What is
  added is that the driver remembers each block of a session as what the session has it for
  (`Recorded`), so that a lost block tells who lost it; a closed session has nothing
  (`ClosedIsEmpty`). The steps are three: a session takes free blocks (none, when a frame starts
  or ends), gives back some of its own, or an open fails.

* **VSync** (`DeviceProofs`, `VSyncInv`). Proved: `VSyncIsRegular`, for any period. That a time
  is a multiple is kept as the factor, and turned into a remainder by two facts about division.
  `Ahead` orders the last report, the one that is waited for and the one behind it; a report
  after `setEnabled(false)` comes once, as the thread is then at the top of its loop (`LateOnce`).
* **FileServer** (`DeviceProofs`, `ServerInv`). Proved: `FilesAreWhole`, for any connections, names
  and lengths. A connection that writes an unmixed file is alone with it (`WritesAlone`), so a
  file stays the beginning of one upload, and what a download has sent stays a beginning of the
  file it announced (`SendsTheFile`).
* **V4L2Capture** (`DeviceProofs`, `CaptureInv`). Proved: `CaptureIsSound`, for any driver and
  settings. Between calls a camera is prepared, running or stuck in its stream (`Rests`). The chain of requests of
  `init_capture` enters by what each link leads to: one that is refused leaves a camera that can start.
* **Modeset** (`DisplayProofs`, `ModesetInv`). Proved: `ModesetIsSafe`, for any connectors, encoders
  and CRTCs. A device has a CRTC to itself (`OwnCrtc`); for a device that waits there is one flip
  at the kernel, one event, or one event that was read, and none else (`OneHappening`), so a
  device that draws does not show its back (`BackIsHidden`) and one that is freed is not called back
  (`Lives`, unless `broken`). What main has still to do in each phase is in `Phases`.
* **SystemDict** (`DictProofs`, `DictInv`). Proved: `InUseIsWhole` under `OneFile`: the cache, which no
  load empties, belongs to the spelling trie in memory (`CacheIsOfTheTrie`), also after loads
  that ended early.
* **SystemDict, what it finds** (`DictProofs`, `BuildInv` and `SavedInv`). Proved: `DictionaryIsExact`
  for what is built, and `LoadedIsExact` for what is saved, loaded and used, for any alphabet, lists and limits,
  under two hypotheses about the lists. `ListsAreComplete`: a word is listed once for each
  reading, every spelling begins a word (the walks assert it, `dicttrie.cpp:408`, `:704`), no length is
  missing (`calculate_size`). `RoomToWalk`: the room for words, nodes, marks and mile stones is enough
  for the searches. The invariants say that what is read, built and saved is of *one* file
  (`OfOneFile`), and of it, kept and arranged (`Made`); the rest is about the arrangement. The orders are
  strict, so ranks list a set (`Lists`: each element once); the sons of a node list its
  children, the nodes of a walk list a level (`LpisNodesAre`), and so do the nodes under the marks of a
  mile stone, where no more marks are taken than nodes were passed (`StoneAt`, `ExtendIs`): both ways
  end at the same nodes, whose words are those that match (`WantedIs`). Walks are folds, which are
  recursive functions, treated as in `TextReader` (`RunExists`). The list keeps words by their length, so the characters
  of a word are where its length begins, and its rank among those says where (`StringIs`). The sons and words of a node are the ranges of a scan: along the items
  a spelling rises as long as what stands before it is the same, so each spelling begins once
  (`RunBegins`, `SonsAscend`). Of the words on top it is proved that there are as many as there is
  room for, each once, the most frequent one first, and in order but for the last of a list from which words
  were left out (`TopBeginsBest`); that they are the best does not hold (`PinyinTop`).
* **TextReader** (`PinyinProofs`, `ReaderInv`). Proved: `LinesAreWhole`, for any files, buffer and room.
  The invariant is three positions in the text: where the line begins, how far it is copied, how far
  the buffer reaches (`At`); the rank of a line's end among all ends says which line it is.
  That the tokens of a line are its runs of what is not blank is an induction backwards over the
  line: `TokensFrom` is a recursive function, so the set of positions from which it is right is shown
  to be everything by `Induction` of `NumberProofs`, which is stated with a set, not an operator.
* **Codebook** (`PinyinProofs`, `BookInv`). Proved: `CodesAreNearest`, for any frequencies and number
  of codes. Codes are fractions, so the argument is about products (`NearestBetween`, `NearestGrows`). A binary search in
  codes that are in order ends between two neighbours, the nearer of which is the nearest of all; a
  higher frequency never has a lower code, so each mean is below the means of higher codes
  (`MeansAreOrdered`). The search and the sums are recursive functions, treated as in `TextReader`;
  at the beginning, values taken by their ranks are in order (`RankExists`).
* **SpellingTable** (`PinyinProofs`, `TableInv`). Proved: `SpellingsAreSound`, for any alphabet,
  syllables, half strings, size of the table and step of the probe, under `SpellingAssumption` (every
  letter has one place, a half string comes after those it begins with) and `TableAssumption`. Added: a
  search for what was put meets no empty place before it (`Reached`), which no later put disturbs as
  no place becomes empty; and what a trie was built of (`IsTrieOf`). The order of spellings is total and
  transitive, so that ranks sort them (`SortedSorts`) and what begins with the same letters is together
  (`PrefixesAreTogether`, `RangeOfHalf`). The parser is a recursive function over the string; that what it has cut so far
  begins the spellings of its ids (`CutSoFar`, `WalkCuts`) is an induction over the letters, and so is that it walks
  along a whole spelling without an end (`WholeWalk`).
* **UserDict** (`UserDictProofs`, `UserDictInv`). Proved: `TablesAgree` and `LookupIsComplete`, for any
  lemmas, queries, limits, sizes of the room and of the rings, and with them `UserDictIsConsistent`.
  The invariant has three parts. `Sound`: entries, places of the block, ids and predictions are in
  step, and the entries in order. `Remembered`: a range in a ring has all live entries of its
  signature between its ends, a remembered miss has none; a removal leaves both true, as it changes
  no order, and everything that changes the order empties the rings. `Behind`: the file holds whatever the
  dirty state does not name, and the block up to what was added since the load, so that a write-back
  by parts makes the whole (`WrittenBackIs`). The binary search is an induction over ranges
  (`SearchFinds`), and also stands in `PredictSlot` over a table it is not made for, where only its
  bounds matter; reclaiming is an induction over the entries that are given up. Two hypotheses are
  named. `RoomForAnswers`: a search that is cut off by the room of its caller is cached as if it
  were complete, so the caller has to have room for all lemmas of a signature; with less,
  `TablesAgree` does not hold. `NoneBegins` is needed only for `LocateIsExact`: the comparisons of
  `locate_in_offsets` take the length of the lemma that is looked for (`userdict.cpp:689`), so in a
  dictionary with a longer lemma that begins with it, the longer one is found and scored or removed.
  Under both, `UserDictImplementsStore`: every step is one of `LemmaStore` or none (`StoreStep`). The
  content is the function that says of each live entry its score (`Tells`), and there is only one
  such function (`ToldOnce`), so that it is enough to follow the live entries through a step: sorting,
  compaction and loading move them, put adds one (`AddedContent`), scoring changes one (`ScoredContent`),
  removal takes one (`RemovedContent`). A put that makes room first flushes or reclaims and loses
  lemmas, which `LemmaStore` grants to the sync client only (`RoomMade`).

Only model-checked:

* Every liveness property, and `FileIsPlayed`, `MainReturns`, `IterationEnds` and the like: fairness
  and ENABLED are outside TLAPS.
* `DecoderIsSound`, `ReuseIsExact`: the decoder's operators are nested recursive functions over sequences and
  `SelectSeq`, which tlapm does not support.

## Not modelled, and why

* Pinyin: prediction by history and the string formats of synchronisation in `userdict.cpp`,
  `inner_predict` and `get_predicts` of the decoder, the parallel parser, tables of initials and
  finals, the binary layout of files: conversions and scores without a protocol of their own.
* The TCP samples: an echo loop over one connection. `tcp_server.cpp:220` drops what it has
  received when the peer closes in the midst of a message.
* Contexts leaked by a failing `FFWrapper::open`: the element stays IDLE, which `Open` has.
* Out of reach or without a state: pixels and samples (scaling, resampling, `clut`, `ipucvt`,
  `jpeg`), the work of FFmpeg, OpenCL and the drivers.
* Recognition of gestures in `input.c`: one thread, arithmetic on times and places.
* Buffers in ashmem (`gralloc.cpp`) and the remaining calls of `hwc`, which keep no shared state.
* Samples and scripts, third-party code, configuration.

## Plan

Done, in this order: `Player` and `PlayerDriver` with `StreamDelivery` as the abstract
specification, `PlayerProofs`; `ProcessManager`, `ManagerProofs`; `FrameExchange`,
`DisplayProofs`; `FramebufferSlots`, `ChildProcess` and their proofs; `VpuCodec`, `Modeset`, `VSync`,
`V4L2Capture`, `FileServer`; the Pinyin engine with `LemmaStore` as the abstract specification;
capacity of the queues; `DeviceProofs`, `DictProofs`, `PinyinProofs`, `UserDictProofs`.

Left:

1. Proofs: the recovery of `UserDictFile`.
2. `FFWrapper.open` in steps, replacing `Open` of `Player`; the choice of three descriptors per
   child in `ProcessManager`.
3. Composition of `FramebufferSlots` with `FrameExchange` by the slot's index, and of `UserDict` with
   `PinyinSearch` in place of the set of learnt words.
4. A crash between the parts of a write-back, with what the C library has buffered.
5. Liveness of `ProcessManager` with several callers, on a smaller model.
