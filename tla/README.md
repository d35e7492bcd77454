# gnome-remote-desktop in TLA+

TLA+ modules, TLC configurations and TLAPS proofs for gnome-remote-desktop, the RDP and VNC
server of GNOME. The code is C on top of GLib, FreeRDP, libvncserver, PipeWire, FUSE, libei and the
D-Bus interfaces of the display server and of GDM. The subject is what its threads, sources and
callbacks do to the state they share: which connection is admitted and where it is sent, when a
session ends, which frame may use which buffer, what the client was told and what it acknowledged,
whose content is in the clipboard. Pixels, sounds, codecs and the bytes of PDUs are not.

Run a model with `tlc -workers 2 -config X.cfg M` and the proofs with `tlapm X_proof.tla`
(`Throttler_proof`, `Renderer_proof`, `SurfaceRenderer_proof`, `Screens_proof`, `Graphics_proof`,
`Input_proof`, `Daemons_proof` and `Clipboard_proof`).
`PROJECT.json` lists the components, runs, mutants, the code each definition models, findings and
hazards. Paths below are relative to `src/src/`.

## 1. The system

### Parts, their state and their operations

| part | code | state | operations |
|---|---|---|---|
| throttler | `grd-throttler.c` | per peer: live connections, connect timestamps, queue of delayed ones; global count; one timer | admit, delay or refuse a connection; dispatch the delayed ones; end of a connection |
| daemons | `grd-daemon.c`, `grd-daemon-user.c`, `grd-daemon-system.c`, `grd-daemon-handover.c`, `grd-rdp-routing-token.c` | the servers and the ports they have, remote clients by id, handover objects, displays of GDM, the dialog of the handover daemon | start and stop servers, try to bind a port again, redirect a client, hand it over at a login, take it, give it up |
| RDP server, session | `grd-rdp-server.c`, `grd-session.c`, `grd-session-rdp.c`, `grd-rdp-dvc.c` | lists of sessions and of stopped ones, idle sources by id, cancellable, ready/started, threads, channels | accept, post-connect, start over D-Bus and libei, close from any thread, stop, clean up, tear down a channel |
| VNC server, session | `grd-vnc-server.c`, `grd-session-vnc.c`, `grd-prompt.c`, `grd-clipboard-vnc.c`, `grd-vnc-pipewire-stream.c` | sessions, the question to the user, pressed keys and buttons, text of the clipboard, framebuffer and its pending size, the frame in each place | accept, ask, start, input, view-only, resize, stop; dequeue, download and take a frame |
| input | `grd-rdp-event-queue.c`, `grd-rdp-dvc-input.c`, `grd-session.c` | pressed keys, event queue and its source, pending lock synchronization, touch contacts, libei devices | keys, synchronization, touch frames, hot-plug of devices, pings, flush on stop |
| layout manager | `grd-rdp-layout-manager.c` | automaton, current and pending monitor config, surfaces by stream, pending streams and sizes | submit a config, step of the automaton, stream created/ready/closed, size negotiated, recreation timeout |
| surface renderer, stream | `grd-rdp-surface-renderer.c`, `grd-rdp-pipewire-stream.c`, `grd-rdp-pw-buffer.c`, `grd-rdp-frame.c` | pool of PipeWire buffers, pending and shown buffer, locks, marks, dropped references | dequeue, submit, make a frame, drop references, register, remove, invalidate |
| renderer | `grd-rdp-renderer.c`, `grd-rdp-render-context.c` | gates (inhibition, suppression, reset, stop), acquired render contexts, frames in each stage | render, encode, finish, inhibit/uninhibit, reset, stop |
| encoding and views | `grd-rdp-render-context.c`, `grd-rdp-frame.c`, `grd-rdp-view-creator*.c`, `grd-encode-session*.c` | pools of image views, bitstream buffers and local buffers, the frame in each stage, what the client is owed of the chroma values | create, finish, encode, lock and release views and bitstreams; upgrade a frame |
| graphics pipeline | `grd-rdp-dvc-graphics-pipeline.c`, `grd-rdp-gfx-frame-controller.c`, `grd-rdp-gfx-frame-log.c`, `grd-rdp-gfx-surface.c` | surfaces by serial, frames by id, history of frames acknowledged on behalf of the client, a controller per surface | create, delete, submit, acknowledge, suspend, resume, advertise capabilities, reset |
| cursor renderer | `grd-rdp-cursor-renderer.c` | newest update, source, cache of pointers in order of use | submit, dispatch, send a new, cached or system pointer |
| EGL thread | `grd-egl-thread.c` | queue of tasks, slots with a task that may be replaced | initialize, push, replace, run, sync, release a slot, free |
| autodetection | `grd-rdp-network-autodetection.c`, `grd-rdp-connect-time-autodetection.c` | numbers of pings that are not answered, consumers, bandwidth measurement, automaton at connect time | ping, answer, measure, synchronize with the main thread, stop |
| clipboard | `grd-clipboard.c`, `grd-clipboard-rdp.c`, `grd-rdp-fuse-clipboard.c` | offers of both sides, the request in hand and its timer, transfers by serial, locks of the client, mounted selections with their requests | new selection, format list, request and response both ways, time-outs, lock, unlock, FUSE operations, clear |
| audio | `grd-rdp-dvc-audio-playback.c`, `grd-rdp-audio-output-stream.c`, `grd-rdp-dvc-audio-input.c` | channel automata, formats, streams and their lock, samples that wait | negotiate, train, submit and encode samples; open and close the microphone |
| camera | `grd-rdp-dvc-camera-enumerator.c`, `grd-rdp-dvc-camera-device.c`, `grd-rdp-camera-stream.c`, `grd-decode-session*.c` | devices to add and to remove, request under way, streams, sample requests, buffers and their locks | announce, add, fail, remove; start and stop streams; request, decode and return a sample |
| status of channels | `grd-rdp-dvc-handler.c` | status by channel id, subscriptions | give an id, subscribe, answer, notify, unsubscribe |
| GPU and codecs | `grd-hwaccel-*.c`, `grd-vk-*.c`, `grd-nal-writer.c`, ... | what drivers hold | left out, see section 8 |
| settings, tools | `grd-settings*.c`, `grd-credentials*.c`, `grd-ctl.c`, ... | files, keyrings, D-Bus properties | left out, see section 8 |

### How they interact

    client --- FreeRDP socket thread --- session --- main thread --- D-Bus, libei --- display server
                 |        |                              |
        graphics pipeline  event queue, channels    layout manager
                 |                                       |  inhibits, resizes
           graphics thread ---------- renderer ---- surfaces ---- PipeWire data thread
                                         |
                            view creators, encode sessions (threads of their own)

* The **main thread** runs the GLib loop: D-Bus answers, libei, idle sources that other threads add
  by id, stops. Stopping a session joins its threads from there.
* The **socket thread** of a session handles what the client sends and adds work for the main thread.
  Dynamic channels have a thread each (**channel threads**), the clipboard and FUSE have theirs.
* The **graphics thread** renders and submits; view creators and encode sessions call back from
  threads of their own; **PipeWire's data thread** submits buffers; the **EGL thread** of a daemon
  copies pixels for all of its sessions.
* A change of the layout starts with a monitor config of the client, shuts the renderer's gate,
  waits until the frames on their way are done, changes surfaces and streams, waits for the sizes
  PipeWire negotiates, and opens the gate again. A protocol reset and the end of a session shut gates
  of the same renderer at the same time.
* A remote client reaches the **system daemon** first, which redirects it to the **handover daemon**
  of the greeter and, at the login, to the one of the user's session; each time the client connects
  anew with a routing token.

### What is hard, and what must hold

* Sources that carry a raw pointer or an id, run after what they point to went away, or run before
  the id was stored: a freed session leaves nothing behind (Session, VncSession).
* Several parties wait for "the last frame is done" and must each be told once (Renderer).
* Buffers that PipeWire takes away while three threads use them (SurfaceRenderer, VncStream,
  CameraSamples); pools with exactly as many elements as stages (FrameEncoding).
* A picture is sent as a difference from one that the client must have by then (FrameEncoding).
* Acknowledgements that a client may withhold, send late or across a reset; flow control must not
  wait for one that cannot come (GraphicsPipeline).
* Events that belong to something that was replaced meanwhile: a layout (LayoutManager), a selection
  (ClipboardOffer, ClipboardFetch), a channel (DvcStatus), a session of the same user
  (HandoverDaemon, RemoteClients).
* Threads that wait for each other over the disposal of what they work on (ClipDataLocks,
  FuseClipboard, CameraEnumerator, AudioStreams, Session).
* Lock keys that are toggled, asked for and reported in different places, with a key press as the only
  means of correction (EventQueue).
* State of the client that the server never asks for: its pointers (CursorRenderer), its locks
  (FuseClipboard), its running streams (CameraDevice).
* One timer that must be early enough for every peer (Throttler).

`PROJECT.json` names the line of each hazard and the properties aimed at it.

## 2. Modules

| module | models | composed by | run |
|---|---|---|---|
| `Admission` | what throttling promises: first come, first served per peer, within the limits | instance in `Throttler` | |
| `Throttler` | `grd-throttler.c` | | `Throttler` |
| `Throttler_proof` | proofs about `Throttler` | | |
| `FrameController` | frame controller and log of one surface, as operators | `GraphicsPipeline` | |
| `GraphicsPipeline` | the channel, its tables and a client | `Graphics` | `Graphics` |
| `FrameEncoding` | views, bitstreams and chroma values of the frames of a render context | `Graphics` | `Graphics` |
| `Graphics_proof` | proofs about the channel and about the encoding of `Graphics` | | |
| `Renderer` | gates, render contexts, frames | | `RendererOneSurface`, `RendererTwoSurfaces`, `RendererStaleReset` |
| `Renderer_proof` | proofs about `Renderer` | | |
| `SurfaceRenderer` | buffers between PipeWire and frames | | `SurfaceRenderer` |
| `SurfaceRenderer_proof` | proofs about `SurfaceRenderer` | | |
| `LayoutManager` | monitor configs, surfaces, streams | `Screens` | `Screens` |
| `CursorRenderer` | the pointer and the client's cache of pointers | `Screens` | `Screens` |
| `EglThread` | tasks, slots and callers of the EGL thread | `Screens` | `Screens` |
| `VncStream` | frames and framebuffer of a VNC session | `Screens` | `Screens` |
| `Screens_proof` | proofs about `Screens`: its layout; its other parts | | |
| `EventQueue`, `TouchInput` | keyboard and lock synchronization; touch contacts | `Input` | `Input` |
| `Input_proof` | proofs about `Input` | | |
| `Services` | the servers of the daemons, their ports and their settings | `Daemons` | `Daemons` |
| `TokenPeek`, `RemoteClients` | routing tokens; remote clients of the system daemon | `Daemons` | `Daemons` |
| `HandoverDaemon` | the daemon of one graphical session | `Daemons` | `Daemons`, `HandoverInsecureAgain` |
| `Session` | RDP server, sessions, threads, channels | `Daemons` | `Daemons` |
| `VncSession` | VNC server, sessions, prompt, input, clipboard | `Daemons` | `Daemons` |
| `Daemons_proof` | proofs about `Daemons`: servers, tokens, remote clients, the handover daemon | | |
| `ClipboardOffer` | the session's selection at the client | `Clipboard` | `Clipboard` |
| `ClipboardFetch` | the client's clipboard in the session | `Clipboard` | `Clipboard` |
| `ClipDataLocks` | the client's locks on the session's files | `Clipboard` | `Clipboard` |
| `FuseClipboard` | the client's files as a file system | `Clipboard` | `Clipboard` |
| `Clipboard_proof` | proofs about `Clipboard`, all four parts of it | | |
| `DvcStatus` | creation status of channels, display control, telemetry | `Media` | `Media` |
| `AudioPlayback`, `AudioStreams` | the playback channel; the streams that share the sound | `Media` | `Media` |
| `AudioInput` | the microphone | `Media` | `Media` |
| `CameraEnumerator`, `CameraDevice`, `CameraSamples` | cameras that come and go; requests to one; the buffers of a stream | `Media` | `Media` |
| `Autodetection` | pings, bandwidth and the detection at connect time | `Media` | `Media` |

A run takes its constants from its `.cfg`, sequences and functions from a `Small...` definition of the
module; `MCRenderer` has those of `Renderer`, with the symmetry. The composing modules (`Graphics`, `Screens`, `Input`,
`Daemons`, `Clipboard`, `Media`) join parts that share no state: a behaviour is one of the parts, as
the variable `scenario` says from the start, and each property is a conjunction over the parts.
Where parts do meet, each has the other as its environment, in the calls that its module names.
State and actions correspond to the code as follows; every module names the field or function
beside each variable and action.

* **Throttler.** One main loop, so a callback is a step; `dispatch_delayed_connections` walks a hash
  table in any order, one `Visit` per peer, with nothing in between. Time is in ticks and a
  timestamp is its age, which stops growing where the code can no longer tell it apart.
* **GraphicsPipeline.** `gfx` is what `gfx_mutex` protects; each section under it is one step, so
  `reset_graphics_pipeline`, which has two, is two steps with acknowledgements in between. The client
  and both directions of the channel are FIFO queues. Unsigned subtraction is modulo `Word`.
* **FrameEncoding.** A picture is a value per tile; `frames` has the frame in each stage, from the
  one that is queued to the one that is submitted; the callbacks of view creators and encode sessions
  are steps of their own, excluded while `frame_encodings_mutex` is held (`phase = "encode"`). What
  a view creator finds in the pixels (damage, tiles that need chroma values) is any set that the
  shader can yield: damage is what differs from the last picture, need is a part of it
  (`shaders/grd-avc-dual-view.comp:225-272`). The client is a fold over the frames it was sent.
* **Renderer.** The graphics thread dispatches one source at a time (`phase`); `render_surfaces`
  is four steps since callbacks change what it reads. `closed` is the set of gates that are shut.
* **SurfaceRenderer.** Each section under `render_mutex` is a step. The removal of a buffer is three
  (wait for the lock, mark, wait again and drop), as in `on_stream_remove_buffer`.
* **LayoutManager.** A step of the automaton per dispatch of its source; D-Bus answers and PipeWire's
  events between them.
* **CursorRenderer, EglThread, VncStream.** What one thread does under a mutex is a step, and setting
  a source ready after the mutex was released another. A task of the EGL thread has an outcome out
  of those of its kind.
* **Session.** A handler of the main thread is a step unless it stops a session; then `main`
  records how far the stop is. GLib runs idle sources of equal priority in order (`idles`); sources of
  other priorities may run at any time, which allows more orders than GLib does.
* **VncSession.** All of it is on the main thread, so that a step is what libvncserver does with one
  message of the client, a D-Bus answer, or an idle source.
* **Services, HandoverDaemon, RemoteClients, TokenPeek.** A D-Bus call is a call now and a reply
  later, with everything else in between; a signal that is under way is an element of a set
  (`pending`, `async`). GDM, logind and the display server do what their interfaces allow, in any
  order. The thread that peeks at a token is two steps that wait for bytes and one that returns.
* **EventQueue, TouchInput.** A PDU is handled in one step, each event is pushed in one, and the
  source is made ready in another, since `queue_rdp_event` releases the mutex first. libei and the
  display server are two FIFO queues. The two share the libei context and the end of the session only.
* **ClipboardOffer, ClipboardFetch, ClipDataLocks, FuseClipboard.** The channel thread and the main
  thread meet in idle sources and in a condition (`completed`), which the waiting side sees in a step
  of its own. A content is the number of the selection that it is of. `FuseClipboard` splits
  `clear_selection` where it releases `filesystem_mutex`.
* **AudioInput, AudioPlayback, AudioStreams, Camera*.** One variable per thread says where it is
  between two mutexes (`dataThread`, `mainThread`, ...); a sample is a number, so that order and loss
  are visible.
* **DvcStatus, Autodetection.** Ids and sequence numbers are bounded; the numbers of pings wrap
  (`MaxSeq`), as the 16 bits of the code do.

## 3. Properties and runs

Properties of one subject are one conjunction with named parts, each stated and explained in the
module of its part:

| property | its parts |
|---|---|
| `BooksBalance` (Throttler) | `CountersMatchConnections`, `QueuesHoldDelayed` |
| `ChannelSound` (Graphics) | `TablesAgree` (`SerialTableExact`, `TrackedFramesAckable`, `ResetFindsTablesEmpty`) and `SuspensionSound` (`ThrottledHasPending`, `HistoryOnlyWhileSuspended`, `HistoryMatchesAckLog`) |
| `EncodingSound` (Graphics) | `PoolsSuffice`, `FramesComplete`, `ClientFollows` |
| `GraphicsSettle` | `SuspensionEnded`, `EncodingSettled` |
| `RenderingSound` (RendererOneSurface) | `ResourcesExact` (`RefsMatchFrames`, `CreatorsServeFrames`), `GatesHold` (`StoppedIsQuiet`, `InhibitedIsQuiet`, `InhibitionDoneExpected`) |
| `RequestsAnswered` | `StopTerminates`, `InhibitionGranted`, `ResetHappens`, `PendingRendered` |
| `BuffersSound` (SurfaceRenderer) | `BuffersHeld` (`NoUseAfterRemoval`, `LockedByUses`, `EncoderReadsHeld`), `ReturnedOnce` (`QueuedOnce`, `PendingIsNew`) |
| `LayoutSound` (Screens) | `EventsExpected`, `RenderedLayoutIsCurrent` |
| `PicturesSound` (Screens) | `PixelsHeld` (`TasksOnce`, `SlotsLive`, `DownloadsHold`), `ClientsAgree` (`CacheAgrees`, `ShownIsRecent`, `ScreenFollowsStream`) |
| `ScreensSettle` | `LayoutsSettle` (`LayoutFinishes`, `ConfigPickedUp`), `CursorShown`, `TasksEnd`, `StreamSettled` |
| `InputSound` (Input) | `NoStuckInput` (keys, contacts), `NothingForgotten`, `LockAgrees` |
| `ConnectionsSound` (Daemons) | `ObjectsAgree`, `SignalsLive`, `SessionPointersLive`, `StoppedServersAreQuiet`, `HandlersOnce`, `SessionLives` |
| `ClientsArrive` (Daemons) | `RoutedByPacket`, `RedirectionsTimed`, `WatchesTheSession`, `OneServerPerSession`, `OtherServerAsserts` |
| `SessionsSound` (Daemons) | VNC: `ClosesExact`, `AnswersFindClient`, `InputBalances`, `TextBehindTypes`; RDP: `StartedWhenBoth`, `StopFindsPeer`, `FreedIsQuiet`, `OneSession`, `SourceIdsExact`, `ScannedChannelsExist` |
| `DaemonsSettle` | `Served`, `ObjectInUse`, `HandoversEnd`, `PeeksEnd`, `SessionsFreed`, `EverythingEnds` |
| `TransfersSound` (Clipboard) | `AnsweredOnce` (`RequestInHand`, `OneResponse`, `OneCurrentRequest`, `WrittenOnce`, `RepliedOnce`), `ContentMatches` (`ContentBeforeList`, `NothingOlder`, `LockKeepsFiles`) |
| `NothingDangles` (Clipboard) | `LockTablesAgree`, `FreedOnce`, `SearchReadsLive`, `RequestsHaveFiles`, `LocksMatch` |
| `StreamsSound` (Media) | `CamerasSound` (`StopAssertion`, `SamplesOfRunning`, `RequestsInTurn`, `BuffersOwned`, `QueuesAgree`), `SoundInOrder` (`ClosedIsQuiet`, `SamplesInOrder`, `CodecAgreed`, `ActiveStreamsAgree`, `LockOfStream`, `PacketsOfOneStream`, `StartedOnce`, `TrainedFirst`) |
| `AnswersFindAsker` (Media) | `StatusReachesOwner`, `DetectionSound`, `PingsAgree` |
| `ClipboardSettles`, `MediaSettle` | the last predicates of their parts |

Each passing run names its bounds in its `.cfg`:

| run | bounds, and why they are enough | shows |
|---|---|---|
| `Throttler` | two peers with three and two connections, limits 2 and 2, one waiting, two attempts per second of two ticks: both limits and the rate bind, and a peer can be disposed of and return | counters, queues, rate and wake-up; refinement of `Admission`; nobody waits forever |
| `Graphics` | channel: two serials, so a deleted one is taken again; four frames, more than the history of two; one reset, which costs a frame of the bound; `Word` 16. Encoding: three pictures with AVC444, so that an upgrade meets a frame before and one after it, four without, so that every stage is taken; one tile that changes or not, since tiles do not depend on each other | the tables agree through suspension and reset, throttled surfaces resume; pools suffice, incomplete frames go nowhere, the client follows and gets the full quality in the end |
| `RendererOneSurface` | one surface, two frames (one per half of the pipeline), two CapsAdvertise PDUs | resources released once, quiet when others rely on it, every request answered |
| `RendererTwoSurfaces` | two surfaces with two frames each, one advert; symmetric, hence safety only | the last frame opens a gate, not the first |
| `SurfaceRenderer` | three buffers (pending, shown, in a frame), two pools, one reset; symmetric, hence safety only | no use after removal, each buffer queued once, no lost trigger |
| `Screens` | layout: three configs of one or two monitors, or a physical monitor with three closes, three stream ids so that they wrap. Pointer: three shapes for a cache of two, four updates. EGL: a slot, three kinds of tasks, four tasks. VNC: two buffers, two formats; the data thread finds one buffer or two at a time | surfaces change only while rendering is quiet; what the client shows is what was sent; everything asked for is shown in the end |
| `Input` | four scripts of the client, two keyboards; one contact, three touch PDUs, two touch devices | nothing stuck, nothing forgotten, locks as asked |
| `Daemons` | two servers in each other's way with two attempts at a port and four events; two remote ids, sessions and displays, so that a login replaces a client, one id of Windows' own client, and two connections that wait to be taken (`MaxReady`), so that one takes the place of another; two clients of a handover daemon; every kind of first packet; two clients of each protocol, of which one replaces the other | clients arrive where they should, sessions end once and leave nothing behind, nobody waits forever |
| `Clipboard` | two selections and two requests each way, two ids with two locks, two mounted selections with an operation: an answer may be for the selection before | one answer per request, of the right selection; nothing dangles; everything is answered |
| `Media` | two streams of a camera and five changes, three buffers and three starts, two cameras; two sinks and packets of two samples; two channels; sequence numbers that wrap after four | samples in order and from running streams, buffers with one owner, answers for the one who asked; everything ends |

Remarks on these bounds:

* `Session` was also run alone with both clients answered (3.8 million states, passes), and
  `FrameEncoding` alone with two tiles: two pictures with AVC420, three with AVC444 (3.6 million
  states) and three with the progressive codec; all pass. A second stop of a session never happens:
  it has no action.
* `DestroyedWhenIdle` holds with two adverts; `RendererStaleReset` shows what a third one does.
* `LayoutFinishes` and `ConfigPickedUp` hold while no stream closed (`closes > 0` ends the
  obligation); section 4 says what happens otherwise.
* `NoLostTrigger` excepts a pool that is about to be removed: `maybe_upgrade_frame` invalidates
  without a trigger there. An upgrade needs an empty queue of dropped references and DMA-BUF buffers
  (`UpgradeFrame`). The passing run sets neither `Physical` nor `KindChanges`. `TypeOK`,
  `NoUseAfterRemoval`, `LockedByUses` and `NoLostTrigger` hold with either set (section 5).
  `QueuedOnce`, `PendingIsNew` and `ContextIdleAtReset` fail for a physical monitor, whose resize
  resets the surface while frames are on their way; `EncoderReadsHeld` fails when a pool of another
  type comes, which changes what is done with frames that have their views already.
* `SurfaceRenderer` has no liveness of its own. That the removal of a buffer ends follows from
  `LockedByUses` (the lock is held for frames and dropped references only) and from
  `RequestsAnswered` of `Renderer` (frames end).
* `FrameEncoding` has unlimited frame slots and one surface: the limits are in `GraphicsPipeline` and
  `Renderer`. The choice to downgrade a dual frame is made when its view is created, the later of the
  two places where the code makes it.
* `LockAgrees` excuses what the code cannot know: a pong that came before the locks were reported, a
  ping that was sent twice (a synchronization handled between READY and STARTED) or after the lock
  key was pressed, a missing keyboard, a lock key that is held. `sync.due` and `sync.excused` are
  ghosts. In `EventQueue`, `main = "crashed"` is what the code does when the display server closes
  the session while a Synchronize event is queued: the ping has no context. `NoStuckKey` says
  nothing of that state.
* `running = FALSE` of `RemoteClients`: the system daemon aborted (section 4) and the behaviour ends
  there; systemd starts it anew (`data/gnome-remote-desktop-system.service.in:9`), with `Init`.
  In `Services` the daemon that aborts starts again in the same behaviour.
* Constants named `Calm...`, `Careful` and `StopsLate` exclude behaviours in which the code fails an
  assertion or uses what is gone; section 4 lists them. They are TRUE in the passing runs.
* Deadlock checking is off where the client, the bounds or the end of a session really stop the
  system.

### Fairness

Nobody outside of the program is assumed to do anything, with these exceptions: the client of
`Graphics` decodes what it receives and sends its answers; the display server answers the pings of
`Input`, and streams that were asked for come and get a size unless they close (`Screens`); the
camera of `Media` answers requests for streams; D-Bus calls are answered (`HandoverDaemon`). Inside,
every thread is assumed to go on when it can and GLib to dispatch what is ready:

* *Throttler*: time passes and a source that is due is dispatched.
* *Graphics*: FreeRDP handles what it is sent; of the threads of the encoding at least one takes a
  step while one can (one weak fairness for all of them: no thread can keep the others waiting
  forever, since each does a bounded amount of work per picture).
* *Renderer, Screens (layout), Input, Autodetection*: a source that is ready again and again is
  dispatched (strong: sources are not enabled inside of another dispatch; GLib scans all of them in
  each iteration); devices finish. That the renderer grants an inhibition, which `LayoutManager`
  assumes, is `InhibitionGranted` of `Renderer`.
* *Daemons*: idle sources, timers and threads that do not wait go on, one weak fairness for each
  scenario or daemon; neither sessions nor GDM have to end, answer or come back.
* *Clipboard*: the same, and strong fairness where a thread must get a mutex that others take again
  and again (`FuseClipboard`).
* *Media*: the same; strong for the two threads of `AudioStreams` that compete with the data thread
  for its mutexes.

## 4. Disagreements found

Two have runs of their own:

| run | what |
|---|---|
| `RendererStaleReset` | a CapsAdvertise between the wake-up of the reset source and its fetch leaves a wake-up behind that starts a later reset while contexts are in use: an assertion of `clear_render_contexts` fails |
| `HandoverInsecureAgain` | `show_insecure_connection_dialog` asserts that there is no dialog, and nothing resets the pointer after the answer: a second insecure client fails the assertion |

These can be reproduced by changing constants of a configuration, each with the one property named:

| property | configuration | what |
|---|---|---|
| `RefusedOnlyForRecentAttempts` of `Throttler` | `Throttler.cfg` with `MaxPending = 0`, `Spec` | timestamps are pruned only when a connection of the same peer arrives, so the dispatcher refuses a connection although none was made in the last second (`grd-throttler.c:272`) |
| `ClosedStreamReplaced` of `Screens` | `Screens.cfg` with `Scenarios = {"layout"}`, `Modes = {FALSE}`, `MaxConfigs = 1`, `MaxCloses = 1` | a physical monitor's stream that closes before its size is known leaves the automaton waiting; the config that is to restore it is never picked up (`grd-rdp-layout-manager.c:231`) |
| `ContextIdleAtReset` of `SurfaceRenderer` | `SurfaceRenderer.cfg` with `Physical = TRUE` | a physical monitor that resizes clears the render contexts without inhibiting rendering first: the assertion of `clear_render_contexts` fails |
| `ResponseIsForRequest` of `Clipboard` | `Clipboard.cfg`, as an invariant of `Spec` | a response that comes after its request timed out is taken for the answer to the next request, of another type |
| `EmitsWhileRunning` of `Media` | `Media.cfg` with `StopsLate = FALSE`, `MaxRuns`, `MaxStarts`, `MaxNews`, `MaxPackets`, `MaxOpens`, `MaxChunks`, `MaxSinks` = 1, `Spec` | a session that is stopped right before the first ping is emitted fails the assertion on `protocol_stopped` |

What the other restrictions exclude, as found in the code:

* `Calm` of `CameraDevice`: a stream that stops while a request to start streams is under way makes
  the device request samples after it sent the request to stop (the assertion on
  `pending_client_request_type`).
* `CalmFails` of `CameraEnumerator`: `on_device_error` takes `device_queue_mutex` with locks of the
  device held, in a thread of it that its disposal waits for, and `manage_devices` disposes of devices
  with `device_queue_mutex` held (`grd-rdp-dvc-camera-enumerator.c:411,458-463`): a deadlock. The invariants hold
  without `CalmFails`, too; `DevicesRemoved` does not.
* `DestroyDeadlock` of `AudioStreams`, which `ThreadsReturn` excepts: the main thread destroys a stream
  with `streams_mutex` held and waits for the data thread, which may wait for that mutex.
* `Calm` of `HandoverDaemon`: names and objects that change while a call about them is under way.
* `Careful` of `ClipDataLocks`: a lock of the client that takes over the id of one selection for
  another that is locked, too, frees an entry that the other table still has
  (`grd-clipboard-rdp.c:2523`).
* `CalmSizes` of `VncStream`: a size that returns to that of the screen is not applied while another
  one is pending, and that one is applied later (`grd-session-vnc.c:151`).
* `VncSession`: `move_cursor` after the client is gone, and its `||` where both coordinates are meant
  (`grd-session-vnc.c:200`); `handle_socket_data` uses `rfb_client` after libvncserver freed it in
  `rfbProcessEvents`; the callback of a prompt that is cancelled after the server stopped; a stream
  that cannot be created leaves the client on hold; view-only that is switched on while a key is held
  leaves it pressed; scroll buttons are notified at press and release.

What the models contain and the properties except, by name, since the code does it:

* *An entry freed twice* (`FreedOnce`, `job.woken`). Disposal wakes the channel thread that waits for a
  lock; it leaves early and `g_autofree` frees the entry (`grd-clipboard-rdp.c:1388,1428`), which the
  main thread frees, too, as the data of its source (`:2524`) or in its table (`:2552`). Every other
  entry is freed at most once, in every state.
* *A proxy that comes too late* (`OtherServerAsserts`, `late`). Stopping a server does not cancel the
  proxy for the other server that is being created. Acquired after the stop, it stays connected, and
  the next session there aborts this daemon, which asserts that it has a server
  (`grd-daemon.c:317,343`); one that is acquired over another leaks it with its handler.
* *A client that comes back uncalled.* `on_incoming_redirected_connection`
  (`grd-daemon-system.c:683`) takes any token of the table. Without a destination it dereferences NULL
  (`:727`); a second connection before the take overwrites the first and leaks it (`:722`), and the
  second `TakeClient` finds no socket; after the take (`:193`) there is no timer, so nobody gives up
  that client (`RedirectionsTimed` speaks of clients that wait, `DaemonsSettle` of timers); and if a
  login made its session the source, `on_authorize_handover_method` fails its assertion (`:329`).
  The first and the last stop the daemon (`running`).
* *A weak reference that dangles.* `grd_remote_client_free` (`:570`) does not take back the weak
  reference of the session (`:651`), so that a session that ends later writes NULL into freed memory
  (`:611`). `weakRefs` has where it points; a record allocated there may be written to, by
  which it loses its session, but never keeps a dead one (`SessionPointersLive`).
* *A server without proxies* (`StoppedServersAreQuiet`, "system"). `on_gdm_name_vanished` drops the
  proxies (`:1406`) before they can tell that their owner is gone (`:944`), and nobody
  disables the services: the system daemon goes on accepting clients, for whom it makes no display.
* *A queue key that is freed* (`misled`). The queues of cameras have as key a string of the value; an
  insertion over an entry frees it and keeps the key (`grd-rdp-dvc-camera-enumerator.c:252,296,415`,
  tables at `:491`), and a later look reads freed memory. If it misses, a camera is to be added and
  removed at once, and stays although the client removed it.

Not visible in the models: `attempt_to_bind_port` writes to the server that the handler of
"binding-failed" freed (`grd-rdp-server.c:371-373`).

Further observations: `register_pw_buffer` asserts `!rdp_buffer_info` while
`pending_render_context_reset` is set, which the second buffer of a pool of another type contradicts
(`grd-rdp-surface-renderer.c:290`); a buffer that is marked for removal while its frame is queued
(`:466`) and the key that `on_stream_remove_buffer` removes (`grd-rdp-pipewire-stream.c:673`);
`cap_sets_would_disable_avc` indexes with the outer index (`grd-rdp-dvc-graphics-pipeline.c:1689`);
`tear_down_channel` clears its source without a lock (`grd-rdp-dvc.c:162`); the session that closes
with a Synchronize event in the queue (`grd-session.c:248`); and the numbers of H.264 frames run
modulo 257 (`frame_num %= max_frame_num + 1`, `grd-encode-session-vaapi.c:1278`) while the slice
header has 8 bits for them (`grd-nal-writer.c:767`), so that frames 256 and 0 look alike.

## 5. Proofs

`Throttler_proof` proves for any connections, peers and limits
(`ThrottlerAssumption`: `Conn` is finite, limits are positive, `PeerOf` is a function):

| theorem | says |
|---|---|
| `TypeCorrect` | `Spec => []TypeOK` |
| `BooksCorrect` | `Spec => []BooksBalance` |
| `RateCorrect` | `Spec => []RateRespected` |
| `NoLostWakeup` | `Spec => []WakeupPunctual` |
| `ImplementsAdmission` | `Spec => AdmissionSpec`: initial states map to initial states, steps to steps or stutters |

The inductive invariant `Inv` is `TypeOK /\ WalkOver /\ AgesExact /\ CountersMatchConnections /\
QueuesHoldDelayed`. No part is inductive alone: a counter stays natural because it counts live
connections, and goes on counting them because a served connection was in the queue of the right
peer. `AgesExact` is the strengthening that the rate needs: the array that the code keeps, once
pruned, is the ghost history of admissions, although only one of the two admitting functions prunes
it; its lemmas say that in a sorted array pruning drops a prefix. `NoLostWakeup` adds
`WakeupPunctual` to `Inv`; the refinement uses `Inv` for the equality of counters and cardinalities.

`Renderer_proof` proves for any surfaces, frames, slots and any number of CapsAdvertise PDUs
(`RendererAssumption`: both sets are finite, `SurfaceOf` is a function, bounds are positive)

| theorem | says |
|---|---|
| `TypeCorrect` | `Spec => []TypeOK`: no count of a render context gets below zero or above the number of frames |
| `GatesCorrect` | `Spec => []GatesHold`: who stopped or inhibited rendering meets no frame |
| `CreatorsCorrect` | `Spec => []CreatorsServeFrames`: a view creator or an encode session serves one frame at a time |

`GatesHold` speaks of frames, but the code decides by counts: a waiter is told that rendering came to
rest when the last entry of `acquired_render_contexts` is gone. The inductive invariant is therefore
`TypeOK /\ RefsCount /\ GateInv`: a count is the number of frames that are not freed (`RefsCount`),
a gate is shut as long as somebody waits behind it or works there, and no count is left once a waiter
was told (`GateInv`). The one step at risk is `UnrefObjects`: since it finds a finalized frame, nobody
can have been told before. `CreatorsCorrect` has an invariant of its own (`ServeInv`), the property
frame by frame. The other part of `ResourcesExact`, that a context somebody refers to is in the table,
is not provable for any number of adverts: `RendererStaleReset` leads there, see section 4.

`SurfaceRenderer_proof` proves for any buffers, slots, pools and resets (`SurfaceRendererAssumption`)

| theorem | says |
|---|---|
| `TypeCorrect` | `Spec => []TypeOK`: above all, no count of a lock is negative |
| `TriggerKept` | `Spec => []NoLostTrigger` |
| `HeldWhileUsed` | `Spec => [](NoUseAfterRemoval /\ LockedByUses)`, for physical monitors and pools that change their type, too |
| `GivenBackOnce` | `~Physical`: `Spec => []ReturnedOnce` |
| `EncoderSafe` | `~KindChanges`: `Spec => []EncoderReadsHeld` |
| `BuffersCorrect` | with both: `Spec => []BuffersSound` |
| `ResetWhenIdle` | with both: `Spec => ContextIdleAtReset` |

The inductive invariant of every stream is `Inv`: a frame refers to buffers while it has references
(`FramesFit`), the count of a lock is the number of references in the four stages and in the queue of
dropped ones (`LocksExact`), and the pool is in step with the removal of a buffer (`PoolInv`). Sums
over the queue are cardinalities of sets of positions. What holds beyond it has invariants of its own:
`Loan` (a buffer is on loan once, for the place that gives it back) with `ResetIdle` (a virtual
monitor is reset only while rendering is inhibited, hence without frames), and `KindsAgree` (the type
of buffers is that of the context). The two hypotheses are necessary, as section 3 says of the
constants; `ResetWhenIdle` is proved under both, and TLC finds no counterexample without the second.

`Screens_proof` proves of the layout, for any set of monitor configs and any number of stream ids
(`ScreensAssumption`: there is an id more than a config has monitors; a physical monitor has one)

| theorem | says |
|---|---|
| `LayoutTypeCorrect` | `Spec => []L!TypeOK` |
| `LayoutCorrect` | `Spec => []LayoutSound` |
| `LayoutChangesWhenQuiet` | `Spec => SurfacesChangeWhenQuiet` |

`LayoutInv` adds to the types what each state of the automaton has achieved (`Working`): which gate it
holds (`Phases`), that a size is known when none is awaited (`SizeKnown`), that as many surfaces have
a stream as the current config has monitors (`Fits`), and that a physical monitor has one config
(`Alone`). It holds because streams are asked for and sizes awaited only while rendering is inhibited
(`AskedWhenQuiet`). `create_or_update_streams` takes the free ids in their order from the next one on;
that enough of them are taken is a fact about ranks in a finite set (`RankBijection`, `LowestRanks`),
which comes first in the module.

`Screens_proof` proves of the other parts, for any shapes and cache size, slots, tasks and buffers

| theorem | says |
|---|---|
| `TypeCorrect` | `Spec => []TypeOK`, of all four parts of `Screens` |
| `PixelsCorrect` | `Spec => []PixelsHeld`: tasks of the EGL thread end once and in order, slots are live, downloads hold their buffers |
| `PointersAgree` | `Spec => [](C!CacheAgrees /\ C!ShownIsRecent)` |
| `PicturesCorrect` | `CalmSizes`: `Spec => []PicturesSound`, hence `ScreenFollowsStream`, too |

Each part has an invariant of its own, and a step of one leaves the others' state alone
(`PicturesInvariant`). `CursorInv`: the slots that were used are the first ones, each of them once in
the order of use. `EglInv`: a task that did not end runs, is in a slot or has an entry of its own
(`EglPlaced`); such entries are in the order of their tasks (`EglFifo`), the entry of a slot comes
before those of later tasks (`EglContent`), and the sync task of a slot is its last (`EglSync`). From
these follows that a task which starts finds what it has to wait for ended (`Ordered`), and that
nothing is left of a slot when it is released: the argument of `grd_egl_thread_sync`. `VncInv`: a
buffer has one place, and the thread unlocks it before it takes the next one; the lemma `VncDrained`
follows the last frame and the last pointer through what is dequeued. A buffer that is both is queued
once. `CalmSizes` is necessary, see section 4.

`Graphics_proof` proves of the channel, for any numbers of serials, frames, round trip times and protocol resets and any
size of the history (`GraphicsPipelineAssumption`, `RefreshRateAssumption`)

| theorem | says |
|---|---|
| `ChannelInvariant` | the inductive invariant below |
| `ChannelTypeCorrect` | the state of the channel stays well-formed; the history is never longer than `MAX_TRACKED_ENC_FRAMES` |
| `ChannelCorrect` | `GraphicsSpec => []ChannelSound` |

What `gfx_mutex` protects is one record, so the lemmas follow the functions of the code that change
it. `ChannelInv` says that the table of serials is exact, that what is tracked, acknowledged or listed
in the history are frames that were sent, the history without a duplicate, and what each controller
waits for: a surface without slots or with few of them has more than `DeactivateTh` frames pending
(`Throttled`). While acknowledgements are suspended nothing is tracked (`Quiet`), and the log of each surface is,
but for entries that no longer count, what the history says of it, in its order (`HistorySound`). This is what
`reduce_tracked_frame_infos` and the end of the suspension need to take the right entries back:
the lemmas `EndMatches`, `PushMatches` and `DropMatches` relate the ends of the two sequences.
`HistoryMatchesAckLog` counts the later entries of a surface, which says the same as a filtered sequence and can be
reasoned about. The handler of an acknowledgement calls several functions in a row, and between them
only a part of the invariant holds (`Loose`): the history is gone already, but acknowledgements may
still be suspended while somebody waits. The last steps of the handler restore the rest.

It proves of the encoding, for any tiles, number of pictures and set of codecs (`GraphicsAssumption`)

| theorem | says |
|---|---|
| `EncodingInvariant` | the inductive invariant below |
| `EncodingCorrect` | `GraphicsSpec => []EncodingSound` |
| `GraphicsTypeCorrect` | `GraphicsSpec => []GraphicsTypeOK`, with `ChannelTypeCorrect` |

That three local buffers, four views and two bitstreams of a frame suffice depends on which stages
can have a frame at the same time, and that on where `render_surfaces` is: `EncInv` says it in
`Flow`. `Kinds` says what the frame of a stage may be (nothing that is not viewed has bitstreams, an
invalid view means that a device failed), `Submissions` that the views of the frame that is being
encoded wait, are pending or have their bitstream, none twice and, while no device fails, none left
out; `Pools` and `Locals` count what is held, frame by frame. For the client, `Bases` adds to
`ClientFollows` the frames that are not viewed yet, and that a frame without damage is one whose
picture the client shows already: else it could not be dropped. `UpgradesLead` says that nothing
overtakes an upgrade, whose picture the client shows. An upgrade may be scheduled only when all views are
free (`Upgrades`), hence when no frame is anywhere (`NoViewsNoFrames`); this is why nothing that is on
its way changes what is owed. Sums over the six stages are written out (`Total`), and the lemmas
`Freed...`, `Moved...` and `PutFrame` say once what the sums become when a frame is freed, moves or
changes. One lemma per action then shows that it keeps `EncInv`.

`Input_proof` proves for any keys, scripts, contacts and devices (`InputAssumption`: the lock key and
the Ctrl key are keys of the client, Pause is not; scripts are sequences of PDUs)

| theorem | says |
|---|---|
| `InputInvariant` | the inductive invariant below, of the keyboard and of the touches |
| `InputCorrect` | `Spec => []InputSound` |
| `TypeCorrect` | `Spec => []TypeOK` |

A key is held if the last of the messages about it that are under way says so, or else if the display
server has it down (`Outcome`). `NoStuckKey` applies this twice, to what was sent and to what is still in
the queue, and is inductive once it is known that keys are sent to the keyboard that the display server
has: `Keyboards` says that while one is down or comes, the session emulates on that very keyboard, and
that a newer one is told of first. `Flow` says what the socket thread still has when the session stops,
`Pings` that a ping or pong under way is of the pending synchronization, once, or of a cancelled one;
`NothingForgotten` needs both. `LockAgrees` speaks of the state at rest, and everything before it is an
induction over what is under way, for which the invariant `Lock` has witnesses instead of recursion: a
set `L` of positions in what is sent, after which the lock is on, and sets `On` and `Off` of positions in
the news, after which the session was told so. An answer to the pending ping finds in `On` or `Off` what
it compares; the correction is owed exactly if the lock at that position of `L` and the lock at the end
of `L` are not related as what is due and what is expected (`LockFollows`). That a press toggles is due
to `EventsAlternate` and `MessagesAlternate`: the lock key is up when it is pressed, in what comes and in
what was sent, unless a press meets a keyboard that is gone (`Doomed`), which excuses. The touches have
`NoStuckTouch`, `ObjectInRange` and `NoStrandedTouch` with the order in which devices come
(`TouchDevices`).

`Daemons_proof` proves for any connections, packets, remote ids, sessions, displays, clients and bounds
on what happens (`DaemonsAssumption`)

| theorem | says |
|---|---|
| `DaemonsInvariant`, `HandoverInvariant` | the inductive invariants below |
| `ClientsRouted` | `Spec => [](ObjectsAgree /\ SignalsLive /\ SessionPointersLive /\ RedirectionsTimed /\ StoppedServersAreQuiet /\ OneServerPerSession /\ OtherServerAsserts /\ RoutedByPacket)`, whatever the bus does, with the exceptions of section 4 |
| `ConnectionsCorrect` | `Calm`: `Spec => []ConnectionsSound` |
| `ArrivalsCorrect` | `Calm`: `Spec => []ClientsArrive` |

Each of the four parts has an invariant of its own. `RemoteInv`: a step that gives a session to a client
(`RegisteredKeeps`) forgets the source that the client had, so it must have none; it has none because a
client for whom GDM creates a display has no destination (`CreatingHasNone`), nor has one whom a display
calls when it gets a session, while one whom a display calls when it is given to somebody else has one
(`SignalsSound`): that is what makes stealing the object of that display sound. `SessionPointersLive`
is inductive by itself: a weak reference is only pointed elsewhere when the record it had is freed, and a
record that takes the place gets at most more references, each of which only takes the pointer away.
`ServiceInv`: of two
servers with a session one is about to hear of the other's (`SomebodyHears`); this is stronger than
`OneServerPerSession` in that the proxy is there that the signal comes from. `HandoverInv`: the calls for
the object of the session follow one another, at most one is under way, and none once the proxy is there
(`CallsInTurn`), so the handlers are connected once. This holds only under `Calm`, and the run has it too:
a name that leaves the bus during a call starts a second chain of calls (section 4). `TokenInv`: what a
thread that peeks returns is an error or what the packet says.

`Clipboard_proof` proves for any selections, lists, requests, transfers, ids, locks, files and operations
(`ClipboardAssumption`: what the values for "none" are is no mime type, a list has both mime types for
files or neither, the names of text are two)

| theorem | says |
|---|---|
| `AnswersInvariant`, `LocksInvariant` | the inductive invariants below; that of the locks under `Careful` |
| `RequestsAnswered` | `Spec => [](AnsweredOnce /\ ContentBeforeList /\ NothingOlder /\ RequestsHaveFiles /\ LocksMatch)`, whatever the client does |
| `TransfersCorrect` | `Careful`: `Spec => []TransfersSound` |
| `NothingDanglesHolds` | `Careful`: `Spec => []NothingDangles`, with the entry of section 4 that is freed twice |
| `TypesCorrect` | `Careful`: `Spec => []TypeOK` |

The parts share no state, so there is an invariant for each. `FetchInv`: that no content is older than
the selection it is pasted for is a fact about order. Lists and responses pass from the client to the
thread of the channel, to the list that the thread holds, and to the sources of the main thread;
`InOrder` says of each of these places that nothing in it is older than what is further ahead. So
`WrittenFresh` needs `CacheFresh`: content in the cache is not older than the selection, as far as its
list names it, nor than any transfer that is still to be served from it; it is a new list that makes
the cache forget, and a response that was handed over before the list is removed with its source
(`Sources`: there is one of each kind at most, and one for a response only with a current request).
`AtOnePlace` makes "written once" inductive: a transfer is under way, or waits for one mime type that
is requested or queued, or was written. `Moves` is what every function that writes does to the serials,
so that one lemma (`Serves`, `SendsNext`) per function suffices for all handlers. `OfferInv`: the same
order in the other direction (`SelectionsInOrder`, `ReadIsFor`), and a count of the places that a
request of the client can be at (`RequestsCounted`). `LocksInv`: between the idle source and the wait
of the thread the entry that is being locked or unlocked is in one table and not in the other
(`IdsMatch` and `SerialsMatch` except for what is `Handled`; `NewEntry`, `OldEntry`); and each entry
that is not of the current selection owns a WinPR clipboard of its own (`EntryOfSerial`,
`OneSystemEach`), so that the one that is destroyed with it is nobody else's (`SystemsLive`). It holds
only if no lock takes over an id from one selection for another that is locked (section 4); `Careful`
says so. `FilesInv`: what the main thread collects before it releases `filesystem_mutex` is still right
when it goes on: an entry is removed only when its files are gone, or right after they are cleared
(`RemovedCleared`), and files are put into an entry that nobody removes first (`SetUsed`).

Only model-checked:

* liveness, which is outside of the prover's reach (`DelayedServed`, `GraphicsSettle`,
  `RequestsAnswered`, `ScreensSettle`, `InputSettles`, `DaemonsSettle`, `ClipboardSettles`,
  `MediaSettle`);
* `RenderingSound` as a whole and `DestroyedWhenIdle` of `Renderer`, which more adverts falsify;
* `SessionsSound` and `TypeOK` of `Daemons` (its sessions are kept in sequences that are filtered);
* every property of `Media`. `AudioInput` and `AudioStreams` have recursive operators, with which no
  theorem can be stated about `Media`.

## 6. Mutants

Every property of a passing run has a mutant beside the definition it changes (`X_Something` before
`X`): a release that is left out, a guard dropped, a flag that is not reset, a wake-up lost. TLC finds
the property violated when the mutant replaces the definition.

## 7. Plan

Done: every part of section 1 that has control of its own. Next:

1. *Proofs.* The sessions of `Daemons`, and the parts of `Media` without recursion.
2. *Composition.* LayoutManager and Renderer meet in the gate: an abstract `Gate` that both refine.
   `GraphicsPipeline` and `Renderer` meet in the reset.
3. *Rest.* The buffer pool, monitor configs as operators with a reference definition, and the
   quality control of H.264.

## 8. What is not modelled, and why

* Vulkan, VA-API, NVIDIA and EGL wrappers, the writers of H.264 and RemoteFX bits, damage detection
  beyond what it yields, resampling and audio codecs: computations on pixels, samples and bits, and
  calls of drivers.
* Settings, credentials, TPM, `grdctl`: sequential reads and writes of files, keyrings and properties.
* Authentication and the capabilities of a session: conversions of PDUs, decided by FreeRDP.
* Registration of the daemons on the bus and their shutdown; which process may call which handover
  object, a lookup in logind.
* Pointer events: they pass the event queue and leave no state. Choosing a keycode for a keysym.
* The table of mime types; volumes and the control of latency in audio playback; media types of
  cameras; the averages of autodetection.
* Monitor configs (a function of what the client sends) and the buffer pool (a pool that grows and
  shrinks on a timer): planned.
* The NVIDIA path without the graphics pipeline, and failures of `on_stream_add_buffer`.
