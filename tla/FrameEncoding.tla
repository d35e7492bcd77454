------------------------------ MODULE FrameEncoding ------------------------------
(***************************************************************************)
(* What the frames of one render context carry: the views that a view      *)
(* creator writes and an encode session encodes                            *)
(* (src/src/grd-rdp-render-context.c, grd-rdp-frame.c, grd-rdp-view-       *)
(* creator*.c, grd-encode-session*.c), on their way through the renderer   *)
(* (grd-rdp-renderer.c) to the client.                                     *)
(*                                                                         *)
(* A frame is encoded as its difference from the picture before it.  With  *)
(* AVC444 a frame has a main view and an auxiliary view for the chroma     *)
(* values that the main view has not; the auxiliary view may be left out,  *)
(* which chroma_state_buffer remembers, and is sent later as an upgrade.   *)
(*                                                                         *)
(* Renderer has the gates, the contexts, several surfaces and the main     *)
(* thread that stops it, and SurfaceRenderer the buffers that the pictures *)
(* come from; here there is one surface, whose frame slots are unlimited,  *)
(* and rendering stops when a device fails.                                *)
(***************************************************************************)
EXTENDS Naturals, Sequences, FiniteSets, FiniteSetsExt

CONSTANTS
  Codecs,      \* of the render context: "avc444", "avc420", "progressive"
  Tile,        \* the 64x64 tiles of the surface
  MaxPictures  \* buffers submitted, with each codec, a bound of the model

VARIABLES
  codec,       \* of the render context
  pictures,    \* buffers submitted so far
  wanted,      \* the picture of pending_buffer
  lastPicture, \* the picture of the frame that was picked up last
  hasLast,     \* last_buffer still has it
  frames,      \* the frame in each stage
  auxPicture,  \* the picture in last_acquired_image_view
  chroma,      \* the tiles set in chroma_state_buffer; none: it is NULL
  canUpgrade,  \* pending_frame_upgrade
  due,         \* trigger_frame_upgrade_source is ready, or frame_upgrade_source will be
  render,      \* surface_render_source is ready
  phase,       \* where the graphics thread is in render_surfaces
  todo,        \* unused_image_views of the frame that is being encoded
  encodes,     \* the views in pending_frames (pending_encodes) of the encode session
  lockTasks,   \* task_queue of the encode session
  bitstream,   \* what lock_bitstream had for the first of them
  views,       \* the number of acquired_image_views
  buffers,     \* the number of acquired_dedicated_buffers (acquired_encode_streams)
  locals,      \* acquired_buffers of the view creator
  lastLocal,   \* last_local_buffer of the view creator
  failed,      \* graphics_subsystem_failed
  stopped,     \* stop_rendering
  broken,      \* a picture that others refer to was encoded and not submitted
  client       \* the picture the client shows, and the tiles without their chroma values

contextVars == <<codec, chroma, auxPicture, lastPicture, hasLast>>
upgradeVars == <<canUpgrade, due>>
encodeVars == <<todo, encodes, lockTasks, bitstream>>
poolVars == <<views, buffers, locals, lastLocal>>
endVars == <<failed, stopped, broken>>
encodingVars == <<pictures, wanted, frames, render, phase, contextVars, upgradeVars,
                  encodeVars, poolVars, endVars, client>>

-----------------------------------------------------------------------------
(* Pictures, frames, and what they hold. *)

Picture == [Tile -> {0, 1}]
NoPicture == <<>>

Stage == {"queued", "creating", "viewed", "encoding", "encoded", "rendered"}

NoFrame == [is |-> FALSE, type |-> "main", picture |-> NoPicture, base |-> NoPicture,
            damage |-> {}, need |-> {}, valid |-> FALSE, bitstreams |-> 0, local |-> 0]

\* get_n_required_image_views
PerFrame == IF codec = "progressive" THEN 1 ELSE 2

\* N_SRC_SURFACES, N_BITSTREAM_BUFFERS and N_ENCODE_STREAMS, N_LOCAL_BUFFERS
NViews == 4 * PerFrame
NBuffers == IF codec = "progressive" THEN 2 ELSE 4
Local == IF codec = "progressive" THEN 1 .. 3 ELSE {}

\* get_n_image_views_to_be_encoded: the views of a frame, in the order of their encoding.
ViewsToEncode(f) == IF f.type = "dual" THEN <<"main", "aux">> ELSE <<f.type>>

\* acquired_image_views: a frame that left its second view out holds it all the same.
ViewsHeld(f) == IF ~f.is THEN 0 ELSE IF f.type = "aux" THEN 1 ELSE PerFrame

\* The views, and the bitstreams, that the frames of some stages hold.
Total(n) ==
  n["queued"] + n["creating"] + n["viewed"] + n["encoding"] + n["encoded"] + n["rendered"]

ViewsIn(stages) == Total([s \in Stage |-> IF s \in stages THEN ViewsHeld(frames[s]) ELSE 0])
BitstreamsIn(stages) == Total([s \in Stage |-> IF s \in stages THEN frames[s].bitstreams ELSE 0])

\* The damage detectors, with and without a last buffer.
Damage(new, old) == IF old = NoPicture THEN Tile ELSE {t \in Tile : new[t] # old[t]}

At(s) == frames[s].is

ViewerFree == ~At("creating") /\ ~At("viewed")
EncoderFree == ~At("encoding") /\ ~At("encoded")
UsedSlots == Cardinality({s \in Stage \ {"queued"} : At(s)})

Init ==
  /\ codec \in Codecs
  /\ pictures = 0 /\ wanted = NoPicture
  /\ lastPicture = NoPicture /\ hasLast = FALSE
  /\ frames = [s \in Stage |-> NoFrame]
  /\ auxPicture = NoPicture /\ chroma = {}
  /\ canUpgrade = FALSE /\ due = FALSE
  /\ render = FALSE /\ phase = "idle" /\ todo = <<>>
  /\ encodes = {} /\ lockTasks = <<>> /\ bitstream = "none"
  /\ views = 0 /\ buffers = 0 /\ locals = {} /\ lastLocal = 0
  /\ failed = FALSE /\ stopped = FALSE /\ broken = FALSE
  /\ client = [shows |-> NoPicture, owed |-> {}]

\* grd_rdp_frame_free, for the frames of these stages: their views are released, which tells
\* whether a frame can be upgraded, and the upgrade is scheduled anew.
Free(stages) ==
  LET F == {s \in stages : At(s)} IN
  /\ views' = views - ViewsIn(F)
  /\ locals' = locals \ {frames[s].local : s \in F}
  /\ canUpgrade' = IF F = {} THEN canUpgrade ELSE chroma # {} /\ views' = 0
  /\ due' = (due \/ F # {})

\* handle_graphics_subsystem_failure
Fail == failed' = TRUE /\ stopped' = TRUE
Freed(stages) == [s \in Stage |-> IF s \in stages THEN NoFrame ELSE frames[s]]
Moved(f, from, to) == [frames EXCEPT ![from] = NoFrame, ![to] = f]

-----------------------------------------------------------------------------
(* The surface renderer. *)

\* submit_buffer.  The tiles of two pictures are the same or not, so that the first picture may
\* be any.
SubmitBuffer(p) ==
  /\ pictures < MaxPictures[codec]
  /\ pictures = 0 => p = [t \in Tile |-> 0]
  /\ pictures' = pictures + 1
  /\ wanted' = p
  /\ UNCHANGED <<frames, render, phase, contextVars, upgradeVars, encodeVars, poolVars, endVars,
                 client>>

\* unregister_pw_buffer: a frame that refers to the last buffer keeps it.
RemoveBuffer ==
  /\ hasLast
  /\ hasLast' = FALSE
  /\ UNCHANGED <<pictures, wanted, frames, render, phase, codec, chroma, auxPicture, lastPicture,
                 upgradeVars, encodeVars, poolVars, endVars, client>>

\* maybe_render_frame, grd_rdp_frame_new and submit_frame: a frame acquires its views before
\* the queued one, which it replaces, releases its own.  The auxiliary view is left out
\* while there are frames on their way (should_avoid_auxiliary_frame), or the client is slow,
\* which is looked at again when the view is created, and in the model only then.
RenderFrame ==
  /\ phase = "idle" /\ ~stopped
  /\ wanted # NoPicture
  /\ frames' = [frames EXCEPT !["queued"] =
        [NoFrame EXCEPT !.is = TRUE, !.picture = wanted,
                        !.type = IF codec = "avc444" /\ UsedSlots = 0 THEN "dual" ELSE "main",
                        !.base = IF hasLast THEN lastPicture ELSE NoPicture]]
  /\ views' = views + PerFrame - ViewsHeld(frames["queued"])
  /\ auxPicture' = NoPicture
  /\ canUpgrade' = FALSE
  /\ due' \in IF At("queued") THEN {TRUE} ELSE {due, FALSE}
  /\ wanted' = NoPicture
  /\ render' = TRUE
  /\ UNCHANGED <<pictures, phase, codec, chroma, lastPicture, hasLast, encodeVars, buffers, locals,
                 lastLocal, endVars, client>>

Upgradable == wanted = NoPicture /\ canUpgrade /\ UsedSlots = 0 /\ ~stopped

UpgradeNothing ==
  /\ phase = "idle"
  /\ due /\ ~Upgradable
  /\ due' = FALSE
  /\ UNCHANGED <<pictures, wanted, frames, render, phase, contextVars, canUpgrade,
                 encodeVars, poolVars, endVars, client>>

\* maybe_upgrade_frame, prepare_frame_upgrade and fetch_progressive_render_state: the view that
\* was acquired last is the auxiliary view of the last picture, and need not be created.
UpgradeFrame ==
  /\ phase = "idle"
  /\ due /\ Upgradable
  /\ frames' = [frames EXCEPT !["viewed"] =
        [NoFrame EXCEPT !.is = TRUE, !.type = "aux", !.picture = auxPicture, !.damage = chroma,
                        !.valid = TRUE]]
  /\ chroma' = {}
  /\ views' = views + 1
  /\ due' = FALSE /\ canUpgrade' = FALSE
  /\ render' = TRUE
  /\ UNCHANGED <<pictures, wanted, phase, codec, auxPicture, lastPicture, hasLast,
                 encodeVars, buffers, locals, lastLocal, endVars, client>>

-----------------------------------------------------------------------------
(* The renderer: render_surfaces. *)

\* fetch_rendered_frames
FetchRenderedFrames ==
  /\ phase = "idle"
  /\ render
  /\ render' = FALSE
  /\ phase' = "fetched"
  /\ IF At("encoded") /\ frames["encoded"].bitstreams = 0
     THEN Free({"encoded"}) /\ frames' = Freed({"encoded"}) /\ broken' = TRUE
     ELSE /\ frames' = IF At("encoded") THEN Moved(frames["encoded"], "encoded", "rendered")
                       ELSE frames
          /\ UNCHANGED <<upgradeVars, views, locals, broken>>
  /\ UNCHANGED <<pictures, wanted, contextVars, encodeVars, buffers, lastLocal, failed, stopped,
                 client>>

\* maybe_start_encodings: a view without damage ends its frame, another one is encoded when
\* the encode session is free.
StartEncoding ==
  LET f == frames["viewed"]
      usable == ~stopped /\ ~failed
  IN
  /\ phase = "fetched"
  /\ phase' = IF ~stopped /\ failed THEN "finish"
              ELSE IF usable /\ f.is /\ f.damage # {} /\ EncoderFree THEN "encode" ELSE "views"
  /\ stopped' = (stopped \/ failed)
  /\ todo' = IF phase' = "encode" THEN ViewsToEncode(f) ELSE <<>>
  /\ IF usable /\ f.is /\ f.damage = {}
     THEN Free({"viewed"}) /\ frames' = Freed({"viewed"})
     ELSE /\ frames' = IF phase' = "encode" THEN Moved(f, "viewed", "encoding") ELSE frames
          /\ UNCHANGED <<upgradeVars, views, locals>>
  /\ UNCHANGED <<pictures, wanted, render, contextVars, encodes, lockTasks, bitstream, buffers,
                 lastLocal, failed, broken, client>>

\* encode_image_views, under frame_encodings_mutex while there are views left.
EncodeView ==
  /\ phase = "encode"
  /\ todo' = Tail(todo)
  /\ encodes' = encodes \cup {Head(todo)}
  /\ lockTasks' = Append(lockTasks, Head(todo))
  /\ buffers' = IF codec = "progressive" THEN buffers ELSE buffers + 1
  /\ phase' = IF todo' = <<>> THEN "views" ELSE "encode"
  /\ UNCHANGED <<pictures, wanted, frames, render, contextVars, upgradeVars, bitstream, views,
                 locals, lastLocal, endVars, client>>

\* The same, when the hardware fails: a frame of which no view was submitted is freed.
EncodeFails ==
  /\ phase = "encode" /\ codec # "progressive"
  /\ todo' = <<>>
  /\ phase' = "finish"
  /\ Fail
  /\ IF todo = ViewsToEncode(frames["encoding"])
     THEN Free({"encoding"}) /\ frames' = Freed({"encoding"})
     ELSE UNCHANGED <<upgradeVars, views, locals, frames>>
  /\ UNCHANGED <<pictures, wanted, render, contextVars, encodes, lockTasks, bitstream, buffers,
                 lastLocal, broken, client>>

\* maybe_start_view_creations, and acquire_local_buffer of the generic view creators: the queued
\* frame is picked up when the view creator is free.
StartView ==
  LET f == frames["queued"]
      free == Local \ (locals \cup {lastLocal})
      local == IF free = {} THEN 0 ELSE Min(free)
      starts == ~stopped /\ f.is /\ ViewerFree
  IN
  /\ phase = "views"
  /\ phase' = "finish"
  /\ lastPicture' = IF starts THEN f.picture ELSE lastPicture
  /\ hasLast' = (hasLast \/ starts)
  /\ \/ /\ frames' = IF starts THEN Moved([f EXCEPT !.local = local], "queued", "creating")
                     ELSE frames
        /\ locals' = IF starts THEN locals \cup ({local} \ {0}) ELSE locals
        /\ UNCHANGED <<upgradeVars, views, failed, stopped>>
     \/ /\ starts /\ codec # "progressive"
        /\ Free({"queued"}) /\ frames' = Freed({"queued"})
        /\ Fail
  /\ UNCHANGED <<pictures, wanted, render, codec, chroma, auxPicture, encodeVars, buffers, lastLocal,
                 broken, client>>

\* What the client has after frame f.
Shown(c, f) ==
  IF ~f.is THEN c
  ELSE [shows |-> IF f.type = "aux" THEN c.shows
                  ELSE [t \in Tile |-> IF t \in f.damage THEN f.picture[t] ELSE c.shows[t]],
        owed |-> IF f.type = "main" THEN (c.owed \ f.damage) \cup f.need ELSE c.owed \ f.damage]

\* The end of render_surfaces: submit_rendered_frames or clear_pending_frames, and
\* release_bitstreams, whose last call may fail.
Finish ==
  LET done == IF stopped THEN {"rendered", "queued", "viewed", "encoded"} ELSE {"rendered"}
      unlocked == BitstreamsIn(done)
  IN
  /\ phase = "finish"
  /\ phase' = "idle"
  /\ client' = IF stopped THEN client ELSE Shown(client, frames["rendered"])
  /\ broken' = (broken \/ (stopped /\ (At("rendered") \/ At("encoded"))))
  /\ buffers' = buffers - unlocked
  /\ Free(done) /\ frames' = Freed(done)
  /\ UNCHANGED <<failed, stopped>> \/ (unlocked > 0 /\ codec # "progressive" /\ Fail)
  /\ UNCHANGED <<pictures, wanted, render, contextVars, encodeVars, lastLocal>>
-----------------------------------------------------------------------------
(* The threads of the view creator and of the encode session. *)

\* Mutant: a main view keeps what was owed of its tiles, whose chroma values it overwrites.
WithChroma_KeepsOwed(f, damage, need) ==
  IF f.type = "dual"
  THEN [frame |-> [f EXCEPT !.type = IF chroma = {} /\ need = {} THEN "main" ELSE "dual",
                            !.damage = damage \cup chroma],
        chroma |-> {}]
  ELSE [frame |-> [f EXCEPT !.damage = damage, !.need = need],
        chroma |-> chroma \cup need]

\* update_dual_frame and update_main_frame: the frame as it will be encoded, and what remains
\* to be sent of the chroma values.
WithChroma(f, damage, need) ==
  IF f.type = "dual"
  THEN [frame |-> [f EXCEPT !.type = IF chroma = {} /\ need = {} THEN "main" ELSE "dual",
                            !.damage = damage \cup chroma],
        chroma |-> {}]
  ELSE [frame |-> [f EXCEPT !.damage = damage, !.need = need],
        chroma |-> (chroma \ damage) \cup need]

\* finish_views, update_frame_state and on_view_created.  The tiles that need chroma values are
\* damaged ones.  Without the mutex that maybe_start_encodings holds, nobody sees the frame.
ViewCreated ==
  LET f == frames["creating"]
      damage == Damage(f.picture, f.base)
  IN
  /\ f.is /\ phase # "encode"
  /\ \E need \in IF codec = "avc444" THEN SUBSET damage ELSE {{}} :
     \E type \in {f.type, "main"} :
     \E to \in {WithChroma([f EXCEPT !.type = type], damage, need)} :
       /\ frames' = Moved([to.frame EXCEPT !.valid = TRUE], "creating", "viewed")
       /\ chroma' = to.chroma
  /\ auxPicture' = IF At("queued") THEN auxPicture ELSE f.picture
  /\ lastLocal' = f.local
  /\ render' = TRUE
  /\ UNCHANGED <<pictures, wanted, phase, codec, lastPicture, hasLast, upgradeVars, encodeVars,
                 views, buffers, locals, endVars, client>>

\* finish_views and on_view_created, when there is no view.
ViewFails ==
  LET f == frames["creating"] IN
  /\ f.is /\ phase # "encode"
  /\ frames' = Moved([f EXCEPT !.local = 0], "creating", "viewed")
  /\ locals' = locals \ {f.local}
  /\ failed' = TRUE
  /\ render' = TRUE
  /\ UNCHANGED <<pictures, wanted, phase, contextVars, upgradeVars, encodeVars, views, buffers,
                 lastLocal, stopped, broken, client>>

\* lock_bitstream: what was encoded is fetched, or encoded in software, and without it the
\* buffer is released.
LockBitstream ==
  /\ lockTasks # <<>> /\ bitstream = "none"
  /\ encodes' = encodes \ {Head(lockTasks)}
  /\ \/ /\ bitstream' = "ok"
        /\ buffers' = IF codec = "progressive" THEN buffers + 1 ELSE buffers
     \/ /\ codec # "progressive"
        /\ bitstream' = "failed"
        /\ buffers' = buffers - 1
  /\ UNCHANGED <<pictures, wanted, frames, render, phase, contextVars, upgradeVars, todo, lockTasks,
                 views, locals, lastLocal, endVars, client>>

\* on_bitstream_locked, under frame_encodings_mutex: the frame is done when no view of it is
\* pending.
BitstreamLocked ==
  LET f == IF bitstream = "ok" THEN [frames["encoding"] EXCEPT !.bitstreams = @ + 1]
           ELSE frames["encoding"]
  IN
  /\ bitstream # "none"
  /\ phase # "encode"
  /\ bitstream' = "none"
  /\ lockTasks' = Tail(lockTasks)
  /\ frames' = IF encodes = {} THEN Moved(f, "encoding", "encoded")
               ELSE [frames EXCEPT !["encoding"] = f]
  /\ failed' = (failed \/ bitstream = "failed")
  /\ render' = TRUE
  /\ UNCHANGED <<pictures, wanted, phase, contextVars, upgradeVars, todo, encodes, poolVars, stopped,
                 broken, client>>

GraphicsThread ==
  \/ RenderFrame \/ UpgradeNothing \/ UpgradeFrame
  \/ FetchRenderedFrames \/ StartEncoding \/ EncodeView \/ EncodeFails \/ StartView \/ Finish

OtherThreads == ViewCreated \/ ViewFails \/ LockBitstream \/ BitstreamLocked

Next ==
  \/ GraphicsThread \/ OtherThreads
  \/ \E p \in Picture : SubmitBuffer(p)
  \/ RemoveBuffer

-----------------------------------------------------------------------------
(* Properties *)

TypeOK ==
  /\ codec \in Codecs /\ pictures \in 0 .. MaxPictures[codec]
  /\ {wanted, lastPicture, auxPicture} \subseteq Picture \cup {NoPicture}
  /\ chroma \subseteq Tile /\ locals \subseteq Local /\ lastLocal \in Local \cup {0}
  /\ hasLast \in BOOLEAN /\ canUpgrade \in BOOLEAN /\ due \in BOOLEAN /\ render \in BOOLEAN
  /\ failed \in BOOLEAN /\ stopped \in BOOLEAN /\ broken \in BOOLEAN
  /\ phase \in {"idle", "fetched", "encode", "views", "finish"}
  /\ bitstream \in {"none", "ok", "failed"} /\ encodes \subseteq {"main", "aux"}
  /\ {views, buffers} \subseteq Nat
  /\ \A s \in Stage : frames[s].is => frames[s].picture \in Picture

\* Views, bitstream buffers and local buffers are held by the frames on their way, and there
\* is always a free one: four views or pairs of views, two bitstreams for a frame that is
\* encoded and one that is submitted, and three local buffers although one more may be kept
\* for the next damage detection ("In total, this makes three needed buffers",
\* grd-rdp-view-creator-gen-sw.c:29-37).
PoolsSuffice ==
  /\ views = ViewsIn(Stage)
  /\ buffers = BitstreamsIn(Stage) + (IF bitstream = "ok" THEN 1 ELSE 0)
               + (IF codec = "progressive" THEN 0 ELSE Cardinality(encodes))
  /\ locals = {frames[s].local : s \in Stage} \ {0}
  /\ wanted # NoPicture /\ phase = "idle" /\ ~stopped => views + PerFrame <= NViews
  /\ phase = "encode" /\ codec # "progressive" => buffers < NBuffers
  /\ lockTasks # <<>> /\ bitstream = "none" /\ codec = "progressive" => buffers < NBuffers
  /\ At("creating") /\ codec = "progressive" => frames["creating"].local # 0

\* A frame is upgraded only when there is something to upgrade and its view is not in use
\* (the assertions of fetch_progressive_render_state, grd-rdp-render-context.c:397-419), and
\* nothing invalid or incomplete is encoded or submitted, however a device fails
\* (prepare_avc444_bitstream, grd-rdp-dvc-graphics-pipeline.c:604-645).
FramesComplete ==
  /\ canUpgrade /\ ~stopped => chroma # {} /\ views = 0 /\ auxPicture # NoPicture
  /\ At("viewed") /\ ~frames["viewed"].valid => failed
  /\ encodes # {} \/ lockTasks # <<>> => At("encoding")
  /\ phase = "finish" /\ ~stopped /\ At("rendered") =>
       /\ frames["rendered"].bitstreams = Len(ViewsToEncode(frames["rendered"]))
       /\ ~broken

\* What the client will have when the frames on their way have arrived.
OnceArrived ==
  Shown(Shown(Shown(Shown(client, frames["rendered"]), frames["encoded"]), frames["encoding"]),
        frames["viewed"])

\* Once the frames on their way arrive, the client shows the picture that the next damage is
\* computed from, and owes the chroma values that chroma_state_buffer has; an upgrade has
\* those of the picture that the client shows.
ClientFollows ==
  ~stopped /\ ~failed =>
    /\ LET c == OnceArrived
           creating == frames["creating"]
       IN  /\ c.owed = chroma
           /\ IF creating.is
              THEN creating.base \in {c.shows, NoPicture}
              ELSE c.shows = lastPicture
    /\ LET f == frames["rendered"] IN
       f.type = "aux" => \A t \in f.damage : client.shows[t] = f.picture[t]

\* Every picture and every chroma value reaches the client, or a device failed; then, too,
\* every frame is freed.
EncodingSettled ==
  /\ \A s \in Stage : ~At(s)
  /\ stopped \/ (wanted = NoPicture /\ client = [shows |-> lastPicture, owed |-> {}])
================================================================================
