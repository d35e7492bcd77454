----------------------------- MODULE LayoutManager -----------------------------
(***************************************************************************)
(* GrdRdpLayoutManager (src/src/grd-rdp-layout-manager.c): how a monitor   *)
(* config of the client becomes a set of surfaces that are fed by streams  *)
(* of the compositor.                                                      *)
(*                                                                         *)
(* Everything runs in the main thread, but in pieces: a source of the main *)
(* loop takes one step of the state machine at a time and waits in between *)
(* for the renderer to come to rest, for the screen cast streams (two      *)
(* D-Bus replies and a signal each) and for the video size that PipeWire   *)
(* negotiates.  The FreeRDP thread submits monitor configs at any time.  A *)
(* stream of a physical monitor may close; a timeout then submits the last *)
(* config again.                                                           *)
(*                                                                         *)
(* A monitor is its size.  The renderer is the gate it opens and shuts, see*)
(* Renderer; the compositor and PipeWire are external.                     *)
(***************************************************************************)
EXTENDS Naturals, Sequences, FiniteSets

CONSTANTS
  Modes,      \* the modes of a session: TRUE records virtual monitors, FALSE a
              \* physical one
  Configs,    \* monitor configs: sequences of the sizes of their monitors
  Sizes,      \* sizes, without 0: a surface of size 0 waits for its video size
  NoConfig,
  NStreams,   \* stream ids (2^32 in the code), used in a circle
  MaxConfigs, \* monitor configs of the client, a bound of the model
  MaxCloses   \* streams that close, a bound of the model

Stream == 0 .. NStreams - 1

States == {"fatal_error", "await_config", "await_inhibition_done", "prepare_surfaces",
           "await_streams", "await_video_sizes", "start_rendering"}

VARIABLES
  virtual,        \* the mode of the session
  state,          \* state
  started,        \* session_started
  current,        \* current_monitor_config
  pending,        \* pending_monitor_config
  update,         \* layout_update_source is ready
  dispatching,    \* inside the dispatch of layout_update_source
  preparation,    \* preparation_source is ready
  recreation,     \* layout_recreation_id: the timeout runs
  surfaces,       \* surface_table: the surface contexts by their stream id
  pendingStreams, \* pending_streams
  pendingSizes,   \* pending_video_sizes
  nextId,         \* next_stream_id of the session
  gate,           \* the renderer: open, shut with frames on their way, or quiet
  submitted,      \* monitor configs so far
  closes          \* streams that closed so far

configVars == <<current, pending, submitted>>
streamVars == <<surfaces, pendingStreams, pendingSizes, nextId>>
vars == <<virtual, state, started, configVars, update, dispatching, preparation, recreation,
          streamVars, gate, closes>>

--------------------------------------------------------------------------------
(* Surface contexts. *)

Taken == DOMAIN surfaces

\* A context whose stream was asked for.
NewSurface == [stream |-> "asked", monitor |-> 0, size |-> 0, formats |-> {}]

\* get_next_free_stream_id, count times: the first ids after nextId not in use.
Distance(id) == (id + NStreams - nextId) % NStreams

NextIds(used, count) ==
  {id \in Stream \ used :
     Cardinality({i \in Stream \ used : Distance(i) < Distance(id)}) < count}

\* Mutant: the ids do not go in a circle.
IdAfter_NoWrap(fresh) ==
  1 + CHOOSE id \in fresh : \A i \in fresh : Distance(i) <= Distance(id)

\* The id after the last of those.
IdAfter(fresh) ==
  (1 + CHOOSE id \in fresh : \A i \in fresh : Distance(i) <= Distance(id)) % NStreams

\* Mutant: the preparation of the surfaces is not scheduled.
EnterState_NoPrepare(s) ==
  /\ state' = s
  /\ update' = (update \/ s \in {"await_config", "start_rendering"})

\* transition_to_state: three of the states go on by themselves.
EnterState(s) ==
  /\ state' = s
  /\ update' = (update \/ s \in {"await_config", "prepare_surfaces", "start_rendering"})

Init ==
  /\ virtual \in Modes
  /\ state = "await_config"
  /\ started = FALSE
  /\ current = NoConfig
  /\ pending = NoConfig
  /\ update = FALSE
  /\ dispatching = FALSE
  /\ preparation = FALSE
  /\ recreation = FALSE
  /\ surfaces = << >>
  /\ pendingStreams = {}
  /\ pendingSizes = {}
  /\ nextId = 0
  /\ gate = "open"
  /\ submitted = 0
  /\ closes = 0

--------------------------------------------------------------------------------
(* Monitor configs. *)

\* grd_rdp_layout_manager_submit_new_monitor_config, by the FreeRDP thread: once at
\* the beginning, later only for virtual monitors.
SubmitConfig(config) ==
  /\ submitted < MaxConfigs
  /\ virtual \/ (submitted = 0 /\ Len(config) = 1)
  /\ submitted' = submitted + 1
  /\ pending' = config
  /\ update' = TRUE
  /\ UNCHANGED <<state, started, current, dispatching, preparation, recreation, streamVars,
                 gate, closes>>

\* grd_rdp_layout_manager_notify_session_started, after the first monitor config.
SessionStarted ==
  /\ ~started
  /\ submitted > 0
  /\ started' = TRUE
  /\ update' = TRUE
  /\ UNCHANGED <<state, configVars, dispatching, preparation, recreation, streamVars, gate,
                 closes>>

\* maybe_invoke_layout_recreation
RecreateLayout ==
  /\ recreation
  /\ ~dispatching
  /\ recreation' = FALSE
  /\ IF pending = NoConfig
     THEN pending' = current /\ current' = NoConfig /\ update' = TRUE
     ELSE UNCHANGED <<pending, current, update>>
  /\ UNCHANGED <<state, started, submitted, dispatching, preparation, streamVars, gate,
                 closes>>

--------------------------------------------------------------------------------
(* update_monitor_layout *)

\* source_dispatch: the source is not ready any more, then its callback runs.
Dispatch ==
  /\ update /\ ~dispatching
  /\ update' = FALSE
  /\ dispatching' = TRUE
  /\ UNCHANGED <<state, started, configVars, preparation, recreation, streamVars, gate,
                 closes>>

\* The callback has nothing to do: no session, no monitor config, or a state that
\* waits for something else.
DispatchNothing ==
  /\ dispatching
  /\ \/ ~started
     \/ state = "await_config" /\ pending = NoConfig
     \/ state \notin {"await_config", "prepare_surfaces", "start_rendering"}
  /\ dispatching' = FALSE
  /\ UNCHANGED <<state, started, configVars, update, preparation, recreation, streamVars,
                 gate, closes>>

\* Mutant: the surfaces are changed before the renderer came to rest.
PickUpConfig_NoWait ==
  /\ dispatching
  /\ started
  /\ state = "await_config"
  /\ pending # NoConfig
  /\ current' = pending
  /\ pending' = NoConfig
  /\ recreation' = FALSE
  /\ gate' = "shut"
  /\ EnterState("prepare_surfaces")
  /\ dispatching' = FALSE
  /\ UNCHANGED <<started, submitted, preparation, streamVars, closes>>

\* maybe_pick_up_queued_monitor_config, and inhibit_rendering of the renderer, which
\* signals the end of the inhibition at once if no frame is on its way.
PickUpConfig ==
  /\ dispatching
  /\ started
  /\ state = "await_config"
  /\ pending # NoConfig
  /\ current' = pending
  /\ pending' = NoConfig
  /\ recreation' = FALSE
  /\ \/ gate' = "quiet" /\ preparation' = TRUE
     \/ gate' = "shut" /\ UNCHANGED preparation
  /\ EnterState("await_inhibition_done")
  /\ dispatching' = FALSE
  /\ UNCHANGED <<started, submitted, streamVars, closes>>

\* The renderer's inhibition-done signal, on_inhibition_done.
InhibitionDone ==
  /\ gate = "shut"
  /\ gate' = "quiet"
  /\ preparation' = TRUE
  /\ UNCHANGED <<state, started, configVars, update, dispatching, recreation, streamVars,
                 closes>>

\* finish_layout_change_preparation
FinishPreparation ==
  /\ preparation
  /\ ~dispatching
  /\ preparation' = FALSE
  /\ IF state = "fatal_error"
     THEN UNCHANGED <<state, update>>
     ELSE EnterState("prepare_surfaces")
  /\ UNCHANGED <<started, configVars, dispatching, recreation, streamVars, gate, closes>>

\* dispose_unneeded_surfaces: the streams of physical monitors always go.
Unneeded(gone) ==
  IF virtual
  THEN Cardinality(gone) =
         IF Cardinality(Taken) > Len(current) THEN Cardinality(Taken) - Len(current) ELSE 0
  ELSE gone = Taken

\* prepare_surface_contexts and create_or_update_streams: in some order, the surface
\* contexts get the monitors of the config; a stream is asked for or offers its new
\* size.
Prepared(fresh, order) ==
  [id \in DOMAIN order |->
     LET monitor == IF virtual THEN current[order[id]] ELSE 0
         old == IF id \in fresh THEN NewSurface ELSE surfaces[id]
     IN  [old EXCEPT !.monitor = monitor, !.size = 0, !.formats = @ \cup {monitor}]]

PrepareSurfaces ==
  /\ dispatching
  /\ state = "prepare_surfaces"
  /\ \E gone \in SUBSET Taken :
       /\ Unneeded(gone)
       /\ \/ /\ surfaces' = [id \in Taken \ gone |-> surfaces[id]]
             /\ EnterState("fatal_error")
             /\ UNCHANGED <<pendingStreams, pendingSizes, nextId>>
          \/ \E fresh \in {NextIds(Taken \ gone, Len(current) - Cardinality(Taken \ gone))} :
             \E order \in [(Taken \ gone) \cup fresh -> 1 .. Len(current)] :
               /\ \A i, j \in DOMAIN order : order[i] = order[j] => i = j
               /\ surfaces' = Prepared(fresh, order)
               /\ pendingStreams' = fresh
               /\ pendingSizes' = DOMAIN order
               /\ nextId' = IF fresh = {} THEN nextId ELSE IdAfter(fresh)
               /\ EnterState(IF fresh = {} THEN "await_video_sizes" ELSE "await_streams")
  /\ dispatching' = FALSE
  /\ UNCHANGED <<started, configVars, preparation, recreation, gate, closes>>

\* uninhibit_rendering of the renderer.
StartRendering ==
  /\ dispatching
  /\ state = "start_rendering"
  /\ gate' = "open"
  /\ EnterState("await_config")
  /\ dispatching' = FALSE
  /\ UNCHANGED <<started, configVars, preparation, recreation, streamVars, closes>>

--------------------------------------------------------------------------------
(* Streams. *)

\* grd_rdp_layout_manager_on_stream_created: the D-Bus calls have returned.
StreamCreated(id) ==
  /\ ~dispatching
  /\ id \in Taken /\ surfaces[id].stream = "asked"
  /\ surfaces' = [surfaces EXCEPT ![id].stream = "created"]
  /\ UNCHANGED <<state, started, configVars, update, dispatching, preparation, recreation,
                 pendingStreams, pendingSizes, nextId, gate, closes>>

\* on_stream_ready: a PipeWire stream that offers the size of the monitor, or none.
StreamReady(id) ==
  /\ ~dispatching
  /\ state # "fatal_error"
  /\ id \in Taken /\ surfaces[id].stream = "created"
  /\ \/ /\ EnterState("fatal_error")
        /\ UNCHANGED <<surfaces, pendingStreams>>
     \/ /\ surfaces' = [surfaces EXCEPT ![id].stream = "streaming"]
        /\ pendingStreams' = pendingStreams \ {id}
        /\ IF pendingStreams = {id}
           THEN EnterState("await_video_sizes")
           ELSE UNCHANGED <<state, update>>
  /\ UNCHANGED <<started, configVars, dispatching, preparation, recreation, pendingSizes,
                 nextId, gate, closes>>

\* Mutant: a size that was not asked for counts, too.
Expected_Any(id, size) == TRUE

\* A virtual monitor has the size it was given, a physical one any.
Expected(id, size) == surfaces[id].monitor \in {0, size}

\* on_stream_param_changed and on_pipewire_stream_video_resized.  The size last
\* offered is the last one negotiated; an earlier one may come before it.
VideoResized(id, size) ==
  /\ ~dispatching
  /\ state # "fatal_error"
  /\ id \in Taken /\ surfaces[id].stream = "streaming"
  /\ IF surfaces[id].monitor = 0 THEN size \in Sizes ELSE size \in surfaces[id].formats
  /\ surfaces' = [surfaces EXCEPT ![id].size = size,
                                  ![id].formats = IF size = surfaces[id].monitor
                                                  THEN {size} ELSE @]
  /\ IF Expected(id, size) /\ id \in pendingSizes
     THEN /\ pendingSizes' = pendingSizes \ {id}
          /\ IF pendingSizes = {id}
             THEN EnterState("start_rendering")
             ELSE UNCHANGED <<state, update>>
     ELSE UNCHANGED <<pendingSizes, state, update>>
  /\ UNCHANGED <<started, configVars, dispatching, preparation, recreation, pendingStreams,
                 nextId, gate, closes>>

\* on_pipewire_stream_closed: of a physical monitor, that is.
StreamClosed(id) ==
  /\ ~dispatching
  /\ ~virtual
  /\ closes < MaxCloses
  /\ closes' = closes + 1
  /\ id \in Taken /\ surfaces[id].stream = "streaming"
  /\ surfaces' = [surfaces EXCEPT ![id].stream = "closed"]
  /\ recreation' = (recreation \/ state # "fatal_error")
  /\ UNCHANGED <<state, started, configVars, update, dispatching, preparation,
                 pendingStreams, pendingSizes, nextId, gate>>

\* on_pipewire_stream_error
StreamError(id) ==
  /\ ~dispatching
  /\ id \in Taken /\ surfaces[id].stream \in {"streaming", "closed"}
  /\ state # "fatal_error"
  /\ EnterState("fatal_error")
  /\ UNCHANGED <<started, configVars, dispatching, preparation, recreation, streamVars,
                 gate, closes>>

--------------------------------------------------------------------------------
UpdateMonitorLayout ==
  DispatchNothing \/ PickUpConfig \/ PrepareSurfaces \/ StartRendering

Next ==
  /\ \/ \E config \in Configs : SubmitConfig(config)
     \/ SessionStarted \/ RecreateLayout
     \/ Dispatch \/ UpdateMonitorLayout
     \/ InhibitionDone \/ FinishPreparation
     \/ \E id \in Stream :
          \/ StreamCreated(id) \/ StreamReady(id) \/ StreamClosed(id) \/ StreamError(id)
          \/ \E size \in Sizes : VideoResized(id, size)
  /\ UNCHANGED virtual

\* The size that a surface waits for.
SizeArrives(id) ==
  \E size \in Sizes : Expected(id, size) /\ VideoResized(id, size)

--------------------------------------------------------------------------------
(* Properties. *)

TypeOK ==
  /\ state \in States
  /\ {started, update, dispatching, preparation, recreation} \subseteq BOOLEAN
  /\ {current, pending} \subseteq Configs \cup {NoConfig}
  /\ Taken \subseteq Stream
  /\ \A id \in Taken :
       surfaces[id] \in [stream : {"asked", "created", "streaming", "closed"},
                         monitor : Sizes \cup {0}, size : Sizes \cup {0},
                         formats : SUBSET (Sizes \cup {0})]
  /\ pendingStreams \subseteq Stream /\ pendingSizes \subseteq Stream
  /\ nextId \in Stream
  /\ gate \in {"open", "shut", "quiet"}
  /\ submitted \in 0 .. MaxConfigs /\ closes \in 0 .. MaxCloses

\* The assertions of the handlers: finish_layout_change_preparation only comes when
\* it is awaited, on_stream_created and on_stream_ready only while streams are
\* awaited; a stream that is pending has its size pending, and the state machine
\* waits exactly as long as something is pending.
EventsExpected ==
  state # "fatal_error" =>
    /\ preparation => state = "await_inhibition_done"
    /\ \A id \in Taken : (surfaces[id].stream \in {"asked", "created"}) <=> id \in pendingStreams
    /\ pendingStreams \subseteq pendingSizes /\ pendingSizes \subseteq Taken
    /\ (pendingStreams # {}) <=> (state = "await_streams")
    /\ (pendingSizes # {}) <=> (state \in {"await_streams", "await_video_sizes"})

\* Rendering goes on exactly with the monitors of the current config: as many
\* surfaces, each with a stream and with the size of its own monitor.
RenderedLayoutIsCurrent ==
  gate = "open" /\ state # "fatal_error" /\ current # NoConfig =>
    /\ Cardinality(Taken) = Len(current)
    /\ \A id \in Taken : surfaces[id].size > 0
    /\ virtual => \E order \in [Taken -> DOMAIN current] :
                    /\ \A i, j \in Taken : order[i] = order[j] => i = j
                    /\ \A id \in Taken : surfaces[id].size = current[order[id]]

\* The table of the surfaces, and the sizes of virtual ones, change only while the
\* renderer is quiet.
SurfacesChangeWhenQuiet ==
  [][Taken' # Taken \/ (virtual /\ surfaces' # surfaces) => gate = "quiet"]_vars

\* Unless the stream of a physical monitor closes (see ClosedStreamReplaced), the
\* layout manager awaits monitor configs again, or fails.
LayoutFinishes ==
  (state # "await_config") ~> (state \in {"await_config", "fatal_error"} \/ closes > 0)

\* maybe_invoke_layout_recreation ("Trying to restore last config."): what the timeout
\* submits again is recorded by another stream.  A stream that closes before its
\* video size is known leaves the state machine waiting for that size.
ClosedStreamReplaced ==
  \A id \in Stream :
    (id \in Taken /\ surfaces[id].stream = "closed") ~>
      (id \notin Taken \/ surfaces[id].stream # "closed" \/ state = "fatal_error")

\* A monitor config that was submitted is picked up, under the same proviso.
ConfigPickedUp ==
  (pending # NoConfig) ~> (pending = NoConfig \/ state = "fatal_error" \/ closes > 0)

\* Events meet a state that expects them, and rendering goes on with the layout asked
\* for.
LayoutSound == EventsExpected /\ RenderedLayoutIsCurrent

\* Every layout change comes to its end, and no monitor config is forgotten.
LayoutsSettle == LayoutFinishes /\ ConfigPickedUp

================================================================================
