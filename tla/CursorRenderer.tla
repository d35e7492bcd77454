----------------------------- MODULE CursorRenderer -----------------------------
(***************************************************************************)
(* The pointer of an RDP client: src/src/grd-rdp-cursor-renderer.c.        *)
(*                                                                         *)
(* PipeWire's data thread submits cursor updates, the newest replaces the  *)
(* one before it, and a source of the graphics thread sends it: a system   *)
(* pointer, a new bitmap for a slot of the client's cache, or the number   *)
(* of a slot that the client filled before.  The server never asks what    *)
(* the client has in its cache, it has to know it.                         *)
(***************************************************************************)
EXTENDS Naturals, Sequences, SequencesExt

CONSTANTS
  Shape,         \* the bitmaps that a client can show
  CacheSize,     \* pointer_cache_size
  MaxUpdates     \* updates submitted, a bound of the model

VARIABLES
  ready,       \* session_ready
  update,      \* pending_cursor_update
  waking,      \* threads between the submission and the wake-up of the source
  armed,       \* render_source is ready
  rendering,   \* render_source is in its dispatch
  system,      \* the update of current_system_cursor
  cache,       \* the bitmap of each slot of pointer_cache
  recent,      \* the slots in use, by last_used, the least recently used first
  current,     \* current_cursor: a slot, or 0 for the system cursor or NULL
  clientCache, \* the cache of the client
  shown,       \* the pointer on the client's screen
  latest,      \* what the last update asks for
  updates      \* updates so far

cursorVars == <<ready, update, waking, armed, rendering, system, cache, recent, current,
                clientCache, shown, latest, updates>>

Slots == 1 .. CacheSize

\* GrdRdpCursorUpdate; two bitmaps have a treatment of their own.
Updates == {"default", "hidden", "transparent", "large"} \cup Shape

\* is_cursor_hidden, and the limit of 384 pixels.
Asked(u) == CASE u = "transparent" -> "hidden" [] u = "large" -> "default" [] OTHER -> u

\* The update of current_cursor.
CurrentUpdate == IF current = 0 THEN system ELSE cache[current]

Init ==
  /\ ready = FALSE /\ armed = FALSE /\ rendering = FALSE
  /\ update = "none" /\ waking = 0
  /\ system = "none" /\ current = 0
  /\ cache = [i \in Slots |-> "none"] /\ clientCache = cache
  /\ recent = <<>>
  /\ shown = "default" /\ latest = "none"
  /\ updates = 0

\* grd_rdp_cursor_renderer_notify_session_ready
NotifySessionReady ==
  /\ ~ready
  /\ ready' = TRUE /\ armed' = TRUE
  /\ UNCHANGED <<update, waking, rendering, system, cache, recent, current, clientCache, shown,
                 latest, updates>>

\* grd_rdp_cursor_renderer_submit_cursor_update, as far as the mutex is held.
SubmitCursorUpdate(u) ==
  /\ updates < MaxUpdates
  /\ update' = u /\ latest' = Asked(u)
  /\ waking' = waking + 1 /\ updates' = updates + 1
  /\ UNCHANGED <<ready, armed, rendering, system, cache, recent, current, clientCache, shown>>

\* grd_rdp_cursor_renderer_submit_cursor_update, after the mutex.
Wake ==
  /\ waking > 0
  /\ waking' = waking - 1 /\ armed' = TRUE
  /\ UNCHANGED <<ready, update, rendering, system, cache, recent, current, clientCache, shown,
                 latest, updates>>

\* render_source_dispatch: from here on a new update wakes the source again.
Dispatch ==
  /\ armed /\ ~rendering
  /\ armed' = FALSE /\ rendering' = TRUE
  /\ UNCHANGED <<ready, update, waking, system, cache, recent, current, clientCache, shown,
                 latest, updates>>

\* The callback returns: it found nothing to do, or the mouse pointer is shown already.
Return ==
  /\ rendering' = FALSE
  /\ UNCHANGED <<ready, waking, armed, system, cache, current, clientCache, shown, latest,
                 updates>>

\* maybe_render_cursor without a session or an update
RenderNothing ==
  /\ rendering /\ (~ready \/ update = "none")
  /\ UNCHANGED <<update, recent>>
  /\ Return

\* maybe_render_cursor steals the update.
Taken(u) == rendering /\ ready /\ update \notin {"none"} /\ Asked(update) = u /\ update' = "none"

\* last_used = g_get_monotonic_time (): the slot becomes the most recently used one.
Place(i) == CHOOSE k \in DOMAIN recent : recent[k] = i
Touched(i) ==
  Append(IF i \in Range(recent) THEN RemoveAt(recent, Place(i)) ELSE recent, i)

\* maybe_reset_cursor_shape and maybe_hide_cursor, when the client shows that cursor, and
\* maybe_update_cursor, when it shows that bitmap.
KeepCursor(u) ==
  /\ Taken(u) /\ CurrentUpdate = u
  /\ recent' = IF u \in Shape THEN Touched(current) ELSE recent
  /\ Return

\* maybe_reset_cursor_shape and maybe_hide_cursor: update_to_system_cursor and a PDU.
SystemCursor(u) ==
  /\ u \in {"default", "hidden"}
  /\ Taken(u) /\ CurrentUpdate # u
  /\ system' = u /\ current' = 0 /\ shown' = u
  /\ rendering' = FALSE
  /\ UNCHANGED <<ready, waking, armed, cache, recent, clientCache, latest, updates>>

\* use_cached_cursor: the client takes the bitmap of its own cache.
CachedCursor(u, i) ==
  /\ u \in Shape
  /\ Taken(u) /\ CurrentUpdate # u /\ cache[i] = u
  /\ current' = i /\ recent' = Touched(i)
  /\ shown' = clientCache[i]
  /\ rendering' = FALSE
  /\ UNCHANGED <<ready, waking, armed, system, cache, clientCache, latest, updates>>

\* The first slot without a cursor, or get_cursor_to_replace.
SlotFor == IF Len(recent) < CacheSize THEN Len(recent) + 1 ELSE Head(recent)

\* maybe_update_cursor: submit_cursor puts the bitmap in the slot of the client's cache
\* and use_cached_cursor shows it.
NewCursor(u) ==
  /\ u \in Shape
  /\ Taken(u) /\ \A i \in Slots : cache[i] # u
  /\ cache' = [cache EXCEPT ![SlotFor] = u]
  /\ clientCache' = [clientCache EXCEPT ![SlotFor] = u]
  /\ current' = SlotFor /\ recent' = Touched(SlotFor)
  /\ shown' = u
  /\ rendering' = FALSE
  /\ UNCHANGED <<ready, waking, armed, system, latest, updates>>

\* maybe_render_cursor
RenderCursor ==
  \/ RenderNothing
  \/ \E u \in {"default", "hidden"} \cup Shape :
       KeepCursor(u) \/ SystemCursor(u) \/ NewCursor(u) \/ \E i \in Slots : CachedCursor(u, i)

Next ==
  \/ NotifySessionReady
  \/ \E u \in Updates : SubmitCursorUpdate(u)
  \/ Wake \/ Dispatch \/ RenderCursor

-----------------------------------------------------------------------------
(* Properties *)

TypeOK ==
  /\ {ready, armed, rendering} \subseteq BOOLEAN
  /\ update \in Updates \cup {"none"} /\ waking \in 0 .. MaxUpdates
  /\ system \in {"none", "default", "hidden"} /\ current \in 0 .. CacheSize
  /\ cache \in [Slots -> Shape \cup {"none"}] /\ clientCache \in [Slots -> Shape \cup {"none"}]
  /\ recent \in Seq(Slots) /\ shown \in Updates \cup {"none"} /\ updates \in 0 .. MaxUpdates

\* The client has in each slot what the server believes (submit_cursor and
\* use_cached_cursor), no bitmap is there twice, the slots fill from the first one on, as
\* the search for a free slot relies on (grd-rdp-cursor-renderer.c:397), and the pointer
\* on the screen is that of current_cursor.
CacheAgrees ==
  /\ clientCache = cache
  /\ IsInjective(recent)
  /\ \A i \in Slots : cache[i] # "none" <=> i =< Len(recent)
  /\ \A i, j \in Slots : cache[i] = cache[j] /\ i # j => cache[i] = "none"
  /\ CurrentUpdate # "none" => shown = CurrentUpdate

\* A pointer that is on the screen is the last to lose its slot.
ShownIsRecent == current # 0 => Last(recent) = current

\* The client ends up with the pointer of the last update.
CursorShown == ready /\ latest # "none" => shown = latest
================================================================================
