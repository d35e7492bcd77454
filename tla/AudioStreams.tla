------------------------------ MODULE AudioStreams ------------------------------
(***************************************************************************)
(* What is played to the client (grd-rdp-dvc-audio-playback.c,             *)
(* grd-rdp-audio-output-stream.c): one stream for each audio sink, of      *)
(* which one at a time has the lock and is heard.                          *)
(*                                                                         *)
(* The data thread of PipeWire submits the samples of the streams, the     *)
(* main thread sees sinks come and go, and the encode thread sends what    *)
(* is pending.  Destroying a stream waits for the data thread.             *)
(***************************************************************************)
EXTENDS Naturals, Sequences, SequencesExt

CONSTANTS
  Sinks,
  PacketSize, \* sample_buffer_size, in units of samples
  MaxChunks,  \* bound: chunks of samples that have sound
  MaxSinks    \* bound: sinks that appear

VARIABLES
  playing,    \* audio_streams
  active,     \* streams that are active, whose samples are processed
  soundLock,  \* locked_node_id, None without has_stream_lock
  silent,     \* has_empty_audio_timestamp
  lockHolder, tableHolder, \* the threads that hold stream_lock_mutex, streams_mutex
  dataThread, mainThread, encodeThread, \* where each of them is, with which sink or chunk
  wakeEncode, \* encode_source is ready
  sound,      \* pending_frames: chunks of units, which know their sink and are numbered
  sent,       \* the last packet
  chunks, appeared

lockVars == <<soundLock, silent, lockHolder>>
frameVars == <<wakeEncode, sound, sent>>
vars == <<playing, active, lockVars, tableHolder, dataThread, mainThread, encodeThread, frameVars,
          chunks, appeared>>

None == "none"
Free == "free"
Idle == [step |-> "idle", sink |-> None]
At(step, sink) == [step |-> step, sink |-> sink]
NoSamples == [step |-> "idle", sink |-> None, units |-> <<>>, empty |-> TRUE]

Init ==
  /\ playing = {} /\ active = {} /\ soundLock = None /\ silent = FALSE
  /\ lockHolder = Free /\ tableHolder = Free
  /\ dataThread = NoSamples
  /\ mainThread = Idle /\ encodeThread = Idle
  /\ wakeEncode = FALSE /\ sound = <<>> /\ sent = <<>>
  /\ chunks = 0 /\ appeared = 0

-----------------------------------------------------------------------------
(* The data thread: pipewire_stream_process, maybe_submit_samples *)

\* A stream has n units of samples, which are empty or not.
Process(s, n, empty) ==
  /\ dataThread.step = "idle" /\ s \in active /\ chunks < MaxChunks
  /\ chunks' = IF empty THEN chunks ELSE chunks + 1
  /\ dataThread' = [step |-> "submit", sink |-> s, empty |-> empty,
                    units |-> [i \in 1..n |-> [sink |-> s, number |-> 2 * chunks + i]]]
  /\ UNCHANGED <<playing, active, lockVars, tableHolder, mainThread, encodeThread, frameVars, appeared>>

Pending == Len(FlattenSeq(sound))

\* The samples are pending and the encode thread wakes for a full packet; empty ones only
\* fill a packet that is begun.
Push ==
  LET pushed == ~dataThread.empty \/ Pending \in 1..(PacketSize - 1)
  IN /\ silent' = dataThread.empty
     /\ sound' = IF pushed THEN Append(sound, dataThread.units) ELSE sound
     /\ wakeEncode' = (wakeEncode \/ (pushed /\ Pending + Len(dataThread.units) >= PacketSize))
     /\ dataThread' = NoSamples

\* Under stream_lock_mutex: samples of a stream without the lock are dropped, the first sound
\* takes the lock, and the lock is released when its stream was silent for too long or has
\* samples of a malformed size.
Release ==
  /\ soundLock' = None /\ sound' = <<>> /\ lockHolder' = "data"
  /\ dataThread' = [dataThread EXCEPT !.step = "release"]
  /\ UNCHANGED <<silent, wakeEncode>>

Submit(tooLong, malformed) ==
  /\ dataThread.step = "submit" /\ lockHolder = Free
  /\ \/ /\ IF soundLock = None THEN dataThread.empty ELSE soundLock # dataThread.sink
        /\ dataThread' = NoSamples
        /\ UNCHANGED <<lockVars, sound, wakeEncode>>
     \/ /\ soundLock = None /\ ~dataThread.empty
        /\ soundLock' = dataThread.sink
        /\ dataThread' = [dataThread EXCEPT !.step = "others"]
        /\ UNCHANGED <<silent, lockHolder, sound, wakeEncode>>
     \/ /\ soundLock = dataThread.sink /\ (malformed \/ (dataThread.empty /\ silent /\ tooLong))
        /\ Release
     \/ /\ soundLock = dataThread.sink /\ ~malformed /\ (dataThread.empty => ~silent \/ ~tooLong)
        /\ Push
        /\ UNCHANGED <<soundLock, lockHolder>>
  /\ UNCHANGED <<playing, active, tableHolder, mainThread, encodeThread, sent, chunks, appeared>>

\* set_other_streams_inactive, without stream_lock_mutex.
SetOthersInactive ==
  /\ dataThread.step = "others" /\ tableHolder = Free
  /\ active' = active \ (playing \ {soundLock})
  /\ dataThread' = [dataThread EXCEPT !.step = "locked"]
  /\ UNCHANGED <<playing, lockVars, tableHolder, mainThread, encodeThread, frameVars, chunks, appeared>>

SubmitLocked(malformed) ==
  /\ dataThread.step = "locked" /\ lockHolder = Free
  /\ IF malformed THEN Release ELSE Push /\ UNCHANGED <<soundLock, lockHolder>>
  /\ UNCHANGED <<playing, active, tableHolder, mainThread, encodeThread, sent,
                 chunks, appeared>>

\* set_all_streams_active of release_stream_lock, with stream_lock_mutex.
DataReleases ==
  /\ dataThread.step = "release" /\ tableHolder = Free
  /\ active' = active \cup playing
  /\ lockHolder' = Free
  /\ dataThread' = NoSamples
  /\ UNCHANGED <<playing, soundLock, silent, tableHolder, mainThread, encodeThread, frameVars, chunks, appeared>>

DataThread ==
  \/ \E tooLong, malformed \in BOOLEAN : Submit(tooLong, malformed) \/ SubmitLocked(malformed)
  \/ SetOthersInactive \/ DataReleases

-----------------------------------------------------------------------------
(* The main thread *)

\* registry_event_global: the new stream is inactive until it is known whether one is locked.
Global(s) ==
  /\ mainThread.step = "idle" /\ s \notin playing /\ tableHolder = Free /\ appeared < MaxSinks
  /\ playing' = playing \cup {s} /\ appeared' = appeared + 1
  /\ mainThread' = At("added", s)
  /\ UNCHANGED <<active, lockVars, tableHolder, dataThread, encodeThread, frameVars, chunks>>

MaybeActivate ==
  /\ mainThread.step = "added" /\ lockHolder = Free
  /\ active' = IF soundLock = None THEN active \cup {mainThread.sink} ELSE active
  /\ mainThread' = Idle
  /\ UNCHANGED <<playing, lockVars, tableHolder, dataThread, encodeThread, frameVars, chunks, appeared>>

\* registry_event_global_remove: the stream is destroyed with streams_mutex held.
GlobalRemove(s) ==
  /\ mainThread.step = "idle" /\ s \in playing /\ tableHolder = Free
  /\ playing' = playing \ {s} /\ tableHolder' = "main"
  /\ mainThread' = At("destroy", s)
  /\ UNCHANGED <<active, lockVars, dataThread, encodeThread, frameVars, chunks, appeared>>

\* pw_stream_destroy has the data thread remove the stream, between two of its callbacks.
Destroyed ==
  /\ mainThread.step = "destroy" /\ dataThread.step = "idle"
  /\ active' = active \ {mainThread.sink}
  /\ tableHolder' = Free
  /\ mainThread' = At("removed", mainThread.sink)
  /\ UNCHANGED <<playing, lockVars, dataThread, encodeThread, frameVars, chunks, appeared>>

MaybeRelease ==
  /\ mainThread.step = "removed" /\ lockHolder = Free
  /\ IF soundLock = mainThread.sink
     THEN /\ soundLock' = None /\ sound' = <<>> /\ lockHolder' = "main"
          /\ mainThread' = At("release", None)
     ELSE mainThread' = Idle /\ UNCHANGED <<soundLock, sound, lockHolder>>
  /\ UNCHANGED <<playing, active, silent, tableHolder, dataThread, encodeThread, wakeEncode, sent,
                 chunks, appeared>>

MainReleases ==
  /\ mainThread.step = "release" /\ tableHolder = Free
  /\ active' = active \cup playing
  /\ lockHolder' = Free /\ mainThread' = Idle
  /\ UNCHANGED <<playing, soundLock, silent, tableHolder, dataThread, encodeThread, frameVars, chunks, appeared>>

MainThread == MaybeActivate \/ Destroyed \/ MaybeRelease \/ MainReleases

-----------------------------------------------------------------------------
(* The encode thread: maybe_encode_frames *)

TakeStreamLock ==
  /\ encodeThread.step = "idle" /\ wakeEncode /\ lockHolder = Free
  /\ wakeEncode' = FALSE
  /\ IF soundLock = None THEN UNCHANGED <<lockHolder, encodeThread>>
     ELSE lockHolder' = "encode" /\ encodeThread' = At("lookup", soundLock)
  /\ UNCHANGED <<playing, active, soundLock, silent, tableHolder, dataThread, mainThread, sound, sent,
                 chunks, appeared>>

\* The volume of the stream is read, if it is there.
LookupStream ==
  /\ encodeThread.step = "lookup" /\ tableHolder = Free
  /\ encodeThread' = IF encodeThread.sink \in playing THEN At("send", encodeThread.sink) ELSE Idle
  /\ lockHolder' = Free
  /\ UNCHANGED <<playing, active, soundLock, silent, tableHolder, dataThread, mainThread, frameVars,
                 chunks, appeared>>

\* The chunks that are left when the first n units are sent.
RECURSIVE Rest(_, _)
Rest(queue, n) ==
  CASE queue = <<>> \/ n = 0 -> queue
    [] Len(Head(queue)) <= n -> Rest(Tail(queue), n - Len(Head(queue)))
    [] OTHER -> <<SubSeq(Head(queue), n + 1, Len(Head(queue)))>> \o Tail(queue)

\* clear_old_frames drops the old chunks, maybe_drop_pending_frames all when the client plays
\* too late; maybe_send_frames sends one packet of what is left.
SendFrames(old) ==
  /\ encodeThread.step = "send" /\ old <= Len(sound)
  /\ LET kept == SubSeq(sound, old + 1, Len(sound))
         units == FlattenSeq(kept)
     IN IF Len(units) >= PacketSize
        THEN sent' = SubSeq(units, 1, PacketSize) /\ sound' = Rest(kept, PacketSize)
        ELSE sound' = kept /\ UNCHANGED sent
  /\ encodeThread' = Idle
  /\ UNCHANGED <<playing, active, lockVars, tableHolder, dataThread, mainThread, wakeEncode, chunks, appeared>>

EncodeThread == TakeStreamLock \/ LookupStream \/ \E old \in 0..Len(sound) : SendFrames(old)

Next ==
  \/ \E s \in Sinks :
       \/ \E n \in 1..2, empty \in BOOLEAN : Process(s, n, empty)
       \/ Global(s) \/ GlobalRemove(s)
  \/ DataThread \/ MainThread \/ EncodeThread

-----------------------------------------------------------------------------
(* Properties *)

TypeOK ==
  /\ playing \subseteq Sinks /\ active \subseteq Sinks /\ soundLock \in Sinks \cup {None}
  /\ {lockHolder, tableHolder} \subseteq {Free, "data", "main", "encode"}
  /\ dataThread.step \in {"idle", "submit", "others", "locked", "release"}
  /\ mainThread.step \in {"idle", "added", "destroy", "removed", "release"}
  /\ encodeThread.step \in {"idle", "lookup", "send"}
  /\ {silent, wakeEncode} \subseteq BOOLEAN
  /\ \A i \in DOMAIN sound : sound[i] # <<>>
  /\ {chunks, appeared} \subseteq Nat

\* Between the callbacks either the stream with the lock is active alone, or all are.
ActiveStreamsAgree ==
  dataThread.step \in {"idle", "submit"} /\ mainThread.step = "idle" =>
    active = IF soundLock = None THEN playing ELSE {soundLock} \cap playing

\* The lock is not left with a sink that is gone.
LockOfStream == soundLock # None /\ mainThread.step \in {"idle", "added"} => soundLock \in playing

\* What is pending is of the stream with the lock, in order; no packet mixes two streams.
PacketsOfOneStream ==
  LET pendingUnits == FlattenSeq(sound)
  IN /\ \A i \in DOMAIN pendingUnits : pendingUnits[i].sink = soundLock
     /\ \A i, j \in DOMAIN sent : sent[i].sink = sent[j].sink
     /\ sent # <<>> => Len(sent) = PacketSize

\* The main thread waits for the data thread, which waits for streams_mutex, or for the
\* encode thread that does.
DestroyDeadlock ==
  /\ mainThread.step = "destroy" /\ tableHolder = "main"
  /\ \/ dataThread.step \in {"others", "release"}
     \/ dataThread.step \in {"submit", "locked"} /\ lockHolder = "encode"

\* Otherwise every thread gets its mutexes and comes back.
ThreadsReturn ==
  \/ dataThread.step = "idle" /\ mainThread.step = "idle" /\ encodeThread.step = "idle"
  \/ DestroyDeadlock
================================================================================
