---------------------------- MODULE Renderer_proof ----------------------------
(***************************************************************************)
(* Proofs about Renderer.tla, for any surfaces, frames, slots and any      *)
(* number of CapsAdvertise PDUs: what the two who shut a gate on the       *)
(* session's main thread rely on.                                          *)
(*                                                                         *)
(* That rendering came to rest is read off the counts of the render        *)
(* contexts, so the inductive invariant ties these to the frames           *)
(* (RefsCount).  It leaves out that a context somebody refers to is in the *)
(* table: that is lost when a stale wake-up resets the protocol too early  *)
(* (run RendererStaleReset), and nothing proved here depends on it.        *)
(***************************************************************************)
EXTENDS Renderer, FiniteSetTheorems, TLAPS

Stages == {"none", "queued", "creating", "viewed", "encoding", "encoded", "rendered",
           "finalized"}

\* The frames of s that hold a reference to its render context.
Referring(s) == {f \in Frame : SurfaceOf[f] = s /\ stage[f] # "none"}

\* A count is the number of frames that refer to the context.
RefsCount == \A s \in Surface : refs[s] = Cardinality(Referring(s))

\* Who waits on the main thread has shut a gate, and no count is left when the wait
\* is over: when the graphics thread told so, or when there was nothing to wait for.
GateInv ==
  /\ stopper # "running" => "stop" \in closed
  /\ layout # "idle" <=> "inhibit" \in closed
  /\ prepare => layout = "awaiting"
  /\ stopper = "stopped" \/ prepare \/ layout = "preparing" => Idle

Inv == TypeOK /\ RefsCount /\ GateInv

--------------------------------------------------------------------------------
(* Counting frames. *)

LEMMA FramesFinite ==
  ASSUME NEW F \in SUBSET Frame
  PROVE  IsFiniteSet(F) /\ Cardinality(F) \in 0 .. Cardinality(Frame)
<1>1. IsFiniteSet(Frame)
  BY RendererAssumption
<1>2. Cardinality(Frame) \in Nat
  BY <1>1, FS_CardinalityType
<1>3. IsFiniteSet(F) /\ Cardinality(F) <= Cardinality(Frame)
  BY <1>1, FS_Subset
<1>4. Cardinality(F) \in Nat
  BY <1>3, FS_CardinalityType
<1> QED BY <1>2, <1>3, <1>4

\* Without a count there is no frame left.
LEMMA IdleNoFrames ==
  ASSUME RefsCount, Idle, NEW f \in Frame
  PROVE  stage[f] = "none"
<1>1. SurfaceOf[f] \in Surface
  BY RendererAssumption
<1>2. Cardinality(Referring(SurfaceOf[f])) = 0
  BY <1>1 DEF RefsCount, Idle
<1>3. IsFiniteSet(Referring(SurfaceOf[f]))
  BY FramesFinite DEF Referring
<1>4. Referring(SurfaceOf[f]) = {}
  BY <1>2, <1>3, FS_EmptySet
<1> QED BY <1>4 DEF Referring

\* A step that begins and ends no frame.
LEMMA KeptRefs ==
  ASSUME RefsCount, refs' = refs,
         \A f \in Frame : stage'[f] = "none" <=> stage[f] = "none"
  PROVE  RefsCount'
<1>1. \A s \in Surface : Referring(s)' = Referring(s)
  BY DEF Referring
<1> QED BY <1>1 DEF RefsCount

\* A step that begins frame f of surface s.
LEMMA BegunRefs ==
  ASSUME TypeOK, RefsCount,
         NEW s \in Surface, NEW f \in Frame, SurfaceOf[f] = s, stage[f] = "none",
         refs' = [refs EXCEPT ![s] = @ + 1],
         stage'[f] # "none",
         \A g \in Frame \ {f} : stage'[g] = "none" <=> stage[g] = "none"
  PROVE  RefsCount' /\ refs' \in [Surface -> 0 .. Cardinality(Frame)]
<1>1. \A r \in Surface \ {s} : Referring(r)' = Referring(r)
  BY DEF Referring
<1>2. Referring(s)' = Referring(s) \cup {f} /\ f \notin Referring(s)
  BY DEF Referring
<1>3. IsFiniteSet(Referring(s))
  BY FramesFinite DEF Referring
<1>4. Cardinality(Referring(s)') = Cardinality(Referring(s)) + 1
  BY <1>2, <1>3, FS_AddElement
<1>5. RefsCount'
  BY <1>1, <1>4 DEF RefsCount, TypeOK
<1>6. \A r \in Surface : Referring(r)' \in SUBSET Frame
  BY DEF Referring
<1>7. \A r \in Surface : refs'[r] \in 0 .. Cardinality(Frame)
  BY <1>5, <1>6, FramesFinite DEF RefsCount
<1> QED BY <1>5, <1>7 DEF TypeOK

\* A step that ends the frames F of surface s.
LEMMA EndedRefs ==
  ASSUME TypeOK, RefsCount,
         NEW s \in Surface, NEW F \in SUBSET Referring(s),
         refs' = [refs EXCEPT ![s] = @ - Cardinality(F)],
         \A f \in F : stage'[f] = "none",
         \A f \in Frame \ F : stage'[f] = stage[f]
  PROVE  RefsCount' /\ refs' \in [Surface -> 0 .. Cardinality(Frame)]
<1>1. \A r \in Surface \ {s} : Referring(r)' = Referring(r)
  BY DEF Referring
<1>2. Referring(s)' = Referring(s) \ F /\ F \subseteq Frame
  BY DEF Referring
<1>3. IsFiniteSet(Referring(s)) /\ IsFiniteSet(F)
  BY <1>2, FramesFinite DEF Referring
<1>4. Cardinality(Referring(s) \ F) = Cardinality(Referring(s)) - Cardinality(Referring(s) \cap F)
  BY <1>3, FS_Difference
<1>5. Referring(s) \cap F = F
  OBVIOUS
<1>6. RefsCount'
  BY <1>1, <1>2, <1>4, <1>5 DEF RefsCount, TypeOK
<1>7. \A r \in Surface : Referring(r)' \in SUBSET Frame
  BY DEF Referring
<1>8. \A r \in Surface : refs'[r] \in 0 .. Cardinality(Frame)
  BY <1>6, <1>7, FramesFinite DEF RefsCount
<1> QED BY <1>6, <1>8 DEF TypeOK

--------------------------------------------------------------------------------
(* The actions of the graphics thread. *)

\* With every gate open nobody waits.
LEMMA OpenGates ==
  ASSUME GateInv, closed = {}
  PROVE  stopper = "running" /\ layout = "idle" /\ ~prepare
BY DEF GateInv

\* Shutting the gate of stop_rendering, which a failure does, disturbs nobody.
LEMMA KeptGates ==
  ASSUME GateInv, UNCHANGED <<refs, mainVars>>,
         closed' \in {closed, closed \cup {"stop"}}
  PROVE  GateInv'
BY DEF GateInv, mainVars, Idle

LEMMA RenderFrameInv ==
  ASSUME Inv, NEW s \in Surface, RenderFrame(s)
  PROVE  Inv'
<1>0. TypeOK /\ RefsCount /\ GateInv
  BY DEF Inv
<1>1. /\ closed' \in SUBSET Gate
      /\ failed' \in BOOLEAN
      /\ contexts' \in SUBSET Surface
      /\ resetPending' \in BOOLEAN
  BY <1>0 DEF TypeOK, RenderFrame, Acquire, Fail, NoFail, Gate
<1>2. /\ UNCHANGED <<viewer, encoder, disposal, caps, adverts, initable, stopper, layout,
                     prepare, phase>>
      /\ wanted' \in SUBSET Surface /\ armed' \in SUBSET Surface /\ render' \in BOOLEAN
  BY <1>0 DEF TypeOK, RenderFrame, resetVars, mainVars
<1>3. stopper' = "running" /\ layout' = "idle" /\ ~prepare'
  BY <1>0, <1>2, OpenGates DEF RenderFrame
<1>4. /\ stage' \in [Frame -> Stages]
      /\ RefsCount'
      /\ refs' \in [Surface -> 0 .. Cardinality(Frame)]
  <2>1. CASE Acquire(s, FALSE) /\ UNCHANGED stage
    <3>1. refs' = refs
      BY <2>1 DEF Acquire
    <3> QED BY <1>0, <2>1, <3>1, KeptRefs DEF TypeOK, Stages
  <2>2. CASE Acquire(s, TRUE) /\ stage' # stage
    <3>1. PICK f \in In(s, {"none"}) :
            stage' = [g \in Frame |-> CASE g = f -> "queued"
                                        [] g \in In(s, {"queued"}) -> "finalized"
                                        [] OTHER -> stage[g]]
      BY <2>2 DEF RenderFrame
    <3>2. f \in Frame /\ SurfaceOf[f] = s /\ stage[f] = "none"
      BY DEF In
    <3>3. refs' = [refs EXCEPT ![s] = @ + 1]
      BY <2>2 DEF Acquire
    <3>4. stage'[f] # "none"
      BY <3>1, <3>2
    <3>5. \A g \in Frame \ {f} : stage'[g] = "none" <=> stage[g] = "none"
      BY <3>1 DEF In
    <3>6. stage' \in [Frame -> Stages]
      BY <1>0, <3>1 DEF TypeOK, Stages
    <3> QED BY <1>0, <3>2, <3>3, <3>4, <3>5, <3>6, BegunRefs
  <2>3. Acquire(s, TRUE) => stage' # stage
    <3>1. ASSUME NEW f \in In(s, {"none"}),
                 stage' = [g \in Frame |-> CASE g = f -> "queued"
                                             [] g \in In(s, {"queued"}) -> "finalized"
                                             [] OTHER -> stage[g]]
          PROVE  stage'[f] # stage[f]
      BY <3>1 DEF In
    <3> QED BY <3>1 DEF RenderFrame, Acquire
  <2> QED BY <2>1, <2>2, <2>3 DEF RenderFrame
<1>5. GateInv'
  <2>1. "inhibit" \notin closed'
    BY DEF RenderFrame, Acquire, Fail, NoFail
  <2> QED BY <1>3, <2>1 DEF GateInv
<1> QED BY <1>0, <1>1, <1>2, <1>4, <1>5 DEF Inv, TypeOK, Stages

LEMMA UpgradeFrameInv ==
  ASSUME Inv, NEW s \in Surface, UpgradeFrame(s)
  PROVE  Inv'
<1>0. TypeOK /\ RefsCount /\ GateInv
  BY DEF Inv
<1>1. UNCHANGED <<closed, failed, wanted, armed, disposal, caps, adverts, initable, stopper,
                  layout, prepare, phase>>
  BY DEF UpgradeFrame, resetVars, mainVars
<1>2. /\ contexts' \in SUBSET Surface /\ resetPending' \in BOOLEAN /\ render' \in BOOLEAN
      /\ viewer' \in [Surface -> Frame \cup {NoFrame}]
      /\ encoder' \in [Surface -> Frame \cup {NoFrame}]
  <2>1. CASE resetPending
    BY <1>0, <2>1 DEF UpgradeFrame, TypeOK, frameVars
  <2>2. CASE ~resetPending
    <3>1. PICK f \in In(s, {"none"}) : viewer' = [viewer EXCEPT ![s] = f]
      BY <2>2 DEF UpgradeFrame
    <3>2. UNCHANGED <<contexts, encoder>> /\ render' = TRUE /\ resetPending' = FALSE
      BY <2>2 DEF UpgradeFrame
    <3> QED BY <1>0, <3>1, <3>2 DEF TypeOK, In
  <2> QED BY <2>1, <2>2
<1>3. stage' \in [Frame -> Stages] /\ RefsCount' /\ refs' \in [Surface -> 0 .. Cardinality(Frame)]
  <2>1. CASE resetPending
    <3>1. UNCHANGED <<refs, stage>>
      BY <2>1 DEF UpgradeFrame, frameVars
    <3> QED BY <1>0, <3>1, KeptRefs DEF TypeOK, Stages
  <2>2. CASE ~resetPending
    <3>1. PICK f \in In(s, {"none"}) : stage' = [stage EXCEPT ![f] = "viewed"]
      BY <2>2 DEF UpgradeFrame
    <3>2. f \in Frame /\ SurfaceOf[f] = s /\ stage[f] = "none"
      BY DEF In
    <3>3. refs' = [refs EXCEPT ![s] = @ + 1]
      BY <2>2 DEF UpgradeFrame
    <3>4. stage'[f] # "none" /\ \A g \in Frame \ {f} : stage'[g] = "none" <=> stage[g] = "none"
      BY <1>0, <3>1, <3>2 DEF TypeOK
    <3>5. stage' \in [Frame -> Stages]
      BY <1>0, <3>1 DEF TypeOK, Stages
    <3> QED BY <1>0, <3>2, <3>3, <3>4, <3>5, BegunRefs
  <2> QED BY <2>1, <2>2
<1>4. GateInv'
  <2>1. closed = {} /\ stopper = "running" /\ layout = "idle" /\ ~prepare
    BY <1>0, OpenGates DEF UpgradeFrame
  <2> QED BY <1>1, <2>1 DEF GateInv
<1> QED BY <1>0, <1>1, <1>2, <1>3, <1>4 DEF Inv, TypeOK, Stages

\* A frame was finalized, so nobody has been told yet that rendering came to rest, and
\* whoever waits for it is told when the last count is dropped, not before.
LEMMA UnrefObjectsInv ==
  ASSUME Inv, NEW s \in Surface, UnrefObjects(s)
  PROVE  Inv'
<1>0. TypeOK /\ RefsCount /\ GateInv
  BY DEF Inv
<1>1. UNCHANGED <<closed, failed, resetPending, contexts, viewer, encoder, render, wanted,
                  armed, disposal, caps, adverts, layout, phase>>
  BY DEF UnrefObjects, sourceVars
<1> DEFINE F == In(s, {"finalized"})
<1>2. F \in SUBSET Referring(s) /\ F # {}
  BY DEF UnrefObjects, In, Referring
<1>3. stage' \in [Frame -> Stages]
  BY <1>0 DEF UnrefObjects, TypeOK, Stages
<1>4. RefsCount' /\ refs' \in [Surface -> 0 .. Cardinality(Frame)]
  <2>1. refs' = [refs EXCEPT ![s] = @ - Cardinality(F)]
    BY DEF UnrefObjects
  <2>2. F \in SUBSET Frame
    BY DEF In
  <2>3. stage' = [f \in Frame |-> IF f \in F THEN "none" ELSE stage[f]]
    BY DEF UnrefObjects
  <2>4. (\A f \in F : stage'[f] = "none") /\ \A f \in Frame \ F : stage'[f] = stage[f]
    <3> HIDE DEF F
    <3> QED BY <2>2, <2>3
  <2> HIDE DEF F
  <2> QED BY <1>0, <1>2, <2>1, <2>4, EndedRefs
<1>5. ~Idle
  <2>1. PICK f \in Frame : stage[f] = "finalized"
    BY <1>2 DEF In
  <2> QED BY <1>0, <2>1, IdleNoFrames
<1>6. stopper # "stopped" /\ ~prepare /\ layout # "preparing"
  BY <1>0, <1>5 DEF GateInv
<1>7. /\ stopper' \in {stopper, "woken"} /\ (stopper' # stopper => "stop" \in closed)
      /\ stopper' # "stopped"
  BY <1>6 DEF UnrefObjects
<1>8. prepare' = (Idle' /\ "inhibit" \in closed) /\ initable' \in BOOLEAN
  BY <1>0, <1>6 DEF UnrefObjects, SignalIdle, TypeOK
<1>9. layout \in {"idle", "awaiting"} /\ prepare' \in BOOLEAN
  BY <1>0, <1>6, <1>8 DEF TypeOK, Idle
<1>10. GateInv'
  BY <1>0, <1>1, <1>6, <1>7, <1>8, <1>9 DEF GateInv
<1> QED BY <1>0, <1>1, <1>3, <1>4, <1>7, <1>8, <1>9, <1>10 DEF Inv, TypeOK, Stages

\* fetch_rendered_frames, maybe_start_encodings, maybe_start_view_creations and the end of
\* render_surfaces move frames on, but drop no count and change no gate but "stop".
LEMMA RenderSurfacesInv ==
  ASSUME Inv, RenderSurfaces
  PROVE  Inv'
<1>0. TypeOK /\ RefsCount /\ GateInv /\ RendererAssumption
  BY RendererAssumption DEF Inv
<1>1. UNCHANGED <<resetPending, contexts, refs, wanted, disposal, resetVars, mainVars>>
  BY DEF RenderSurfaces, FetchRenderedFrames, StartEncodings, StartViews, FinishRendering
<1>2. closed' \in {closed, closed \cup {"stop"}} /\ failed' \in BOOLEAN
  BY <1>0 DEF RenderSurfaces, FetchRenderedFrames, StartEncodings, StartViews, FinishRendering,
              NoFail, Fail, TypeOK
<1>3. /\ phase' \in {"idle", "fetched", "encoding", "views", "dispatched", "resetting", "ready"}
      /\ render' \in BOOLEAN
  BY <1>0 DEF RenderSurfaces, FetchRenderedFrames, StartEncodings, StartViews, FinishRendering,
              TypeOK
<1>4. /\ armed' \in SUBSET Surface
      /\ stage' \in [Frame -> Stages]
      /\ viewer' \in [Surface -> Frame \cup {NoFrame}]
      /\ encoder' \in [Surface -> Frame \cup {NoFrame}]
      /\ \A f \in Frame : stage'[f] = "none" <=> stage[f] = "none"
  <2>1. CASE FetchRenderedFrames
    BY <1>0, <2>1 DEF FetchRenderedFrames, Released, At, TypeOK, Stages, RendererAssumption
  <2>2. CASE StartEncodings
    BY <1>0, <2>2 DEF StartEncodings, EncodingsBegin, Released, Acquirer, At, TypeOK, Stages, frameVars,
                      RendererAssumption
  <2>3. CASE StartViews
    BY <1>0, <2>3 DEF StartViews, Acquirer, At, PickedUp, TypeOK, Stages, frameVars,
                      RendererAssumption
  <2>4. CASE FinishRendering
    BY <1>0, <2>4 DEF FinishRendering, Freed, Released, At, TypeOK, Stages, RendererAssumption
  <2> QED BY <2>1, <2>2, <2>3, <2>4 DEF RenderSurfaces
<1>5. RefsCount'
  BY <1>0, <1>1, <1>4, KeptRefs
<1>6. GateInv'
  BY <1>0, <1>1, <1>2, KeptGates
<1>7. closed' \in SUBSET Gate
  BY <1>0, <1>2 DEF TypeOK, Gate
<1> QED BY <1>0, <1>1, <1>2, <1>3, <1>4, <1>5, <1>6, <1>7
        DEF Inv, TypeOK, Stages, resetVars, mainVars

--------------------------------------------------------------------------------
(* The inductive invariant. *)

LEMMA InvInit ==
  ASSUME Init
  PROVE  Inv
<1>1. TypeOK
  <2>1. 0 \in 0 .. Cardinality(Frame)
    BY FramesFinite
  <2>2. refs \in [Surface -> 0 .. Cardinality(Frame)] /\ adverts \in 0 .. MaxAdverts
    BY <2>1, RendererAssumption DEF Init
  <2> QED BY <2>2 DEF Init, TypeOK, Gate
<1>2. RefsCount
  <2>1. \A s \in Surface : Referring(s) = {}
    BY DEF Init, Referring
  <2> QED BY <2>1, FS_EmptySet DEF Init, RefsCount
<1>3. GateInv
  BY DEF Init, GateInv
<1> QED BY <1>1, <1>2, <1>3 DEF Inv

LEMMA InvNext ==
  ASSUME Inv, [Next]_vars
  PROVE  Inv'
<1>0. TypeOK /\ RefsCount /\ GateInv
  BY DEF Inv
<1> DEFINE KeepsFrames == UNCHANGED <<refs, frameVars>>
<1>1. ASSUME KeepsFrames
      PROVE  RefsCount' /\ (Idle' <=> Idle)
  BY <1>0, <1>1, KeptRefs DEF frameVars, Idle
<1>2. CASE \E s \in Surface : RenderNothing(s)
  <2>1. KeepsFrames /\ UNCHANGED mainVars /\ UNCHANGED closed
    BY <1>2 DEF RenderNothing
  <2>2. TypeOK'
    BY <1>0, <1>2 DEF RenderNothing, TypeOK, frameVars, resetVars, mainVars
  <2>3. GateInv'
    BY <1>0, <2>1, KeptGates
  <2> QED BY <1>1, <2>1, <2>2, <2>3 DEF Inv
<1>3. CASE \E s \in Surface : RenderFrame(s)
  BY <1>3, RenderFrameInv
<1>4. CASE \E s \in Surface : UpgradeFrame(s)
  BY <1>4, UpgradeFrameInv
<1>5. CASE \E s \in Surface : UnrefObjects(s)
  BY <1>5, UnrefObjectsInv
<1>6. CASE DisposeSurfaces
  <2>1. KeepsFrames /\ UNCHANGED mainVars /\ UNCHANGED closed
    BY <1>6 DEF DisposeSurfaces
  <2>2. TypeOK'
    BY <1>0, <1>6 DEF DisposeSurfaces, TypeOK, frameVars, resetVars, mainVars
  <2>3. GateInv'
    BY <1>0, <2>1, KeptGates
  <2> QED BY <1>1, <2>1, <2>2, <2>3 DEF Inv
<1>7. CASE RenderSurfaces
  BY <1>7, RenderSurfacesInv
<1>8. CASE \E f \in Frame : ViewCreated(f) \/ BitstreamLocked(f)
  <2>1. UNCHANGED <<refs, mainVars, closed>>
    BY <1>8 DEF ViewCreated, BitstreamLocked
  <2>2. \A f \in Frame : stage'[f] = "none" <=> stage[f] = "none"
    BY <1>0, <1>8 DEF ViewCreated, BitstreamLocked, TypeOK
  <2>3. TypeOK'
    BY <1>0, <1>8 DEF ViewCreated, BitstreamLocked, TypeOK, resetVars, mainVars
  <2>4. RefsCount'
    BY <1>0, <2>1, <2>2, KeptRefs
  <2>5. GateInv'
    BY <1>0, <2>1, KeptGates
  <2> QED BY <2>3, <2>4, <2>5 DEF Inv
<1>9. CASE CapsAdvertise \/ Reset
  <2>1. KeepsFrames /\ UNCHANGED mainVars
    BY <1>9 DEF CapsAdvertise, Reset, ResetDispatch, ResetBegin, ResetReady, ResetRecheck
  <2>2. closed' \in {closed, closed \cup {"init"}, closed \ {"init"}}
    BY <1>9 DEF CapsAdvertise, NotifyReset, Reset, ResetDispatch, ResetBegin, ResetReady,
                ResetRecheck
  <2>3. TypeOK'
    <3>1. CASE CapsAdvertise
      BY <1>0, <3>1, RendererAssumption
         DEF CapsAdvertise, NotifyReset, Idle, TypeOK, Gate, frameVars, sourceVars, mainVars
    <3>2. CASE Reset
      BY <1>0, <3>2
         DEF Reset, ResetDispatch, ResetBegin, ResetReady, ResetRecheck, NotifyReset, Idle,
             TypeOK, Gate, frameVars, sourceVars, resetVars, mainVars
    <3> QED BY <1>9, <3>1, <3>2
  <2>4. GateInv'
    BY <1>0, <1>1, <2>1, <2>2 DEF GateInv, mainVars
  <2> QED BY <1>1, <2>1, <2>3, <2>4 DEF Inv
<1>10. CASE \E suppress \in BOOLEAN : SuppressOutput(suppress)
  <2>1. KeepsFrames /\ UNCHANGED mainVars
    BY <1>10 DEF SuppressOutput
  <2>2. closed' \in {closed \cup {"suppress"}, closed \ {"suppress"}}
    BY <1>10 DEF SuppressOutput
  <2>3. TypeOK'
    BY <1>0, <1>10 DEF SuppressOutput, TypeOK, Gate, frameVars, resetVars, mainVars
  <2>4. GateInv'
    BY <1>0, <1>1, <2>1, <2>2 DEF GateInv, mainVars
  <2> QED BY <1>1, <2>1, <2>3, <2>4 DEF Inv
<1>11. CASE \E s \in Surface : SubmitBuffer(s) \/ ReleaseSurface(s)
  <2>1. KeepsFrames /\ UNCHANGED mainVars /\ UNCHANGED closed
    BY <1>11 DEF SubmitBuffer, ReleaseSurface
  <2>2. TypeOK'
    BY <1>0, <1>11 DEF SubmitBuffer, ReleaseSurface, TypeOK, frameVars, resetVars, mainVars
  <2>3. GateInv'
    BY <1>0, <2>1, KeptGates
  <2> QED BY <1>1, <2>1, <2>2, <2>3 DEF Inv
<1>12. CASE Inhibit \/ FinishPreparation \/ StartRendering
  <2>1. KeepsFrames
    BY <1>12 DEF Inhibit, FinishPreparation, StartRendering
  <2>2. TypeOK'
    <3>1. CASE Inhibit
      BY <1>0, <3>1 DEF Inhibit, Idle, TypeOK, Gate, frameVars, sourceVars, resetVars
    <3>2. CASE FinishPreparation
      BY <1>0, <3>2 DEF FinishPreparation, TypeOK, frameVars, sourceVars, resetVars
    <3>3. CASE StartRendering
      BY <1>0, <3>3 DEF StartRendering, TypeOK, frameVars, resetVars
    <3> QED BY <1>12, <3>1, <3>2, <3>3
  <2>3. GateInv'
    <3>1. Idle' <=> Idle
      BY <1>1, <2>1
    <3>2. CASE Inhibit
      BY <1>0, <3>1, <3>2, Zenon DEF Inhibit, GateInv
    <3>3. CASE FinishPreparation
      BY <1>0, <3>1, <3>3 DEF FinishPreparation, GateInv
    <3>4. CASE StartRendering
      BY <1>0, <3>1, <3>4 DEF StartRendering, GateInv
    <3> QED BY <1>12, <3>2, <3>3, <3>4
  <2> QED BY <1>1, <2>1, <2>2, <2>3 DEF Inv
<1>13. CASE StopRendering \/ StopWakes
  <2>1. KeepsFrames
    BY <1>13 DEF StopRendering, StopWakes
  <2>2. TypeOK'
    <3>1. stopper' \in {"asleep", "stopped"} /\ closed' \in {closed, closed \cup {"stop"}}
      BY <1>13 DEF StopRendering, StopWakes
    <3>2. UNCHANGED <<failed, resetPending, contexts, refs, frameVars, sourceVars, resetVars,
                      layout, prepare, phase>>
      BY <1>13 DEF StopRendering, StopWakes
    <3> QED BY <1>0, <3>1, <3>2 DEF TypeOK, Gate, frameVars, sourceVars, resetVars
  <2>3. GateInv'
    BY <1>0, <1>1, <1>13, <2>1 DEF StopRendering, StopWakes, GateInv
  <2> QED BY <1>1, <2>1, <2>2, <2>3 DEF Inv
<1>14. CASE UNCHANGED vars
  <2>1. KeepsFrames /\ UNCHANGED mainVars /\ UNCHANGED closed
    BY <1>14 DEF vars
  <2>2. TypeOK'
    BY <1>0, <1>14 DEF vars, frameVars, sourceVars, resetVars, mainVars, TypeOK
  <2>3. GateInv'
    BY <1>0, <2>1, KeptGates
  <2> QED BY <1>1, <2>1, <2>2, <2>3 DEF Inv
<1> QED BY <1>2, <1>3, <1>4, <1>5, <1>6, <1>7, <1>8, <1>9, <1>10, <1>11, <1>12, <1>13, <1>14
        DEF Next

LEMMA InvCorrect == Spec => []Inv
BY InvInit, InvNext, PTL DEF Spec

--------------------------------------------------------------------------------
(* The theorems. *)

\* Every variable keeps its type: no count of a render context gets below zero or above
\* the number of frames (acquired_render_contexts).
THEOREM TypeCorrect == Spec => []TypeOK
<1>1. Inv => TypeOK
  BY DEF Inv
<1> QED BY <1>1, InvCorrect, PTL

\* Once stop_rendering returned no frame is left, the layout manager prepares a new layout
\* only while rendering is inhibited and at rest, and it is told so only while it waits for
\* it (grd_rdp_renderer_dispose, finish_layout_change_preparation).
THEOREM GatesCorrect == Spec => []GatesHold
<1>1. ASSUME Inv
      PROVE  GatesHold
  <2>1. RefsCount /\ GateInv
    BY <1>1 DEF Inv
  <2>2. StoppedIsQuiet
    BY <2>1, IdleNoFrames DEF StoppedIsQuiet, GateInv, At
  <2>3. InhibitedIsQuiet /\ InhibitionDoneExpected
    BY <2>1 DEF InhibitedIsQuiet, InhibitionDoneExpected, GateInv
  <2> QED BY <2>2, <2>3 DEF GatesHold
<1> QED BY <1>1, InvCorrect, PTL

--------------------------------------------------------------------------------
(* View creators and encode sessions. *)

\* CreatorsServeFrames, frame by frame.
ServeInv ==
  /\ \A f \in Frame :
       /\ stage[f] \in {"creating", "viewed"} => viewer[SurfaceOf[f]] = f
       /\ stage[f] \in {"encoding", "encoded"} => encoder[SurfaceOf[f]] = f
  /\ \A s \in Surface :
       /\ viewer[s] # NoFrame =>
            \/ "stop" \in closed
            \/ SurfaceOf[viewer[s]] = s /\ stage[viewer[s]] \in {"creating", "viewed"}
       /\ encoder[s] # NoFrame =>
            SurfaceOf[encoder[s]] = s /\ stage[encoder[s]] \in {"encoding", "encoded"}
  /\ \A f, g \in At({"queued"}) : SurfaceOf[f] = SurfaceOf[g] => f = g

LEMMA RenderFrameServes ==
  ASSUME TypeOK, ServeInv, NEW s \in Surface, RenderFrame(s)
  PROVE  ServeInv'
<1>1. UNCHANGED <<viewer, encoder>> /\ closed = {}
  BY DEF RenderFrame
<1>2. CASE stage' = stage
  BY <1>1, <1>2 DEF ServeInv, At
<1>3. CASE stage' # stage
  <2>1. PICK f \in In(s, {"none"}) :
          stage' = [g \in Frame |-> CASE g = f -> "queued"
                                      [] g \in In(s, {"queued"}) -> "finalized"
                                      [] OTHER -> stage[g]]
    BY <1>3 DEF RenderFrame
  <2>2. f \in Frame /\ SurfaceOf[f] = s /\ stage[f] = "none" /\ stage'[f] = "queued"
    BY <2>1 DEF In
  <2>3. \A g \in Frame \ {f} :
          \/ stage[g] = "queued" /\ SurfaceOf[g] = s /\ stage'[g] = "finalized"
          \/ stage'[g] = stage[g] /\ (stage[g] = "queued" => SurfaceOf[g] # s)
    BY <2>1 DEF In
  <2>4. \A g \in Frame : \A p \in {"creating", "viewed", "encoding", "encoded"} :
          stage'[g] = p <=> stage[g] = p
    BY <2>2, <2>3
  <2>5. \A g, h \in At({"queued"})' : SurfaceOf[g] = SurfaceOf[h] => g = h
    BY <2>2, <2>3 DEF ServeInv, At
  <2>6. \A r \in Surface :
          /\ viewer[r] \in Frame \cup {NoFrame}
          /\ encoder[r] \in Frame \cup {NoFrame}
    BY DEF TypeOK
  <2> QED BY <1>1, <2>4, <2>5, <2>6 DEF ServeInv
<1> QED BY <1>2, <1>3

LEMMA UpgradeFrameServes ==
  ASSUME TypeOK, ServeInv, NEW s \in Surface, UpgradeFrame(s)
  PROVE  ServeInv'
<1>1. closed = {} /\ UNCHANGED <<closed, encoder>>
  BY DEF UpgradeFrame, frameVars
<1>2. CASE UNCHANGED <<stage, viewer>>
  BY <1>1, <1>2 DEF ServeInv, At
<1>3. CASE ~UNCHANGED <<stage, viewer>>
  <2>1. PICK f \in In(s, {"none"}) : /\ stage' = [stage EXCEPT ![f] = "viewed"]
                                     /\ viewer' = [viewer EXCEPT ![s] = f]
    BY <1>3 DEF UpgradeFrame, frameVars
  <2>2. f \in Frame /\ SurfaceOf[f] = s /\ stage[f] = "none"
    BY DEF In
  <2>3. In(s, {"creating", "viewed", "encoding", "encoded", "rendered"}) = {}
    <3> DEFINE U == In(s, {"creating", "viewed", "encoding", "encoded", "rendered"})
    <3>1. IsFiniteSet(U) /\ Cardinality(U) = 0
      BY FramesFinite DEF UpgradeFrame, UsedSlots, In
    <3>2. U = {}
      <4> HIDE DEF U
      <4> QED BY <3>1, FS_EmptySet
    <3> QED BY <3>2
  <2>4. \A g \in Frame : SurfaceOf[g] = s => stage[g] \notin {"creating", "viewed"}
    BY <2>3 DEF In
  <2> QED BY <1>1, <2>1, <2>2, <2>4, RendererAssumption DEF ServeInv, At, TypeOK
<1> QED BY <1>2, <1>3

\* The steps of render_surfaces.
LEMMA RenderSurfacesServes ==
  ASSUME TypeOK, ServeInv, RenderSurfaces
  PROVE  ServeInv'
<1>1. CASE FetchRenderedFrames
  <2>1. UNCHANGED <<closed, viewer>> /\ encoder' = Released(encoder, At({"encoded"}))
    BY <1>1 DEF FetchRenderedFrames
  <2>2. \A f \in Frame : IF stage[f] = "encoded" THEN stage'[f] \in {"finalized", "rendered"}
                                                 ELSE stage'[f] = stage[f]
    BY <1>1 DEF FetchRenderedFrames, At
  <2> QED BY <2>1, <2>2, RendererAssumption DEF ServeInv, At, Released, TypeOK
<1>2. CASE StartEncodings /\ UNCHANGED frameVars
  BY <1>2 DEF StartEncodings, NoFail, Fail, ServeInv, At, frameVars
<1>3. CASE StartEncodings /\ ~UNCHANGED frameVars
  <2>1. PICK started, ended \in SUBSET At({"viewed"}) :
          /\ ended \cap started = {}
          /\ \A f \in started : EncoderFree(f)
          /\ EncodingsBegin(started, ended)
    BY <1>3 DEF StartEncodings
  <2>2. closed' \in {closed, closed \cup {"stop"}}
    BY <1>3 DEF StartEncodings, NoFail, Fail
  <2>3. \A s \in Surface :
          \/ /\ \E f \in started : SurfaceOf[f] = s /\ encoder'[s] = f
             /\ encoder[s] = NoFrame
          \/ (\A f \in started : SurfaceOf[f] # s) /\ encoder'[s] = encoder[s]
    BY <2>1 DEF EncodingsBegin, Acquirer, EncoderFree
  <2>4. \A f, g \in started : SurfaceOf[f] = SurfaceOf[g] => f = g
    BY <2>1 DEF ServeInv, At
  <2>5. \A f \in started : encoder'[SurfaceOf[f]] = f
    BY <2>1, <2>3, <2>4, RendererAssumption DEF At
  <2>6. \A s \in Surface : viewer'[s] = IF viewer[s] \in ended \cup started THEN NoFrame
                                                                         ELSE viewer[s]
    BY <2>1 DEF EncodingsBegin, Released
  <2>7. \A f \in Frame :
          /\ f \in ended => stage[f] = "viewed" /\ stage'[f] = "finalized"
          /\ f \in started => stage[f] = "viewed" /\ stage'[f] = "encoding"
          /\ f \notin ended \cup started => stage'[f] = stage[f]
    BY <2>1 DEF EncodingsBegin, At
  <2>8. ended \subseteq Frame /\ started \subseteq Frame
    BY DEF At
  <2> QED BY <2>2, <2>3, <2>5, <2>6, <2>7, <2>8, RendererAssumption DEF ServeInv, At, TypeOK
<1>4. CASE StartViews
  <2>1. CASE UNCHANGED <<stage, viewer, encoder, closed>>
    BY <2>1 DEF ServeInv, At
  <2>2. CASE ~UNCHANGED <<stage, viewer, encoder, closed>>
    <3>1. PICK walked, broken \in SUBSET {f \in Frame : PickedUp(f)} :
            /\ broken \subseteq walked
            /\ broken # {} => closed' = closed \cup {"stop"}
            /\ broken = {} => closed' = closed
            /\ stage' = [f \in Frame |-> CASE f \in broken -> "finalized"
                                           [] f \in walked \ broken -> "creating"
                                           [] OTHER -> stage[f]]
            /\ viewer' = [s \in Surface |-> Acquirer(viewer, s, walked)]
            /\ encoder' = encoder
      BY <1>4, <2>2 DEF StartViews, NoFail, Fail, frameVars
    <3>2. \A s \in Surface :
            \/ /\ \E f \in walked : SurfaceOf[f] = s /\ viewer'[s] = f
               /\ viewer[s] = NoFrame
            \/ (\A f \in walked : SurfaceOf[f] # s) /\ viewer'[s] = viewer[s]
      BY <3>1 DEF Acquirer, PickedUp
    <3>3. \A f, g \in walked : SurfaceOf[f] = SurfaceOf[g] => f = g
      BY <3>1 DEF ServeInv, PickedUp
    <3>4. \A f \in walked : viewer'[SurfaceOf[f]] = f
      BY <3>2, <3>3, RendererAssumption
    <3>5. \A f \in Frame :
            /\ f \in broken => stage[f] = "queued" /\ stage'[f] = "finalized"
            /\ f \in walked \ broken => stage[f] = "queued" /\ stage'[f] = "creating"
            /\ f \notin walked => stage'[f] = stage[f]
      BY <3>1 DEF PickedUp, At
    <3> QED BY <3>1, <3>2, <3>4, <3>5, RendererAssumption DEF ServeInv, At, TypeOK
  <2> QED BY <2>1, <2>2
<1>5. CASE FinishRendering
  <2>1. PICK pending \in SUBSET At({"queued", "viewed", "encoded"}) :
          /\ pending \in {{}, At({"queued", "viewed", "encoded"})}
          /\ stage' = [f \in Frame |-> IF f \in At({"rendered"}) \cup pending THEN "finalized"
                                                                             ELSE stage[f]]
          /\ viewer' = Released(viewer, pending)
          /\ encoder' = Released(encoder, pending)
    BY <1>5 DEF FinishRendering, Freed
  <2>2. closed' \in {closed, closed \cup {"stop"}}
    BY <1>5 DEF FinishRendering, NoFail, Fail
  <2>3. \A f \in Frame :
          IF f \in pending THEN stage'[f] = "finalized"
          ELSE stage'[f] = stage[f] \/ (stage[f] = "rendered" /\ stage'[f] = "finalized")
    BY <2>1 DEF At
  <2>4. \A s \in Surface :
          /\ viewer'[s] = IF viewer[s] \in pending THEN NoFrame ELSE viewer[s]
          /\ encoder'[s] = IF encoder[s] \in pending THEN NoFrame ELSE encoder[s]
    BY <2>1 DEF Released
  <2> QED BY <2>2, <2>3, <2>4, RendererAssumption DEF ServeInv, At, TypeOK
<1> QED BY <1>1, <1>2, <1>3, <1>4, <1>5 DEF RenderSurfaces

\* No other step picks up a frame or gives a creator or an encoder back.
LEMMA ServeNext ==
  ASSUME TypeOK, ServeInv, [Next]_vars
  PROVE  ServeInv'
<1>1. CASE UNCHANGED frameVars /\ ("stop" \in closed => "stop" \in closed')
  BY <1>1 DEF ServeInv, At, frameVars
<1>2. CASE \E s \in Surface : RenderFrame(s)
  BY <1>2, RenderFrameServes
<1>3. CASE \E s \in Surface : UpgradeFrame(s)
  BY <1>3, UpgradeFrameServes
<1>4. CASE RenderSurfaces
  BY <1>4, RenderSurfacesServes
<1>5. CASE \E s \in Surface : UnrefObjects(s)
  <2>1. UNCHANGED <<closed, viewer, encoder>>
    BY <1>5 DEF UnrefObjects
  <2>2. \A f \in Frame : stage'[f] = stage[f] \/ (stage[f] = "finalized" /\ stage'[f] = "none")
    BY <1>5 DEF UnrefObjects, In
  <2> QED BY <2>1, <2>2 DEF ServeInv, At, TypeOK
<1>6. CASE \E f \in Frame : ViewCreated(f) \/ BitstreamLocked(f)
  <2>1. UNCHANGED <<closed, viewer, encoder>>
    BY <1>6 DEF ViewCreated, BitstreamLocked
  <2>2. \A f \in Frame : \/ stage'[f] = stage[f]
                         \/ stage[f] = "creating" /\ stage'[f] = "viewed"
                         \/ stage[f] = "encoding" /\ stage'[f] = "encoded"
    BY <1>6 DEF ViewCreated, BitstreamLocked, TypeOK
  <2> QED BY <2>1, <2>2 DEF ServeInv, At, TypeOK
<1>7. ASSUME \/ \E s \in Surface : RenderNothing(s) \/ SubmitBuffer(s) \/ ReleaseSurface(s)
             \/ DisposeSurfaces
             \/ CapsAdvertise \/ Reset
             \/ \E suppress \in BOOLEAN : SuppressOutput(suppress)
             \/ Inhibit \/ FinishPreparation \/ StartRendering
             \/ StopRendering \/ StopWakes
             \/ UNCHANGED vars
      PROVE  UNCHANGED frameVars /\ ("stop" \in closed => "stop" \in closed')
  BY <1>7 DEF RenderNothing, SubmitBuffer, ReleaseSurface, DisposeSurfaces, CapsAdvertise, Reset,
              ResetDispatch, ResetBegin, ResetReady, ResetRecheck, NotifyReset, SuppressOutput,
              Inhibit, FinishPreparation, StartRendering, StopRendering, StopWakes, vars
<1> QED BY <1>1, <1>2, <1>3, <1>4, <1>5, <1>6, <1>7 DEF Next

\* A view creator and an encode session serve the frame that acquired them and no other, and
\* of the queued frames of a surface only the newest is left.
THEOREM CreatorsCorrect == Spec => []CreatorsServeFrames
<1>1. Init => ServeInv
  BY DEF Init, ServeInv, At
<1>2. ASSUME TypeOK, ServeInv
      PROVE  CreatorsServeFrames
  <2>1. SUFFICES ASSUME NEW s \in Surface
                 PROVE  Cardinality(In(s, {"queued"})) <= 1
    BY <1>2 DEF ServeInv, CreatorsServeFrames, In, TypeOK
  <2>2. CASE In(s, {"queued"}) = {}
    <3>1. Cardinality({}) = 0
      BY FS_EmptySet
    <3> QED BY <2>2, <3>1
  <2>3. CASE In(s, {"queued"}) # {}
    <3>1. PICK f : f \in In(s, {"queued"})
      BY <2>3
    <3>2. \A g \in In(s, {"queued"}) : g = f
      BY <1>2, <3>1 DEF ServeInv, In, At
    <3>3. In(s, {"queued"}) = {f}
      BY <3>1, <3>2
    <3>4. Cardinality({f}) = 1
      BY FS_Singleton
    <3> QED BY <3>3, <3>4
  <2> QED BY <2>2, <2>3
<1> QED BY <1>1, <1>2, ServeNext, TypeCorrect, PTL DEF Spec
===============================================================================
