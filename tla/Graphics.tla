--------------------------------- MODULE Graphics ---------------------------------
(***************************************************************************)
(* Pictures on their way to the client: how the frames of a surface are    *)
(* created and encoded (FrameEncoding), and what the channel knows of the  *)
(* frames that were sent (GraphicsPipeline).  A behaviour is one of them,  *)
(* as its scenario says: of a frame, the channel looks at its surface and  *)
(* at its number only.                                                     *)
(***************************************************************************)
EXTENDS GraphicsPipeline

CONSTANTS
  Codecs, Tile, MaxPictures \* of FrameEncoding

ASSUME GraphicsAssumption ==
  /\ Codecs \subseteq {"avc444", "avc420", "progressive"}
  /\ IsFiniteSet(Tile) /\ Tile # {}
  /\ MaxPictures \in [Codecs -> Nat]

VARIABLES
  scenario,
  codec, pictures, wanted, lastPicture, hasLast, frames, auxPicture, chroma, canUpgrade, due,
  render, phase, todo, encodes, lockTasks, bitstream, views, buffers, locals, lastLocal, failed,
  stopped, broken, screen

E == INSTANCE FrameEncoding WITH client <- screen

encodingVars == <<codec, pictures, wanted, lastPicture, hasLast, frames, auxPicture, chroma,
                  canUpgrade, due, render, phase, todo, encodes, lockTasks, bitstream, views,
                  buffers, locals, lastLocal, failed, stopped, broken, screen>>
graphicsVars == <<scenario, vars, encodingVars>>

GraphicsInit ==
  /\ scenario \in {"channel", "encoding"}
  /\ Init /\ E!Init
  /\ scenario = "channel" => codec = CHOOSE c \in Codecs : TRUE

OfChannel == scenario = "channel" /\ UNCHANGED <<scenario, encodingVars>>
OfEncoding == scenario = "encoding" /\ UNCHANGED <<scenario, vars>>

GraphicsNext ==
  \/ OfChannel /\ Next
  \/ OfEncoding /\ E!Next

GraphicsSpec == GraphicsInit /\ [][GraphicsNext]_graphicsVars

\* What FairSpec of GraphicsPipeline counts on, and a process whose threads do not all stop while
\* one of them has work: nobody has to submit a buffer or to remove one, and no device to fail.
GraphicsFairSpec ==
  /\ GraphicsSpec
  /\ WF_toClient(Taken(toClient, toClient')) /\ WF_toServer(Taken(toServer, toServer'))
  /\ WF_encodingVars(OfEncoding /\ (E!GraphicsThread \/ E!OtherThreads))

-----------------------------------------------------------------------------
(* Properties *)

GraphicsTypeOK == IF scenario = "channel" THEN TypeOK ELSE E!TypeOK

\* What the channel knows of the frames that were sent: see TablesAgree and SuspensionSound of
\* GraphicsPipeline.
ChannelSound == scenario = "channel" => TablesAgree /\ SuspensionSound

\* The frames on their way: there are views and buffers for all of them, none is encoded or
\* submitted that is not complete, and with them the client follows what the server believes
\* it shows (grd-rdp-render-context.c, grd-rdp-renderer.c).
EncodingSound == scenario = "encoding" => E!PoolsSuffice /\ E!FramesComplete /\ E!ClientFollows

\* A surface without frame slots gets some again or is deleted, and in the end the client shows
\* the last picture with all of its chroma values, or a device failed.
GraphicsSettle == []<>(SuspensionEnded /\ E!EncodingSettled)

\* More pictures, where a frame in each stage of the pipeline shall await the next one.
MCPictures == [c \in Codecs |-> IF c = "progressive" THEN 4 ELSE 3]
================================================================================
