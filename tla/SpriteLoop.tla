----------------------------- MODULE SpriteLoop -----------------------------
(***************************************************************************)
(* An animation that does nothing but roll its sprite, like the loops of   *)
(* FlyingBoxes: where the sprite gets to.                                  *)
(***************************************************************************)
EXTENDS CubeSprite

VARIABLE rolling  \* the axis and the direction of its calls

loopVars == <<spriteVars, rolling>>

LoopInit == SpriteInit /\ rolling \in Axis \X {0, 1}

Loop == sprite_roll(rolling[1], rolling[2]) /\ UNCHANGED rolling

LoopSpec == LoopInit /\ [][Loop]_loopVars /\ WF_loopVars(Loop)

-----------------------------------------------------------------------------
TrackKept == OnTrack(rolling[1], rolling[2])

FarStart ==
  LET s == Start(rolling[1], rolling[2]) IN place[s.at] <= Side - 1 - size[s.by]

\* A sprite on its track goes round: it reaches every wall again and again.
\* However else it moved before, a sprite that is not yet at the wall its start
\* looks at is inside for good in the end, even if its first step led outside.
RollsRound ==
  /\ \A n \in 1 .. 4 :
       [](TrackKept => <>AtWall(Turns(rolling[1], rolling[2])[n][1]))
  /\ Inside /\ (Rolling(rolling[1], rolling[2]) \/ FarStart) => <>[]Inside
=============================================================================
