-------------------------- MODULE LeverageLPSweep --------------------------
(***************************************************************************)
(* LeverageLP with a record of what the fallback sweep looked at: the      *)
(* positions that were open when the sweep began and have been open since, *)
(* the ones of them it looked at, and the ones it had not looked at when   *)
(* it ended.                                                               *)
(***************************************************************************)
EXTENDS LeverageLP

VARIABLES
    waiting,   \* open since the sweep began and not looked at yet
    missed     \* still waiting when the sweep last ended

sweepVars == <<vars, waiting, missed>>

SweepInit == Init /\ waiting = {} /\ missed = {}

\* The positions still waiting after the sweep's look at a page.
LeftWaiting == ((IF offset = 0 THEN OpenIds ELSE waiting) \ Page) \cap OpenIds'

SweepPage ==
    /\ BeginBlock
    /\ IF Sweeps
       THEN /\ waiting' = LeftWaiting
            /\ missed' = IF offset' = 0 THEN LeftWaiting ELSE missed
       ELSE UNCHANGED <<waiting, missed>>

SweepNext ==
    \/ SweepPage
    \/ BetweenBlocks /\ waiting' = waiting \cap OpenIds' /\ UNCHANGED missed

SweepSpec == SweepInit /\ [][SweepNext]_sweepVars

(***************************************************************************)
(* When the sweep's offset is deleted, every position that was open all    *)
(* the while has been looked at (spec/fallback_system.md).                 *)
(***************************************************************************)
SweepReachesAll == missed = {}
=============================================================================
