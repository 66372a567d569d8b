-------------------------- MODULE MCCoordination --------------------------
(***************************************************************************)
(* Coordination on a few replicas and pods. The full next-state relation   *)
(* is too large for one instance, so a behaviour plays one of two scenes,  *)
(* which leave out different actions; together they take every action.     *)
(***************************************************************************)
EXTENDS Coordination, TLC

VARIABLE scene

Symmetry == Permutations(Replicas)

\* A sweep whose fences are all answered.
Takeovers(r) ==
  \/ SweepList(r) \/ SweepSkip(r) \/ SweepGet(r) \/ SweepHeld(r) \/ SweepRenew(r)
  \/ SweepTakeover(r) \/ RecordHandoff(r) \/ HandoffRefused(r)
  \/ ReadoptConnect(r) \/ ReadoptFault(r) \/ BackoffElapsed(r)
  \/ FenceRead(r) \/ FenceAccepted(r) \/ FenceRelinquish(r) \/ SweepPublish(r)

\* Takeovers among sweepers, with lost connections, pods and replicas.
SweepersNext ==
  \/ \E r \in Replicas : SweepNext(r) \/ EvictSuperseded(r) \/ FaultNext(r)
  \/ \E p \in Pods : PodLost(p)
  \/ LeaseLapse

\* Takeovers against failure reports and the end of the session. The bound is one
\* takeover: the reports and the end are what is interleaved here.
EndingsMaxGen == 2
EndingsNext ==
  \/ \E r \in Replicas : Takeovers(r) \/ SweepTerminal(r) \/ ReportNext(r) \/ TerminalNext(r)
  \/ RedisExpire /\ UNCHANGED coordVars

ScenesInit == CoordInit /\ scene \in {"sweepers", "endings"}
ScenesNext ==
  /\ (scene = "sweepers" /\ SweepersNext) \/ (scene = "endings" /\ EndingsNext /\ row'.gen <= EndingsMaxGen)
  /\ UNCHANGED scene
ScenesSpec == ScenesInit /\ [][ScenesNext]_<<allCoordVars, scene>>

\* Fair sweepers over leases that expire, crashes and the end of the session; the
\* primary lease store stays up.
LiveNext ==
  \/ \E r \in Replicas : SweepNext(r) \/ TerminalNext(r) \/ BackoffElapsed(r) \/ Crash(r)
  \/ RedisExpire /\ UNCHANGED coordVars
LiveInit == CoordInit /\ scene = "live"
LiveSpec ==
  LiveInit /\ [][LiveNext /\ UNCHANGED scene]_<<allCoordVars, scene>> /\ CoordFairness

\* Fair sweepers whose every store write may fail.
PinningNext == (\E r \in Replicas : SweepNext(r) \/ BackoffElapsed(r)) \/ LeaseLapse
PinningInit == CoordInit /\ scene = "pinning"
PinningSpec ==
  PinningInit /\ [][PinningNext /\ UNCHANGED scene]_<<allCoordVars, scene>> /\ CoordFairness
=============================================================================
