----------------------------- MODULE MCRecovery -----------------------------
(***************************************************************************)
(* Recovery on two replicas and a few pods. As in MCCoordination, a        *)
(* behaviour plays one scene, and a scene leaves out the actions that its  *)
(* question does not need.                                                 *)
(***************************************************************************)
EXTENDS Recovery, TLC

VARIABLE scene

Symmetry == Permutations(Replicas) \cup Permutations(Pods)

Coord(A) == A /\ UNCHANGED recVars
Expiry == RedisExpire /\ UNCHANGED <<coordVars, recVars>>
Scene(s, A) == scene = s /\ A /\ UNCHANGED scene
sceneVars == <<allRecVars, scene>>

\* A session whose pod has failed and whose failure has been reported: no pod of
\* Pods has been claimed for it yet, and its coordinator still has the lease.
RecoveringInit ==
  \E r \in Replicas :
    /\ redis = r /\ pg = NoHolder /\ redisUp = TRUE
    /\ row = [state |-> "resume_pending", gen |-> 1, pod |-> NoPod, retries |-> 0, marked |-> FALSE]
    /\ bind = [s \in Replicas |-> NoBinding]
    /\ slot = [q \in Pods |-> "free"]
    /\ fenced = [q \in Pods |-> 0]
    /\ mirror = NoMirror /\ backoff = {}
    /\ sw = [s \in Replicas |-> SwIdle] /\ rep = [s \in Replicas |-> RepIdle]
    /\ term = [s \in Replicas |-> "idle"]
    /\ at = [s \in Replicas |-> AtIdle] /\ su = [s \in Replicas |-> SuIdle]
    /\ susp = [n |-> 0, idle |-> FALSE]

\* A sweep that renews nothing and meets no fault of its own.
Takeovers(r) ==
  \/ SweepList(r) \/ SweepSkip(r) \/ SweepGet(r) \/ SweepHeld(r) \/ SweepTakeover(r)
  \/ RecordHandoff(r) \/ HandoffRefused(r) \/ ReadoptConnect(r)
  \/ FenceRead(r) \/ FenceAccepted(r) \/ FenceRelinquish(r) \/ SweepPublish(r)

\* Failure reports that retry or wait.
Reports(r) ==
  StreamFailure(r) \/ ReportRead(r) \/ ReportRecovery(r) \/ ReportConflict(r) \/ ReportRelease(r)

-----------------------------------------------------------------------------
(* Resumes against takeovers, from a failed session and from a running one *)
(* whose failure is reported on the way.                                   *)

ResumesNext ==
  \/ \E r \in Replicas :
       \/ AttemptSteps(r) \/ ResumeFails(r) \/ ResumeReport(r) \/ ResumeCommitError(r)
       \/ Coord(SweepList(r) \/ SweepGet(r) \/ SweepTakeover(r) \/ RecordHandoff(r))
       \/ Coord(ReadoptConnect(r) \/ FenceRead(r) \/ FenceAccepted(r) \/ SweepPublish(r))
  \/ WatchdogNext \/ Expiry

ReplacementsNext ==
  \/ \E r \in Replicas :
       \/ AttemptSteps(r) \/ Coord(Reports(r))
       \/ Coord(SweepList(r) \/ SweepGet(r) \/ SweepTakeover(r) \/ RecordHandoff(r))
       \/ Coord(ReadoptConnect(r) \/ FenceRead(r) \/ FenceAccepted(r) \/ SweepPublish(r))
  \/ Expiry

ReplacedInit == (scene = "resumes" /\ RecoveringInit) \/ (scene = "replacements" /\ RecoveryInit)
ReplacedNext == Scene("resumes", ResumesNext) \/ Scene("replacements", ReplacementsNext)
ReplacedSpec == ReplacedInit /\ [][ReplacedNext]_sceneVars

-----------------------------------------------------------------------------
(* What gives a pod back: suspensions against takeovers, and everything    *)
(* one replica does to a session that it keeps. A root parked by its       *)
(* budget and a commit whose outcome is unknown are scenes of their own.   *)

\* The bound is one takeover.
SuspensionsMaxGen == 2
SuspensionsNext ==
  \/ \E r \in Replicas :
       SuspensionNext(r) \/ Coord(Takeovers(r) \/ SweepPodless(r) \/ Reports(r))
  \/ Interrupt \/ ResumeHeldPod \/ Expiry

LocalNext ==
  \/ \E r \in Replicas :
       \/ AttemptSteps(r) \/ AttemptFailures(r) \/ SuspensionNext(r)
       \/ Coord(ReportNext(r) \/ TerminalNext(r))
  \/ ClientNext \/ WatchdogNext
ParkedNext  == LocalNext \/ MarkBudgetUnrecoverable
CommitsNext == LocalNext \/ \E r \in Replicas : ResumeCommitError(r)

ReleasedInit == RecoveryInit /\ scene \in {"suspensions", "parked", "commits"}
ReleasedNext ==
  \/ Scene("suspensions", SuspensionsNext /\ row'.gen <= SuspensionsMaxGen)
  \/ Scene("parked", ParkedNext)
  \/ Scene("commits", CommitsNext)
ReleasedSpec == ReleasedInit /\ [][ReleasedNext]_sceneVars

-----------------------------------------------------------------------------
(* Watched recovery: the replica that restores the session may die at any  *)
(* step, and a peer may take the session over.                             *)

WatchedNext ==
  \/ \E r \in Replicas :
       \/ AttemptSteps(r) \/ ResumeFails(r) \/ ResumeReport(r) \/ RecoveryCrash(r)
       \/ Coord(SweepList(r) \/ SweepGet(r) \/ SweepTakeover(r) \/ RecordHandoff(r))
  \/ WatchdogNext \/ Expiry
WatchedInit == RecoveringInit /\ scene = "watched"
WatchedSpec ==
  /\ WatchedInit
  /\ [][WatchedNext /\ UNCHANGED scene]_sceneVars /\ RecoveryFairness
=============================================================================
