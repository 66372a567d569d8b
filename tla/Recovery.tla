------------------------------ MODULE Recovery ------------------------------
(***************************************************************************)
(* What moves a session between pods. The resume driver restores a         *)
(* resume_pending session on a fresh pod: it claims the pod, writes the    *)
(* resuming entry at the next generation, restores, commits the row to     *)
(* running, fences the pod at that generation and publishes the binding.   *)
(* A suspension gives the pod back while the session stays. Watchdogs bound *)
(* both. All of it runs beside the sweeps, reports and terminal writes of   *)
(* Coordination, on every replica.                                         *)
(***************************************************************************)
EXTENDS Coordination

CONSTANT MaxSuspensions     \* bound: no further suspension is written

ASSUME RecoveryAssumption == MaxSuspensions \in Nat

VARIABLES at,     \* each replica's resume attempt
          su,     \* each replica's suspension release
          susp    \* the row's SuspendedAt and SuspendedReason: n-th suspension, idle or not

recVars    == <<at, su, susp>>
allRecVars == <<allCoordVars, recVars>>

\* An attempt keeps the generation of the row it read, the pod it claimed and
\* whether a try of its commit came back with a store error.
AtIdle == [pc |-> "idle", gen |-> 0, pod |-> NoPod, err |-> FALSE]
\* A release keeps the suspension it is for, the pod the row named and the
\* binding it will release.
SuIdle == [pc |-> "idle", idle |-> FALSE, n |-> 0, pod |-> NoPod, bind |-> NoBinding]

RecoveryInit ==
  /\ CoordInit
  /\ at = [r \in Replicas |-> AtIdle]
  /\ su = [r \in Replicas |-> SuIdle]
  /\ susp = [n |-> 0, idle |-> FALSE]

-----------------------------------------------------------------------------
(* A resume attempt up to its entry write.                                 *)

AtGoto(r, rec) == at' = [at EXCEPT ![r] = rec]
AtEnd(r) == AtGoto(r, AtIdle)
G(r) == at[r].gen + 1

\* What a step of an attempt leaves alone, the row, the slots, the pods'
\* generations and the bindings apart.
AttemptRest == UNCHANGED <<mirror, backoff, sw, rep, term, su, susp>>

\* The watchdog hands every listed row to the driver, which starts one attempt
\* at a time, on the replica that holds the lease.
DriveResume(r) ==
  /\ row.state = "resume_pending" /\ LeaseHolder = r /\ at[r].pc = "idle"
  /\ AtGoto(r, [AtIdle EXCEPT !.pc = "read"])
  /\ AttemptRest /\ UNCHANGED <<leaseVars, row, bind, slot, fenced>>

\* readResumable reads the row from the primary.
ResumeRead(r) ==
  /\ at[r].pc = "read"
  /\ IF row.state = "resume_pending"
       THEN AtGoto(r, [at[r] EXCEPT !.pc = "acquire", !.gen = row.gen])
       ELSE AtEnd(r)
  /\ AttemptRest /\ UNCHANGED <<leaseVars, row, bind, slot, fenced>>

ResumeAcquire(r) ==
  /\ at[r].pc = "acquire"
  /\ AcquireLease(r)
  /\ AtGoto(r, [at[r] EXCEPT !.pc = "rebind"])
  /\ AttemptRest /\ UNCHANGED <<row, bind, slot, fenced>>

IsRecovery(s) == s \in {"resume_pending", "resuming", "awaiting"}

\* clearRecoveryPod on the locked row.
Cleared(w, p) == IF IsRecovery(w.state) /\ w.pod = p THEN [w EXCEPT !.pod = NoPod] ELSE w

\* releaseEarlierBinding, under the session's slot-accounting lock.
ReleaseEarlierBinding(r) ==
  /\ at[r].pc = "rebind" /\ SlotLockFree(r)
  /\ IF Bound(r) THEN row' = Cleared(row, bind[r].pod) /\ ReleaseBinding(r)
                 ELSE UNCHANGED <<row, bind, slot>>
  /\ AtGoto(r, [at[r] EXCEPT !.pc = "claim"])
  /\ AttemptRest /\ UNCHANGED <<leaseVars, fenced>>

ResumeClaim(r) ==
  /\ at[r].pc = "claim"
  /\ \E p \in Pods :
       /\ slot[p] = "free"
       /\ slot' = [slot EXCEPT ![p] = "held"]
       /\ AtGoto(r, [at[r] EXCEPT !.pc = "entry", !.pod = p])
  /\ AttemptRest /\ UNCHANGED <<leaseVars, row, bind, fenced>>

\* Any failure before the claim, a lost Acquire or a cancelled context included,
\* writes nothing.
ResumeStops(r) ==
  /\ at[r].pc \in {"read", "acquire", "rebind", "claim"}
  /\ AtEnd(r)
  /\ AttemptRest /\ UNCHANGED <<leaseVars, row, bind, slot, fenced>>

\* Mutant of EntryGuard: the entry compares the state and not the generation.
EntryOnState(r) == row.state = "resume_pending"

EntryGuard(r) == row.state = "resume_pending" /\ row.gen = at[r].gen

\* entryHook.run: the compare-and-swap that opens the resuming incarnation.
ResumeEntry(r) ==
  /\ at[r].pc = "entry" /\ EntryGuard(r) /\ row.gen < MaxGen
  /\ row' = [row EXCEPT !.state = "resuming", !.gen = @ + 1]
  /\ AtGoto(r, [at[r] EXCEPT !.pc = "restore"])
  /\ AttemptRest /\ UNCHANGED <<leaseVars, bind, slot, fenced>>

\* The entry write misses or fails: the binder releases the claim. A failed
\* write may have reached the row.
ResumeEntryFails(r) ==
  /\ at[r].pc = "entry"
  /\ \/ UNCHANGED row
     \/ EntryGuard(r) /\ row.gen < MaxGen /\ row' = [row EXCEPT !.state = "resuming", !.gen = @ + 1]
  /\ slot' = SlotReleased(at[r].pod)
  /\ AtEnd(r)
  /\ AttemptRest /\ UNCHANGED <<leaseVars, bind, fenced>>

-----------------------------------------------------------------------------
(* The restore, its commit and its tail.                                   *)

ResumeRestored(r) ==
  /\ at[r].pc = "restore"
  /\ AtGoto(r, [at[r] EXCEPT !.pc = "commit"])
  /\ AttemptRest /\ UNCHANGED <<leaseVars, row, bind, slot, fenced>>

\* The restore fails or its context is cancelled: the claim goes first.
ResumeFails(r) ==
  /\ at[r].pc = "restore"
  /\ slot' = SlotReleased(at[r].pod)
  /\ AtGoto(r, [at[r] EXCEPT !.pc = "report"])
  /\ AttemptRest /\ UNCHANGED <<leaseVars, row, bind, fenced>>

AtIncarnation(r) == row.state = "resuming" /\ row.gen = G(r)

\* reportResumeFailure: the funnel's edge out of resuming, on the incarnation
\* the report names. A non-retryable cause waits for the client at once.
ResumeReport(r) ==
  /\ at[r].pc = "report"
  /\ \/ AtIncarnation(r) /\ row.retries < MaxRetries /\ row' = Retried(row)
     \/ AtIncarnation(r) /\ row' = Awaited(row)
     \/ ~AtIncarnation(r) /\ UNCHANGED row
  /\ AtEnd(r)
  /\ AttemptRest /\ UNCHANGED <<leaseVars, bind, slot, fenced>>

Committed(r) == [row EXCEPT !.state = "running", !.pod = at[r].pod]

CommitGuard(r) == AtIncarnation(r)

ResumeCommit(r) ==
  /\ at[r].pc = "commit" /\ CommitGuard(r)
  /\ row' = Committed(r)
  /\ AtGoto(r, [at[r] EXCEPT !.pc = "fence"])
  /\ AttemptRest /\ UNCHANGED <<leaseVars, bind, slot, fenced>>

\* A store error leaves the outcome of a try unknown, and the try is repeated.
ResumeCommitError(r) ==
  /\ at[r].pc = "commit"
  /\ UNCHANGED row \/ (CommitGuard(r) /\ row' = Committed(r))
  /\ AtGoto(r, [at[r] EXCEPT !.err = TRUE])
  /\ AttemptRest /\ UNCHANGED <<leaseVars, bind, slot, fenced>>

\* classifyCommit after a guard miss: a row that names the attempt's pod is the
\* attempt's own doing, but only a store error can have hidden it.
CommitOurs(r) == /\ at[r].err /\ row.pod = at[r].pod
                 /\ PodHeld(row) \/ row.state = "terminal"

Classified(r) == IF CommitOurs(r) /\ row.gen = G(r) THEN "landed"
                 ELSE IF CommitOurs(r) /\ row.gen > G(r) THEN "aboveG"
                 ELSE "notLanded"

ResumeCommitMissed(r) ==
  /\ at[r].pc = "commit" /\ ~CommitGuard(r)
  /\ \/ /\ Classified(r) = "landed"
        /\ AtGoto(r, [at[r] EXCEPT !.pc = "fence"])
        /\ UNCHANGED slot
     \/ Classified(r) = "aboveG" /\ AtEnd(r) /\ UNCHANGED slot
     \* ReleaseUncommitted; after a store error only on a confirmed reclaim
     \/ /\ Classified(r) = "notLanded"
        /\ slot' = SlotReleased(at[r].pod) \/ (at[r].err /\ UNCHANGED slot)
        /\ AtEnd(r)
  /\ AttemptRest /\ UNCHANGED <<leaseVars, row, bind, fenced>>

\* FenceAt sends the attempt's own generation; it never reads a newer one.
ResumeFence(r) ==
  /\ at[r].pc = "fence" /\ PodAccepts(at[r].pod, G(r))
  /\ fenced' = [fenced EXCEPT ![at[r].pod] = G(r)]
  /\ \/ AtGoto(r, [at[r] EXCEPT !.pc = "publish"])
     \/ UNCHANGED at             \* the answer is lost; the next try is stale
  /\ AttemptRest /\ UNCHANGED <<leaseVars, row, bind, slot>>

\* A stale rejection or a spent budget gives the lease up and leaves the pod to
\* an adopter.
ResumeRelinquish(r) ==
  /\ at[r].pc = "fence"
  /\ TryReleaseLease(r)
  /\ AtEnd(r)
  /\ AttemptRest /\ UNCHANGED <<row, bind, slot, fenced>>

\* Mutant of ResumePublish: the binding does not wait for the pod's answer.
PublishEarly(r) ==
  /\ at[r].pc \in {"fence", "publish"}
  /\ bind' = [bind EXCEPT ![r] = Binding(G(r), at[r].pod)]
  /\ AtGoto(r, [at[r] EXCEPT !.pc = "check"])
  /\ AttemptRest /\ UNCHANGED <<leaseVars, row, slot, fenced>>

ResumePublish(r) ==
  /\ at[r].pc = "publish"
  /\ bind' = [bind EXCEPT ![r] = Binding(G(r), at[r].pod)]
  /\ AtGoto(r, [at[r] EXCEPT !.pc = "check"])
  /\ AttemptRest /\ UNCHANGED <<leaseVars, row, slot, fenced>>

\* landed re-reads the row: a terminal write that came before the publication
\* found no binding to release, so the attempt hands it over.
ResumeCheck(r) ==
  /\ at[r].pc = "check" /\ SlotLockFree(r)
  /\ IF row.state = "terminal" /\ Bound(r) /\ term[r] = "idle"
       THEN ReleaseTerminal(r)
       ELSE UNCHANGED <<row, bind, slot>>
  /\ AtEnd(r)
  /\ AttemptRest /\ UNCHANGED <<leaseVars, fenced>>

-----------------------------------------------------------------------------
(* Suspension and the release of the suspended pod.                        *)

SuGoto(r, rec) == su' = [su EXCEPT ![r] = rec]
SuEnd(r) == SuGoto(r, SuIdle)
SuspensionRest == UNCHANGED <<leaseVars, fenced, mirror, backoff, sw, rep, term, at>>

\* handleInterrupt, on the locked row.
Interrupt ==
  /\ row.state = "running" /\ susp.n < MaxSuspensions
  /\ row' = [row EXCEPT !.state = "suspended"]
  /\ susp' = [n |-> susp.n + 1, idle |-> FALSE]
  /\ SuspensionRest /\ UNCHANGED <<bind, slot, su>>

\* resumeHeldPod: a message to a suspended session that still has its pod.
ResumeHeldPod ==
  /\ row.state = "suspended" /\ row.pod # NoPod
  /\ row' = [row EXCEPT !.state = "running"]
  /\ SuspensionRest /\ UNCHANGED <<bind, slot, su, susp>>

\* enterResumePending: a client resume, or a message to a podless suspended
\* session. No retry is spent.
EnterResumePending ==
  /\ row.state = "awaiting" \/ PodlessSuspended(row)
  /\ row' = [row EXCEPT !.state = "resume_pending"]
  /\ SuspensionRest /\ UNCHANGED <<bind, slot, su, susp>>

\* The gates both releases share: the lease, no terminal claim, one at a time.
MaySuspend(r) == Bound(r) /\ LeaseHolder = r /\ term[r] = "idle" /\ su[r].pc = "idle"

ReleaseSuspendedPod(r) ==
  /\ row.state = "suspended" /\ row.pod # NoPod /\ MaySuspend(r)
  /\ SuGoto(r, [pc |-> "checkpoint", idle |-> FALSE, n |-> susp.n, pod |-> row.pod, bind |-> bind[r]])
  /\ SuspensionRest /\ UNCHANGED <<row, bind, slot, susp>>

\* The adapter seals the session before the checkpoint, or refuses and the
\* attempt ends.
SuspendIdle(r) ==
  /\ row.state = "running" /\ bind[r].live /\ MaySuspend(r)
  /\ SuGoto(r, [pc |-> "checkpoint", idle |-> TRUE, n |-> 0, pod |-> row.pod, bind |-> bind[r]])
  /\ SuspensionRest /\ UNCHANGED <<row, bind, slot, susp>>

SuspensionCheckpoint(r) ==
  /\ su[r].pc = "checkpoint"
  /\ SuGoto(r, [su[r] EXCEPT !.pc = IF su[r].idle THEN "write" ELSE "clear"])
  /\ SuspensionRest /\ UNCHANGED <<row, bind, slot, susp>>

\* The seal or the checkpoint fails, the clear's store write fails, or an idle
\* session has become active: nothing is written, and a seal is lifted.
SuspensionStops(r) ==
  /\ su[r].pc \in {"checkpoint", "clear", "write"}
  /\ SuEnd(r)
  /\ SuspensionRest /\ UNCHANGED <<row, bind, slot, susp>>

ClearGuard(r) == row.state = "suspended" /\ susp.n = su[r].n /\ row.pod = su[r].pod

\* Mutant of ClearSuspendedPod: a guard miss goes on to the release.
ClearMissReleases(r) ==
  /\ su[r].pc = "clear"
  /\ row' = IF ClearGuard(r) THEN [row EXCEPT !.pod = NoPod] ELSE row
  /\ SuGoto(r, [su[r] EXCEPT !.pc = "tail"])
  /\ SuspensionRest /\ UNCHANGED <<bind, slot, susp>>

\* clearSuspendedPod: the write is tried once, and an error that hides its success
\* ends the release.
ClearSuspendedPod(r) ==
  /\ su[r].pc = "clear"
  /\ IF ClearGuard(r)
       THEN /\ row' = [row EXCEPT !.pod = NoPod]
            /\ SuGoto(r, [su[r] EXCEPT !.pc = "tail"]) \/ SuEnd(r)
       ELSE SuEnd(r) /\ UNCHANGED row
  /\ SuspensionRest /\ UNCHANGED <<bind, slot, susp>>

\* Mutant of IdleApplies: the generation is not compared.
IdleAppliesAtAnyGen(r) == /\ row.state = "running" /\ row.pod = su[r].pod
                          /\ susp.n < MaxSuspensions

\* classifyIdleWrite, on the locked row.
IdleApplies(r) == /\ row.gen = su[r].bind.gen /\ row.state = "running"
                  /\ row.pod = su[r].pod /\ susp.n < MaxSuspensions
IdleLanded(r)  == row.gen = su[r].bind.gen /\ PodlessSuspended(row) /\ susp.idle
IdleStale(r)   == row.gen # su[r].bind.gen

WriteIdleSuspension(r) ==
  /\ su[r].pc = "write" /\ IdleApplies(r)
  /\ row' = [row EXCEPT !.state = "suspended", !.pod = NoPod]
  /\ susp' = [n |-> susp.n + 1, idle |-> TRUE]
  /\ SuGoto(r, [su[r] EXCEPT !.pc = "tail"]) \/ UNCHANGED su    \* a store error: repeated
  /\ SuspensionRest /\ UNCHANGED <<bind, slot>>

IdleWriteLanded(r) ==
  /\ su[r].pc = "write" /\ IdleLanded(r)
  /\ SuGoto(r, [su[r] EXCEPT !.pc = "tail"])
  /\ SuspensionRest /\ UNCHANGED <<row, bind, slot, susp>>

\* A takeover or a resume overtook the attempt: it sends the pod nothing more.
IdleWriteStale(r) ==
  /\ su[r].pc = "write" /\ IdleStale(r)
  /\ IF SameBinding(bind[r], su[r].bind) THEN EvictBinding(r) ELSE UNCHANGED bind
  /\ SuEnd(r)
  /\ SuspensionRest /\ UNCHANGED <<row, slot, susp>>

\* releaseSuspendedBinding up to the lock: the re-read, which stops at a terminal
\* row unless the read fails, and the backlog check, which may resume the session.
SuspensionTail(r) ==
  /\ su[r].pc = "tail"
  /\ (row.state = "terminal" /\ SuEnd(r)) \/ SuGoto(r, [su[r] EXCEPT !.pc = "release"])
  /\ \/ UNCHANGED row
     \/ PodlessSuspended(row) /\ row' = [row EXCEPT !.state = "resume_pending"]
  /\ SuspensionRest /\ UNCHANGED <<bind, slot, susp>>

\* releaseUnderSlotLock: the binding the release read, if it is still there and
\* no terminal writer of this replica has claimed it.
SuspensionRelease(r) ==
  /\ su[r].pc = "release" /\ SlotLockFree(r)
  /\ IF term[r] = "idle" /\ Bound(r) /\ SameBinding(bind[r], su[r].bind)
       THEN ReleaseBinding(r)
       ELSE UNCHANGED <<bind, slot>>
  /\ SuEnd(r)
  /\ SuspensionRest /\ UNCHANGED <<row, susp>>

-----------------------------------------------------------------------------
(* Watchdogs and the rest of the system.                                   *)

\* Mutant of WatchdogResuming: the row is left to a replica that holds the lease.
WatchdogHolderOnly ==
  /\ row.state = "resuming" /\ LeaseHolder # NoHolder
  /\ row' = IF row.retries < MaxRetries
              THEN [row EXCEPT !.state = "resume_pending", !.retries = @ + 1]
              ELSE [row EXCEPT !.state = "awaiting"]
  /\ UNCHANGED <<leaseVars, bind, slot, fenced, mirror, backoff, sw, rep, term, recVars>>

\* sweepResuming: the incarnation ran out of time.
WatchdogResuming ==
  /\ row.state = "resuming"
  /\ row' = IF row.retries < MaxRetries
              THEN [row EXCEPT !.state = "resume_pending", !.retries = @ + 1]
              ELSE [row EXCEPT !.state = "awaiting"]
  /\ UNCHANGED <<leaseVars, bind, slot, fenced, mirror, backoff, sw, rep, term, recVars>>

\* sweepResumePending: the resume window ended.
WatchdogResumePending ==
  /\ row.state = "resume_pending"
  /\ row' = [row EXCEPT !.state = "awaiting"]
  /\ UNCHANGED <<leaseVars, bind, slot, fenced, mirror, backoff, sw, rep, term, recVars>>

\* MarkBudgetUnrecoverable parks a tree's root from any live state and leaves its
\* pod and binding where they are.
MarkBudgetUnrecoverable ==
  /\ row.state \notin {"terminal", "awaiting"}
  /\ row' = [row EXCEPT !.state = "awaiting"]
  /\ UNCHANGED <<leaseVars, bind, slot, fenced, mirror, backoff, sw, rep, term, recVars>>

RecoveryCrash(r) ==
  /\ Crash(r)
  /\ AtGoto(r, [AtIdle EXCEPT !.pc = "dead"])
  /\ SuGoto(r, [SuIdle EXCEPT !.pc = "dead"])
  /\ UNCHANGED susp

AttemptSteps(r) ==
  \/ DriveResume(r) \/ ResumeRead(r) \/ ResumeAcquire(r) \/ ReleaseEarlierBinding(r)
  \/ ResumeClaim(r) \/ ResumeEntry(r) \/ ResumeRestored(r) \/ ResumeCommit(r)
  \/ ResumeCommitMissed(r) \/ ResumeFence(r) \/ ResumeRelinquish(r) \/ ResumePublish(r)
  \/ ResumeCheck(r)
AttemptFailures(r) ==
  \/ ResumeStops(r) \/ ResumeEntryFails(r) \/ ResumeFails(r) \/ ResumeReport(r)
AttemptNext(r) == AttemptSteps(r) \/ AttemptFailures(r) \/ ResumeCommitError(r)

SuspensionNext(r) ==
  \/ ReleaseSuspendedPod(r) \/ SuspendIdle(r) \/ SuspensionCheckpoint(r)
  \/ SuspensionStops(r) \/ ClearSuspendedPod(r) \/ WriteIdleSuspension(r)
  \/ IdleWriteLanded(r) \/ IdleWriteStale(r) \/ SuspensionTail(r) \/ SuspensionRelease(r)

ClientNext == Interrupt \/ ResumeHeldPod \/ EnterResumePending
WatchdogNext == WatchdogResuming \/ WatchdogResumePending

RecoveryNext ==
  \/ \E r \in Replicas :
       \/ (SweepNext(r) \/ ReportNext(r) \/ TerminalNext(r)) /\ UNCHANGED recVars
       \/ (BackoffElapsed(r) \/ ConnectionLost(r)) /\ UNCHANGED recVars
       \/ RecoveryCrash(r) \/ AttemptNext(r) \/ SuspensionNext(r)
  \/ (\E p \in Pods : PodLost(p)) /\ UNCHANGED recVars
  \/ LeaseLapse /\ UNCHANGED recVars
  \/ ClientNext \/ WatchdogNext \/ MarkBudgetUnrecoverable

RecoverySpec == RecoveryInit /\ [][RecoveryNext]_allRecVars

-----------------------------------------------------------------------------
(* Properties.                                                             *)

\* While a session runs, the replica whose binding carries the row's generation
\* serves the pod the row names: a resume, a takeover and a report can interleave
\* at will and never leave the current coordinator on a pod the row has left.
CurrentBindingOnRowPod ==
  \A r \in Replicas :
    Bound(r) /\ row.state = "running" /\ bind[r].gen = row.gen => bind[r].pod = row.pod

\* When an idle suspension gives its pod back, no other replica serves the session
\* on that pod at a later generation: a takeover before the suspension's write makes
\* the write stale, and none can follow it (classifyIdleWrite).
IdleReleaseHasNoAdopter ==
  \A r, s \in Replicas :
    r # s /\ su[r].idle /\ su[r].pc = "release" /\ Bound(s) /\ bind[s].pod = su[r].pod
      => bind[s].gen < su[r].bind.gen

\* A session does not stay in recovery, although the replica that was restoring it
\* may die at any step: the watchdogs of the others end each incarnation and the
\* resume window, and the retries are bounded.
Recovering == row.state \in {"resume_pending", "resuming"}
RecoveryEnds == Recovering ~> ~Recovering
RecoveryFairness == WF_allRecVars(WatchdogResuming) /\ WF_allRecVars(WatchdogResumePending)

\* With the resume driver, too, the generations are fencing tokens: an attempt
\* draws its token with its entry write and gives it up or serves it.
AttemptClaims(r) == IF at[r].pc \in {"restore", "commit", "fence", "publish"} THEN {G(r)} ELSE {}
RecoveryToken == INSTANCE FencingToken
  WITH Owners <- Replicas, Resources <- Pods, NoResource <- NoPod, token <- row.gen,
       claims <- [r \in Replicas |-> Claims(r) \cup AttemptClaims(r)],
       serving <- [r \in Replicas |-> Serving(r)], admitted <- fenced
RecoveryKeepsTokens == [][RecoveryToken!TokenNext]_(RecoveryToken!tokenVars)
-----------------------------------------------------------------------------
(* What comments in the code say of it and the model refutes.              *)

\* "A report that loses to any concurrent state change gets the no-op disposition":
\* an edge is only written on the incarnation of the row that the report read.
LosingReportIsNoop ==
  [][\A r \in Replicas : ReportRecovery(r) => row.pod = rep[r].seenPod]_allRecVars
=============================================================================
