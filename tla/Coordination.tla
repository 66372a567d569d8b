---------------------------- MODULE Coordination ----------------------------
(***************************************************************************)
(* How the gateway replicas agree on who coordinates one session. Every    *)
(* replica runs a Sweeper over the session's row, lease and local binding; *)
(* a lapsed lease is taken over by a compare-and-swap on the row's         *)
(* coordination_generation, a CoordinatorFence to the pod at a generation  *)
(* read from the row, and the publication of a binding stamped with the    *)
(* generation the swap wrote. A replica whose Attach stream fails reports  *)
(* the failure through the funnel, or evicts its binding when the row's    *)
(* generation says that a peer has taken the session over.                 *)
(*                                                                         *)
(* Sessions share no coordination state, so one session is modelled.       *)
(* input_required is folded into running: the two take the same branches.  *)
(***************************************************************************)
EXTENDS LeaseStore

CONSTANTS Pods,         \* sandboxes the session can be bound to
          NoPod,        \* an empty pod_assignment
          MaxAttempts,  \* coordfence.DefaultMaxAttempts
          MaxRetries,   \* the session's effective maxRetries
          MaxGen        \* bound: no generation above it is written

ASSUME CoordAssumption == /\ NoPod \notin Pods
                          /\ Pods # {}
                          /\ MaxAttempts \in Nat \ {0}
                          /\ MaxRetries \in Nat
                          /\ MaxGen \in Nat \ {0}

VARIABLES row,      \* the session row in Postgres
          bind,     \* each replica's entry in its podsession registry
          slot,     \* what became of the session's slot on each pod
          fenced,   \* the generation each pod's adapter last accepted; 0: none
          mirror,   \* the coordination_lease mirror row of the session
          backoff,  \* the replicas inside their adoption backoff window
          sw,       \* each replica's Sweeper, between two calls it makes
          rep,      \* each replica's stream-failure report
          term      \* each replica's post-terminal hook

podVars   == <<slot, fenced>>
coordVars == <<row, bind, slot, fenced, mirror, backoff, sw, rep, term>>

-----------------------------------------------------------------------------
(* The row, the binding and the Sweeper's position.                        *)

SessionStates == {"running", "suspended", "resume_pending", "resuming",
                  "awaiting", "terminal"}
Gens  == 1 .. (MaxGen + 1)
Rows  == [state : SessionStates, gen : Gens, pod : Pods \cup {NoPod},
          retries : Nat, marked : BOOLEAN]

\* An unbound session is the binding of no pod. Every site that publishes a
\* binding stamps it, so the stamp of a real binding is a generation.
NoBinding == [gen |-> 0, pod |-> NoPod, live |-> FALSE]
Binding(g, p) == [gen |-> g, pod |-> p, live |-> TRUE]
Bindings == {NoBinding} \cup [gen : Gens, pod : Pods, live : BOOLEAN]
Bound(r) == bind[r].pod # NoPod

PodHeld(w) == w.state \in {"running", "suspended"} /\ w.pod # NoPod
AdoptedState(w) == w.state \in {"resume_pending", "awaiting"} \/ PodHeld(w)
PodlessSuspended(w) == w.state = "suspended" /\ w.pod = NoPod
BindingStale(bindGen, rowGen) == bindGen = 0 \/ rowGen > bindGen
\* Mutant of PeerTookOver: the comparison is off by one.
PeerTookOverLate(rowGen, bindGen) == bindGen > 0 /\ rowGen > bindGen + 1

PeerTookOver(rowGen, bindGen) == bindGen > 0 /\ rowGen > bindGen

\* The channel to a pod that is gone is dead; a channel to a pod that lives
\* can die as well (ConnectionLost).
ConnAlive(r) == bind[r].live /\ slot[bind[r].pod] # "lost"

NoRow  == [adopted |-> FALSE, podless |-> FALSE, gen |-> 0]
Listed == [adopted |-> AdoptedState(row), podless |-> PodlessSuspended(row), gen |-> row.gen]
SwIdle == [pc |-> "idle", listed |-> NoRow, prior |-> NoHolder, bound |-> FALSE,
           hgen |-> 0, fgen |-> 0, pod |-> NoPod, tries |-> 0]
RepIdle == [pc |-> "idle", pod |-> NoPod, seen |-> "terminal", seenPod |-> NoPod,
            budget |-> FALSE, bind |-> NoBinding]
NoMirror == [holder |-> NoHolder, gen |-> 0]

SweepRecords ==
  [pc : {"idle", "get", "acquire", "handoff", "readopt", "fence", "fencing", "publish", "dead"},
   listed : [adopted : BOOLEAN, podless : BOOLEAN, gen : {0} \cup Gens],
   prior : Holders, bound : BOOLEAN, hgen : {0} \cup Gens, fgen : {0} \cup Gens,
   pod : Pods \cup {NoPod}, tries : 0 .. MaxAttempts]
ReportRecords ==
  [pc : {"idle", "read", "write", "release", "dead"}, pod : Pods \cup {NoPod},
   seen : SessionStates, seenPod : Pods \cup {NoPod}, budget : BOOLEAN, bind : Bindings]

\* Every variable stays in its range: rows keep known states and bounded
\* generations, and no sweep or report holds a value its next call cannot take.
CoordTypeOK ==
  /\ redis \in Holders /\ pg \in Holders /\ redisUp \in BOOLEAN
  /\ row \in Rows
  /\ bind \in [Replicas -> Bindings]
  /\ slot \in [Pods -> {"free", "held", "released", "lost"}]
  /\ fenced \in [Pods -> {0} \cup Gens]
  /\ mirror \in [holder : Holders, gen : {0} \cup Gens]
  /\ backoff \in SUBSET Replicas
  /\ sw \in [Replicas -> SweepRecords]
  /\ rep \in [Replicas -> ReportRecords]
  /\ term \in [Replicas -> {"idle", "settle", "release", "dead"}]

\* A session that has just started: the replica that bound it holds the lease
\* and a binding stamped with the first generation, on a pod nobody fenced.
CoordInit ==
  \E r \in Replicas, p \in Pods :
    /\ redis = r /\ pg = NoHolder /\ redisUp = TRUE
    /\ row = [state |-> "running", gen |-> 1, pod |-> p, retries |-> 0, marked |-> FALSE]
    /\ bind = [s \in Replicas |-> IF s = r THEN Binding(1, p) ELSE NoBinding]
    /\ slot = [q \in Pods |-> IF q = p THEN "held" ELSE "free"]
    /\ fenced = [q \in Pods |-> 0]
    /\ mirror = NoMirror
    /\ backoff = {}
    /\ sw = [s \in Replicas |-> SwIdle]
    /\ rep = [s \in Replicas |-> RepIdle]
    /\ term = [s \in Replicas |-> "idle"]

-----------------------------------------------------------------------------
(* Dropping a binding.                                                     *)

\* EvictBinding and evictStaleBinding: the registry entry goes and this
\* replica's connection closes; the pod is told nothing.
EvictBinding(r) == bind' = [bind EXCEPT ![r] = NoBinding]

SlotReleased(p) == [slot EXCEPT ![p] = IF @ = "held" THEN "released" ELSE @]

\* releaseExecutor: the executor unbinds, then the binder releases the slot.
ReleaseBinding(r) ==
  /\ EvictBinding(r)
  /\ slot' = SlotReleased(bind[r].pod)

\* slotAccountLocks: the funnel holds the session's lock on its replica from
\* the edge write to the release.
SlotLockFree(r) == rep[r].pc # "release"

\* releaseTerminalBinding on a terminal row: a stale binding is evicted, a
\* current one is released and the release is recorded on the row.
ReleaseTerminal(r) ==
  IF BindingStale(bind[r].gen, row.gen)
    THEN EvictBinding(r) /\ UNCHANGED <<row, slot>>
    ELSE ReleaseBinding(r) /\ row' = [row EXCEPT !.marked = TRUE]

-----------------------------------------------------------------------------
(* One Sweeper pass over the row.                                          *)

SwGoto(r, rec) == sw' = [sw EXCEPT ![r] = rec]
SwEnd(r) == SwGoto(r, SwIdle)

MirrorUpsert(r, g) == mirror' = [holder |-> r, gen |-> g]

\* Mutant of SweepTerminal: the mirror row is left behind.
SweepTerminalKeepsMirror(r) ==
  /\ sw[r].pc = "idle" /\ row.state = "terminal"
  /\ backoff' = backoff \ {r}
  /\ IF Bound(r) /\ term[r] = "idle" /\ SlotLockFree(r)
       THEN ReleaseTerminal(r)
       ELSE UNCHANGED <<row, bind, slot>>
  /\ UNCHANGED <<leaseVars, mirror, fenced, sw, rep, term>>

\* Mutant of SweepTerminal: the binding is left to the hook alone.
SweepTerminalKeepsBinding(r) ==
  /\ sw[r].pc = "idle" /\ row.state = "terminal"
  /\ mirror' = NoMirror
  /\ backoff' = backoff \ {r}
  /\ UNCHANGED <<leaseVars, row, bind, slot, fenced, sw, rep, term>>

\* Sweep lists a terminal row: the mirror and the backoff go, and a binding
\* that no hook on this replica claims is settled.
SweepTerminal(r) ==
  /\ sw[r].pc = "idle" /\ row.state = "terminal"
  /\ mirror' = NoMirror
  /\ backoff' = backoff \ {r}
  /\ IF Bound(r) /\ term[r] = "idle" /\ SlotLockFree(r)
       THEN ReleaseTerminal(r)
       ELSE UNCHANGED <<row, bind, slot>>
  /\ UNCHANGED <<leaseVars, fenced, sw, rep, term>>

\* Sweep lists a live row and goes on with the snapshot it read.
SweepList(r) ==
  /\ sw[r].pc = "idle" /\ row.state # "terminal"
  /\ SwGoto(r, [SwIdle EXCEPT !.pc = "get", !.listed = Listed])
  /\ UNCHANGED <<leaseVars, row, bind, slot, fenced, mirror, backoff, rep, term>>

\* sweepRow from the lease read to the Acquire, for the rows it leaves alone:
\* a podless suspended session, a bound session whose channel died, and a
\* session this replica neither binds, holds nor may adopt.
Adoptable(r) == LeaseHolder = NoHolder /\ sw[r].listed.adopted /\ r \notin backoff
Concerned(r) == Bound(r) \/ LeaseHolder = r \/ Adoptable(r)

SweepPodless(r) ==
  /\ sw[r].pc = "get" /\ sw[r].listed.podless
  /\ mirror' = IF LeaseHolder = r THEN NoMirror ELSE mirror
  /\ SwEnd(r)
  /\ UNCHANGED <<leaseVars, row, bind, slot, fenced, backoff, rep, term>>

SweepDeadConnection(r) ==
  /\ sw[r].pc = "get" /\ ~sw[r].listed.podless /\ Bound(r) /\ ~ConnAlive(r)
  /\ EvictBinding(r)
  /\ TryReleaseLease(r)
  /\ SwEnd(r)
  /\ UNCHANGED <<row, slot, fenced, mirror, backoff, rep, term>>

SweepSkip(r) ==
  /\ sw[r].pc = "get" /\ ~sw[r].listed.podless /\ ~Concerned(r)
  /\ SwEnd(r)
  /\ UNCHANGED <<leaseVars, row, bind, slot, fenced, mirror, backoff, rep, term>>

SweepGet(r) ==
  /\ sw[r].pc = "get" /\ ~sw[r].listed.podless
  /\ Concerned(r) /\ (Bound(r) => ConnAlive(r))
  /\ SwGoto(r, [sw[r] EXCEPT !.pc = "acquire", !.prior = LeaseHolder, !.bound = Bound(r)])
  /\ UNCHANGED <<leaseVars, row, bind, slot, fenced, mirror, backoff, rep, term>>

\* Acquire returns ErrHeld: a binding the listed row's generation has passed
\* is evicted.
SweepHeld(r) ==
  /\ sw[r].pc = "acquire" /\ ~MayAcquire(r)
  /\ IF sw[r].bound /\ PeerTookOver(sw[r].listed.gen, bind[r].gen)
       THEN EvictBinding(r)
       ELSE UNCHANGED bind
  /\ SwEnd(r)
  /\ UNCHANGED <<leaseVars, row, slot, fenced, mirror, backoff, rep, term>>

\* Acquire succeeds on a session this replica bound or held: a renewal. The
\* mirror takes the listed generation; the binding keeps its stamp.
Takeover(r) == ~sw[r].bound /\ sw[r].prior # r

SweepRenew(r) ==
  /\ sw[r].pc = "acquire" /\ ~Takeover(r)
  /\ AcquireLease(r)
  /\ MirrorUpsert(r, sw[r].listed.gen)
  /\ SwEnd(r)
  /\ UNCHANGED <<row, bind, slot, fenced, backoff, rep, term>>

SweepTakeover(r) ==
  /\ sw[r].pc = "acquire" /\ Takeover(r)
  /\ AcquireLease(r)
  /\ SwGoto(r, [sw[r] EXCEPT !.pc = "handoff"])
  /\ UNCHANGED <<row, bind, slot, fenced, mirror, backoff, rep, term>>
-----------------------------------------------------------------------------
(* The takeover after the Acquire.                                         *)

\* Mutant of HandoffHits: the swap compares the generation and not the state.
HandoffIgnoresState(r) == row.gen = sw[r].listed.gen

\* RecordHandoff, the compare-and-swap of the listed generation. A row that
\* holds a pod is re-adopted; a recovering row is adopted without its pod.
HandoffHits(r) == row.gen = sw[r].listed.gen /\ AdoptedState(row)

RecordHandoff(r) ==
  /\ sw[r].pc = "handoff" /\ HandoffHits(r) /\ row.gen < MaxGen
  /\ row' = [row EXCEPT !.gen = @ + 1]
  /\ IF PodHeld(row)
       THEN /\ SwGoto(r, [SwIdle EXCEPT !.pc = "readopt", !.hgen = row.gen + 1])
            /\ UNCHANGED <<mirror, backoff>>
       ELSE /\ SwEnd(r)
            /\ backoff' = backoff \ {r}
            /\ MirrorUpsert(r, row.gen + 1)
  /\ UNCHANGED <<leaseVars, bind, slot, fenced, rep, term>>

\* The swap misses, or the store write fails: the lease is given back.
HandoffRefused(r) ==
  /\ sw[r].pc = "handoff"
  /\ TryReleaseLease(r)
  /\ SwEnd(r)
  /\ UNCHANGED <<row, bind, slot, fenced, mirror, backoff, rep, term>>

\* Every failure of the re-adoption gives the lease back and opens the
\* adoption backoff; the generation increment stays.
Relinquish(r) ==
  /\ TryReleaseLease(r)
  /\ backoff' = backoff \cup {r}
  /\ SwEnd(r)
  /\ UNCHANGED <<row, bind, slot, fenced, mirror, rep, term>>

\* readoptAndFence reads the row again and dials the pod that row names.
ReadoptConnect(r) ==
  /\ sw[r].pc = "readopt" /\ row.pod # NoPod /\ slot[row.pod] # "lost"
  /\ SwGoto(r, [sw[r] EXCEPT !.pc = "fence", !.pod = row.pod])
  /\ UNCHANGED <<leaseVars, row, bind, slot, fenced, mirror, backoff, rep, term>>

\* The row read, the pool resolution, the dial or the generation read fails, or
\* the sweep's context ends.
ReadoptFault(r) == sw[r].pc \in {"readopt", "fence", "fencing"} /\ Relinquish(r)

\* Mutant of FenceRead: the next generation is sent before anybody drew it.
FenceReadsNext(r) ==
  /\ sw[r].pc = "fence"
  /\ SwGoto(r, [sw[r] EXCEPT !.pc = "fencing", !.fgen = row.gen + 1])
  /\ UNCHANGED <<leaseVars, row, bind, slot, fenced, mirror, backoff, rep, term>>

\* Fence reads the generation from the row, not from the handoff.
FenceRead(r) ==
  /\ sw[r].pc = "fence"
  /\ SwGoto(r, [sw[r] EXCEPT !.pc = "fencing", !.fgen = row.gen])
  /\ UNCHANGED <<leaseVars, row, bind, slot, fenced, mirror, backoff, rep, term>>

\* The adapter's CoordinatorFence: accepts a generation above its last one,
\* for a session it still holds.
PodAccepts(p, g) == slot[p] = "held" /\ g > fenced[p]
PodRejects(p, g) == slot[p] \in {"free", "released"} \/ (slot[p] = "held" /\ g <= fenced[p])

FenceAccepted(r) ==
  /\ sw[r].pc = "fencing" /\ sw[r].tries < MaxAttempts
  /\ PodAccepts(sw[r].pod, sw[r].fgen)
  /\ fenced' = [fenced EXCEPT ![sw[r].pod] = sw[r].fgen]
  /\ SwGoto(r, [sw[r] EXCEPT !.pc = "publish"])
  /\ UNCHANGED <<leaseVars, row, bind, slot, mirror, backoff, rep, term>>

\* The pod records the fence and its answer is lost: a transient fault to the
\* caller, which tries the same generation again.
FenceAnswerLost(r) ==
  /\ sw[r].pc = "fencing" /\ sw[r].tries < MaxAttempts
  /\ PodAccepts(sw[r].pod, sw[r].fgen)
  /\ fenced' = [fenced EXCEPT ![sw[r].pod] = sw[r].fgen]
  /\ SwGoto(r, [sw[r] EXCEPT !.tries = @ + 1])
  /\ UNCHANGED <<leaseVars, row, bind, slot, mirror, backoff, rep, term>>

\* Mutant of FenceTransient: a fault that is retried outside the budget.
FenceTransientForever(r) ==
  /\ sw[r].pc = "fencing"
  /\ SwGoto(r, [sw[r] EXCEPT !.tries = @ + 1])
  /\ UNCHANGED <<leaseVars, row, bind, slot, fenced, mirror, backoff, rep, term>>

\* The request never reaches the pod.
FenceTransient(r) ==
  /\ sw[r].pc = "fencing" /\ sw[r].tries < MaxAttempts
  /\ SwGoto(r, [sw[r] EXCEPT !.tries = @ + 1])
  /\ UNCHANGED <<leaseVars, row, bind, slot, fenced, mirror, backoff, rep, term>>

\* A stale rejection: the generation is read again, and an advanced one is
\* tried within the budget.
FenceStaleRetry(r) ==
  /\ sw[r].pc = "fencing" /\ sw[r].tries < MaxAttempts
  /\ PodRejects(sw[r].pod, sw[r].fgen) /\ row.gen > sw[r].fgen
  /\ SwGoto(r, [sw[r] EXCEPT !.fgen = row.gen, !.tries = @ + 1])
  /\ UNCHANGED <<leaseVars, row, bind, slot, fenced, mirror, backoff, rep, term>>

\* The budget is spent, or the pod is ahead and the generation read again is
\* no higher, or cannot be read.
FenceRelinquish(r) ==
  /\ sw[r].pc = "fencing"
  /\ sw[r].tries = MaxAttempts \/ PodRejects(sw[r].pod, sw[r].fgen)
  /\ Relinquish(r)

PublishAs(r, g) ==
  /\ bind' = [bind EXCEPT ![r] = Binding(g, sw[r].pod)]
  /\ backoff' = backoff \ {r}
  /\ MirrorUpsert(r, sw[r].hgen)
  /\ SwEnd(r)
  /\ UNCHANGED <<leaseVars, row, slot, fenced, rep, term>>

\* Mutants of SweepPublish: the stamp is the generation the sweep had listed, the
\* generation the row has by now, or published before the pod answers.
PublishListed(r)   == sw[r].pc = "publish" /\ PublishAs(r, sw[r].hgen - 1)
PublishRowGen(r)   == sw[r].pc = "publish" /\ PublishAs(r, row.gen)
PublishUnfenced(r) == sw[r].pc \in {"fencing", "publish"} /\ PublishAs(r, sw[r].hgen)

\* The binding carries the generation the handoff wrote.
SweepPublish(r) == sw[r].pc = "publish" /\ PublishAs(r, sw[r].hgen)

\* A lease read or Acquire that neither store answers ends the pass.
SweepError(r) ==
  /\ sw[r].pc \in {"get", "acquire"}
  /\ SwEnd(r)
  /\ UNCHANGED <<leaseVars, row, bind, slot, fenced, mirror, backoff, rep, term>>

-----------------------------------------------------------------------------
(* A failed Attach stream and the failure funnel.                          *)

RepGoto(r, rec) == rep' = [rep EXCEPT ![r] = rec]
RepEnd(r) == RepGoto(r, RepIdle)

\* reportSupersededByPeer, in the states the funnel acts on.
SupersededByPeer(r) ==
  row.state \in {"running", "suspended", "resuming"} /\ BindingStale(bind[r].gen, row.gen)

\* ReportAttachStreamFailure on a binding a peer has passed: evicted, with no
\* row, lease or generation write and no report.
EvictSuperseded(r) ==
  /\ rep[r].pc = "idle" /\ Bound(r) /\ SupersededByPeer(r)
  /\ EvictBinding(r)
  /\ UNCHANGED <<leaseVars, row, slot, fenced, mirror, backoff, sw, rep, term>>

\* ReportAttachStreamFailure on a binding that looks current.
StreamFailure(r) ==
  /\ rep[r].pc = "idle" /\ Bound(r) /\ ~SupersededByPeer(r)
  /\ RepGoto(r, [RepIdle EXCEPT !.pc = "read", !.pod = bind[r].pod])
  /\ UNCHANGED <<leaseVars, row, bind, slot, fenced, mirror, backoff, sw, term>>

\* ReportSessionFailure reads the row and decides on that copy. A report that
\* names no resuming incarnation writes nothing outside the active states.
ReportRead(r) ==
  /\ rep[r].pc = "read"
  /\ IF row.state \in {"running", "suspended"}
       THEN RepGoto(r, [rep[r] EXCEPT !.pc = "write", !.seen = row.state,
                                     !.seenPod = row.pod, !.budget = row.retries < MaxRetries])
       ELSE RepEnd(r)
  /\ UNCHANGED <<leaseVars, row, bind, slot, fenced, mirror, backoff, sw, term>>

\* reportGuard on the locked row: the state the report read, and for a
\* suspended row the pod it read. The generation is not compared.
ReportGuard(r) ==
  /\ row.state = rep[r].seen
  /\ row.state = "suspended" => row.pod = rep[r].seenPod /\ row.pod # NoPod

\* Mutant of Retried: the row keeps the pod the report is about to release.
RetriedWithPod(w) == [w EXCEPT !.state = "resume_pending", !.retries = @ + 1]

\* applyFailureFromActive: the recovery edge clears the pod from the row and
\* the binding snapshotted before it is released after it. A retryable
\* failure within the budget retries; one past it waits for the client.
Retried(w) == [w EXCEPT !.state = "resume_pending", !.retries = @ + 1, !.pod = NoPod]
Awaited(w) == [w EXCEPT !.state = "awaiting", !.pod = NoPod]

ReportRecovery(r) ==
  /\ rep[r].pc = "write" /\ ReportGuard(r)
  /\ row' = IF rep[r].budget THEN Retried(row) ELSE Awaited(row)
  /\ RepGoto(r, [rep[r] EXCEPT !.pc = "release", !.bind = bind[r]])
  /\ UNCHANGED <<leaseVars, bind, slot, fenced, mirror, backoff, sw, term>>

\* A failure the retry policy calls non-retryable fails the session; the
\* post-terminal hook of this replica follows.
ReportFailed(r) ==
  /\ rep[r].pc = "write" /\ ReportGuard(r) /\ term[r] = "idle"
  /\ row' = [row EXCEPT !.state = "terminal", !.pod = rep[r].pod]
  /\ term' = [term EXCEPT ![r] = "settle"]
  /\ RepEnd(r)
  /\ UNCHANGED <<leaseVars, bind, slot, fenced, mirror, backoff, sw>>

ReportConflict(r) ==
  /\ rep[r].pc = "write" /\ ~ReportGuard(r)
  /\ RepEnd(r)
  /\ UNCHANGED <<leaseVars, row, bind, slot, fenced, mirror, backoff, sw, term>>

\* releaseReportedBinding: only while the registry still returns the binding.
SameBinding(a, b) == a.gen = b.gen /\ a.pod = b.pod
ReportRelease(r) ==
  /\ rep[r].pc = "release"
  /\ IF Bound(r) /\ SameBinding(bind[r], rep[r].bind)
       THEN ReleaseBinding(r)
       ELSE UNCHANGED <<bind, slot>>
  /\ RepEnd(r)
  /\ UNCHANGED <<leaseVars, row, fenced, mirror, backoff, sw, term>>

-----------------------------------------------------------------------------
(* Terminal writes and the post-terminal hook.                             *)

\* MarkTerminated: leaving resuming closes the incarnation with a bump.
Terminated(w) == [w EXCEPT !.state = "terminal",
                           !.gen = IF w.state = "resuming" THEN @ + 1 ELSE @]

TerminalWrite(r) ==
  /\ row.state # "terminal" /\ term[r] = "idle"
  /\ row' = Terminated(row)
  /\ term' = [term EXCEPT ![r] = "settle"]
  /\ UNCHANGED <<leaseVars, bind, slot, fenced, mirror, backoff, sw, rep>>

\* settleStaleBinding, before the seal.
TerminalSettle(r) ==
  /\ term[r] = "settle"
  /\ IF Bound(r) /\ BindingStale(bind[r].gen, row.gen) THEN EvictBinding(r) ELSE UNCHANGED bind
  /\ term' = [term EXCEPT ![r] = "release"]
  /\ UNCHANGED <<leaseVars, row, slot, fenced, mirror, backoff, sw, rep>>

\* releaseAfterTerminal, after the seal, on whatever binding is there.
TerminalRelease(r) ==
  /\ term[r] = "release" /\ SlotLockFree(r)
  /\ IF Bound(r) THEN ReleaseBinding(r) /\ row' = [row EXCEPT !.marked = TRUE]
                 ELSE UNCHANGED <<row, bind, slot>>
  /\ term' = [term EXCEPT ![r] = "idle"]
  /\ UNCHANGED <<leaseVars, fenced, mirror, backoff, sw, rep>>

-----------------------------------------------------------------------------
(* What happens around the gateway.                                        *)

LeaseLapse == (RedisExpire \/ PgExpire \/ RedisOutage) /\ UNCHANGED coordVars

\* Mutant of BackoffElapsed: the window never closes.
BackoffStays(r) == r \in backoff /\ UNCHANGED <<leaseVars, coordVars>>

BackoffElapsed(r) ==
  /\ r \in backoff
  /\ backoff' = backoff \ {r}
  /\ UNCHANGED <<leaseVars, row, bind, slot, fenced, mirror, sw, rep, term>>

ConnectionLost(r) ==
  /\ bind[r].live
  /\ bind' = [bind EXCEPT ![r].live = FALSE]
  /\ UNCHANGED <<leaseVars, row, slot, fenced, mirror, backoff, sw, rep, term>>

PodLost(p) ==
  /\ slot[p] = "held"
  /\ slot' = [slot EXCEPT ![p] = "lost"]
  /\ UNCHANGED <<leaseVars, row, bind, fenced, mirror, backoff, sw, rep, term>>

\* A gateway process dies. Its successor draws a new holder value (HolderValue),
\* so it is another replica; the dead one's lease stays until its TTL. The
\* deployment keeps a replica running.
Crash(r) ==
  /\ sw[r].pc # "dead" /\ \E s \in Replicas \ {r} : sw[s].pc # "dead"
  /\ bind' = [bind EXCEPT ![r] = NoBinding]
  /\ backoff' = backoff \ {r}
  /\ sw' = [sw EXCEPT ![r] = [SwIdle EXCEPT !.pc = "dead"]]
  /\ rep' = [rep EXCEPT ![r] = [RepIdle EXCEPT !.pc = "dead"]]
  /\ term' = [term EXCEPT ![r] = "dead"]
  /\ UNCHANGED <<leaseVars, row, slot, fenced, mirror>>
-----------------------------------------------------------------------------
(* The specification.                                                      *)

LeaseRead(r)    == SweepPodless(r) \/ SweepDeadConnection(r) \/ SweepSkip(r) \/ SweepGet(r)
LeaseAcquire(r) == SweepHeld(r) \/ SweepRenew(r) \/ SweepTakeover(r)

SweepNext(r) ==
  \/ SweepTerminal(r) \/ SweepList(r) \/ LeaseRead(r) \/ LeaseAcquire(r) \/ SweepError(r)
  \/ RecordHandoff(r) \/ HandoffRefused(r) \/ ReadoptConnect(r)
  \/ ReadoptFault(r) \/ FenceRead(r) \/ FenceAccepted(r)
  \/ FenceAnswerLost(r) \/ FenceTransient(r) \/ FenceStaleRetry(r)
  \/ FenceRelinquish(r) \/ SweepPublish(r)

ReportNext(r) ==
  \/ EvictSuperseded(r) \/ StreamFailure(r) \/ ReportRead(r)
  \/ ReportRecovery(r) \/ ReportFailed(r) \/ ReportConflict(r)
  \/ ReportRelease(r)

TerminalNext(r) == TerminalWrite(r) \/ TerminalSettle(r) \/ TerminalRelease(r)

FaultNext(r) == BackoffElapsed(r) \/ ConnectionLost(r) \/ Crash(r)

CoordNext ==
  \/ \E r \in Replicas : SweepNext(r) \/ ReportNext(r) \/ TerminalNext(r) \/ FaultNext(r)
  \/ \E p \in Pods : PodLost(p)
  \/ LeaseLapse

allCoordVars == <<leaseVars, coordVars>>
CoordSpec == CoordInit /\ [][CoordNext]_allCoordVars

\* Run sweeps on a ticker, a lease operation that is attempted again and again
\* is answered in the end, from one store or the other, and a post-terminal hook
\* that has started runs to its end.
SweepFairness(r) ==
  /\ WF_allCoordVars(SweepNext(r))
  /\ SF_allCoordVars(LeaseRead(r))
  /\ SF_allCoordVars(LeaseAcquire(r))
  /\ WF_allCoordVars(BackoffElapsed(r))
  /\ WF_allCoordVars(TerminalSettle(r) \/ TerminalRelease(r))
CoordFairness == \A r \in Replicas : SweepFairness(r)

-----------------------------------------------------------------------------
(* Properties.                                                             *)

\* No two replicas hold bindings with the same stamp: the compare-and-swaps of
\* RecordHandoff and of the resume entry give each generation one owner, which
\* is what lets a stamp alone decide who was overtaken (bindingStale).
StampsUnique ==
  \A r, s \in Replicas : r # s /\ Bound(r) /\ Bound(s) => bind[r].gen # bind[s].gen

\* No pod has recorded a generation the session row has not reached, whatever
\* fences were lost, retried or answered late: the row can always be
\* overtaken by a fresh handoff that the pod accepts.
FenceNeverAhead == \A p \in Pods : fenced[p] <= row.gen

\* A binding published by a takeover or a resume is on a pod that accepted a
\* generation at least as high as the stamp: no operational RPC of a new
\* coordinator precedes its fence (readoptAndFence, landed).
PublishedAfterFence ==
  \A r \in Replicas : Bound(r) /\ bind[r].gen > 1 => fenced[bind[r].pod] >= bind[r].gen

\* "A session row never names a released pod" (ReleaseSuspendedPod): each
\* release of a slot comes after the write that takes the pod off a live row.
RowNamesNoReleasedPod ==
  row.state # "terminal" /\ row.pod # NoPod => slot[row.pod] # "released"

\* A session that ended stays ended, at the generation it ended at, whatever
\* report, handoff or resume was in flight on any replica.
TerminalIsFinal ==
  [][row.state = "terminal" => row'.state = "terminal" /\ row'.gen = row.gen]_allCoordVars

\* The generations are fencing tokens: every step of the replicas draws, claims,
\* admits, serves or gives up a token, or leaves all of them alone.
Claims(r)  == {sw[r].hgen} \ {0}
Serving(r) == [gen |-> bind[r].gen, pod |-> bind[r].pod]
Token == INSTANCE FencingToken
           WITH Owners <- Replicas, Resources <- Pods, NoResource <- NoPod,
                token <- row.gen, claims <- [r \in Replicas |-> Claims(r)],
                serving <- [r \in Replicas |-> Serving(r)], admitted <- fenced
ImplementsFencingToken == Token!TokenSpec

\* Every binding of a session that ended is dropped and none is published for
\* good afterwards, whichever of the hook, the sweep and a takeover in flight
\* comes last.
EndedSessionIsUnbound == <>[](row.state = "terminal" => \A r \in Replicas : ~Bound(r))

\* A session in an adopted state whose lease has lapsed does not stay without a
\* coordinator: some replica's sweep takes the lease, or the session leaves the
\* adopted states (sweepRow's adoptable branch).
LapsedLeaseIsAdopted ==
  (LeaseHolder = NoHolder /\ AdoptedState(row)) ~> (LeaseHolder # NoHolder \/ ~AdoptedState(row))

\* A replica whose binding a peer has passed does not keep it while a peer holds
\* the lease: its own sweep evicts it, from whatever listing it started.
StaleBindingGoes ==
  \A r \in Replicas :
    []<>~(/\ Bound(r) /\ bind[r].gen < row.gen
          /\ LeaseHolder \notin {r, NoHolder} /\ ~PodlessSuspended(row))

\* The mirror row of an ended session goes and stays gone, although a sweep that
\* listed the session alive may write it once more (sweepTerminal).
MirrorGoesWithSession == <>[](row.state = "terminal" => mirror = NoMirror)
-----------------------------------------------------------------------------
(* What comments in the code say of it and the model refutes.              *)

\* A failed re-adoption gives up the lease, because otherwise "the lease pins to
\* this replica": no replica keeps the lease of a session with a pod for good
\* and no binding.
NoPinnedLease ==
  \A r \in Replicas : []<>~(LeaseHolder = r /\ ~Bound(r) /\ sw[r].pc # "dead" /\ PodHeld(row))
=============================================================================
