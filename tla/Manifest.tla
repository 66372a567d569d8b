------------------------------ MODULE Manifest ------------------------------
(* The checkpoint manifests of one session: the upload driver that reserves  *)
(* quota, writes the intent row, grants and confirms chunks and finalises    *)
(* the attempt; the next attempt, which supersedes it; the cleaner a resume  *)
(* runs; the backstop sweep; the latest-n rotation; and the tenant's byte    *)
(* counter they all move.  A chunk is one byte.  A step is one call to a     *)
(* store (Postgres, Redis, the object store), or one walk over a prefix; the *)
(* actors interleave between any two, and a replica may die between any two. *)
EXTENDS Integers, Sequences, FiniteSetsExt

CONSTANTS
  Attempts,       \* 1..n: checkpoint ids in the order they are minted
  MaxChunks,      \* chunks an archive may have
  Window,         \* the grant window
  Limit,          \* the tenant's storage limit
  OtherBytes,     \* bytes of the tenant's other artifacts
  RetainedCount,  \* completed checkpoints the rotation keeps
  MaxGen,         \* bound on the session's coordination generation
  Plans           \* what may happen to the session: see plan

ASSUME ManifestConstants ==
  /\ Attempts \subseteq Nat \ {0} /\ IsFiniteSet(Attempts)
  /\ MaxChunks \in Nat /\ Window \in Nat /\ Limit \in Nat /\ OtherBytes \in Nat
  /\ RetainedCount \in Nat /\ MaxGen \in Nat
  /\ Plans \subseteq [overlap : BOOLEAN, attempts : Nat, chunks : 0..MaxChunks,
                      moves : SUBSET {"resume", "takeover", "idle"}]

VARIABLES
  plan,      \* how many attempts, of how many chunks, which of "resume",
             \*   "takeover" and "idle" may happen, and whether another
             \*   replica or a resume may overlap an attempt; chosen once
  gen,       \* the session row's coordination_generation
  idle,      \* the session is terminal, or past its resume window
  used,      \* the tenant's counter in Redis
  row,       \* attempt -> its checkpoint_manifest row
  cat,       \* attempt -> chunk -> its artifact_store row
  obj,       \* attempt -> chunks stored under its prefix
  grant,     \* attempt -> chunk -> its presigned PUT
  driver,    \* attempt -> the upload driver
  kept,      \* the retention catalogue, oldest first
  sweeper,   \* the resume cleaner and the backstop
  settled    \* attempt -> who took its reservation off the counter

manifestVars == <<plan, gen, idle, used, row, cat, obj, grant, driver,
                  kept, sweeper, settled>>

Chunks == 0..(MaxChunks - 1)
Sweepers == {"cleaner", "backstop"}
Reasons == {"in_progress", "complete", "timeout", "stream_truncated",
            "superseded", "quota_exceeded"}

NoRow == [state |-> "none", partial |-> FALSE, reason |-> "in_progress",
          gen |-> 0, count |-> 0, bytes |-> 0, reserved |-> 0,
          released |-> FALSE]

IdleDriver == [pc |-> "new", gen |-> 0, reserved |-> 0, cap |-> 0,
               intent |-> FALSE, declared |-> 0, signed |-> {},
               queue |-> <<>>, out |-> 0, acked |-> {}, checking |-> {},
               counting |-> {}, confirmed |-> 0, expired |-> FALSE,
               aborted |-> "", prior |-> 0, seen |-> NoRow, drop |-> {}]

IdleSweeper == [pc |-> "idle", target |-> 0, seen |-> NoRow, gen |-> 0]

ManifestInit ==
  /\ plan \in Plans
  /\ gen = 1
  /\ idle = FALSE
  /\ used = OtherBytes
  /\ row = [a \in Attempts |-> NoRow]
  /\ cat = [a \in Attempts |-> [i \in Chunks |-> "none"]]
  /\ obj = [a \in Attempts |-> {}]
  /\ grant = [a \in Attempts |-> [i \in Chunks |-> "none"]]
  /\ driver = [a \in Attempts |-> IdleDriver]
  /\ kept = <<>>
  /\ sweeper = [s \in Sweepers |-> IdleSweeper]
  /\ settled = [a \in Attempts |-> <<>>]

-----------------------------------------------------------------------------
(* The stores.                                                               *)

Live(a) == {i \in Chunks : cat[a][i] = "live"}

Adjust(delta) == IF used + delta < 0 THEN 0 ELSE used + delta

\* Mutant: a completed checkpoint counts as an active partial one.
ActiveRow(a) == row[a].state = "active"
ActivePartial(a) == row[a].state = "active" /\ row[a].partial

(* The active partial row of the session at the highest generation.          *)
LatestActive ==
  {a \in Attempts : /\ ActivePartial(a)
                    /\ \A b \in Attempts :
                         ActivePartial(b) => row[b].gen <= row[a].gen}

\* Mutant: a row of the same generation is not superseded.
SupersedesOlder(b, r) == ActivePartial(b) /\ row[b].gen < r.gen
Supersedes(b, r) == ActivePartial(b) /\ row[b].gen <= r.gen

(* What Put leaves of the other rows, and the row it inserts.                *)
Superseding(a, r) ==
  [b \in Attempts |->
     IF b = a
       THEN r
       ELSE IF Supersedes(b, r)
              THEN [row[b] EXCEPT !.state = "deleted",
                                  !.reason = "superseded"]
              ELSE row[b]]

ConfirmChunk(a, i, total) ==
  row' = IF row[a].state = "active" /\ row[a].count < i + 1
           THEN [row EXCEPT ![a].count = i + 1, ![a].bytes = total]
           ELSE row

Finalise(a, partial, reason) ==
  row' = IF row[a].state = "active"
           THEN [row EXCEPT ![a].partial = partial, ![a].reason = reason,
                            ![a].state = IF row[a].count = 0
                                           THEN "deleted" ELSE "active"]
           ELSE row

SoftDelete(a) ==
  row' = IF row[a].state = "active"
           THEN [row EXCEPT ![a].state = "deleted"] ELSE row

\* Mutant: the UPDATE does not look at reservation_released_at.
AnyRow(a) == row[a].state # "none"
Outstanding(a) == row[a].state # "none" /\ ~row[a].released

(* The guarded UPDATE, and the decrement that follows when it took the row.  *)
ReleaseReservation(a, who, delta) ==
  IF Outstanding(a)
    THEN /\ row' = [row EXCEPT ![a].released = TRUE]
         /\ used' = Adjust(delta)
         /\ settled' = [settled EXCEPT ![a] = Append(@, who)]
    ELSE UNCHANGED <<row, used, settled>>

(* Soft-delete the artifact_store row of each listed chunk, which takes its  *)
(* bytes off the counter once, then delete the object.                       *)
ReleaseChunks(a, rows, objects) ==
  /\ cat' = [cat EXCEPT ![a] = [i \in Chunks |->
               IF i \in rows \cap Live(a) THEN "soft" ELSE @[i]]]
  /\ used' = Adjust(-Cardinality(rows \cap Live(a)))
  /\ obj' = [obj EXCEPT ![a] = @ \ objects]

ReleasePrefix(a) == ReleaseChunks(a, obj[a], obj[a])

(* The delete of the object `last` fails, which ends the walk.               *)
ReleasePrefixFails(a) ==
  \E last \in obj[a] :
    ReleaseChunks(a, {i \in obj[a] : i <= last}, {i \in obj[a] : i < last})

-----------------------------------------------------------------------------
(* The upload driver.                                                        *)

Ended == {"new", "done"}
Running(a) == driver[a].pc \notin Ended
Dead(d) == d.expired \/ d.aborted # ""    \* d.ctx is cancelled or expired

(* The attempt returns, or dies with its replica: of the driver's state only *)
(* what is still on the counter and what it confirmed are of interest.       *)
Returned(d) ==
  [IdleDriver EXCEPT !.pc = "done", !.reserved = d.reserved,
                     !.confirmed = d.confirmed]
To(a, d) == driver' = [driver EXCEPT ![a] = d]
Abort(d, reason) == [d EXCEPT !.aborted = IF @ = "" THEN reason ELSE @]

(* driveCheckpoint: the single-flight lock of the replica, then the row's    *)
(* generation.  Two replicas hold two locks.                                 *)
Begin(a) ==
  /\ driver[a].pc = "new" /\ a <= plan.attempts
  /\ \A b \in Attempts : b < a => driver[b].pc # "new"
  /\ Cardinality({b \in Attempts : Running(b)})
       < (IF plan.overlap THEN 2 ELSE 1)
  /\ To(a, [driver[a] EXCEPT !.pc = "stream", !.gen = gen])
  /\ UNCHANGED <<plan, gen, idle, used, row, cat, obj, grant, kept,
                 sweeper, settled>>

(* The adapter refuses a workspace over its size limit before it probes.     *)
SizeReject(a) ==
  /\ driver[a].pc = "stream" /\ driver[a].reserved = 0 /\ ~driver[a].intent
  /\ To(a, Returned(driver[a]))
  /\ UNCHANGED <<plan, gen, idle, used, row, cat, obj, grant, kept,
                 sweeper, settled>>

(* onProbe: Reserve the probed bytes, and note the headroom left.            *)
Reserve(a) ==
  /\ driver[a].pc = "stream" /\ driver[a].reserved = 0
  /\ \E probed \in 1..plan.chunks :
       IF Dead(driver[a]) \/ used + probed > Limit
         THEN /\ To(a, Returned(driver[a]))
              /\ UNCHANGED used
         ELSE /\ To(a, [driver[a] EXCEPT !.pc = "prior", !.reserved = probed,
                                         !.cap = Limit - used])
              /\ used' = used + probed
  /\ UNCHANGED <<plan, gen, idle, row, cat, obj, grant, kept, sweeper,
                 settled>>

(* An early failure gives the reservation back on d.ctx, so not at all once  *)
(* d.ctx is dead.                                                            *)
GiveBack(a) ==
  /\ To(a, [Returned(driver[a]) EXCEPT
             !.reserved = IF Dead(driver[a]) THEN @ ELSE 0])
  /\ used' = IF Dead(driver[a]) THEN used ELSE Adjust(-driver[a].reserved)

ReadPrior(a) ==
  LET d == driver[a] IN
  /\ d.pc = "prior"
  /\ IF Dead(d)
       THEN GiveBack(a)
       ELSE /\ UNCHANGED used
            /\ \/ /\ \A b \in LatestActive : row[b].gen > d.gen
                  /\ To(a, [d EXCEPT !.pc = "put"])
               \/ \E b \in LatestActive :
                    /\ row[b].gen <= d.gen
                    /\ To(a, [d EXCEPT !.pc = "supersede", !.prior = b,
                                       !.seen = row[b]])
  /\ UNCHANGED <<plan, gen, idle, row, cat, obj, grant, kept, sweeper,
                 settled>>

(* The prior attempt's reservation, sized from the row as it was read.       *)
SupersedeRelease(a) ==
  LET d == driver[a] IN
  /\ d.pc = "supersede"
  /\ IF Dead(d)
       THEN UNCHANGED <<row, used, settled>>
       ELSE ReleaseReservation(d.prior, "other",
                               d.seen.bytes - d.seen.reserved)
  /\ To(a, [d EXCEPT !.pc = "sweep_prior"])
  /\ UNCHANGED <<plan, gen, idle, cat, obj, grant, kept, sweeper>>

(* Best effort: a failed or refused sweep leaves the objects.                *)
SupersedeSweep(a) ==
  LET d == driver[a] IN
  /\ d.pc = "sweep_prior"
  /\ \/ ~Dead(d) /\ ReleasePrefix(d.prior)
     \/ ~Dead(d) /\ ReleasePrefixFails(d.prior)
     \/ Dead(d) /\ UNCHANGED <<cat, used, obj>>
  /\ To(a, [d EXCEPT !.pc = "put", !.prior = 0, !.seen = NoRow])
  /\ UNCHANGED <<plan, gen, idle, row, grant, kept, sweeper, settled>>

IntentRow(d) ==
  [NoRow EXCEPT !.state = "active", !.partial = TRUE, !.gen = d.gen,
                !.reserved = d.reserved]

Refused(a) ==
  \E b \in Attempts : ActivePartial(b) /\ row[b].gen > driver[a].gen

\* Mutant: the error of a refused Put is not looked at.
PutUnchecked(a) ==
  LET d == driver[a] IN
  /\ d.pc = "put"
  /\ row' = IF Dead(d) \/ Refused(a) THEN row
                                     ELSE Superseding(a, IntentRow(d))
  /\ To(a, [d EXCEPT !.pc = "stream", !.intent = TRUE])
  /\ UNCHANGED <<plan, gen, idle, used, cat, obj, grant, kept, sweeper,
                 settled>>

Put(a) ==
  LET d == driver[a] IN
  /\ d.pc = "put"
  /\ IF Dead(d) \/ Refused(a)
       THEN GiveBack(a) /\ UNCHANGED row
       ELSE /\ row' = Superseding(a, IntentRow(d))
            /\ To(a, [d EXCEPT !.pc = "stream", !.intent = TRUE])
            /\ UNCHANGED used
  /\ UNCHANGED <<plan, gen, idle, cat, obj, grant, kept, sweeper, settled>>

(* Sign a PUT for chunk i, unless the granted total would pass the headroom. *)
Refuses(d) == Cardinality(d.signed) + 1 > d.cap
MintGrant(a, d, i) ==
  IF Refuses(d)
    THEN To(a, Abort(d, "quota_exceeded")) /\ UNCHANGED grant
    ELSE /\ To(a, [d EXCEPT !.signed = @ \cup {i}, !.out = @ + 1])
         /\ grant' = [grant EXCEPT ![a][i] = "out"]

WindowFull(d) == d.out >= Window

(* The adapter declares its chunks in order.  A second declaration of a      *)
(* signed chunk signs the same PUT again and changes nothing.                *)
OnChunkReady(a) ==
  LET d == driver[a]
      e == [d EXCEPT !.declared = @ + 1]
  IN
  /\ d.pc = "stream" /\ d.declared < plan.chunks
  /\ IF ~d.intent
       THEN To(a, Abort(e, "stream_truncated")) /\ UNCHANGED grant
       ELSE IF WindowFull(d)
              THEN /\ To(a, [e EXCEPT !.queue = Append(@, d.declared)])
                   /\ UNCHANGED grant
              ELSE MintGrant(a, e, d.declared)
  /\ UNCHANGED <<plan, gen, idle, used, row, cat, obj, kept, sweeper,
                 settled>>

(* The pod writes a chunk with a PUT it holds, however late.                 *)
PutObject(a, i) ==
  /\ grant[a][i] = "out"
  /\ grant' = [grant EXCEPT ![a][i] = "spent"]
  /\ obj' = [obj EXCEPT ![a] = @ \cup {i}]
  /\ UNCHANGED <<plan, gen, idle, used, row, cat, driver, kept, sweeper,
                 settled>>

OnChunkCommitted(a, i) ==
  LET d == driver[a]
      e == [d EXCEPT !.acked = @ \cup {i}, !.out = @ - 1,
                     !.checking = @ \cup {i}]
  IN
  /\ d.pc = "stream" /\ grant[a][i] = "spent" /\ i \notin d.acked
  /\ IF d.queue = <<>>
       THEN To(a, e) /\ UNCHANGED grant
       ELSE MintGrant(a, [e EXCEPT !.queue = Tail(@)], Head(d.queue))
  /\ UNCHANGED <<plan, gen, idle, used, row, cat, obj, kept, sweeper,
                 settled>>

(* One confirm goroutine: Stat, the catalogue row and the driver's totals;   *)
(* then the row's counters, with the total it read.                          *)
ConfirmStat(a, i) ==
  LET d == driver[a]
      e == [d EXCEPT !.checking = @ \ {i}]
  IN
  /\ Running(a) /\ i \in d.checking
  /\ IF i \in obj[a]
       THEN /\ To(a, [e EXCEPT !.confirmed = @ + 1,
                               !.counting = @ \cup {<<i, d.confirmed + 1>>}])
            /\ cat' = [cat EXCEPT ![a][i] = IF @ = "none" THEN "live" ELSE @]
       ELSE To(a, Abort(e, "stream_truncated")) /\ UNCHANGED cat
  /\ UNCHANGED <<plan, gen, idle, used, row, obj, grant, kept, sweeper,
                 settled>>

ConfirmCount(a) ==
  LET d == driver[a] IN
  /\ Running(a)
  /\ \E c \in d.counting :
       /\ To(a, [d EXCEPT !.counting = @ \ {c}])
       /\ IF Dead(d) THEN UNCHANGED row ELSE ConfirmChunk(a, c[1], c[2])
  /\ UNCHANGED <<plan, gen, idle, used, cat, obj, grant, kept, sweeper,
                 settled>>

(* The attempt's deadline passes.                                            *)
Deadline(a) ==
  /\ Running(a) /\ ~driver[a].expired
  /\ To(a, [driver[a] EXCEPT !.expired = TRUE])
  /\ UNCHANGED <<plan, gen, idle, used, row, cat, obj, grant, kept,
                 sweeper, settled>>

(* The terminal handlers wait for the confirms.                              *)
Confirmed(a) ==
  /\ driver[a].pc = "stream"
  /\ driver[a].checking = {} /\ driver[a].counting = {}

(* A CheckpointFailed frame, or a stream error; after the deadline a stream  *)
(* error is a timeout.                                                       *)
StreamFails(a) ==
  LET d == driver[a] IN
  /\ Confirmed(a)
  /\ \E reason \in IF d.expired THEN {"timeout", "stream_truncated"}
                                ELSE {"stream_truncated"} :
       To(a, [Abort(d, reason) EXCEPT !.pc = "abort"])
  /\ UNCHANGED <<plan, gen, idle, used, row, cat, obj, grant, kept,
                 sweeper, settled>>

(* The summary counts the chunks the adapter committed.  A Finalise on a     *)
(* dead context fails and leaves the row as it is.                           *)
OnSummary(a) ==
  LET d == driver[a] IN
  /\ Confirmed(a)
  /\ d.declared > 0 /\ Cardinality(d.acked) = d.declared
  /\ IF d.aborted # "" \/ d.confirmed # d.declared
       THEN /\ To(a, [Abort(d, "stream_truncated") EXCEPT !.pc = "abort"])
            /\ UNCHANGED row
       ELSE IF d.expired
              THEN To(a, Returned(d)) /\ UNCHANGED row
              ELSE /\ To(a, [d EXCEPT !.pc = "reconcile"])
                   /\ Finalise(a, FALSE, "complete")
  /\ UNCHANGED <<plan, gen, idle, used, cat, obj, grant, kept, sweeper,
                 settled>>

(* finaliseAbort runs on a detached context; the store may still refuse.     *)
FinaliseAbort(a) ==
  LET d == driver[a] IN
  /\ d.pc = "abort"
  /\ \/ /\ Finalise(a, TRUE, d.aborted)
        /\ To(a, [d EXCEPT !.pc = "reconcile"])
     \/ /\ To(a, Returned(d))
        /\ UNCHANGED row
  /\ UNCHANGED <<plan, gen, idle, used, cat, obj, grant, kept, sweeper,
                 settled>>

\* Mutant: the row's counter stands for what was confirmed.
Unreported(a) == row[a].bytes - driver[a].reserved
Unconfirmed(a) == driver[a].confirmed - driver[a].reserved

(* The part of the reservation the attempt did not confirm goes back, on the *)
(* attempt's own context when it completed.                                  *)
Reconcile(a) ==
  LET d == driver[a] IN
  /\ d.pc = "reconcile"
  /\ IF d.aborted = "" /\ d.expired
       THEN UNCHANGED <<row, used, settled>>
       ELSE ReleaseReservation(a, "own", Unconfirmed(a))
  /\ To(a, CASE d.aborted = "" -> [d EXCEPT !.pc = "record"]
              [] d.aborted = "timeout" -> Returned(d)
              [] OTHER -> [d EXCEPT !.pc = "sweep"])
  /\ UNCHANGED <<plan, gen, idle, cat, obj, grant, kept, sweeper>>

AbortSweep(a) ==
  LET d == driver[a] IN
  /\ d.pc = "sweep"
  /\ \/ ReleasePrefix(a) /\ To(a, [d EXCEPT !.pc = "last_list"])
     \/ ReleasePrefixFails(a) /\ To(a, Returned(d))
  /\ UNCHANGED <<plan, gen, idle, row, grant, kept, sweeper, settled>>

AbortLastList(a) ==
  /\ driver[a].pc = "last_list"
  /\ IF obj[a] = {} THEN SoftDelete(a) ELSE UNCHANGED row
  /\ To(a, Returned(driver[a]))
  /\ UNCHANGED <<plan, gen, idle, used, cat, obj, grant, kept, sweeper,
                 settled>>

(* snapshot records the reference on the session row and in the retention    *)
(* catalogue; a session under legal hold keeps every checkpoint.             *)
RecordSnapshot(a) ==
  LET d == driver[a]
      all == Append(kept, a)
      excess == Max({Len(all) - RetainedCount, 0})
  IN
  /\ d.pc = "record"
  /\ \/ /\ kept' = SubSeq(all, excess + 1, Len(all))
        /\ To(a, [d EXCEPT !.pc = "rotate",
                           !.drop = {all[i] : i \in 1..excess}])
     \/ /\ kept' = all
        /\ To(a, Returned(d))
     \/ /\ To(a, Returned(d))
        /\ UNCHANGED kept
  /\ UNCHANGED <<plan, gen, idle, used, row, cat, obj, grant, sweeper,
                 settled>>

(* ReleaseCheckpointChunks: no last list, and no second try.                 *)
Rotate(a) ==
  LET d == driver[a] IN
  /\ d.pc = "rotate"
  /\ \/ /\ d.drop = {}
        /\ To(a, Returned(d))
        /\ UNCHANGED <<row, cat, used, obj>>
     \/ /\ d.drop # {}
        /\ LET b == Min(d.drop) IN
           /\ \/ ReleasePrefix(b) /\ SoftDelete(b)
              \/ ReleasePrefixFails(b) /\ UNCHANGED row
           /\ To(a, [d EXCEPT !.drop = @ \ {b}])
  /\ UNCHANGED <<plan, gen, idle, grant, kept, sweeper, settled>>

(* The replica dies with the attempt.                                        *)
Crash(a) ==
  /\ Running(a)
  /\ To(a, Returned(driver[a]))
  /\ UNCHANGED <<plan, gen, idle, used, row, cat, obj, grant, kept,
                 sweeper, settled>>

-----------------------------------------------------------------------------
(* The session moves on: a resume, whose tail cleans up below the generation *)
(* it committed, and a takeover, which cleans up nothing.                    *)

Unattended == plan.overlap \/ \A a \in Attempts : ~Running(a)

Resume ==
  /\ "resume" \in plan.moves
  /\ gen < MaxGen /\ Unattended /\ sweeper["cleaner"].pc = "idle"
  /\ gen' = gen + 1
  /\ sweeper' = [sweeper EXCEPT !["cleaner"] =
                   [IdleSweeper EXCEPT !.pc = "read", !.gen = gen + 1]]
  /\ UNCHANGED <<plan, idle, used, row, cat, obj, grant, driver, kept,
                 settled>>

Takeover ==
  /\ "takeover" \in plan.moves
  /\ gen < MaxGen /\ Unattended
  /\ gen' = gen + 1
  /\ UNCHANGED <<plan, idle, used, row, cat, obj, grant, driver, kept,
                 sweeper, settled>>

GoesIdle ==
  /\ "idle" \in plan.moves /\ ~idle /\ idle' = TRUE
  /\ UNCHANGED <<plan, gen, used, row, cat, obj, grant, driver, kept,
                 sweeper, settled>>

SweeperTo(s, w) == sweeper' = [sweeper EXCEPT ![s] = w]

CleanupAfterResume ==
  LET w == sweeper["cleaner"] IN
  /\ w.pc = "read"
  /\ \/ /\ \A a \in LatestActive : row[a].gen >= w.gen
        /\ SweeperTo("cleaner", IdleSweeper)
     \/ \E a \in LatestActive :
          /\ row[a].gen < w.gen
          /\ SweeperTo("cleaner", [w EXCEPT !.pc = "sweep", !.target = a])
  /\ UNCHANGED <<plan, gen, idle, used, row, cat, obj, grant, driver, kept,
                 settled>>

\* Mutant: a row whose replica died before it finalised is not listed.
ReclaimableFinalised(a) ==
  ActivePartial(a) /\ idle /\ row[a].reason # "in_progress"

(* An in-progress row past its deadline, or a finalised one, of a session    *)
(* nobody will resume.                                                       *)
Reclaimable(a) ==
  /\ ActivePartial(a) /\ idle
  /\ \/ row[a].reason # "in_progress"
     \/ driver[a].expired
     \/ ~Running(a)

BackstopSelect(a) ==
  /\ sweeper["backstop"].pc = "idle" /\ Reclaimable(a)
  /\ SweeperTo("backstop", [IdleSweeper EXCEPT !.pc = "sweep", !.target = a,
                                               !.seen = row[a]])
  /\ UNCHANGED <<plan, gen, idle, used, row, cat, obj, grant, driver, kept,
                 settled>>

AfterSweep(s) == IF s = "backstop" THEN "release" ELSE "last_list"

Sweep(s) ==
  LET w == sweeper[s] IN
  /\ w.pc = "sweep" /\ ReleasePrefix(w.target)
  /\ SweeperTo(s, [w EXCEPT !.pc = AfterSweep(s)])
  /\ UNCHANGED <<plan, gen, idle, row, grant, driver, kept, settled>>

SweepFails(s) ==
  LET w == sweeper[s] IN
  /\ w.pc = "sweep" /\ ReleasePrefixFails(w.target)
  /\ SweeperTo(s, IdleSweeper)
  /\ UNCHANGED <<plan, gen, idle, row, grant, driver, kept, settled>>

(* The reservation as ListReclaimable read it; a row that uploaded more than *)
(* it reserved is not charged for the rest.                                  *)
BackstopRelease ==
  LET w == sweeper["backstop"]
      delta == w.seen.bytes - w.seen.reserved
  IN
  /\ w.pc = "release"
  /\ ReleaseReservation(w.target, "other", IF delta < 0 THEN delta ELSE 0)
  /\ SweeperTo("backstop", [w EXCEPT !.pc = "last_list", !.seen = NoRow])
  /\ UNCHANGED <<plan, gen, idle, cat, obj, grant, driver, kept>>

LastList(s) ==
  LET w == sweeper[s] IN
  /\ w.pc = "last_list"
  /\ IF obj[w.target] = {} THEN SoftDelete(w.target) ELSE UNCHANGED row
  /\ SweeperTo(s, IdleSweeper)
  /\ UNCHANGED <<plan, gen, idle, used, cat, obj, grant, driver, kept,
                 settled>>

-----------------------------------------------------------------------------
DriverNext(a) ==
  \/ Begin(a) \/ SizeReject(a) \/ Reserve(a) \/ ReadPrior(a)
  \/ SupersedeRelease(a) \/ SupersedeSweep(a) \/ Put(a)
  \/ OnChunkReady(a)
  \/ \E i \in Chunks : \/ PutObject(a, i) \/ OnChunkCommitted(a, i)
                       \/ ConfirmStat(a, i)
  \/ ConfirmCount(a) \/ Deadline(a) \/ StreamFails(a) \/ OnSummary(a)
  \/ FinaliseAbort(a) \/ Reconcile(a) \/ AbortSweep(a) \/ AbortLastList(a)
  \/ RecordSnapshot(a) \/ Rotate(a) \/ Crash(a)

SweeperNext ==
  \/ Resume \/ Takeover \/ GoesIdle \/ CleanupAfterResume
  \/ \E a \in Attempts : BackstopSelect(a)
  \/ \E s \in Sweepers : Sweep(s) \/ SweepFails(s) \/ LastList(s)
  \/ BackstopRelease

ManifestNext == SweeperNext \/ \E a \in Attempts : DriverNext(a)

(* An attempt has a deadline, the leader's sweep runs on a timer, and an     *)
(* object store that fails a delete now does not fail it for ever.           *)
BackstopFairness ==
  /\ WF_manifestVars(\E a \in Attempts : Deadline(a))
  /\ SF_manifestVars(\E a \in Attempts : BackstopSelect(a))
  /\ SF_manifestVars(Sweep("backstop"))
  /\ WF_manifestVars(BackstopRelease)
  /\ WF_manifestVars(LastList("backstop"))

ManifestSpec == ManifestInit /\ [][ManifestNext]_manifestVars

-----------------------------------------------------------------------------
(* At most one active partial row per session, whichever replicas write: a   *)
(* resume that reads LatestActive has no choice to make.                     *)
OneActivePartial ==
  \A a, b \in Attempts : ActivePartial(a) /\ ActivePartial(b) => a = b

(* No object is stored under a checkpoint whose intent row was never         *)
(* written, whatever order the adapter's frames come in.                     *)
NoUnknownObject ==
  \A a \in Attempts : obj[a] # {} => row[a].state # "none"

(* A reservation leaves the counter at most once, although the attempt, the  *)
(* attempt that supersedes it and the backstop may each release it.          *)
ReleasedOnce == \A a \in Attempts : Len(settled[a]) <= 1

(* What an attempt has on the counter: its reservation while no row has      *)
(* settled it, less the chunks already released; then its catalogued chunks. *)
Charge(a) ==
  LET soft == {i \in Chunks : cat[a][i] = "soft"} IN
  IF row[a].state = "none"
    THEN driver[a].reserved
    ELSE IF row[a].released THEN Cardinality(Live(a))
                            ELSE row[a].reserved - Cardinality(soft)

(* As long as every settled reservation was settled by its own attempt, the  *)
(* tenant's counter is exactly what its checkpoints hold: whichever arm each *)
(* attempt ended on, and however the confirms and the sweeps interleaved.    *)
QuotaExact ==
  (\A a \in Attempts : settled[a] \in {<<>>, <<"own">>}) =>
    used = OtherBytes
           + FoldSet(LAMBDA a, acc : acc + Charge(a), 0, Attempts)

(* A checkpoint the retention catalogue lists can be restored: its row is    *)
(* active and complete, and every chunk it counts is stored.  This needs no  *)
(* attempt to overlap a resume or another replica.                           *)
ListedIsRestorable ==
  ~plan.overlap =>
    \A n \in DOMAIN kept :
      LET r == row[kept[n]] IN
      /\ r.state = "active" /\ ~r.partial
      /\ r.count = driver[kept[n]].confirmed
      /\ 0..(r.count - 1) \subseteq obj[kept[n]]

(* Every partial row of a session nobody will resume is taken in the end.    *)
BackstopReclaims ==
  \A a \in Attempts : (idle /\ ActivePartial(a)) ~> ~ActivePartial(a)

=============================================================================
