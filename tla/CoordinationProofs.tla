------------------------- MODULE CoordinationProofs -------------------------
(***************************************************************************)
(* The inductive invariant of Coordination, for any number of replicas and *)
(* pods and any bounds: that every step keeps the variables in their       *)
(* ranges, the order of the generations (what the row has drawn, replicas  *)
(* claim, pods admit and bindings carry) and the session's life; what      *)
(* follows from it; and that the generations implement FencingToken.       *)
(***************************************************************************)
EXTENDS Coordination, TLAPS

\* The steps of a takeover that hold a claimed generation.
Claiming == {"readopt", "fence", "fencing", "publish"}

\* Stamps, claims and generations on their way to a pod are behind the row.
Behind ==
  \A r \in Replicas : /\ bind[r].gen <= row.gen
                      /\ sw[r].hgen <= row.gen
                      /\ sw[r].fgen <= row.gen

\* A takeover claims its generation from the handoff to the end, fences a pod at
\* that generation or a later one, and publishes once the pod has taken it.
ClaimShape ==
  \A r \in Replicas :
    /\ sw[r].hgen # 0 <=> sw[r].pc \in Claiming
    /\ sw[r].fgen # 0 => sw[r].pc \in Claiming
    /\ sw[r].pc \in {"fence", "fencing", "publish"} => sw[r].pod \in Pods
    /\ sw[r].pc \in {"fencing", "publish"} => sw[r].fgen >= sw[r].hgen
    /\ sw[r].pc = "publish" => fenced[sw[r].pod] >= sw[r].hgen

\* A generation that is claimed or served has one owner.
OneOwner ==
  \A r, s \in Replicas : r # s =>
    /\ sw[r].hgen # 0 => sw[r].hgen # sw[s].hgen /\ sw[r].hgen # bind[s].gen
    /\ bind[r].gen # 0 => bind[r].gen # bind[s].gen

\* What a replica that is between two steps knows of the row.
Phases ==
  /\ row.state = "resuming" => row.gen <= MaxGen
  /\ \A r \in Replicas :
       /\ term[r] \in {"settle", "release"} => row.state = "terminal"
       /\ rep[r].pc = "release" => row.state = "terminal" \/ row.pod = NoPod
       /\ rep[r].pc = "write" => rep[r].seen \in {"running", "suspended"}

Tokens == FenceNeverAhead /\ Behind /\ ClaimShape /\ OneOwner /\ PublishedAfterFence
Life   == Phases /\ RowNamesNoReleasedPod

CoordInv == CoordTypeOK /\ Tokens /\ Life

\* The invariant holds when the session has just started on its first replica.
LEMMA InitInv == CoordInit => CoordInv
  <1>. SUFFICES ASSUME CoordInit PROVE CoordInv OBVIOUS
  <1>. USE LeaseAssumption, CoordAssumption
  <1>1. PICK r \in Replicas, p \in Pods :
          /\ redis = r /\ pg = NoHolder /\ redisUp = TRUE
          /\ row = [state |-> "running", gen |-> 1, pod |-> p, retries |-> 0, marked |-> FALSE]
          /\ bind = [s \in Replicas |-> IF s = r THEN Binding(1, p) ELSE NoBinding]
          /\ slot = [q \in Pods |-> IF q = p THEN "held" ELSE "free"]
          /\ fenced = [q \in Pods |-> 0]
          /\ mirror = NoMirror /\ backoff = {}
          /\ sw = [s \in Replicas |-> SwIdle]
          /\ rep = [s \in Replicas |-> RepIdle]
          /\ term = [s \in Replicas |-> "idle"]
    BY ZenonT(60) DEF CoordInit
  <1>2. CoordTypeOK
    BY <1>1 DEF CoordTypeOK, Holders, Rows, SessionStates, Gens, Bindings, Binding, NoBinding,
                NoMirror, SweepRecords, ReportRecords, SwIdle, RepIdle, NoRow
  <1>3. Behind /\ ClaimShape /\ OneOwner
    BY <1>1 DEF Behind, ClaimShape, Claiming, OneOwner, Binding, NoBinding, SwIdle
  <1>4. FenceNeverAhead /\ PublishedAfterFence /\ Phases /\ RowNamesNoReleasedPod
    BY <1>1 DEF FenceNeverAhead, PublishedAfterFence, Phases, RowNamesNoReleasedPod, Bound,
                Binding, NoBinding, RepIdle
  <1>. QED BY <1>2, <1>3, <1>4 DEF CoordInv, Tokens, Life
-----------------------------------------------------------------------------
(* The updates the actions are made of.                                    *)

\* A sweep moves on and the other replicas' sweeps stay where they are.
LEMMA SwUpdate ==
  ASSUME CoordTypeOK, NEW r \in Replicas, NEW rec \in SweepRecords, SwGoto(r, rec)
  PROVE  /\ sw' \in [Replicas -> SweepRecords]
         /\ sw'[r] = rec
         /\ \A s \in Replicas \ {r} : sw'[s] = sw[s]
  BY DEF CoordTypeOK, SwGoto

\* The record of a sweep that is not running is a sweep record.
LEMMA SwIdleTyped == SwIdle \in SweepRecords
  BY CoordAssumption DEF SwIdle, SweepRecords, NoRow, Holders

\* A report moves on and the other replicas' reports stay where they are.
LEMMA RepUpdate ==
  ASSUME CoordTypeOK, NEW r \in Replicas, NEW rec \in ReportRecords, RepGoto(r, rec)
  PROVE  /\ rep' \in [Replicas -> ReportRecords]
         /\ rep'[r] = rec
         /\ \A s \in Replicas \ {r} : rep'[s] = rep[s]
  BY DEF CoordTypeOK, RepGoto

\* The record of a report that is not running is a report record.
LEMMA RepIdleTyped == RepIdle \in ReportRecords
  BY DEF RepIdle, ReportRecords, SessionStates, Bindings, NoBinding

\* A dropped binding is the binding of no pod.
LEMMA EvictUpdate ==
  ASSUME CoordTypeOK, NEW r \in Replicas, EvictBinding(r)
  PROVE  /\ bind' \in [Replicas -> Bindings]
         /\ bind'[r] = NoBinding
         /\ \A s \in Replicas \ {r} : bind'[s] = bind[s]
  BY DEF CoordTypeOK, EvictBinding, Bindings

\* A released slot was the slot of the pod that was released, or none changed.
LEMMA SlotUpdate ==
  ASSUME CoordTypeOK, NEW p, slot' = SlotReleased(p)
  PROVE  /\ slot' \in [Pods -> {"free", "held", "released", "lost"}]
         /\ \A q \in Pods : q # p => slot'[q] = slot[q]
  BY ZenonT(60) DEF CoordTypeOK, SlotReleased

\* Acquire, Release, expiry and outage leave a holder or none in each lease store.
LEMMA LeaseUpdate ==
  ASSUME CoordTypeOK, NEW r \in Replicas,
         AcquireLease(r) \/ TryReleaseLease(r) \/ UNCHANGED leaseVars
  PROVE  redis' \in Holders /\ pg' \in Holders /\ redisUp' \in BOOLEAN
  BY DEF CoordTypeOK, AcquireLease, TryReleaseLease, ReleaseLease, Dropped, leaseVars, Holders
-----------------------------------------------------------------------------
(* Types.                                                                  *)

\* Sweeps keep their records well-formed.
LEMMA SweepTyped ==
  ASSUME CoordInv, NEW r \in Replicas, SweepNext(r)
  PROVE  sw' \in [Replicas -> SweepRecords]
  <1>. USE SwUpdate, SwIdleTyped, CoordAssumption DEF CoordInv
  <1>. sw[r] \in SweepRecords BY DEF CoordTypeOK
  <1>1. CASE SwEnd(r) BY <1>1 DEF SwEnd
  <1>2. CASE SweepTerminal(r) BY <1>2 DEF SweepTerminal, CoordTypeOK
  <1>3. CASE SweepList(r)
    <2>1. Listed \in [adopted : BOOLEAN, podless : BOOLEAN, gen : {0} \cup Gens]
      BY DEF Listed, CoordTypeOK, Rows, AdoptedState, PodHeld, PodlessSuspended
    <2>2. [SwIdle EXCEPT !.pc = "get", !.listed = Listed] \in SweepRecords
      BY ZenonT(60), <2>1 DEF SwIdle, SweepRecords, Holders
    <2>. QED BY <2>2, <1>3 DEF SweepList
  <1>4. CASE SweepGet(r)
    <2>1. LeaseHolder \in Holders /\ Bound(r) \in BOOLEAN
      BY DEF LeaseHolder, Bound, CoordTypeOK
    <2>2. [sw[r] EXCEPT !.pc = "acquire", !.prior = LeaseHolder, !.bound = Bound(r)] \in SweepRecords
      BY ZenonT(60), <2>1 DEF SweepRecords
    <2>. QED BY <2>2, <1>4 DEF SweepGet
  <1>5. CASE SweepTakeover(r)
    <2>1. [sw[r] EXCEPT !.pc = "handoff"] \in SweepRecords BY DEF SweepRecords
    <2>. QED BY <2>1, <1>5 DEF SweepTakeover
  <1>6. CASE RecordHandoff(r) /\ PodHeld(row)
    <2>1. row.gen + 1 \in Gens BY <1>6 DEF RecordHandoff, CoordTypeOK, Rows, Gens
    <2>2. [SwIdle EXCEPT !.pc = "readopt", !.hgen = row.gen + 1] \in SweepRecords
      BY ZenonT(60), <2>1 DEF SwIdle, SweepRecords, NoRow, Holders
    <2>. QED BY <2>2, <1>6 DEF RecordHandoff
  <1>7. CASE ReadoptConnect(r)
    <2>1. row.pod \in Pods BY <1>7 DEF ReadoptConnect, CoordTypeOK, Rows
    <2>2. [sw[r] EXCEPT !.pc = "fence", !.pod = row.pod] \in SweepRecords
      BY ZenonT(60), <2>1 DEF SweepRecords
    <2>. QED BY <2>2, <1>7 DEF ReadoptConnect
  <1>8. CASE FenceRead(r)
    <2>1. row.gen \in Gens BY DEF CoordTypeOK, Rows
    <2>2. [sw[r] EXCEPT !.pc = "fencing", !.fgen = row.gen] \in SweepRecords
      BY ZenonT(60), <2>1 DEF SweepRecords
    <2>. QED BY <2>2, <1>8 DEF FenceRead
  <1>9. CASE FenceAccepted(r)
    <2>1. [sw[r] EXCEPT !.pc = "publish"] \in SweepRecords BY DEF SweepRecords
    <2>. QED BY <2>1, <1>9 DEF FenceAccepted
  <1>10. CASE FenceAnswerLost(r) \/ FenceTransient(r)
    <2>1. sw[r].tries + 1 \in 0 .. MaxAttempts
      BY <1>10 DEF FenceAnswerLost, FenceTransient, SweepRecords
    <2>2. [sw[r] EXCEPT !.tries = sw[r].tries + 1] \in SweepRecords BY <2>1 DEF SweepRecords
    <2>. QED BY <2>2, <1>10 DEF FenceAnswerLost, FenceTransient
  <1>11. CASE FenceStaleRetry(r)
    <2>1. sw[r].tries + 1 \in 0 .. MaxAttempts BY <1>11 DEF FenceStaleRetry, SweepRecords
    <2>2. row.gen \in Gens BY DEF CoordTypeOK, Rows
    <2>3. [sw[r] EXCEPT !.fgen = row.gen, !.tries = sw[r].tries + 1] \in SweepRecords
      BY ZenonT(60), <2>1, <2>2 DEF SweepRecords
    <2>. QED BY <2>3, <1>11 DEF FenceStaleRetry
  <1>12. SwEnd(r) \/ SweepTerminal(r) \/ SweepList(r) \/ SweepGet(r) \/ SweepTakeover(r)
         \/ (RecordHandoff(r) /\ PodHeld(row)) \/ ReadoptConnect(r) \/ FenceRead(r) \/ FenceAccepted(r)
         \/ FenceAnswerLost(r) \/ FenceTransient(r) \/ FenceStaleRetry(r)
    BY DEF SweepNext, LeaseRead, LeaseAcquire, SweepPodless, SweepDeadConnection, SweepSkip,
           SweepHeld, SweepRenew, SweepError, RecordHandoff, HandoffRefused, ReadoptFault,
           FenceRelinquish, Relinquish, SweepPublish, PublishAs
  <1>. QED
    BY <1>1, <1>2, <1>3, <1>4, <1>5, <1>6, <1>7, <1>8, <1>9, <1>10, <1>11, <1>12

\* Reports keep their records well-formed.
LEMMA ReportTyped ==
  ASSUME CoordInv, NEW r \in Replicas, ReportNext(r)
  PROVE  rep' \in [Replicas -> ReportRecords]
  <1>. USE RepUpdate, RepIdleTyped DEF CoordInv
  <1>. rep[r] \in ReportRecords /\ bind[r] \in Bindings /\ row \in Rows BY DEF CoordTypeOK
  <1>1. CASE RepEnd(r) BY <1>1 DEF RepEnd
  <1>2. CASE EvictSuperseded(r) BY <1>2 DEF EvictSuperseded, CoordTypeOK
  <1>3. CASE StreamFailure(r)
    <2>1. bind[r].pod \in Pods \cup {NoPod} BY DEF Bindings, NoBinding
    <2>2. [RepIdle EXCEPT !.pc = "read", !.pod = bind[r].pod] \in ReportRecords
      BY ZenonT(60), <2>1 DEF RepIdle, ReportRecords, SessionStates, Bindings
    <2>. QED BY <2>2, <1>3 DEF StreamFailure
  <1>4. CASE ReportRead(r) /\ ~RepEnd(r)
    <2>1. /\ row.state \in SessionStates /\ row.pod \in Pods \cup {NoPod}
          /\ (row.retries < MaxRetries) \in BOOLEAN
      BY DEF Rows
    <2>2. [rep[r] EXCEPT !.pc = "write", !.seen = row.state, !.seenPod = row.pod,
                         !.budget = row.retries < MaxRetries] \in ReportRecords
      BY ZenonT(60), <2>1 DEF ReportRecords
    <2>. QED BY <2>2, <1>4 DEF ReportRead
  <1>5. CASE ReportRecovery(r)
    <2>1. [rep[r] EXCEPT !.pc = "release", !.bind = bind[r]] \in ReportRecords
      BY ZenonT(60) DEF ReportRecords
    <2>. QED BY <2>1, <1>5 DEF ReportRecovery
  <1>. QED
    BY <1>1, <1>2, <1>3, <1>4, <1>5
       DEF ReportNext, ReportRead, ReportFailed, ReportConflict, ReportRelease

\* The rows the actions write are rows.
LEMMA RowTyped ==
  ASSUME CoordTypeOK
  PROVE  /\ [row EXCEPT !.marked = TRUE] \in Rows
         /\ row.gen < MaxGen => [row EXCEPT !.gen = row.gen + 1] \in Rows
         /\ Retried(row) \in Rows /\ Awaited(row) \in Rows
         /\ (row.state = "resuming" => row.gen <= MaxGen) => Terminated(row) \in Rows
         /\ \A p \in Pods \cup {NoPod} :
              [row EXCEPT !.state = "terminal", !.pod = p] \in Rows
  <1>. row \in Rows BY DEF CoordTypeOK
  <1>. USE CoordAssumption
  <1>1. [row EXCEPT !.marked = TRUE] \in Rows BY ZenonT(60) DEF Rows
  <1>2. row.gen < MaxGen => [row EXCEPT !.gen = row.gen + 1] \in Rows BY DEF Rows, Gens
  <1>3. Retried(row) \in Rows
    <2>1. row.retries + 1 \in Nat BY DEF Rows
    <2>. QED BY ZenonT(60), <2>1 DEF Rows, SessionStates, Retried
  <1>4. Awaited(row) \in Rows BY ZenonT(60) DEF Rows, SessionStates, Awaited
  <1>5. ASSUME row.state = "resuming" => row.gen <= MaxGen PROVE Terminated(row) \in Rows
    <2>1. (IF row.state = "resuming" THEN row.gen + 1 ELSE row.gen) \in Gens BY <1>5 DEF Rows, Gens
    <2>. QED BY ZenonT(60), <2>1 DEF Terminated, Rows, SessionStates
  <1>6. \A p \in Pods \cup {NoPod} : [row EXCEPT !.state = "terminal", !.pod = p] \in Rows
    BY ZenonT(60) DEF Rows, SessionStates
  <1>. QED BY ZenonT(60), <1>1, <1>2, <1>3, <1>4, <1>5, <1>6

\* A release on an ended session keeps the row, the bindings and the slots typed.
LEMMA ReleaseTyped ==
  ASSUME CoordTypeOK, NEW r \in Replicas,
         \/ ReleaseTerminal(r)
         \/ ReleaseBinding(r) /\ row' = [row EXCEPT !.marked = TRUE]
         \/ ReleaseBinding(r) /\ UNCHANGED row
  PROVE  /\ row' \in Rows /\ row'.gen = row.gen /\ row'.state = row.state /\ row'.pod = row.pod
         /\ bind' \in [Replicas -> Bindings]
         /\ bind'[r] = NoBinding
         /\ \A s \in Replicas \ {r} : bind'[s] = bind[s]
         /\ slot' \in [Pods -> {"free", "held", "released", "lost"}]
         /\ \A q \in Pods : q # bind[r].pod => slot'[q] = slot[q]
  <1>1. row \in Rows BY DEF CoordTypeOK
  <1>2. row' = row \/ row' = [row EXCEPT !.marked = TRUE] BY DEF ReleaseTerminal
  <1>3. row' \in Rows /\ row'.gen = row.gen /\ row'.state = row.state /\ row'.pod = row.pod
    BY ZenonT(60), <1>1, <1>2, RowTyped DEF Rows
  <1>4. EvictBinding(r) BY DEF ReleaseTerminal, ReleaseBinding
  <1>5. slot' = slot \/ slot' = SlotReleased(bind[r].pod) BY DEF ReleaseTerminal, ReleaseBinding
  <1>6. /\ slot' \in [Pods -> {"free", "held", "released", "lost"}]
        /\ \A q \in Pods : q # bind[r].pod => slot'[q] = slot[q]
    BY <1>5, SlotUpdate DEF CoordTypeOK
  <1>. QED BY <1>3, <1>4, <1>6, EvictUpdate

\* A step of a sweep keeps every variable in its range.
LEMMA SweepStepTyped ==
  ASSUME CoordInv, NEW r \in Replicas, SweepNext(r)
  PROVE  CoordTypeOK'
  <1>. CoordTypeOK BY DEF CoordInv
  <1>1. sw' \in [Replicas -> SweepRecords] BY SweepTyped
  <1>2. redis' \in Holders /\ pg' \in Holders /\ redisUp' \in BOOLEAN
    <2>1. AcquireLease(r) \/ TryReleaseLease(r) \/ UNCHANGED leaseVars
      BY ZenonT(60) DEF SweepNext, LeaseRead, LeaseAcquire, SweepTerminal, SweepList, SweepPodless,
           SweepDeadConnection, SweepSkip, SweepGet, SweepHeld, SweepRenew, SweepTakeover,
           SweepError, RecordHandoff, HandoffRefused, ReadoptConnect, ReadoptFault, FenceRead,
           FenceAccepted, FenceAnswerLost, FenceTransient, FenceStaleRetry, FenceRelinquish,
           Relinquish, SweepPublish, PublishAs
    <2>. QED BY SMTT(60), <2>1, LeaseUpdate
  <1>3. rep' = rep /\ term' = term
    BY DEF SweepNext, LeaseRead, LeaseAcquire, SweepTerminal, SweepList, SweepPodless,
           SweepDeadConnection, SweepSkip, SweepGet, SweepHeld, SweepRenew, SweepTakeover,
           SweepError, RecordHandoff, HandoffRefused, ReadoptConnect, ReadoptFault, FenceRead,
           FenceAccepted, FenceAnswerLost, FenceTransient, FenceStaleRetry, FenceRelinquish,
           Relinquish, SweepPublish, PublishAs
  <1>4. CASE SweepTerminal(r)
    <2>1. row' \in Rows /\ bind' \in [Replicas -> Bindings]
          /\ slot' \in [Pods -> {"free", "held", "released", "lost"}]
      BY <1>4, ReleaseTyped DEF SweepTerminal, CoordTypeOK
    <2>. QED BY <1>1, <1>2, <1>3, <1>4, <2>1 DEF SweepTerminal, CoordTypeOK, NoMirror, Holders
  <1>5. CASE RecordHandoff(r)
    <2>1. row' \in Rows BY ZenonT(60), <1>5, RowTyped DEF RecordHandoff
    <2>2. mirror' \in [holder : Holders, gen : {0} \cup Gens]
      BY <1>5, CoordAssumption DEF RecordHandoff, MirrorUpsert, CoordTypeOK, Rows, Gens, Holders
    <2>. QED BY SMTT(60), <1>1, <1>2, <1>3, <1>5, <2>1, <2>2 DEF RecordHandoff, CoordTypeOK
  <1>6. CASE SweepPublish(r)
    <2>1. sw[r].hgen \in Gens /\ sw[r].pod \in Pods
      BY <1>6
         DEF SweepPublish, PublishAs, CoordInv, Tokens, ClaimShape, Claiming, CoordTypeOK, SweepRecords
    <2>2. Binding(sw[r].hgen, sw[r].pod) \in Bindings BY <2>1 DEF Binding, Bindings
    <2>3. bind' \in [Replicas -> Bindings] BY <1>6, <2>2 DEF SweepPublish, PublishAs, CoordTypeOK
    <2>. QED
      BY <1>1, <1>2, <1>3, <1>6, <2>1, <2>3
         DEF SweepPublish, PublishAs, MirrorUpsert, CoordTypeOK, Holders
  <1>7. CASE FenceAccepted(r) \/ FenceAnswerLost(r)
    <2>1. fenced' \in [Pods -> {0} \cup Gens]
      BY <1>7 DEF FenceAccepted, FenceAnswerLost, CoordTypeOK, SweepRecords
    <2>. QED BY <1>1, <1>2, <1>3, <1>7, <2>1 DEF FenceAccepted, FenceAnswerLost, CoordTypeOK
  <1>8. CASE SweepRenew(r)
    <2>1. mirror' \in [holder : Holders, gen : {0} \cup Gens]
      BY <1>8 DEF SweepRenew, MirrorUpsert, CoordTypeOK, SweepRecords, Holders
    <2>. QED BY <1>1, <1>2, <1>3, <1>8, <2>1 DEF SweepRenew, CoordTypeOK
  <1>9. CASE SweepPodless(r)
    BY <1>1, <1>2, <1>3, <1>9 DEF SweepPodless, CoordTypeOK, NoMirror, Holders
  <1>10. CASE SweepDeadConnection(r) \/ SweepHeld(r)
    <2>1. bind' \in [Replicas -> Bindings]
      BY <1>10, EvictUpdate DEF SweepDeadConnection, SweepHeld, CoordTypeOK
    <2>. QED BY <1>1, <1>2, <1>3, <1>10, <2>1 DEF SweepDeadConnection, SweepHeld, CoordTypeOK
  <1>11. CASE Relinquish(r)
    BY <1>1, <1>2, <1>3, <1>11 DEF Relinquish, CoordTypeOK
  <1>12. CASE UNCHANGED <<row, bind, slot, fenced, mirror, backoff>>
    BY <1>1, <1>2, <1>3, <1>12 DEF CoordTypeOK
  <1>. QED
    BY <1>4, <1>5, <1>6, <1>7, <1>8, <1>9, <1>10, <1>11, <1>12
       DEF SweepNext, LeaseRead, LeaseAcquire, SweepList, SweepSkip, SweepGet, SweepTakeover,
           SweepError, HandoffRefused, ReadoptConnect, ReadoptFault, FenceRead, FenceTransient,
           FenceStaleRetry, FenceRelinquish

\* So does every other step.
LEMMA OtherStepTyped ==
  ASSUME CoordInv,
         \/ \E r \in Replicas : ReportNext(r) \/ TerminalNext(r) \/ FaultNext(r)
         \/ \E p \in Pods : PodLost(p)
         \/ LeaseLapse
  PROVE  CoordTypeOK'
  <1>. CoordTypeOK BY SMTT(60) DEF CoordInv
  <1>1. ASSUME NEW r \in Replicas, ReportNext(r) PROVE CoordTypeOK'
    <2>1. rep' \in [Replicas -> ReportRecords] BY <1>1, ReportTyped
    <2>2. CASE EvictSuperseded(r)
      BY SMTT(60), <2>1, <2>2, EvictUpdate DEF EvictSuperseded, CoordTypeOK, leaseVars
    <2>3. CASE ReportRecovery(r)
      BY ZenonT(60), <2>1, <2>3, RowTyped DEF ReportRecovery, CoordTypeOK, leaseVars
    <2>4. CASE ReportFailed(r)
      <3>1. rep[r].pod \in Pods \cup {NoPod} BY SMTT(60) DEF CoordTypeOK, ReportRecords
      <3>2. row' \in Rows BY ZenonT(60), <2>4, <3>1, RowTyped DEF ReportFailed
      <3>. QED BY <2>1, <2>4, <3>2 DEF ReportFailed, CoordTypeOK, leaseVars
    <2>5. CASE ReportRelease(r)
      <3>1. bind' \in [Replicas -> Bindings] /\ slot' \in [Pods -> {"free", "held", "released", "lost"}]
        BY <2>5, ReleaseTyped DEF ReportRelease, CoordTypeOK
      <3>. QED BY <2>1, <2>5, <3>1 DEF ReportRelease, CoordTypeOK, leaseVars
    <2>. QED
      BY ZenonT(60), <1>1, <2>1, <2>2, <2>3, <2>4, <2>5
         DEF ReportNext, StreamFailure, ReportRead, ReportConflict, CoordTypeOK, leaseVars
  <1>2. ASSUME NEW r \in Replicas, TerminalNext(r) PROVE CoordTypeOK'
    <2>1. CASE TerminalWrite(r)
      BY ZenonT(60), <2>1, RowTyped
         DEF TerminalWrite, CoordTypeOK, CoordInv, Life, Phases, leaseVars
    <2>2. CASE TerminalSettle(r)
      BY <2>2, EvictUpdate DEF TerminalSettle, CoordTypeOK, leaseVars
    <2>3. CASE TerminalRelease(r)
      <3>1. row' \in Rows /\ bind' \in [Replicas -> Bindings]
            /\ slot' \in [Pods -> {"free", "held", "released", "lost"}]
        BY <2>3, ReleaseTyped DEF TerminalRelease, CoordTypeOK
      <3>. QED BY ZenonT(60), <2>3, <3>1 DEF TerminalRelease, CoordTypeOK, leaseVars
    <2>. QED BY SMTT(60), <1>2, <2>1, <2>2, <2>3 DEF TerminalNext
  <1>3. ASSUME NEW r \in Replicas, FaultNext(r) PROVE CoordTypeOK'
    <2>1. CASE BackoffElapsed(r) BY <2>1 DEF BackoffElapsed, CoordTypeOK, leaseVars
    <2>2. CASE ConnectionLost(r)
      <3>1. bind[r] \in [gen : Gens, pod : Pods, live : BOOLEAN]
        BY <2>2 DEF ConnectionLost, CoordTypeOK, Bindings, NoBinding
      <3>2. [bind[r] EXCEPT !.live = FALSE] \in Bindings BY ZenonT(60), <3>1 DEF Bindings
      <3>3. bind' \in [Replicas -> Bindings] BY <2>2, <3>2 DEF ConnectionLost, CoordTypeOK
      <3>. QED BY <2>2, <3>3 DEF ConnectionLost, CoordTypeOK, leaseVars
    <2>3. CASE Crash(r)
      <3>1. [SwIdle EXCEPT !.pc = "dead"] \in SweepRecords
        BY SwIdleTyped DEF SweepRecords
      <3>2. [RepIdle EXCEPT !.pc = "dead"] \in ReportRecords
        BY RepIdleTyped DEF ReportRecords
      <3>3. bind' \in [Replicas -> Bindings] BY <2>3 DEF Crash, CoordTypeOK, Bindings
      <3>. QED BY <2>3, <3>1, <3>2, <3>3 DEF Crash, CoordTypeOK, leaseVars
    <2>. QED BY <1>3, <2>1, <2>2, <2>3 DEF FaultNext
  <1>4. ASSUME NEW p \in Pods, PodLost(p) PROVE CoordTypeOK'
    BY <1>4 DEF PodLost, CoordTypeOK, leaseVars
  <1>5. CASE LeaseLapse
    BY ZenonT(60), <1>5
       DEF LeaseLapse, RedisExpire, PgExpire, RedisOutage, CoordTypeOK, coordVars, Holders
  <1>. QED BY <1>1, <1>2, <1>3, <1>4, <1>5

-----------------------------------------------------------------------------
(* The order of the generations.                                           *)

\* A step that gives up claims and bindings, or keeps them, and never takes the
\* row back to an earlier generation.
GivesUp ==
  /\ row'.gen >= row.gen
  /\ fenced' = fenced
  /\ \A s \in Replicas :
       /\ \/ bind'[s].gen = bind[s].gen /\ bind'[s].pod = bind[s].pod
          \/ bind'[s] = NoBinding
       /\ \/ sw'[s] = sw[s]
          \/ sw'[s].hgen = 0 /\ sw'[s].fgen = 0 /\ sw'[s].pc \notin Claiming

\* Every generation a row, a pod, a sweep or a binding carries is a natural number.
LEMMA GenerationTypes ==
  ASSUME CoordTypeOK
  PROVE  /\ row.gen \in Nat
         /\ \A p \in Pods : fenced[p] \in Nat
         /\ \A s \in Replicas : bind[s].gen \in Nat /\ sw[s].hgen \in Nat /\ sw[s].fgen \in Nat
  <1>. USE CoordAssumption DEF CoordTypeOK, Gens
  <1>1. row.gen \in Nat BY DEF Rows
  <1>2. \A p \in Pods : fenced[p] \in Nat OBVIOUS
  <1>3. \A s \in Replicas : bind[s].gen \in Nat BY DEF Bindings, NoBinding
  <1>4. \A s \in Replicas : sw[s].hgen \in Nat /\ sw[s].fgen \in Nat BY DEF SweepRecords
  <1>. QED BY <1>1, <1>2, <1>3, <1>4

\* A step in which replicas only keep or give up what they have keeps the tokens
\* in order.
LEMMA GivingUp ==
  ASSUME CoordInv, CoordTypeOK', GivesUp
  PROVE  Tokens'
  <1>. USE GenerationTypes
  <1>1. CoordTypeOK /\ row'.gen \in Nat BY DEF CoordInv, CoordTypeOK, Rows, Gens
  <1>2. FenceNeverAhead' BY <1>1 DEF CoordInv, Tokens, FenceNeverAhead, GivesUp
  <1>3. Behind' BY <1>1 DEF CoordInv, Tokens, Behind, GivesUp, NoBinding
  <1>4. ClaimShape' BY <1>1 DEF CoordInv, Tokens, ClaimShape, Claiming, GivesUp
  <1>5. OneOwner' BY <1>1 DEF CoordInv, Tokens, OneOwner, GivesUp, NoBinding
  <1>6. PublishedAfterFence'
    BY <1>1 DEF CoordInv, Tokens, PublishedAfterFence, Bound, GivesUp, NoBinding
  <1>. QED BY <1>2, <1>3, <1>4, <1>5, <1>6 DEF Tokens

\* The handoff draws a generation nobody has.
LEMMA HandoffTokens ==
  ASSUME CoordInv, CoordTypeOK', NEW r \in Replicas, RecordHandoff(r), PodHeld(row)
  PROVE  Tokens'
  <1>1. /\ sw'[r].hgen = row.gen + 1 /\ sw'[r].fgen = 0 /\ sw'[r].pc = "readopt"
        /\ \A s \in Replicas \ {r} : sw'[s] = sw[s]
    <2>1. SwGoto(r, [SwIdle EXCEPT !.pc = "readopt", !.hgen = row.gen + 1]) BY DEF RecordHandoff
    <2>2. /\ sw'[r] = [SwIdle EXCEPT !.pc = "readopt", !.hgen = row.gen + 1]
          /\ \A s \in Replicas \ {r} : sw'[s] = sw[s]
      BY <2>1 DEF SwGoto, CoordInv, CoordTypeOK
    <2>. QED BY <2>2 DEF SwIdle
  <1>2. row'.gen = row.gen + 1 /\ bind' = bind /\ fenced' = fenced
    BY DEF RecordHandoff, CoordInv, CoordTypeOK, Rows
  <1>3. CoordTypeOK BY DEF CoordInv
  <1>. USE <1>1, <1>2, <1>3, GenerationTypes DEF CoordInv, Tokens
  <1>4. FenceNeverAhead' BY DEF FenceNeverAhead
  <1>5. Behind' BY DEF Behind
  <1>6. ClaimShape' BY DEF ClaimShape, Claiming
  <1>7. OneOwner' BY DEF OneOwner, Behind
  <1>8. PublishedAfterFence' BY DEF PublishedAfterFence, Bound
  <1>. QED BY <1>4, <1>5, <1>6, <1>7, <1>8

\* On the way to the pod the claim stays, and the generation that is sent is
\* read from the row after the handoff, so it is not below the claim.
LEMMA FencingTokens ==
  ASSUME CoordInv, CoordTypeOK', NEW r \in Replicas,
         \/ ReadoptConnect(r) \/ FenceRead(r) \/ FenceAccepted(r) \/ FenceAnswerLost(r)
         \/ FenceTransient(r) \/ FenceStaleRetry(r)
  PROVE  Tokens'
  <1>. sw[r] \in SweepRecords /\ row \in Rows BY DEF CoordInv, CoordTypeOK
  <1>0. CoordTypeOK BY DEF CoordInv
  <1>. USE GenerationTypes
  <1>a. \/ /\ ReadoptConnect(r)
           /\ SwGoto(r, [sw[r] EXCEPT !.pc = "fence", !.pod = row.pod])
        \/ /\ FenceRead(r)
           /\ SwGoto(r, [sw[r] EXCEPT !.pc = "fencing", !.fgen = row.gen])
        \/ /\ FenceAccepted(r)
           /\ SwGoto(r, [sw[r] EXCEPT !.pc = "publish"])
        \/ /\ FenceAnswerLost(r) \/ FenceTransient(r)
           /\ SwGoto(r, [sw[r] EXCEPT !.tries = sw[r].tries + 1])
        \/ /\ FenceStaleRetry(r)
           /\ SwGoto(r, [sw[r] EXCEPT !.fgen = row.gen, !.tries = sw[r].tries + 1])
    BY DEF ReadoptConnect, FenceRead, FenceAccepted, FenceAnswerLost, FenceTransient,
           FenceStaleRetry
  <1>b. \/ /\ ReadoptConnect(r)
           /\ sw'[r] = [sw[r] EXCEPT !.pc = "fence", !.pod = row.pod]
        \/ /\ FenceRead(r)
           /\ sw'[r] = [sw[r] EXCEPT !.pc = "fencing", !.fgen = row.gen]
        \/ /\ FenceAccepted(r)
           /\ sw'[r] = [sw[r] EXCEPT !.pc = "publish"]
        \/ /\ FenceAnswerLost(r) \/ FenceTransient(r)
           /\ sw'[r] = [sw[r] EXCEPT !.tries = sw[r].tries + 1]
        \/ /\ FenceStaleRetry(r)
           /\ sw'[r] = [sw[r] EXCEPT !.fgen = row.gen, !.tries = sw[r].tries + 1]
    BY <1>0, <1>a DEF SwGoto, CoordTypeOK
  <1>c. \A s \in Replicas \ {r} : sw'[s] = sw[s] BY <1>0, <1>a DEF SwGoto, CoordTypeOK
  <1>d. row' = row /\ bind' = bind
    BY DEF ReadoptConnect, FenceRead, FenceAccepted, FenceAnswerLost, FenceTransient,
           FenceStaleRetry
  <1>e. sw'[r].hgen = sw[r].hgen BY ZenonT(60), <1>b DEF SweepRecords
  <1>1. /\ row' = row /\ bind' = bind
        /\ sw'[r].hgen = sw[r].hgen
        /\ \A s \in Replicas \ {r} : sw'[s] = sw[s]
    BY <1>c, <1>d, <1>e
  <1>2. sw[r].pc \in Claiming /\ sw'[r].pc \in Claiming
    BY ZenonT(60), <1>b
       DEF ReadoptConnect, FenceRead, FenceAccepted, FenceAnswerLost, FenceTransient,
           FenceStaleRetry, SweepRecords, Claiming
  <1>3. sw'[r].fgen \in {sw[r].fgen, row.gen} BY ZenonT(60), <1>b DEF SweepRecords
  <1>4. \A p \in Pods : /\ fenced'[p] \in Nat
                        /\ fenced'[p] >= fenced[p]
                        /\ fenced'[p] <= row.gen
    <2>1. CASE FenceAccepted(r) \/ FenceAnswerLost(r)
      <3>1. /\ fenced' = [fenced EXCEPT ![sw[r].pod] = sw[r].fgen]
            /\ sw[r].fgen > fenced[sw[r].pod] /\ sw[r].fgen <= row.gen
        BY <2>1 DEF FenceAccepted, FenceAnswerLost, PodAccepts, CoordInv, Tokens, Behind
      <3>. QED BY <1>0, <3>1 DEF CoordInv, Tokens, FenceNeverAhead, CoordTypeOK
    <2>2. CASE fenced' = fenced BY SMTT(60), <1>0, <2>2 DEF CoordInv, Tokens, FenceNeverAhead
    <2>. QED BY SMTT(60), <2>1, <2>2 DEF ReadoptConnect, FenceRead, FenceTransient, FenceStaleRetry
  <1>5. /\ sw'[r].pc \in {"fence", "fencing", "publish"} => sw'[r].pod \in Pods
        /\ sw'[r].pc \in {"fencing", "publish"} => sw'[r].fgen >= sw'[r].hgen
        /\ sw'[r].pc = "publish" => fenced'[sw'[r].pod] >= sw'[r].hgen
    <2>1. CASE ReadoptConnect(r)
      BY SMTT(60), <1>1, <2>1 DEF ReadoptConnect, SwGoto, CoordInv, CoordTypeOK, SweepRecords, Rows
    <2>2. CASE FenceRead(r)
      BY SMTT(60), <1>0, <1>1, <2>2
         DEF FenceRead, SwGoto, CoordInv, CoordTypeOK, SweepRecords, Tokens,
                             ClaimShape, Behind
    <2>3. CASE FenceAccepted(r)
      BY SMTT(60), <1>0, <1>1, <2>3
         DEF FenceAccepted, SwGoto, CoordInv, CoordTypeOK, SweepRecords, Tokens,
                             ClaimShape
    <2>4. CASE FenceAnswerLost(r) \/ FenceTransient(r)
      <3>1. sw'[r] = [sw[r] EXCEPT !.tries = sw[r].tries + 1] /\ sw[r].pc = "fencing"
        BY <1>0, <2>4 DEF FenceAnswerLost, FenceTransient, SwGoto, CoordTypeOK
      <3>2. sw'[r].pc = "fencing" /\ sw'[r].pod = sw[r].pod /\ sw'[r].fgen = sw[r].fgen
        BY SMTT(60), <3>1 DEF SweepRecords
      <3>. QED BY <1>1, <3>1, <3>2 DEF CoordInv, Tokens, ClaimShape
    <2>5. CASE FenceStaleRetry(r)
      <3>1. sw'[r] = [sw[r] EXCEPT !.fgen = row.gen, !.tries = sw[r].tries + 1]
            /\ sw[r].pc = "fencing"
        BY <1>0, <2>5 DEF FenceStaleRetry, SwGoto, CoordTypeOK
      <3>2. sw'[r].pc = "fencing" /\ sw'[r].pod = sw[r].pod /\ sw'[r].fgen = row.gen
        BY ONLY SMTT(60), <1>0, <3>1 DEF SweepRecords
      <3>. QED BY <1>0, <1>1, <3>1, <3>2 DEF CoordInv, Tokens, ClaimShape, Behind
    <2>. QED BY <2>1, <2>2, <2>3, <2>4, <2>5
  <1>6. FenceNeverAhead' BY SMTT(60), <1>0, <1>1, <1>4 DEF FenceNeverAhead
  <1>7. Behind' BY SMTT(60), <1>0, <1>1, <1>3 DEF CoordInv, Tokens, Behind
  <1>8. ClaimShape'
    <2>1. /\ sw'[r].hgen # 0 <=> sw'[r].pc \in Claiming
          /\ sw'[r].fgen # 0 => sw'[r].pc \in Claiming
      BY SMTT(60), <1>1, <1>2 DEF CoordInv, Tokens, ClaimShape
    <2>2. ASSUME NEW s \in Replicas \ {r}
          PROVE  /\ sw'[s].hgen # 0 <=> sw'[s].pc \in Claiming
                 /\ sw'[s].fgen # 0 => sw'[s].pc \in Claiming
                 /\ sw'[s].pc \in {"fence", "fencing", "publish"} => sw'[s].pod \in Pods
                 /\ sw'[s].pc \in {"fencing", "publish"} => sw'[s].fgen >= sw'[s].hgen
                 /\ sw'[s].pc = "publish" => fenced'[sw'[s].pod] >= sw'[s].hgen
      <3>1. ClaimShape BY Zenon DEF CoordInv, Tokens
      <3>2. sw'[s] = sw[s] BY Zenon, <1>1
      <3>3. \A p \in Pods : fenced'[p] >= fenced[p] BY <1>4
      <3>4. sw[s].hgen \in Nat /\ \A p \in Pods : fenced[p] \in Nat /\ fenced'[p] \in Nat
        BY <1>0, <1>4
      <3>. QED BY ONLY SMTT(60), <3>1, <3>2, <3>3, <3>4 DEF ClaimShape
    <2>. QED BY SMTT(60), <1>5, <2>1, <2>2 DEF ClaimShape
  <1>9. OneOwner' BY SMTT(30), <1>0, <1>1 DEF CoordInv, Tokens, OneOwner
  <1>10. PublishedAfterFence'
    <2>1. \A s \in Replicas : bind[s].pod # NoPod => bind[s].pod \in Pods
      BY SMTT(60) DEF CoordInv, CoordTypeOK, Bindings, NoBinding
    <2>. QED BY SMTT(60), <1>0, <1>1, <1>4, <2>1 DEF CoordInv, Tokens, PublishedAfterFence, Bound
  <1>. QED BY <1>6, <1>7, <1>8, <1>9, <1>10 DEF Tokens

\* The claim becomes the stamp, on a pod that has admitted it.
LEMMA PublishTokens ==
  ASSUME CoordInv, CoordTypeOK', NEW r \in Replicas, SweepPublish(r)
  PROVE  Tokens'
  <1>. CoordTypeOK BY DEF CoordInv
  <1>. USE GenerationTypes
  <1>1. /\ sw'[r] = SwIdle /\ \A s \in Replicas \ {r} : sw'[s] = sw[s]
        /\ row' = row /\ fenced' = fenced
    BY DEF SweepPublish, PublishAs, SwEnd, SwGoto, CoordTypeOK
  <1>2. /\ bind'[r] = Binding(sw[r].hgen, sw[r].pod)
        /\ \A s \in Replicas \ {r} : bind'[s] = bind[s]
    BY SMTT(60) DEF SweepPublish, PublishAs, CoordTypeOK
  <1>3. sw[r].hgen # 0 /\ sw[r].pod \in Pods /\ fenced[sw[r].pod] >= sw[r].hgen
    BY SMTT(60) DEF SweepPublish, PublishAs, CoordInv, Tokens, ClaimShape, Claiming
  <1>. USE <1>1, <1>2, <1>3 DEF CoordInv, Tokens, SwIdle, Binding
  <1>4. FenceNeverAhead' BY SMTT(60) DEF FenceNeverAhead
  <1>5. Behind' BY SMTT(60) DEF Behind
  <1>6. ClaimShape'
    <2>1. ClaimShape BY Zenon
    <2>. QED BY ONLY SMTT(60), <1>1, <2>1 DEF ClaimShape, Claiming, SwIdle
  <1>7. OneOwner' BY SMTT(60) DEF OneOwner
  <1>8. PublishedAfterFence' BY SMTT(60) DEF PublishedAfterFence, Bound
  <1>. QED BY <1>4, <1>5, <1>6, <1>7, <1>8

\* Every other step of a sweep gives up or keeps what it has.
LEMMA SweepGivesUp ==
  ASSUME CoordInv, NEW r \in Replicas,
         \/ SweepTerminal(r) \/ SweepList(r) \/ LeaseRead(r) \/ LeaseAcquire(r) \/ SweepError(r)
         \/ (RecordHandoff(r) /\ ~PodHeld(row)) \/ HandoffRefused(r)
         \/ ReadoptFault(r) \/ FenceRelinquish(r)
  PROVE  GivesUp
  <1>. CoordTypeOK BY DEF CoordInv
  <1>0. row.gen \in Nat /\ row.gen >= row.gen BY GenerationTypes
  <1>1. SwEnd(r) => \A s \in Replicas : sw'[s] = sw[s] \/ sw'[s] = SwIdle
    BY DEF SwEnd, SwGoto, CoordTypeOK
  <1>8. SwIdle.hgen = 0 /\ SwIdle.fgen = 0 /\ SwIdle.pc \notin Claiming BY DEF SwIdle, Claiming
  <1>2. EvictBinding(r) => \A s \in Replicas : bind'[s] = bind[s] \/ bind'[s] = NoBinding
    BY EvictUpdate
  <1>3. CASE SweepTerminal(r)
    <2>1. row'.gen = row.gen /\ (bind' = bind \/ EvictBinding(r))
      BY <1>3, ReleaseTyped DEF SweepTerminal, ReleaseTerminal, ReleaseBinding
    <2>2. row'.gen >= row.gen BY SMTT(60), <1>0, <2>1
    <2>3. fenced' = fenced /\ sw' = sw BY <1>3 DEF SweepTerminal
    <2>. QED BY ZenonT(30), <1>2, <2>1, <2>2, <2>3 DEF GivesUp
  <1>4. CASE SweepList(r)
    <2>1. /\ sw'[r] = [SwIdle EXCEPT !.pc = "get", !.listed = Listed]
          /\ \A s \in Replicas \ {r} : sw'[s] = sw[s]
      BY <1>4 DEF SweepList, SwGoto, CoordTypeOK
    <2>2. sw'[r].hgen = 0 /\ sw'[r].fgen = 0 /\ sw'[r].pc \notin Claiming
      BY <2>1 DEF SwIdle, Claiming
    <2>3. row' = row /\ bind' = bind /\ fenced' = fenced BY <1>4 DEF SweepList
    <2>4. \A s \in Replicas \ {r} : sw'[s] = sw[s] BY <2>1
    <2>. QED BY ZenonT(30), <1>0, <2>2, <2>3, <2>4 DEF GivesUp
  <1>5. CASE SweepGet(r) \/ SweepTakeover(r)
    <2>1. sw[r] \in SweepRecords /\ sw[r].hgen = 0
      BY <1>5 DEF SweepGet, SweepTakeover, CoordInv, CoordTypeOK, Tokens, ClaimShape, Claiming
    <2>2. \/ sw'[r] = [sw[r] EXCEPT !.pc = "acquire", !.prior = LeaseHolder, !.bound = Bound(r)]
          \/ sw'[r] = [sw[r] EXCEPT !.pc = "handoff"]
      BY <1>5 DEF SweepGet, SweepTakeover, SwGoto, CoordTypeOK
    <2>3. \A s \in Replicas \ {r} : sw'[s] = sw[s]
      BY <1>5 DEF SweepGet, SweepTakeover, SwGoto, CoordTypeOK
    <2>4. sw[r].fgen = 0
      BY <1>5 DEF SweepGet, SweepTakeover, CoordInv, Tokens, ClaimShape, Claiming
    <2>5. sw'[r].hgen = 0 /\ sw'[r].fgen = 0 /\ sw'[r].pc \notin Claiming
      BY ZenonT(60), <2>1, <2>2, <2>4 DEF SweepRecords, Claiming
    <2>6. row' = row /\ bind' = bind /\ fenced' = fenced BY <1>5 DEF SweepGet, SweepTakeover
    <2>. QED BY ZenonT(30), <1>0, <2>3, <2>5, <2>6 DEF GivesUp
  <1>6. CASE SwEnd(r) /\ row'.gen >= row.gen /\ fenced' = fenced /\ (bind' = bind \/ EvictBinding(r))
    BY ZenonT(30), <1>1, <1>2, <1>6, <1>8 DEF GivesUp
  <1>7. CASE RecordHandoff(r) /\ ~PodHeld(row)
    <2>1. row'.gen >= row.gen BY <1>0, <1>7 DEF RecordHandoff, CoordTypeOK, Rows
    <2>. QED BY <1>6, <1>7, <2>1 DEF RecordHandoff
  <1>9. CASE LeaseRead(r)
    BY ZenonT(60), <1>0, <1>5, <1>6, <1>9
       DEF LeaseRead, SweepPodless, SweepDeadConnection, SweepSkip
  <1>10. CASE LeaseAcquire(r)
    BY ZenonT(60), <1>0, <1>5, <1>6, <1>10 DEF LeaseAcquire, SweepHeld, SweepRenew
  <1>11. CASE SweepError(r) \/ HandoffRefused(r)
    BY ZenonT(60), <1>0, <1>6, <1>11 DEF SweepError, HandoffRefused
  <1>12. CASE ReadoptFault(r) \/ FenceRelinquish(r)
    BY ZenonT(60), <1>0, <1>6, <1>12 DEF ReadoptFault, FenceRelinquish, Relinquish
  <1>. QED BY <1>3, <1>4, <1>7, <1>9, <1>10, <1>11, <1>12

\* Every step keeps the tokens in order: stamps and claims stay apart, and no pod
\* is ahead of the row.
LEMMA TokenStep ==
  ASSUME CoordInv, CoordTypeOK', [CoordNext]_allCoordVars
  PROVE  Tokens'
  <1>. CoordTypeOK BY SMTT(60) DEF CoordInv
  <1>. USE GenerationTypes
  <1>1. ASSUME NEW r \in Replicas, SweepNext(r) PROVE Tokens'
    <2>1. CASE RecordHandoff(r) /\ PodHeld(row) BY <2>1, HandoffTokens
    <2>2. CASE \/ ReadoptConnect(r) \/ FenceRead(r) \/ FenceAccepted(r) \/ FenceAnswerLost(r)
               \/ FenceTransient(r) \/ FenceStaleRetry(r)
      BY <2>2, FencingTokens
    <2>3. CASE SweepPublish(r) BY <2>3, PublishTokens
    <2>. QED BY ZenonT(60), <1>1, <2>1, <2>2, <2>3, SweepGivesUp, GivingUp DEF SweepNext
  <1>2. ASSUME NEW r \in Replicas, ReportNext(r) \/ TerminalNext(r) PROVE Tokens'
    <2>1. fenced' = fenced /\ sw' = sw
      BY <1>2 DEF ReportNext, EvictSuperseded, StreamFailure, ReportRead, ReportRecovery,
                  ReportFailed, ReportConflict, ReportRelease, TerminalNext, TerminalWrite,
                  TerminalSettle, TerminalRelease
    <2>2. bind' = bind \/ EvictBinding(r)
      BY <1>2 DEF ReportNext, EvictSuperseded, StreamFailure, ReportRead, ReportRecovery,
                  ReportFailed, ReportConflict, ReportRelease, TerminalNext, TerminalWrite,
                  TerminalSettle, TerminalRelease, ReleaseBinding
    <2>3. row'.gen >= row.gen
      <3>1. /\ [row EXCEPT !.marked = TRUE].gen = row.gen
            /\ Retried(row).gen = row.gen /\ Awaited(row).gen = row.gen
            /\ Terminated(row).gen >= row.gen
            /\ \A p : [row EXCEPT !.state = "terminal", !.pod = p].gen = row.gen
        BY DEF Retried, Awaited, Terminated, CoordTypeOK, Rows
      <3>2. row' \in {row, [row EXCEPT !.marked = TRUE], Retried(row), Awaited(row), Terminated(row),
                      [row EXCEPT !.state = "terminal", !.pod = rep[r].pod]}
        BY <1>2 DEF ReportNext, EvictSuperseded, StreamFailure, ReportRead, ReportRecovery,
                    ReportFailed, ReportConflict, ReportRelease, TerminalNext, TerminalWrite,
                    TerminalSettle, TerminalRelease
      <3>3. row.gen >= row.gen OBVIOUS
      <3>4. row'.gen = row.gen \/ row'.gen = Terminated(row).gen BY ZenonT(60), <3>1, <3>2
      <3>. QED BY <3>1, <3>3, <3>4
    <2>4. GivesUp BY <2>1, <2>2, <2>3, EvictUpdate DEF GivesUp
    <2>. QED BY <2>4, GivingUp
  <1>3. ASSUME NEW r \in Replicas, FaultNext(r) PROVE Tokens'
    <2>1. row' = row /\ fenced' = fenced
      BY <1>3 DEF FaultNext, BackoffElapsed, ConnectionLost, Crash
    <2>2. \A s \in Replicas :
            \/ bind'[s].gen = bind[s].gen /\ bind'[s].pod = bind[s].pod
            \/ bind'[s] = NoBinding
      <3>1. CASE ConnectionLost(r)
        <4>1. bind[r] \in [gen : Gens, pod : Pods, live : BOOLEAN]
          BY <3>1 DEF ConnectionLost, CoordTypeOK, Bindings, NoBinding
        <4>2. bind'[r] = [bind[r] EXCEPT !.live = FALSE] BY <3>1 DEF ConnectionLost, CoordTypeOK
        <4>3. bind'[r].gen = bind[r].gen /\ bind'[r].pod = bind[r].pod BY <4>1, <4>2
        <4>4. \A s \in Replicas \ {r} : bind'[s] = bind[s] BY <3>1 DEF ConnectionLost, CoordTypeOK
        <4>. QED BY <4>3, <4>4
      <3>2. CASE BackoffElapsed(r) \/ Crash(r)
        BY SMTT(60), <3>2 DEF BackoffElapsed, Crash, CoordTypeOK
      <3>. QED BY <1>3, <3>1, <3>2 DEF FaultNext
    <2>3. \A s \in Replicas :
            \/ sw'[s] = sw[s]
            \/ sw'[s].hgen = 0 /\ sw'[s].fgen = 0 /\ sw'[s].pc \notin Claiming
      <3>1. CASE Crash(r)
        <4>1. sw'[r] = [SwIdle EXCEPT !.pc = "dead"] BY <3>1 DEF Crash, CoordTypeOK
        <4>2. sw'[r].hgen = 0 /\ sw'[r].fgen = 0 /\ sw'[r].pc \notin Claiming
          BY <4>1 DEF SwIdle, Claiming
        <4>3. \A s \in Replicas \ {r} : sw'[s] = sw[s] BY <3>1 DEF Crash, CoordTypeOK
        <4>. QED BY <4>2, <4>3
      <3>2. CASE BackoffElapsed(r) \/ ConnectionLost(r)
        <4>1. sw' = sw BY <3>2 DEF BackoffElapsed, ConnectionLost
        <4>. QED BY <4>1
      <3>. QED BY <1>3, <3>1, <3>2 DEF FaultNext
    <2>4. GivesUp BY <2>1, <2>2, <2>3 DEF GivesUp
    <2>. QED BY <2>4, GivingUp
  <1>4. CASE (\E p \in Pods : PodLost(p)) \/ LeaseLapse \/ UNCHANGED allCoordVars
    <2>1. GivesUp BY SMTT(30), <1>4 DEF PodLost, LeaseLapse, allCoordVars, coordVars, GivesUp
    <2>. QED BY SMTT(60), <2>1, GivingUp
  <1>. QED BY <1>1, <1>2, <1>3, <1>4 DEF CoordNext

-----------------------------------------------------------------------------
(* The life of the session.                                                *)

\* Every step keeps the session's life in order: what a hook, a report or a sweep
\* still has to do agrees with the row.
LEMMA LifeStep ==
  ASSUME CoordInv, CoordTypeOK', [CoordNext]_allCoordVars
  PROVE  Life'
  <1>. CoordTypeOK BY Zenon DEF CoordInv
  <1>. row \in Rows BY Zenon DEF CoordTypeOK
  <1>. USE DEF CoordInv, Life
  <1>1. CASE UNCHANGED <<row, slot, rep, term>>
    BY <1>1 DEF Phases, RowNamesNoReleasedPod
  <1>2. ASSUME NEW r \in Replicas, SweepTerminal(r) PROVE Life'
    <2>1. row'.state = "terminal" /\ row.state = "terminal" /\ rep' = rep /\ term' = term
      BY <1>2, ReleaseTyped DEF SweepTerminal
    <2>. QED BY <2>1 DEF Phases, RowNamesNoReleasedPod
  <1>3. ASSUME NEW r \in Replicas, RecordHandoff(r) PROVE Life'
    <2>1. /\ row'.state = row.state /\ row'.pod = row.pod /\ row.state # "resuming"
          /\ slot' = slot /\ rep' = rep /\ term' = term
      BY <1>3 DEF RecordHandoff, HandoffHits, AdoptedState, PodHeld, Rows
    <2>. QED BY <2>1 DEF Phases, RowNamesNoReleasedPod
  <1>4. ASSUME NEW r \in Replicas, ReportNext(r) PROVE Life'
    <2>. rep[r] \in ReportRecords BY DEF CoordTypeOK
    <2>1. CASE EvictSuperseded(r) BY <1>1, <2>1 DEF EvictSuperseded
    <2>2. CASE ReportRecovery(r)
      <3>1. row'.state \in {"resume_pending", "awaiting"} /\ row'.pod = NoPod
        BY <2>2 DEF ReportRecovery, Retried, Awaited, Rows
      <3>2. \A s \in Replicas : term[s] \notin {"settle", "release"}
        BY <2>2 DEF ReportRecovery, ReportGuard, Phases
      <3>3. \A s \in Replicas : rep'[s].pc = "write" => rep'[s].seen \in {"running", "suspended"}
        <4>1. rep'[r] = [rep[r] EXCEPT !.pc = "release", !.bind = bind[r]]
          BY <2>2 DEF ReportRecovery, RepGoto, CoordTypeOK
        <4>2. rep'[r].pc = "release" BY <4>1 DEF ReportRecords
        <4>3. \A s \in Replicas \ {r} : rep'[s] = rep[s]
          BY <2>2 DEF ReportRecovery, RepGoto, CoordTypeOK
        <4>. QED BY <4>2, <4>3 DEF Phases
      <3>4. term' = term BY SMTT(60), <2>2 DEF ReportRecovery
      <3>. QED BY <3>1, <3>2, <3>3, <3>4 DEF Phases, RowNamesNoReleasedPod
    <2>3. CASE ReportFailed(r)
      <3>1. row'.state = "terminal" BY <2>3 DEF ReportFailed, Rows
      <3>2. \A s \in Replicas : rep'[s] \in {rep[s], RepIdle}
        BY SMTT(60), <2>3 DEF ReportFailed, RepEnd, RepGoto, CoordTypeOK
      <3>3. RepIdle.pc = "idle" BY ONLY DEF RepIdle
      <3>4. \A s \in Replicas : rep'[s] = rep[s] \/ rep'[s].pc = "idle" BY ONLY <3>2, <3>3
      <3>5. Phases BY Zenon
      <3>6. Phases' BY ONLY <3>1, <3>4, <3>5 DEF Phases
      <3>7. RowNamesNoReleasedPod' BY Zenon, <3>1 DEF RowNamesNoReleasedPod
      <3>. QED BY Zenon, <3>6, <3>7
    <2>4. CASE ReportRelease(r)
      <3>1. row' = row /\ term' = term /\ (row.state = "terminal" \/ row.pod = NoPod)
        BY <2>4 DEF ReportRelease, Phases
      <3>2. \A s \in Replicas : rep'[s] \in {rep[s], RepIdle}
        BY SMTT(60), <2>4 DEF ReportRelease, RepEnd, RepGoto, CoordTypeOK
      <3>3. RepIdle.pc = "idle" BY DEF RepIdle
      <3>4. Phases' BY SMTT(60), <3>1, <3>2, <3>3 DEF Phases
      <3>5. RowNamesNoReleasedPod' BY ZenonT(60), <3>1 DEF RowNamesNoReleasedPod
      <3>. QED BY <3>4, <3>5
    <2>5. CASE StreamFailure(r) \/ ReportRead(r) \/ ReportConflict(r)
      <3>1. row' = row /\ term' = term /\ slot' = slot
        BY <2>5 DEF StreamFailure, ReportRead, ReportConflict
      <3>2. \A s \in Replicas \ {r} : rep'[s] = rep[s]
        BY <2>5 DEF StreamFailure, ReportRead, ReportConflict, RepEnd, RepGoto, CoordTypeOK
      <3>3. \/ rep'[r] = RepIdle
            \/ rep'[r] = [RepIdle EXCEPT !.pc = "read", !.pod = bind[r].pod]
            \/ /\ rep'[r] = [rep[r] EXCEPT !.pc = "write", !.seen = row.state, !.seenPod = row.pod,
                                           !.budget = row.retries < MaxRetries]
               /\ row.state \in {"running", "suspended"}
        BY <2>5 DEF StreamFailure, ReportRead, ReportConflict, RepEnd, RepGoto, CoordTypeOK
      <3>4. /\ rep'[r].pc # "release"
            /\ rep'[r].pc = "write" => rep'[r].seen \in {"running", "suspended"}
        <4>1. CASE rep'[r] = RepIdle BY SMTT(30), <4>1 DEF RepIdle
        <4>2. CASE rep'[r] = [RepIdle EXCEPT !.pc = "read", !.pod = bind[r].pod]
          BY <4>2 DEF RepIdle
        <4>3. CASE /\ rep'[r] = [rep[r] EXCEPT !.pc = "write", !.seen = row.state, !.seenPod = row.pod,
                                           !.budget = row.retries < MaxRetries]
                   /\ row.state \in {"running", "suspended"}
          BY <4>3 DEF ReportRecords
        <4>. QED BY ZenonT(60), <3>3, <4>1, <4>2, <4>3
      <3>. QED BY <3>1, <3>2, <3>4 DEF Phases, RowNamesNoReleasedPod
    <2>. QED BY <1>4, <2>1, <2>2, <2>3, <2>4, <2>5 DEF ReportNext
  <1>5. ASSUME NEW r \in Replicas, TerminalNext(r) PROVE Life'
    <2>1. rep' = rep BY <1>5 DEF TerminalNext, TerminalWrite, TerminalSettle, TerminalRelease
    <2>2. CASE TerminalWrite(r)
      <3>1. row'.state = "terminal" BY <2>2 DEF TerminalWrite, Terminated, Rows
      <3>. QED BY <2>1, <3>1 DEF Phases, RowNamesNoReleasedPod
    <2>3. CASE TerminalSettle(r) \/ TerminalRelease(r)
      <3>1. row.state = "terminal" BY <2>3 DEF TerminalSettle, TerminalRelease, Phases
      <3>2. row'.state = "terminal"
        BY <2>3, <3>1, ReleaseTyped DEF TerminalSettle, TerminalRelease
      <3>. QED BY <2>1, <3>2 DEF Phases, RowNamesNoReleasedPod
    <2>. QED BY <1>5, <2>2, <2>3 DEF TerminalNext
  <1>6. ASSUME NEW r \in Replicas, Crash(r) PROVE Life'
    <2>1. row' = row /\ slot' = slot BY <1>6 DEF Crash
    <2>2. /\ \A s \in Replicas : term'[s] \in {term[s], "dead"}
          /\ \A s \in Replicas : rep'[s] \in {rep[s], [RepIdle EXCEPT !.pc = "dead"]}
      BY <1>6 DEF Crash, CoordTypeOK
    <2>. QED BY <2>1, <2>2 DEF Phases, RowNamesNoReleasedPod, RepIdle
  <1>7. ASSUME NEW p \in Pods, PodLost(p) PROVE Life'
    <2>1. row' = row /\ rep' = rep /\ term' = term BY SMTT(60), <1>7 DEF PodLost
    <2>2. \A q \in Pods : slot'[q] = "released" => slot[q] = "released"
      BY <1>7 DEF PodLost, CoordTypeOK
    <2>. QED BY <2>1, <2>2 DEF Phases, RowNamesNoReleasedPod, Rows
  <1>. QED
    BY ZenonT(60), <1>1, <1>2, <1>3, <1>4, <1>5, <1>6, <1>7
       DEF CoordNext, FaultNext, BackoffElapsed, ConnectionLost, LeaseLapse, allCoordVars,
           coordVars, SweepNext, LeaseRead, LeaseAcquire, SweepList, SweepPodless,
           SweepDeadConnection, SweepSkip, SweepGet, SweepHeld, SweepRenew, SweepTakeover,
           SweepError, HandoffRefused, ReadoptConnect, ReadoptFault, FenceRead, FenceAccepted,
           FenceAnswerLost, FenceTransient, FenceStaleRetry, FenceRelinquish, Relinquish,
           SweepPublish, PublishAs
-----------------------------------------------------------------------------
(* The theorems.                                                           *)

\* The invariant is inductive.
LEMMA InvStep == CoordInv /\ [CoordNext]_allCoordVars => CoordInv'
  <1>. SUFFICES ASSUME CoordInv, [CoordNext]_allCoordVars PROVE CoordInv' OBVIOUS
  <1>1. CoordTypeOK'
    <2>1. CASE UNCHANGED allCoordVars
      BY <2>1 DEF allCoordVars, coordVars, leaseVars, CoordInv, CoordTypeOK
    <2>2. CASE \E r \in Replicas : SweepNext(r) BY <2>2, SweepStepTyped
    <2>. QED BY SMTT(60), <2>1, <2>2, OtherStepTyped DEF CoordNext
  <1>. QED BY <1>1, TokenStep, LifeStep DEF CoordInv

\* The inductive invariant holds in every behaviour.
THEOREM Invariance == CoordSpec => []CoordInv
  BY InitInv, InvStep, PTL DEF CoordSpec

\* Every row, binding, sweep and report stays in its range.
THEOREM TypeCorrect == CoordSpec => []CoordTypeOK
  <1>1. CoordInv => CoordTypeOK BY DEF CoordInv
  <1>. QED BY <1>1, Invariance, PTL

\* Each generation has one owner: no two replicas of any number hold bindings
\* with one stamp (RecordHandoff, stampBindingGeneration).
THEOREM StampsAreUnique == CoordSpec => []StampsUnique
  <1>1. CoordInv => StampsUnique
    <2>1. CoordInv => CoordTypeOK /\ OneOwner BY Zenon DEF CoordInv, Tokens
    <2>2. CoordTypeOK => \A r \in Replicas : Bound(r) => bind[r].gen # 0
      BY DEF CoordTypeOK, Bound, Bindings, NoBinding, Gens
    <2>. QED BY ONLY Zenon, <2>1, <2>2 DEF OneOwner, StampsUnique
  <1>. QED BY <1>1, Invariance, PTL

\* A pod is never ahead of the row, whatever fences are lost or repeated
\* (CoordinatorFence, Fencer.loop).
THEOREM FencesStayBehind == CoordSpec => []FenceNeverAhead
  <1>1. CoordInv => FenceNeverAhead BY DEF CoordInv, Tokens
  <1>. QED BY <1>1, Invariance, PTL

\* No takeover publishes a binding its pod has not admitted (readoptAndFence).
THEOREM PublicationIsFenced == CoordSpec => []PublishedAfterFence
  <1>1. CoordInv => PublishedAfterFence BY DEF CoordInv, Tokens
  <1>. QED BY <1>1, Invariance, PTL

\* A live row never names a released pod (applyFailureFromActive clears the pod
\* before releaseReportedBinding releases it).
THEOREM ReleasedPodsAreUnnamed == CoordSpec => []RowNamesNoReleasedPod
  <1>1. CoordInv => RowNamesNoReleasedPod BY DEF CoordInv, Life
  <1>. QED BY <1>1, Invariance, PTL

\* An ended session stays ended at its last generation: no handoff, report or
\* hook in flight brings it back (RecordHandoff, reportGuard, MarkTerminated).
THEOREM EndedForGood == CoordSpec => TerminalIsFinal
  <1>1. ASSUME CoordInv, [CoordNext]_allCoordVars, row.state = "terminal"
        PROVE  row'.state = "terminal" /\ row'.gen = row.gen
    <2>. CoordTypeOK /\ Phases BY <1>1 DEF CoordInv, Life
    <2>1. CASE UNCHANGED row BY <1>1, <2>1
    <2>2. ASSUME NEW r \in Replicas, SweepTerminal(r) \/ TerminalRelease(r)
          PROVE  row'.state = "terminal" /\ row'.gen = row.gen
      BY <1>1, <2>2, ReleaseTyped DEF SweepTerminal, TerminalRelease
    <2>3. ASSUME NEW r \in Replicas,
                 RecordHandoff(r) \/ ReportRecovery(r) \/ ReportFailed(r) \/ TerminalWrite(r)
          PROVE  FALSE
      BY <1>1, <2>3 DEF RecordHandoff, HandoffHits, AdoptedState, PodHeld, ReportRecovery,
                        ReportFailed, ReportGuard, TerminalWrite, Phases
    <2>. QED
      BY ZenonT(60), <1>1, <2>1, <2>2, <2>3
         DEF CoordNext, FaultNext, BackoffElapsed, ConnectionLost, Crash, PodLost, LeaseLapse,
             allCoordVars, coordVars, SweepNext, LeaseRead, LeaseAcquire, SweepList, SweepPodless,
             SweepDeadConnection, SweepSkip, SweepGet, SweepHeld, SweepRenew, SweepTakeover,
             SweepError, HandoffRefused, ReadoptConnect, ReadoptFault, FenceRead, FenceAccepted,
             FenceAnswerLost, FenceTransient, FenceStaleRetry, FenceRelinquish, Relinquish,
             SweepPublish, PublishAs, ReportNext, EvictSuperseded, StreamFailure, ReportRead, ReportConflict,
             ReportRelease, TerminalNext, TerminalSettle
  <1>. QED BY <1>1, Invariance, PTL DEF CoordSpec, TerminalIsFinal
-----------------------------------------------------------------------------
(* The generations implement fencing tokens.                               *)

\* A step that leaves the row's generation, the claims, the stamps and the pods
\* alone is a stutter.
LEMMA TokenStutter ==
  ASSUME row'.gen = row.gen, fenced' = fenced,
         \A s \in Replicas : /\ sw'[s].hgen = sw[s].hgen
                             /\ bind'[s].gen = bind[s].gen /\ bind'[s].pod = bind[s].pod
  PROVE  UNCHANGED Token!tokenVars
  BY DEF Token!tokenVars, Claims, Serving

\* The first binding serves the first token.
LEMMA TokenStart == CoordInit => Token!TokenInit
  <1>. SUFFICES ASSUME CoordInit PROVE Token!TokenInit OBVIOUS
  <1>1. PICK r \in Replicas, p \in Pods :
          /\ row = [state |-> "running", gen |-> 1, pod |-> p, retries |-> 0, marked |-> FALSE]
          /\ bind = [s \in Replicas |-> IF s = r THEN Binding(1, p) ELSE NoBinding]
          /\ fenced = [q \in Pods |-> 0]
          /\ sw = [s \in Replicas |-> SwIdle]
    BY ZenonT(60) DEF CoordInit
  <1>2. row.gen = 1 BY SMTT(60), <1>1
  <1>3. [s \in Replicas |-> Claims(s)] = [s \in Replicas |-> {}]
    BY ZenonT(60), <1>1 DEF Claims, SwIdle
  <1>4. [s \in Replicas |-> Serving(s)]
        = [s \in Replicas |-> IF s = r THEN [gen |-> 1, pod |-> p] ELSE Token!Nothing]
    BY <1>1 DEF Serving, Binding, NoBinding, Token!Nothing
  <1>. QED BY <1>1, <1>2, <1>3, <1>4 DEF Token!TokenInit

\* Bindings dropped by one replica and nothing else: a Stop, or a stutter.
LEMMA TokenStop ==
  ASSUME CoordTypeOK, NEW r \in Replicas, row'.gen = row.gen, fenced' = fenced,
         \A s \in Replicas : sw'[s].hgen = sw[s].hgen,
         bind' = bind \/ EvictBinding(r)
  PROVE  [Token!TokenNext]_(Token!tokenVars)
  <1>1. CASE bind' = bind BY SMTT(60), <1>1, TokenStutter
  <1>2. CASE EvictBinding(r)
    <2>1. [s \in Replicas |-> Serving(s)]' = [[s \in Replicas |-> Serving(s)] EXCEPT ![r] = Token!Nothing]
      <3>1. bind'[r] = NoBinding /\ \A s \in Replicas \ {r} : bind'[s] = bind[s]
        BY ZenonT(60), <1>2, EvictUpdate
      <3>2. Serving(r)' = Token!Nothing BY SMTT(30), <3>1 DEF Serving, NoBinding, Token!Nothing
      <3>3. \A s \in Replicas \ {r} : Serving(s)' = Serving(s) BY <3>1 DEF Serving
      <3>. QED BY ZenonT(60), <3>2, <3>3
    <2>2. [s \in Replicas |-> Claims(s)]' = [s \in Replicas |-> Claims(s)] BY SMTT(60) DEF Claims
    <2>3. Token!Stop(r) BY <2>1, <2>2 DEF Token!Stop
    <2>. QED BY <2>3 DEF Token!TokenNext
  <1>. QED BY SMTT(60), <1>1, <1>2

\* A sweep that ends gives its claim up, if it has one.
LEMMA TokenWithdraw ==
  ASSUME CoordInv, NEW r \in Replicas, SwEnd(r), row'.gen = row.gen, fenced' = fenced, bind' = bind
  PROVE  [Token!TokenNext]_(Token!tokenVars)
  <1>. CoordTypeOK BY SMTT(60) DEF CoordInv
  <1>1. sw'[r] = SwIdle /\ \A s \in Replicas \ {r} : sw'[s] = sw[s]
    BY SMTT(60) DEF SwEnd, SwGoto, CoordTypeOK
  <1>2. sw'[r].hgen = 0 BY SMTT(30), <1>1 DEF SwIdle
  <1>3. CASE sw[r].hgen = 0
    <2>1. \A s \in Replicas : sw'[s].hgen = sw[s].hgen BY ZenonT(60), <1>1, <1>2, <1>3
    <2>. QED BY <2>1, TokenStutter
  <1>4. CASE sw[r].hgen # 0
    <2>1. sw[r].hgen \in 1 .. row.gen
      BY <1>4, GenerationTypes DEF CoordInv, Tokens, Behind
    <2>2. [s \in Replicas |-> Claims(s)]'
          = [[s \in Replicas |-> Claims(s)] EXCEPT ![r] = @ \ {sw[r].hgen}]
      BY ZenonT(60), <1>1, <1>2 DEF Claims
    <2>3. [s \in Replicas |-> Serving(s)]' = [s \in Replicas |-> Serving(s)] BY SMTT(60) DEF Serving
    <2>4. Token!Withdraw(r, sw[r].hgen) BY <2>2, <2>3 DEF Token!Withdraw
    <2>. QED BY SMTT(60), <2>1, <2>4 DEF Token!TokenNext
  <1>. QED BY <1>3, <1>4

\* The handoff draws a token, for its replica when a pod is to be re-adopted.
LEMMA TokenDraw ==
  ASSUME CoordInv, NEW r \in Replicas, RecordHandoff(r)
  PROVE  Token!TokenNext
  <1>. CoordTypeOK BY DEF CoordInv
  <1>1. row'.gen = row.gen + 1 /\ bind' = bind /\ fenced' = fenced /\ sw[r].hgen = 0
    BY SMTT(60) DEF RecordHandoff, CoordTypeOK, Rows, CoordInv, Tokens, ClaimShape, Claiming
  <1>2. [s \in Replicas |-> Serving(s)]' = [s \in Replicas |-> Serving(s)] BY <1>1 DEF Serving
  <1>3. CASE PodHeld(row)
    <2>1. /\ sw'[r] = [SwIdle EXCEPT !.pc = "readopt", !.hgen = row.gen + 1]
          /\ \A s \in Replicas \ {r} : sw'[s] = sw[s]
      BY <1>3 DEF RecordHandoff, SwGoto, CoordTypeOK
    <2>2. sw'[r].hgen = row.gen + 1 /\ row.gen + 1 # 0 BY <2>1, GenerationTypes DEF SwIdle
    <2>3. [s \in Replicas |-> Claims(s)]'
          = [[s \in Replicas |-> Claims(s)] EXCEPT ![r] = @ \cup {row.gen + 1}]
      <3>1. Claims(r) = {} /\ Claims(r)' = {row.gen + 1} BY <1>1, <2>2 DEF Claims
      <3>2. \A s \in Replicas \ {r} : Claims(s)' = Claims(s) BY ZenonT(60), <2>1 DEF Claims
      <3>. QED BY ZenonT(60), <3>1, <3>2
    <2>4. Token!Draw(r) BY <1>1, <1>2, <2>3 DEF Token!Draw
    <2>. QED BY <2>4 DEF Token!TokenNext
  <1>4. CASE ~PodHeld(row)
    <2>1. sw'[r] = SwIdle /\ \A s \in Replicas \ {r} : sw'[s] = sw[s]
      BY SMTT(60), <1>4 DEF RecordHandoff, SwEnd, SwGoto, CoordTypeOK
    <2>2. \A s \in Replicas : sw'[s].hgen = sw[s].hgen BY SMTT(30), <1>1, <2>1 DEF SwIdle
    <2>3. [s \in Replicas |-> Claims(s)]' = [s \in Replicas |-> Claims(s)]
      BY ZenonT(60), <2>2 DEF Claims
    <2>4. Token!Burn BY <1>1, <1>2, <2>3 DEF Token!Burn
    <2>. QED BY <2>4 DEF Token!TokenNext
  <1>. QED BY <1>3, <1>4

\* Fence traffic: the pod admits the generation that is sent, or nothing changes.
LEMMA TokenAdmit ==
  ASSUME CoordInv, NEW r \in Replicas,
         \/ ReadoptConnect(r) \/ FenceRead(r) \/ FenceAccepted(r) \/ FenceAnswerLost(r)
         \/ FenceTransient(r) \/ FenceStaleRetry(r)
  PROVE  [Token!TokenNext]_(Token!tokenVars)
  <1>. CoordTypeOK BY DEF CoordInv
  <1>. sw[r] \in SweepRecords BY DEF CoordTypeOK
  <1>0. \/ sw'[r] = [sw[r] EXCEPT !.pc = "fence", !.pod = row.pod]
        \/ sw'[r] = [sw[r] EXCEPT !.pc = "fencing", !.fgen = row.gen]
        \/ sw'[r] = [sw[r] EXCEPT !.pc = "publish"]
        \/ sw'[r] = [sw[r] EXCEPT !.tries = sw[r].tries + 1]
        \/ sw'[r] = [sw[r] EXCEPT !.fgen = row.gen, !.tries = sw[r].tries + 1]
    BY DEF ReadoptConnect, FenceRead, FenceAccepted, FenceAnswerLost, FenceTransient,
           FenceStaleRetry, SwGoto, CoordTypeOK
  <1>1. sw'[r].hgen = sw[r].hgen BY ZenonT(60), <1>0 DEF SweepRecords
  <1>2. /\ row' = row /\ bind' = bind
        /\ \A s \in Replicas \ {r} : sw'[s] = sw[s]
    BY DEF ReadoptConnect, FenceRead, FenceAccepted, FenceAnswerLost, FenceTransient,
           FenceStaleRetry, SwGoto, CoordTypeOK
  <1>3. CASE fenced' = fenced
    BY ZenonT(60), <1>1, <1>2, <1>3, TokenStutter
  <1>4. CASE FenceAccepted(r) \/ FenceAnswerLost(r)
    <2>1. /\ fenced[sw[r].pod] < sw[r].fgen
          /\ fenced' = [fenced EXCEPT ![sw[r].pod] = sw[r].fgen]
          /\ sw[r].pod \in Pods /\ sw[r].fgen <= row.gen
      BY SMTT(90), <1>4, GenerationTypes
         DEF FenceAccepted, FenceAnswerLost, PodAccepts, CoordInv, Tokens,
                                   ClaimShape, Behind
    <2>2. sw[r].fgen \in 1 .. row.gen BY SMTT(30), <2>1, GenerationTypes
    <2>3. /\ [s \in Replicas |-> Claims(s)]' = [s \in Replicas |-> Claims(s)]
          /\ [s \in Replicas |-> Serving(s)]' = [s \in Replicas |-> Serving(s)]
      BY ZenonT(60), <1>1, <1>2 DEF Claims, Serving
    <2>4. Token!Admit(sw[r].pod, sw[r].fgen) BY ZenonT(60), <1>2, <2>1, <2>3 DEF Token!Admit
    <2>. QED BY ZenonT(60), <2>1, <2>2, <2>4 DEF Token!TokenNext
  <1>. QED BY <1>3, <1>4 DEF ReadoptConnect, FenceRead, FenceTransient, FenceStaleRetry

\* The publication serves the token the handoff drew.
LEMMA TokenServe ==
  ASSUME CoordInv, NEW r \in Replicas, SweepPublish(r)
  PROVE  Token!TokenNext
  <1>. CoordTypeOK BY DEF CoordInv
  <1>. DEFINE p == sw[r].pod
              g == sw[r].hgen
  <1>1. /\ g \in 1 .. row.gen /\ g # 0 /\ p \in Pods /\ fenced[p] >= g
    <2>1. sw[r].pc = "publish" BY DEF SweepPublish
    <2>2. g # 0 /\ p \in Pods /\ fenced[p] >= g
      BY <2>1 DEF CoordInv, Tokens, ClaimShape, Claiming
    <2>3. g <= row.gen BY DEF CoordInv, Tokens, Behind
    <2>4. g \in Nat /\ row.gen \in Nat BY GenerationTypes
    <2>. QED BY <2>2, <2>3, <2>4
  <1>2. /\ sw'[r] = SwIdle /\ \A s \in Replicas \ {r} : sw'[s] = sw[s]
        /\ bind'[r] = Binding(g, p) /\ \A s \in Replicas \ {r} : bind'[s] = bind[s]
        /\ row' = row /\ fenced' = fenced
    BY SMTT(60) DEF SweepPublish, PublishAs, SwEnd, SwGoto, CoordTypeOK
  <1>3. Claims(r) = {g} /\ Claims(r)' = {}
    <2>1. sw[r].hgen # 0 BY ZenonT(60), <1>1
    <2>0. SwIdle.hgen = 0 BY DEF SwIdle
    <2>2. sw'[r].hgen = 0 BY ZenonT(60), <1>2, <2>0
    <2>. QED BY ZenonT(60), <2>1, <2>2 DEF Claims
  <1>4. [s \in Replicas |-> Claims(s)]' = [[s \in Replicas |-> Claims(s)] EXCEPT ![r] = @ \ {g}]
    <2>1. \A s \in Replicas \ {r} : Claims(s)' = Claims(s) BY <1>2 DEF Claims
    <2>. QED BY ZenonT(60), <1>3, <2>1
  <1>5. [s \in Replicas |-> Serving(s)]'
        = [[s \in Replicas |-> Serving(s)] EXCEPT ![r] = [gen |-> g, pod |-> p]]
    <2>0. bind'[r].gen = g /\ bind'[r].pod = p
      <3>1. Binding(g, p).gen = g /\ Binding(g, p).pod = p BY DEF Binding
      <3>. QED BY Zenon, <1>2, <3>1
    <2>1. Serving(r)' = [gen |-> g, pod |-> p] BY Zenon, <2>0 DEF Serving
    <2>2. \A s \in Replicas \ {r} : Serving(s)' = Serving(s) BY SMTT(60), <1>2 DEF Serving
    <2>. QED BY ZenonT(60), <2>1, <2>2
  <1>6. Token!Serve(r, p, g) BY ZenonT(60), <1>1, <1>2, <1>3, <1>4, <1>5 DEF Token!Serve
  <1>. QED BY ZenonT(60), <1>1, <1>6 DEF Token!TokenNext

\* A crash takes the claim and the binding of its replica.
LEMMA TokenDie ==
  ASSUME CoordInv, NEW r \in Replicas, Crash(r)
  PROVE  Token!TokenNext
  <1>. CoordTypeOK BY DEF CoordInv
  <1>1. /\ sw'[r] = [SwIdle EXCEPT !.pc = "dead"] /\ \A s \in Replicas \ {r} : sw'[s] = sw[s]
        /\ bind'[r] = NoBinding /\ \A s \in Replicas \ {r} : bind'[s] = bind[s]
        /\ row' = row /\ fenced' = fenced
    BY DEF Crash, CoordTypeOK
  <1>2. Claims(r)' = {} /\ Serving(r)' = Token!Nothing
    BY <1>1 DEF Claims, Serving, SwIdle, NoBinding, Token!Nothing
  <1>3. \A s \in Replicas \ {r} : Claims(s)' = Claims(s) /\ Serving(s)' = Serving(s)
    BY <1>1 DEF Claims, Serving
  <1>4. /\ [s \in Replicas |-> Claims(s)]' = [[s \in Replicas |-> Claims(s)] EXCEPT ![r] = {}]
        /\ [s \in Replicas |-> Serving(s)]'
           = [[s \in Replicas |-> Serving(s)] EXCEPT ![r] = Token!Nothing]
    BY ZenonT(60), <1>2, <1>3
  <1>5. Token!Die(r) BY <1>1, <1>4 DEF Token!Die
  <1>. QED BY <1>5 DEF Token!TokenNext

\* A terminal write closes a resuming incarnation with a token nobody claims.
LEMMA TokenBurn ==
  ASSUME CoordInv, NEW r \in Replicas, TerminalWrite(r)
  PROVE  [Token!TokenNext]_(Token!tokenVars)
  <1>. CoordTypeOK BY DEF CoordInv
  <1>1. sw' = sw /\ bind' = bind /\ fenced' = fenced /\ row'.gen \in {row.gen, row.gen + 1}
    BY SMTT(60) DEF TerminalWrite, Terminated, CoordTypeOK, Rows
  <1>2. /\ [s \in Replicas |-> Claims(s)]' = [s \in Replicas |-> Claims(s)]
        /\ [s \in Replicas |-> Serving(s)]' = [s \in Replicas |-> Serving(s)]
    BY <1>1 DEF Claims, Serving
  <1>3. CASE row'.gen = row.gen BY SMTT(60), <1>1, <1>2, <1>3 DEF Token!tokenVars
  <1>4. CASE row'.gen = row.gen + 1
    BY SMTT(60), <1>1, <1>2, <1>4 DEF Token!TokenNext, Token!Burn
  <1>. QED BY <1>1, <1>3, <1>4

\* Every step of a sweep is a step on the tokens, or leaves them alone.
LEMMA SweepToken ==
  ASSUME CoordInv, NEW r \in Replicas, SweepNext(r)
  PROVE  [Token!TokenNext]_(Token!tokenVars)
  <1>. CoordTypeOK BY DEF CoordInv
  <1>1. CASE SweepTerminal(r)
    <2>1. row'.gen = row.gen /\ fenced' = fenced /\ sw' = sw /\ (bind' = bind \/ EvictBinding(r))
      BY <1>1 DEF SweepTerminal, ReleaseTerminal, ReleaseBinding, CoordTypeOK, Rows
    <2>. QED BY <2>1, TokenStop
  <1>2. CASE SweepDeadConnection(r) \/ SweepHeld(r)
    <2>0. sw[r].pc \in {"get", "acquire"} BY <1>2 DEF SweepDeadConnection, SweepHeld
    <2>1. sw[r].hgen = 0 BY ZenonT(60), <2>0 DEF CoordInv, Tokens, ClaimShape, Claiming
    <2>2. /\ row' = row /\ fenced' = fenced /\ (bind' = bind \/ EvictBinding(r))
          /\ sw'[r] = SwIdle /\ \A s \in Replicas \ {r} : sw'[s] = sw[s]
      BY SMTT(60), <1>2 DEF SweepDeadConnection, SweepHeld, SwEnd, SwGoto, CoordTypeOK
    <2>3. \A s \in Replicas : sw'[s].hgen = sw[s].hgen
      BY ONLY SMTT(60), <2>1, <2>2 DEF SwIdle
    <2>. QED BY ZenonT(60), <2>2, <2>3, TokenStop
  <1>3. CASE SweepList(r) \/ SweepGet(r) \/ SweepTakeover(r)
    <2>1. sw[r].hgen = 0 /\ sw[r] \in SweepRecords
      BY <1>3
         DEF SweepList, SweepGet, SweepTakeover, CoordInv, Tokens, ClaimShape, Claiming, CoordTypeOK
    <2>2. /\ row' = row /\ fenced' = fenced /\ bind' = bind
          /\ \A s \in Replicas \ {r} : sw'[s] = sw[s]
      BY <1>3 DEF SweepList, SweepGet, SweepTakeover, SwGoto, CoordTypeOK
    <2>3. \/ sw'[r] = [SwIdle EXCEPT !.pc = "get", !.listed = Listed]
          \/ sw'[r] = [sw[r] EXCEPT !.pc = "acquire", !.prior = LeaseHolder, !.bound = Bound(r)]
          \/ sw'[r] = [sw[r] EXCEPT !.pc = "handoff"]
      BY <1>3 DEF SweepList, SweepGet, SweepTakeover, SwGoto, CoordTypeOK
    <2>4. sw'[r].hgen = 0
      <3>1. CASE sw'[r] = [SwIdle EXCEPT !.pc = "get", !.listed = Listed] BY <3>1 DEF SwIdle
      <3>2. CASE sw'[r] = [sw[r] EXCEPT !.pc = "acquire", !.prior = LeaseHolder, !.bound = Bound(r)]
        BY <2>1, <3>2 DEF SweepRecords
      <3>3. CASE sw'[r] = [sw[r] EXCEPT !.pc = "handoff"] BY SMTT(60), <2>1, <3>3 DEF SweepRecords
      <3>. QED BY <2>3, <3>1, <3>2, <3>3
    <2>5. \A s \in Replicas : sw'[s].hgen = sw[s].hgen BY SMTT(60), <2>1, <2>2, <2>4
    <2>. QED BY <2>2, <2>5, TokenStutter
  <1>4. CASE \/ SweepPodless(r) \/ SweepSkip(r) \/ SweepRenew(r) \/ SweepError(r)
             \/ HandoffRefused(r) \/ ReadoptFault(r) \/ FenceRelinquish(r)
    BY ZenonT(60), <1>4, TokenWithdraw
       DEF SweepPodless, SweepSkip, SweepRenew, SweepError, HandoffRefused,
                               ReadoptFault, FenceRelinquish, Relinquish
  <1>. QED BY ZenonT(60), <1>1, <1>2, <1>3, <1>4, TokenDraw, TokenAdmit, TokenServe
           DEF SweepNext, LeaseRead, LeaseAcquire

\* Every step of the coordination is a step on the tokens, or leaves them alone.
LEMMA CoordToken ==
  ASSUME CoordInv, [CoordNext]_allCoordVars
  PROVE  [Token!TokenNext]_(Token!tokenVars)
  <1>. CoordTypeOK BY SMTT(60) DEF CoordInv
  <1>1. CASE UNCHANGED allCoordVars
    BY <1>1, TokenStutter DEF allCoordVars, coordVars
  <1>2. ASSUME NEW r \in Replicas, SweepNext(r) PROVE [Token!TokenNext]_(Token!tokenVars)
    BY <1>2, SweepToken
  <1>3. ASSUME NEW r \in Replicas, ReportNext(r) PROVE [Token!TokenNext]_(Token!tokenVars)
    <2>1. row'.gen = row.gen /\ fenced' = fenced /\ sw' = sw /\ (bind' = bind \/ EvictBinding(r))
      BY ZenonT(60), <1>3
         DEF ReportNext, EvictSuperseded, StreamFailure, ReportRead, ReportRecovery, Retried,
                  Awaited, ReportFailed, ReportConflict, ReportRelease, ReleaseBinding, CoordTypeOK, Rows
    <2>. QED BY <2>1, TokenStop
  <1>4. ASSUME NEW r \in Replicas, TerminalNext(r) PROVE [Token!TokenNext]_(Token!tokenVars)
    <2>1. CASE TerminalWrite(r) BY <2>1, TokenBurn
    <2>2. CASE TerminalSettle(r) \/ TerminalRelease(r)
      <3>1. row'.gen = row.gen /\ fenced' = fenced /\ sw' = sw /\ (bind' = bind \/ EvictBinding(r))
        BY <2>2 DEF TerminalSettle, TerminalRelease, ReleaseBinding, CoordTypeOK, Rows
      <3>. QED BY <3>1, TokenStop
    <2>. QED BY <1>4, <2>1, <2>2 DEF TerminalNext
  <1>5. ASSUME NEW r \in Replicas, FaultNext(r) PROVE [Token!TokenNext]_(Token!tokenVars)
    <2>1. CASE BackoffElapsed(r) BY <2>1, TokenStutter DEF BackoffElapsed
    <2>2. CASE ConnectionLost(r)
      <3>1. bind[r] \in [gen : Gens, pod : Pods, live : BOOLEAN]
        BY <2>2 DEF ConnectionLost, CoordTypeOK, Bindings, NoBinding
      <3>2. bind'[r] = [bind[r] EXCEPT !.live = FALSE] /\ \A s \in Replicas \ {r} : bind'[s] = bind[s]
        BY <2>2 DEF ConnectionLost, CoordTypeOK
      <3>3. \A s \in Replicas : Serving(s)' = Serving(s) BY <3>1, <3>2 DEF Serving
      <3>4. [s \in Replicas |-> Serving(s)]' = [s \in Replicas |-> Serving(s)] BY <3>3
      <3>5. [s \in Replicas |-> Claims(s)]' = [s \in Replicas |-> Claims(s)]
        BY <2>2 DEF ConnectionLost, Claims
      <3>. QED BY <2>2, <3>4, <3>5 DEF ConnectionLost, Token!tokenVars
    <2>3. CASE Crash(r) BY <2>3, TokenDie
    <2>. QED BY <1>5, <2>1, <2>2, <2>3 DEF FaultNext
  <1>6. CASE \E p \in Pods : PodLost(p)
    BY <1>6, TokenStutter DEF PodLost
  <1>7. CASE LeaseLapse BY <1>7, TokenStutter DEF LeaseLapse, coordVars
  <1>. QED BY <1>1, <1>2, <1>3, <1>4, <1>5, <1>6, <1>7 DEF CoordNext

\* Whatever the number of replicas and pods and whatever is lost on the way, the
\* generations of the session rows behave as fencing tokens: each is drawn once
\* (RecordHandoff), claimed by one replica, and served on a pod that has admitted
\* it (readoptAndFence).
THEOREM CoordinationImplementsTokens == CoordSpec => ImplementsFencingToken
  <1>1. CoordInit => Token!TokenInit BY TokenStart
  <1>2. CoordInv /\ [CoordNext]_allCoordVars => [Token!TokenNext]_(Token!tokenVars) BY CoordToken
  <1>3. CoordSpec => []CoordInv BY Invariance
  <1>. QED BY <1>1, <1>2, <1>3, PTL DEF CoordSpec, ImplementsFencingToken, Token!TokenSpec

=============================================================================
