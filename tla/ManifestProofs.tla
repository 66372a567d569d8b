--------------------------- MODULE ManifestProofs ---------------------------
(* The session, the sweepers and the steps that count keep the invariant of  *)
(* ManifestSteps; and what it says of the checkpoints.                       *)
EXTENDS ManifestStream, FiniteSetTheorems, WellFoundedInduction

\* What a step of a sweeper assigns.
LEMMA SweeperTyped ==
  ASSUME ManifestInv, NEW s \in Sweepers, NEW w \in SweeperType, SweeperTo(s, w)
  PROVE  /\ sweeper' \in [Sweepers -> SweeperType] /\ sweeper'[s] = w
         /\ \A t \in Sweepers \ {s} : sweeper'[t] = sweeper[t]
  BY DEF SweeperTo, ManifestInv, ManifestTypes

\* One sweeper steps, and takes nothing but what is spent.
LEMMA OneSweeper ==
  ASSUME ManifestInv, NEW s \in Sweepers, NEW w \in SweeperType, SweeperTo(s, w), Swept(w),
         UNCHANGED <<plan, gen, grant, driver, kept>>, StoreTypes',
         \A b \in Attempts : Touches(b),
         ~plan.overlap =>
           /\ \A b \in Attempts : Spares(b)
           /\ w.gen <= gen /\ (w.pc = "read" => w = sweeper[s])
           /\ w.pc \in {"sweep", "release", "last_list"} => Lost(w.target)
  PROVE  ManifestInv'
  <1>1. /\ sweeper' \in [Sweepers -> SweeperType] /\ sweeper'[s] = w
        /\ \A t \in Sweepers \ {s} : sweeper'[t] = sweeper[t]
    BY SweeperTyped
  <1>2. ManifestTypes' BY <1>1 DEF ManifestInv, ManifestTypes, StoreTypes
  <1>3. \A t \in Sweepers : Swept(sweeper'[t]) BY <1>1 DEF ManifestInv, RowInv
  <1>4. ASSUME ~plan.overlap PROVE SweepSole
    <2>0. SoleInv BY <1>4 DEF ManifestInv
    <2>1. ASSUME NEW t \in Sweepers
          PROVE  /\ sweeper'[t].gen <= gen'
                 /\ sweeper'[t].pc \in {"sweep", "release", "last_list"} =>
                      Lost(sweeper'[t].target)
      <3>1. CASE t = s BY <1>1, <1>4, <3>1
      <3>2. CASE t # s BY <1>1, <2>0, <3>2 DEF SoleInv
      <3>. QED BY <3>1, <3>2
    <2>2. ASSUME NEW b \in Attempts, Running(b) PROVE Behind(driver[b])'
      <3>1. Behind(driver[b]) BY <2>0, <2>2 DEF SoleInv
      <3>2. CASE s = "cleaner" BY <1>1, <1>4, <3>1, <3>2 DEF Behind
      <3>3. CASE s # "cleaner"
        <4>1. sweeper'["cleaner"] = sweeper["cleaner"] BY <1>1, <3>3 DEF Sweepers
        <4>. QED BY <3>1, <4>1 DEF Behind
      <3>. QED BY <3>2, <3>3
    <2>. QED BY <1>4, <2>1, <2>2 DEF SweepSole
  <1>. QED BY <1>2, <1>3, <1>4, SweeperStep

\* A sweeper that is done.
LEMMA IdleSwept == IdleSweeper \in SweeperType /\ IdleSweeper.pc = "idle" /\ IdleSweeper.gen = 0
  BY IdleTypes DEF IdleSweeper

\* Nothing but a sweeper changes.
LEMMA SweeperOnly ==
  ASSUME ManifestInv, UNCHANGED <<used, row, obj, settled>>
  PROVE  StoreTypes' /\ \A b \in Attempts : Touches(b) /\ Spares(b)
  BY StoreTyped, NothingTouched DEF StoreTypes

\* The resume's cleaner looks at the latest row below its generation.  Without
\* an overlap no attempt that runs has one.
LEMMA CleanupStep ==
  ASSUME ManifestInv, CleanupAfterResume
  PROVE  ManifestInv'
  <1> DEFINE w == sweeper["cleaner"]
  <1>1. w \in SweeperType /\ w.pc = "read" /\ "cleaner" \in Sweepers
    BY Zenon DEF CleanupAfterResume, ManifestInv, ManifestTypes, Sweepers
  <1>2. UNCHANGED <<plan, gen, used, row, obj, grant, driver, kept, settled>>
    BY Zenon DEF CleanupAfterResume
  <1>3. StoreTypes' /\ \A b \in Attempts : Touches(b) /\ Spares(b) BY <1>2, SweeperOnly
  <1>4. gen \in Nat BY StoreTyped
  <1>5. CASE SweeperTo("cleaner", IdleSweeper)
    BY <1>1, <1>2, <1>3, <1>4, <1>5, IdleSwept, OneSweeper DEF Swept
  <1>6. CASE \E a \in LatestActive :
               /\ row[a].gen < w.gen
               /\ SweeperTo("cleaner", [w EXCEPT !.pc = "sweep", !.target = a])
    <2>1. PICK a \in LatestActive :
            /\ row[a].gen < w.gen
            /\ SweeperTo("cleaner", [w EXCEPT !.pc = "sweep", !.target = a])
      BY Zenon, <1>6
    <2> DEFINE v == [w EXCEPT !.pc = "sweep", !.target = a]
    <2>2. a \in Attempts /\ ActivePartial(a) BY DEF LatestActive
    <2>3. v \in SweeperType /\ v.pc = "sweep" /\ v.target = a /\ v.gen = w.gen
      BY Zenon, <1>1, <2>2 DEF SweeperType
    <2>4. SweeperTo("cleaner", v) BY <2>1
    <2> HIDE DEF v
    <2>5. ASSUME ~plan.overlap PROVE Lost(a) /\ v.gen <= gen
      <3>0. SoleInv BY <2>5 DEF ManifestInv
      <3>1. ~Running(a)
        <4>1. SUFFICES ASSUME Running(a) PROVE FALSE OBVIOUS
        <4>2. w.gen <= driver[a].gen BY <1>1, <2>2, <3>0, <4>1 DEF SoleInv, Behind
        <4>3. EndFacts(driver[a], row[a], obj[a]) BY <2>2, <3>0 DEF SoleInv, Standing
        <4>4. row[a].gen = driver[a].gen
          BY Zenon, <2>2, <4>1, <4>3 DEF EndFacts, Running, ActivePartial
        <4>5. row[a].gen \in Nat /\ w.gen \in Nat
          BY <1>1, <2>2, StoreTyped DEF RowType, SweeperType
        <4>. QED BY <2>1, <4>2, <4>4, <4>5
      <3>2. Lost(a) BY <2>2, <3>1, IdleIsLost
      <3>3. w.gen <= gen BY <1>1, <3>0 DEF SoleInv
      <3>. QED BY <2>3, <3>2, <3>3
    <2>. QED BY <1>1, <1>2, <1>3, <2>2, <2>3, <2>4, <2>5, OneSweeper DEF Swept
  <1>. QED BY Zenon, <1>5, <1>6 DEF CleanupAfterResume

\* The backstop selects a row nobody will finish.
LEMMA BackstopSelectStep ==
  ASSUME ManifestInv, NEW a \in Attempts, BackstopSelect(a)
  PROVE  ManifestInv'
  <1> DEFINE w == [IdleSweeper EXCEPT !.pc = "sweep", !.target = a, !.seen = row[a]]
  <1>1. UNCHANGED <<plan, gen, used, row, obj, grant, driver, kept, settled>>
    BY DEF BackstopSelect
  <1>2. StoreTypes' /\ \A b \in Attempts : Touches(b) /\ Spares(b) BY <1>1, SweeperOnly
  <1>3. gen \in Nat /\ row[a] \in RowType /\ driver[a] \in DriverType BY StoreTyped
  <1>4. w \in SweeperType /\ w.pc = "sweep" /\ w.target = a /\ w.gen = 0
    BY Zenon, <1>3, IdleSwept DEF SweeperType
  <1>5. SweeperTo("backstop", w) /\ "backstop" \in Sweepers BY DEF BackstopSelect, Sweepers
  <1> HIDE DEF w
  <1>6. ASSUME ~plan.overlap PROVE Lost(a)
    <2>0. SoleInv BY <1>6 DEF ManifestInv
    <2>1. ActivePartial(a) /\ Reclaimable(a) BY DEF BackstopSelect, Reclaimable
    <2>2. CASE ~Running(a) BY <2>1, <2>2, IdleIsLost
    <2>3. CASE driver[a].expired BY <2>1, <2>3 DEF ActivePartial, Lost, Doomed, Complete
    <2>4. CASE row[a].reason # "in_progress"
      <3>1. HopeFacts(driver[a], row[a], obj[a]) BY <2>0 DEF SoleInv, Standing
      <3>2. ~Fresh(driver[a]) BY <2>1, FreshFacts DEF ActivePartial
      <3>3. ~Hopeful(driver[a]) BY Zenon, <2>4, <3>1 DEF HopeFacts
      <3>. QED BY <2>1, <3>2, <3>3 DEF Fresh, Hopeful, Lost, Doomed, Complete, ActivePartial
    <2>. QED BY <2>1, <2>2, <2>3, <2>4 DEF Reclaimable
  <1>. QED BY <1>1, <1>2, <1>3, <1>4, <1>5, <1>6, OneSweeper DEF Swept

\* A sweeper takes objects or the row of its target.
LEMMA TargetStep ==
  ASSUME ManifestInv, NEW s \in Sweepers, NEW v \in SweeperType, SweeperTo(s, v),
         sweeper[s].pc \in {"sweep", "release", "last_list"}, Takes(sweeper[s].target),
         used' \in Int, UNCHANGED <<plan, gen, grant, driver, kept>>,
         v.gen <= sweeper[s].gen,
         v.pc = "idle" \/ (v.pc \in {"release", "last_list"} /\ v.target = sweeper[s].target)
  PROVE  ManifestInv'
  <1> DEFINE b == sweeper[s].target
  <1>1. b \in Attempts BY DEF ManifestInv, RowInv, Swept
  <1>2. /\ StoreTypes' /\ \A c \in Attempts : Touches(c)
        /\ \A c \in Attempts \ {b} : Spares(c)
        /\ Spent(b) => Spares(b)
    BY <1>1, TakesFacts
  <1>3. ASSUME ~plan.overlap PROVE Lost(b) /\ v.gen <= gen
    <2>0. SoleInv BY <1>3 DEF ManifestInv
    <2>1. sweeper[s].gen <= gen /\ Lost(b) BY <2>0 DEF SoleInv
    <2>2. sweeper[s].gen \in Nat /\ v.gen \in Nat /\ gen \in Nat
      BY DEF ManifestInv, ManifestTypes, SweeperType
    <2>. QED BY <2>1, <2>2
  <1>4. ~plan.overlap => \A c \in Attempts : Spares(c) BY <1>2, <1>3 DEF Spent
  <1>. QED BY <1>1, <1>2, <1>3, <1>4, OneSweeper DEF Swept

\* A walk over the target's prefix, whole or cut short; then the row, once
\* the prefix lists empty.
LEMMA SweepStep ==
  ASSUME ManifestInv, NEW s \in Sweepers, Sweep(s) \/ SweepFails(s) \/ LastList(s), used' \in Int
  PROVE  ManifestInv'
  <1> DEFINE w == sweeper[s]
             v == [w EXCEPT !.pc = AfterSweep(s)]
  <1>1. w \in SweeperType BY DEF ManifestInv, ManifestTypes
  <1>2. w.gen \in Nat BY <1>1 DEF SweeperType
  <1>3. UNCHANGED <<plan, gen, grant, driver, kept>> BY DEF Sweep, SweepFails, LastList
  <1>4. CASE Sweep(s)
    <2>1. v \in SweeperType /\ v.gen = w.gen /\ v.target = w.target
          /\ v.pc \in {"release", "last_list"}
      BY <1>1 DEF SweeperType, AfterSweep
    <2>2. SweeperTo(s, v) /\ w.pc = "sweep" /\ Takes(w.target)
      BY <1>4 DEF Sweep, Takes, Walks
    <2> HIDE DEF v
    <2>3. v.gen <= w.gen BY <1>2, <2>1
    <2>. QED BY <1>3, <2>1, <2>2, <2>3, TargetStep
  <1>5. CASE SweepFails(s) \/ LastList(s)
    <2>1. /\ SweeperTo(s, IdleSweeper) /\ w.pc \in {"sweep", "last_list"}
          /\ Takes(w.target)
      BY <1>5 DEF SweepFails, LastList, Takes, Walks
    <2>2. IdleSweeper \in SweeperType /\ IdleSweeper.pc = "idle" /\ IdleSweeper.gen <= w.gen
      BY <1>2, IdleSwept
    <2>. QED BY <1>3, <2>1, <2>2, TargetStep
  <1>. QED BY <1>4, <1>5

\* The backstop releases what is left of its target's reservation.
LEMMA BackstopReleaseStep ==
  ASSUME ManifestInv, BackstopRelease
  PROVE  ManifestInv'
  <1> DEFINE w == sweeper["backstop"]
             delta == w.seen.bytes - w.seen.reserved
             back == IF delta < 0 THEN delta ELSE 0
             v == [w EXCEPT !.pc = "last_list", !.seen = NoRow]
  <1>1. "backstop" \in Sweepers BY DEF Sweepers
  <1>2. w \in SweeperType /\ w.pc = "release"
    BY <1>1 DEF ManifestInv, ManifestTypes, BackstopRelease
  <1>3. w.target \in Attempts BY <1>1, <1>2 DEF ManifestInv, RowInv, Swept
  <1>4. back \in Int
    <2>1. w.seen \in RowType BY <1>2 DEF SweeperType
    <2>2. w.seen.bytes \in Nat /\ w.seen.reserved \in Nat BY <2>1 DEF RowType
    <2>. QED BY <2>2
  <1>5. ReleaseReservation(w.target, "other", back) /\ SweeperTo("backstop", v)
        /\ UNCHANGED <<plan, gen, obj, grant, driver, kept>>
    BY DEF BackstopRelease
  <1>6. v \in SweeperType /\ v.pc = "last_list" /\ v.target = w.target /\ v.gen = w.gen
    BY Zenon, <1>2, IdleTypes DEF SweeperType
  <1> HIDE DEF back, v
  <1>7. /\ row' \in [Attempts -> RowType] /\ used' \in Int
        /\ settled' \in [Attempts -> Seq({"own", "other"})]
        /\ \A c \in Attempts :
             /\ Touch(row[c], row'[c], obj[c], obj[c], settled[c], settled'[c])
             /\ Intact(row[c], row'[c], obj[c], obj[c])
    BY <1>3, <1>4, <1>5, ReleaseFacts
  <1>8. StoreTypes' /\ \A c \in Attempts : Touches(c) /\ Spares(c)
    BY <1>5, <1>7, StoreTyped DEF StoreTypes, Touches, Spares
  <1>9. ~plan.overlap => w.gen <= gen /\ Lost(w.target)
    BY <1>1, <1>2 DEF ManifestInv, SoleInv
  <1>. QED BY <1>1, <1>3, <1>5, <1>6, <1>8, <1>9, OneSweeper DEF Swept

\* The generation rises: in a takeover, or in a resume, whose cleaner then
\* starts from it.  Without an overlap no attempt runs then.
LEMMA NextGenerationStep ==
  ASSUME ManifestInv, Resume \/ Takeover
  PROVE  ManifestInv'
  <1> DEFINE w == [IdleSweeper EXCEPT !.pc = "read", !.gen = gen + 1]
  <1>1. UNCHANGED <<plan, used, row, obj, grant, driver, kept, settled>> /\ gen' = gen + 1
        /\ Unattended
    BY DEF Resume, Takeover
  <1>2. StoreTypes' /\ \A b \in Attempts : Touches(b) /\ Spares(b) BY <1>1, SweeperOnly
  <1>3. gen \in Nat /\ gen' \in Nat BY <1>1, StoreTyped
  <1>4. w \in SweeperType /\ w.pc = "read" /\ w.gen = gen'
    BY Zenon, <1>1, <1>3, IdleTypes DEF SweeperType, IdleSweeper
  <1>5. sweeper' = sweeper \/ SweeperTo("cleaner", w)
    BY DEF Resume, Takeover, SweeperTo
  <1> HIDE DEF w
  <1>6. sweeper \in [Sweepers -> SweeperType] BY DEF ManifestInv, ManifestTypes
  <1>7. /\ sweeper' \in [Sweepers -> SweeperType]
        /\ \A s \in Sweepers : sweeper'[s] = sweeper[s] \/ sweeper'[s] = w
    BY <1>4, <1>5, <1>6 DEF SweeperTo
  <1>8. ManifestTypes' BY <1>1, <1>2, <1>3, <1>7 DEF ManifestInv, ManifestTypes, StoreTypes
  <1>9. \A s \in Sweepers : Swept(sweeper'[s])
    BY <1>4, <1>7 DEF Swept, ManifestInv, RowInv
  <1>10. ASSUME ~plan.overlap PROVE SweepSole
    <2>0. SoleInv BY <1>10 DEF ManifestInv
    <2>1. \A b \in Attempts : ~Running(b) BY <1>1, <1>10 DEF Unattended
    <2>2. ASSUME NEW s \in Sweepers
          PROVE  /\ sweeper'[s].gen <= gen'
                 /\ sweeper'[s].pc \in {"sweep", "release", "last_list"} =>
                      Lost(sweeper'[s].target)
      <3>1. CASE sweeper'[s] = w BY <1>3, <1>4, <3>1
      <3>2. CASE sweeper'[s] = sweeper[s]
        <4>1. sweeper[s].gen <= gen BY <2>0 DEF SoleInv
        <4>2. sweeper[s].gen \in Nat BY <1>6 DEF SweeperType
        <4>3. sweeper[s].gen <= gen' BY <1>1, <1>3, <4>1, <4>2
        <4>. QED BY <2>0, <3>2, <4>3 DEF SoleInv
      <3>. QED BY <1>7, <3>1, <3>2
    <2>. QED BY <1>2, <2>1, <2>2 DEF SweepSole
  <1>. QED BY <1>1, <1>2, <1>8, <1>9, <1>10, SweeperStep

\* A step that changes none of what ManifestInv looks at.
LEMMA IdleStep ==
  ASSUME ManifestInv, GoesIdle \/ UNCHANGED manifestVars
  PROVE  ManifestInv'
  <1>1. UNCHANGED <<plan, gen, used, row, obj, grant, driver, kept, sweeper, settled>>
    BY DEF GoesIdle, manifestVars
  <1>2. ManifestTypes' BY <1>1 DEF ManifestInv, ManifestTypes
  <1>3. \A b \in Attempts : Touches(b) /\ Spares(b) BY <1>1, NothingTouched
  <1>4. \A s \in Sweepers : Swept(sweeper'[s]) BY <1>1 DEF ManifestInv, RowInv
  <1>5. ASSUME ~plan.overlap PROVE SweepSole
    <2>0. SoleInv BY <1>5 DEF ManifestInv
    <2>. QED BY <1>1, <1>3, <2>0 DEF SweepSole, SoleInv, Behind
  <1>. QED BY <1>1, <1>2, <1>3, <1>4, <1>5, SweeperStep

-----------------------------------------------------------------------------
(* What is counted.                                                          *)

\* driveCheckpoint takes the lock: under it no other attempt runs.
LEMMA BeginStep ==
  ASSUME ManifestInv, NEW a \in Attempts, Begin(a)
  PROVE  ManifestInv'
  <1> DEFINE d == driver[a]
             n == [driver[a] EXCEPT !.pc = "stream", !.gen = gen]
  <1>1. d \in DriverType /\ gen \in Nat BY StoreTyped
  <1>2. Fresh(d) /\ ~d.intent BY FreshFacts DEF Begin, Fresh
  <1>3. n \in DriverType /\ n.pc = "stream" /\ n.gen = gen /\ n.intent = d.intent
        /\ n.acked = d.acked /\ n.checking = d.checking /\ n.counting = d.counting
        /\ n.queue = d.queue /\ n.declared = d.declared
    BY Zenon, <1>1 DEF DriverType, Pcs
  <1>4. Early(d, n)
    <2>1. n.declared >= d.declared BY <1>1, <1>3 DEF DriverType
    <2>. QED BY <1>2, <1>3, <2>1 DEF Early, Fresh, Prepared
  <1>5. To(a, n) BY DEF Begin
  <1>6. StoreTypes' BY StoreTyped DEF StoreTypes, Begin
  <1>7. \A b \in Attempts : Touches(b) /\ Spares(b) BY NothingTouched DEF Begin
  <1>8. ASSUME ~plan.overlap
        PROVE  /\ \A b \in Attempts \ {a} : ~Running(b) /\ Spares(b)
               /\ Behind(n)
    <2>1. Cardinality({b \in Attempts : Running(b)}) < 1 BY <1>8 DEF Begin
    <2>2. IsFiniteSet({b \in Attempts : Running(b)}) BY FS_Subset, ManifestConstants
    <2>3. Cardinality({b \in Attempts : Running(b)}) = 0 BY <2>1, <2>2, FS_CardinalityType
    <2>4. {b \in Attempts : Running(b)} = {} BY <2>2, <2>3, FS_EmptySet
    <2>5. Behind(n)
      <3>1. SoleInv BY <1>8 DEF ManifestInv
      <3>2. sweeper["cleaner"].gen <= gen BY <3>1 DEF SoleInv, Sweepers
      <3>. QED BY <1>3, <3>2 DEF Behind
    <2>. QED BY <2>4, <2>5, <1>7
  <1>9. UNCHANGED <<plan, gen, grant, kept, sweeper>> BY DEF Begin
  <1>10. n.pc \notin {"supersede", "sweep_prior"} BY <1>3
  <1> HIDE DEF n
  <1>. QED BY <1>2, <1>4, <1>5, <1>6, <1>7, <1>8, <1>9, <1>10, EarlyStep

\* n different numbers below n are all of them.
LEMMA FullSet ==
  ASSUME NEW n \in Nat, n > 0, NEW S \in SUBSET Nat, \A i \in S : i < n, Cardinality(S) = n
  PROVE  (\A i \in Nat : i < n => i \in S) /\ n - 1 \in S
  <1>1. S \in SUBSET (0..(n - 1)) OBVIOUS
  <1>2. IsFiniteSet(0..(n - 1)) /\ Cardinality(0..(n - 1)) = n BY FS_Interval
  <1>3. S = 0..(n - 1) BY Zenon, <1>1, <1>2, FS_Subset
  <1>. QED BY <1>3

\* A counter that has passed every number below n, and is at most n, is n.
LEMMA Reaches ==
  ASSUME NEW n \in Nat, NEW m \in Nat, m <= n, n - 1 < m
  PROVE  m = n
  OBVIOUS

\* A summary that adds up: every chunk is stored and the row counts them all.
LEMMA SummarySound ==
  ASSUME ManifestInv, ~plan.overlap, NEW a \in Attempts, Confirmed(a),
         driver[a].declared > 0, Cardinality(driver[a].acked) = driver[a].declared,
         driver[a].aborted = "", ~driver[a].expired, driver[a].confirmed = driver[a].declared
  PROVE  /\ row[a].state = "active" /\ row[a].count = driver[a].confirmed /\ row[a].count # 0
         /\ \A i \in Nat : i < row[a].count => i \in obj[a]
  <1> DEFINE d == driver[a]
  <1>0. SoleInv BY Zenon DEF ManifestInv
  <1>1. d \in DriverType /\ row[a] \in RowType BY Zenon, StoreTyped
  <1>2. d.declared \in Nat /\ d.acked \subseteq Chunks /\ row[a].count \in Nat
    BY Zenon, <1>1 DEF DriverType, RowType
  <1>3. d.pc = "stream" /\ d.checking = {} /\ d.counting = {} BY Zenon DEF Confirmed
  <1>4. ChunkFacts(d, grant[a]) /\ HopeFacts(d, row[a], obj[a])
    BY Zenon, <1>0 DEF SoleInv, Standing
  <1>5. (\A i \in Nat : i < d.declared => i \in d.acked) /\ d.declared - 1 \in d.acked
    <2>1. \A i \in d.acked : i \in Nat /\ i < d.declared
      BY Zenon, <1>2, <1>4, ChunkTypes DEF ChunkFacts, ManifestInv
    <2>2. d.acked \in SUBSET Nat BY Zenon, <2>1
    <2>3. d.declared > 0 /\ Cardinality(d.acked) = d.declared OBVIOUS
    <2>. QED BY ONLY <1>2, <2>1, <2>2, <2>3, FullSet
  <1>7. Hopeful(d)
    <2>1. RowFacts(d, row[a], grant[a], obj[a], settled[a]) BY Zenon DEF ManifestInv, RowInv
    <2>2. row[a].state # "none" BY Zenon, <1>5, <2>1 DEF RowFacts
    <2>3. ~Fresh(d) BY Zenon, <2>2, FreshFacts
    <2>. QED BY Zenon, <1>3, <2>3 DEF Fresh, Hopeful
  <1>8. /\ row[a].state = "active" /\ row[a].count <= d.declared
        /\ \A i \in d.acked : i \in obj[a] /\ i < row[a].count
    BY Zenon, <1>3, <1>4, <1>7 DEF HopeFacts, Counting
  <1>9. row[a].count = d.declared BY ONLY <1>2, <1>5, <1>8, Reaches
  <1>10. d.declared > 0 /\ d.confirmed = d.declared OBVIOUS
  <1>11. row[a].count # 0 BY ONLY <1>2, <1>9, <1>10
  <1>12. \A i \in Nat : i < row[a].count => i \in obj[a] BY ONLY Zenon, <1>5, <1>8, <1>9
  <1>. QED BY ONLY Zenon, <1>8, <1>9, <1>10, <1>11, <1>12

\* The summary completes the attempt, aborts it, or comes too late.
LEMMA OnSummaryStep ==
  ASSUME ManifestInv, NEW a \in Attempts, OnSummary(a)
  PROVE  ManifestInv'
  <1> DEFINE d == driver[a]
  <1>1. Confirmed(a) /\ Running(a) /\ d.pc = "stream" /\ d.checking = {} /\ d.counting = {}
    BY Zenon DEF OnSummary, Confirmed, Running, Ended
  <1>2. UNCHANGED <<plan, gen, used, obj, grant, kept, sweeper, settled>> BY Zenon DEF OnSummary
  <1>3. CASE d.aborted # "" \/ d.confirmed # d.declared
    <2>1. To(a, Moved(Abort(d, "stream_truncated"), "abort")) /\ row' = row
      BY Zenon, <1>3 DEF OnSummary, Moved
    <2>2. "stream_truncated" \in Reasons BY DEF Reasons
    <2>. QED BY <1>1, <1>2, <2>1, <2>2, AbortStep
  <1>4. CASE ~(d.aborted # "" \/ d.confirmed # d.declared) /\ d.expired
    <2>1. To(a, Returned(d)) /\ row' = row BY Zenon, <1>4 DEF OnSummary
    <2>. QED BY <1>1, <1>2, <2>1, PlainReturn
  <1>5. CASE ~(d.aborted # "" \/ d.confirmed # d.declared) /\ ~d.expired
    <2>1. To(a, Moved(d, "reconcile")) /\ Finalise(a, FALSE, "complete")
      BY Zenon, <1>5 DEF OnSummary, Moved
    <2>2. "complete" \in Aborts /\ FALSE \in BOOLEAN BY DEF Aborts, Reasons
    <2>3. ASSUME ~plan.overlap PROVE Sound(d, row'[a], obj[a]) /\ ~Lost(a)
      <3>1. d.declared > 0 /\ Cardinality(d.acked) = d.declared BY Zenon DEF OnSummary
      <3>2. /\ row[a].state = "active" /\ row[a].count = d.confirmed /\ row[a].count # 0
            /\ \A i \in Nat : i < row[a].count => i \in obj[a]
        BY Zenon, <1>1, <1>5, <2>3, <3>1, SummarySound
      <3>3. /\ row'[a].count = row[a].count /\ row'[a].partial = FALSE
            /\ row'[a].state = "active"
        BY Zenon, <2>1, <2>2, <3>2, FinaliseFacts DEF ManifestInv
      <3>4. ~Lost(a) BY Zenon, <1>1, <1>5 DEF Lost, Doomed
      <3>. QED BY <3>2, <3>3, <3>4 DEF Sound, Complete
    <2>. QED BY Zenon, <1>1, <1>2, <2>1, <2>2, <2>3, FinalisedStep
  <1>. QED BY Zenon, <1>3, <1>4, <1>5

\* A nonempty set of attempts has a least one.
LEMMA LeastAttempt ==
  ASSUME NEW T \in SUBSET Attempts, T # {}
  PROVE  Min(T) \in T
  <1>1. T \subseteq Nat BY ManifestConstants
  <1>2. PICK m \in T : \A n \in T : ~ <<n, m>> \in OpToRel(<, Nat)
    BY ZenonT(60), <1>1, NatLessThanWellFounded, WFMin
  <1>3. ASSUME NEW n \in T PROVE m <= n
    <2>1. n \in Nat /\ m \in Nat BY <1>1
    <2>2. ~(n < m) BY ZenonT(60), <1>2, <2>1 DEF OpToRel
    <2>. QED BY <2>1, <2>2
  <1>4. \E x \in T : \A y \in T : x <= y BY <1>3
  <1>. QED BY <1>4 DEF Min

\* The rotation takes one checkpoint the catalogue no longer lists.
LEMMA RotateStep ==
  ASSUME ManifestInv, NEW a \in Attempts, Rotate(a), used' \in Int
  PROVE  ManifestInv'
  <1> DEFINE d == driver[a]
  <1>1. d \in DriverType /\ Running(a) /\ d.pc = "rotate" /\ d.drop \in SUBSET Attempts
    BY StoreTyped DEF Rotate, Running, Ended, DriverType
  <1>2. UNCHANGED <<plan, gen, grant, kept, sweeper, settled>> BY DEF Rotate
  <1>3. CASE d.drop = {}
    <2>1. To(a, Returned(d)) /\ UNCHANGED <<row, used, obj>> BY <1>3 DEF Rotate
    <2>. QED BY <1>1, <1>2, <2>1, PlainReturn
  <1>4. CASE d.drop # {}
    <2> DEFINE b == Min(d.drop)
               n == [d EXCEPT !.drop = @ \ {b}]
    <2>1. b \in d.drop /\ b \in Attempts BY <1>1, <1>4, LeastAttempt
    <2>2. Takes(b) BY <1>4 DEF Rotate, Takes, Walks
    <2>3. To(a, n) BY <1>4 DEF Rotate
    <2> HIDE DEF b
    <2>4. /\ n \in DriverType /\ n.pc = "rotate" /\ n.gen = d.gen /\ n.intent = d.intent
          /\ n.reserved = d.reserved /\ n.declared = d.declared /\ n.queue = d.queue
          /\ n.acked = d.acked /\ n.checking = d.checking /\ n.counting = d.counting
          /\ n.confirmed = d.confirmed /\ n.aborted = d.aborted /\ n.drop = d.drop \ {b}
      <3>1. d.drop \ {b} \in SUBSET Attempts BY <1>1
      <3>. QED BY Zenon, <1>1, <3>1 DEF DriverType
    <2> HIDE DEF n
    <2>5. /\ StoreTypes' /\ \A c \in Attempts : Touches(c)
          /\ \A c \in Attempts \ {b} : Intact(row[c], row'[c], obj[c], obj'[c]) /\ Spares(c)
          /\ Spent(b) => Spares(b)
      BY <2>1, <2>2, TakesFacts
    <2>6. /\ driver' \in [Attempts -> DriverType] /\ driver'[a] = n
          /\ \A c \in Attempts \ {a} : driver'[c] = driver[c]
      BY <2>3, <2>4, DriverTo DEF ManifestInv
    <2>7. ManifestTypes' BY <1>2, <2>5, <2>6 DEF ManifestInv, ManifestTypes, StoreTypes
    <2>8. Others(a) BY <1>2, <2>5, <2>6 DEF Others
    <2>9. Touches(a) BY <2>5
    <2>10. OwnRow(a)
      <3>1. RowFacts(d, row[a], grant[a], obj[a], settled[a]) BY DEF ManifestInv, RowInv
      <3>2. /\ RowFacts(d, row'[a], grant[a], obj'[a], settled'[a])
            /\ row'[a].state = "active" /\ row'[a].partial => ActivePartial(a)
        BY <2>9, <3>1, TouchRow DEF Touches, ActivePartial
      <3>3. RowFacts(n, row'[a], grant[a], obj'[a], settled'[a])
        BY <1>1, <2>4, <3>2 DEF RowFacts, Fresh, Prepared
      <3>. QED BY <1>2, <2>6, <3>2, <3>3 DEF OwnRow
    <2>11. ASSUME ~plan.overlap PROVE OwnSole(a)
      <3>0. SoleInv BY <2>11 DEF ManifestInv
      <3>1. \A c \in d.drop : driver[c].pc \in {"rotate", "done"} /\ c \notin Listed
        BY <1>1, <3>0 DEF SoleInv
      <3>2. Spent(b) BY <2>1, <3>1 DEF Spent
      <3>3. Alone(a) BY <1>1, <2>5, <2>11, <3>2, OneRuns DEF Alone
      <3>4. Standing(d, row[a], grant[a], obj[a])
            /\ (a \in Listed => Sound(d, row[a], obj[a])) /\ Behind(d)
        BY <1>1, <3>0 DEF SoleInv
      <3>5. Standing(d, row'[a], grant[a], obj'[a])
        BY <1>1, <2>9, <3>4, TouchStanding DEF Touches
      <3>6. Standing(n, row'[a], grant[a], obj'[a])
        <4>1. ChunkFacts(n, grant[a])
          BY <1>1, <2>4, <3>5 DEF Standing, ChunkFacts, Counting
        <4>2. HopeFacts(n, row'[a], obj'[a]) BY Zenon, <2>4 DEF HopeFacts, Hopeful
        <4>3. EndFacts(n, row'[a], obj'[a]) BY Zenon, <1>1, <2>4, <3>5 DEF Standing, EndFacts
        <4>. QED BY <4>1, <4>2, <4>3 DEF Standing
      <3>7. ASSUME NEW c \in n.drop
            PROVE  driver'[c].pc \in {"rotate", "done"} /\ c \notin Listed
        BY <1>1, <2>4, <2>6, <3>1
      <3>8. a \in Listed => Sound(n, row'[a], obj'[a])
        BY <2>1, <2>4, <2>5, <3>1, <3>4, IntactSound
      <3>9. Lost(a) => Doomed(n, row'[a])
        <4>1. Lost(a) => Doomed(d, row'[a]) BY <2>9, TouchLost DEF Lost, Touches
        <4>. QED BY <2>4, <4>1 DEF Doomed
      <3>10. Behind(n) BY <2>4, <3>4 DEF Behind
      <3>. QED BY <1>2, <2>4, <2>6, <3>3, <3>6, <3>7, <3>8, <3>9, <3>10 DEF OwnSole
    <2>. QED BY <1>2, <2>7, <2>8, <2>10, <2>11, OwnStep
  <1>. QED BY <1>3, <1>4

\* A walk takes a number of chunks off the tenant's counter.
LEMMA LiveCount ==
  ASSUME NEW b, NEW rows
  PROVE  Cardinality(rows \cap Live(b)) \in Nat
  <1>1. IsFiniteSet(Chunks) BY FS_Interval, ManifestConstants DEF Chunks
  <1>2. IsFiniteSet(rows \cap Live(b)) BY <1>1, FS_Subset DEF Live
  <1>. QED BY <1>2, FS_CardinalityType

\* So the counter stays a number, whoever walks.
LEMMA CounterTyped ==
  ASSUME used \in Int, NEW b, Walks(b) \/ UNCHANGED used
  PROVE  used' \in Int
  <1>1. CASE ReleasePrefix(b)
    BY <1>1, LiveCount DEF ReleasePrefix, ReleaseChunks, Adjust
  <1>2. CASE ReleasePrefixFails(b)
    BY <1>2, LiveCount DEF ReleasePrefixFails, ReleaseChunks, Adjust
  <1>. QED BY <1>1, <1>2 DEF Walks

-----------------------------------------------------------------------------
(* The invariant, and what follows from it.                                  *)

\* At first no attempt has started.
LEMMA ManifestStarts == ManifestInit => ManifestInv
  <1>1. SUFFICES ASSUME ManifestInit PROVE ManifestInv OBVIOUS
  <1>2. \A a \in Attempts :
          /\ driver[a] = IdleDriver /\ row[a] = NoRow /\ obj[a] = {} /\ settled[a] = <<>>
          /\ grant[a] = [i \in Chunks |-> "none"]
    BY <1>1 DEF ManifestInit
  <1>3. \A s \in Sweepers : sweeper[s] = IdleSweeper BY <1>1 DEF ManifestInit
  <1>4. /\ IdleDriver.pc = "new" /\ ~IdleDriver.intent /\ IdleDriver.acked = {}
        /\ IdleDriver.queue = <<>> /\ IdleDriver.checking = {} /\ IdleDriver.counting = {}
    BY DEF IdleDriver
  <1>5. NoRow.state = "none" BY DEF NoRow
  <1>6. ManifestTypes
    <2>1. OtherBytes \in Int BY ManifestConstants
    <2>2. (<<>> \in Seq(Attempts)) /\ (<<>> \in Seq({"own", "other"})) OBVIOUS
    <2>. QED BY <1>1, <2>1, <2>2, IdleTypes DEF ManifestInit, ManifestTypes, Grants
  <1>7. RowInv
    <2>1. ASSUME NEW a \in Attempts
          PROVE  RowFacts(driver[a], row[a], grant[a], obj[a], settled[a])
      BY <1>2, <1>4, <1>5 DEF RowFacts, Fresh, Prepared
    <2>2. \A s \in Sweepers : Swept(sweeper[s]) BY <1>3, IdleSwept DEF Swept
    <2>3. OneActivePartial BY <1>2, <1>5 DEF OneActivePartial, ActivePartial
    <2>. QED BY <2>1, <2>2, <2>3 DEF RowInv
  <1>8. SoleInv
    <2>1. kept = <<>> /\ Listed = {} BY <1>1 DEF ManifestInit, Listed
    <2>2. \A a \in Attempts : ~Running(a) BY <1>2, <1>4 DEF Running, Ended
    <2>3. ASSUME NEW a \in Attempts PROVE Standing(driver[a], row[a], grant[a], obj[a])
      <3>1. ChunkFacts(driver[a], grant[a]) BY <1>2, <1>4 DEF ChunkFacts, Counting
      <3>2. HopeFacts(driver[a], row[a], obj[a]) BY Zenon, <1>2, <1>4 DEF HopeFacts, Hopeful
      <3>3. EndFacts(driver[a], row[a], obj[a]) BY Zenon, <1>2, <1>4 DEF EndFacts, Ended
      <3>. QED BY <3>1, <3>2, <3>3 DEF Standing
    <2>4. gen = 1 BY <1>1 DEF ManifestInit
    <2>5. \A s \in Sweepers : sweeper[s].gen <= gen /\ sweeper[s].pc = "idle"
      BY <1>3, <2>4, IdleSwept
    <2>6. \A a \in Attempts : driver[a].pc = "new" BY <1>2, <1>4
    <2>7. \A m, n \in DOMAIN kept : kept[m] = kept[n] => m = n BY <2>1
    <2>. QED BY <2>1, <2>2, <2>3, <2>5, <2>6, <2>7 DEF SoleInv
  <1>. QED BY <1>6, <1>7, <1>8 DEF ManifestInv

\* Every step of an attempt, of its pod and of the replica it runs on.
LEMMA DriverKeeps ==
  ASSUME ManifestInv, NEW a \in Attempts, DriverNext(a)
  PROVE  ManifestInv'
  <1>0. used \in Int BY DEF ManifestInv, ManifestTypes
  <1>1. CASE Begin(a) BY <1>1, BeginStep
  <1>2. CASE SizeReject(a)
    <2>1. Running(a) /\ To(a, Returned(driver[a]))
          /\ UNCHANGED <<plan, gen, used, row, obj, grant, kept, sweeper, settled>>
      BY <1>2 DEF SizeReject, Running, Ended
    <2>. QED BY <2>1, PlainReturn
  <1>3. CASE Reserve(a) BY <1>3, ReserveStep
  <1>4. CASE ReadPrior(a) BY <1>4, ReadPriorStep
  <1>5. CASE SupersedeRelease(a) BY <1>5, SupersedeReleaseStep
  <1>6. CASE SupersedeSweep(a)
    <2>1. Walks(driver[a].prior) \/ UNCHANGED used BY <1>6 DEF SupersedeSweep, Walks
    <2>2. used' \in Int BY <1>0, <2>1, CounterTyped
    <2>. QED BY <1>6, <2>2, SupersedeSweepStep
  <1>7. CASE Put(a) BY <1>7, PutStep
  <1>8. CASE OnChunkReady(a) BY <1>8, OnChunkReadyStep
  <1>9. ASSUME NEW i \in Chunks, PutObject(a, i) PROVE ManifestInv' BY <1>9, PutObjectStep
  <1>10. ASSUME NEW i \in Chunks, OnChunkCommitted(a, i) PROVE ManifestInv'
    BY <1>10, OnChunkCommittedStep
  <1>11. ASSUME NEW i \in Chunks, ConfirmStat(a, i) PROVE ManifestInv'
    BY <1>11, ConfirmStatStep
  <1>12. CASE ConfirmCount(a) BY <1>12, ConfirmCountStep
  <1>13. CASE Deadline(a) BY <1>13, DeadlineStep
  <1>14. CASE StreamFails(a) BY <1>14, StreamFailsStep
  <1>15. CASE OnSummary(a) BY <1>15, OnSummaryStep
  <1>16. CASE FinaliseAbort(a) BY <1>16, FinaliseAbortStep
  <1>17. CASE Reconcile(a) BY <1>17, ReconcileStep
  <1>18. CASE AbortSweep(a)
    <2>1. Walks(a) \/ UNCHANGED used BY <1>18 DEF AbortSweep, Walks
    <2>2. used' \in Int BY <1>0, <2>1, CounterTyped
    <2>. QED BY <1>18, <2>2, AbortSweepStep
  <1>19. CASE AbortLastList(a)
    <2>1. Walks(a) \/ UNCHANGED used BY <1>19 DEF AbortLastList, Walks
    <2>2. used' \in Int BY <1>0, <2>1, CounterTyped
    <2>. QED BY <1>19, <2>2, AbortLastListStep
  <1>20. CASE RecordSnapshot(a) BY <1>20, RecordSnapshotStep
  <1>21. CASE Rotate(a)
    <2>1. Walks(Min(driver[a].drop)) \/ UNCHANGED used BY <1>21 DEF Rotate, Walks
    <2>2. used' \in Int BY <1>0, <2>1, CounterTyped
    <2>. QED BY <1>21, <2>2, RotateStep
  <1>22. CASE Crash(a)
    <2>1. Running(a) /\ To(a, Returned(driver[a]))
          /\ UNCHANGED <<plan, gen, used, row, obj, grant, kept, sweeper, settled>>
      BY <1>22 DEF Crash
    <2>. QED BY <2>1, PlainReturn
  <1>. QED BY <1>1, <1>2, <1>3, <1>4, <1>5, <1>6, <1>7, <1>8, <1>9, <1>10, <1>11, <1>12,
              <1>13, <1>14, <1>15, <1>16, <1>17, <1>18, <1>19, <1>20, <1>21, <1>22
           DEF DriverNext

\* Every step of the session and of the sweepers.
LEMMA SweeperKeeps ==
  ASSUME ManifestInv, SweeperNext
  PROVE  ManifestInv'
  <1>1. CASE Resume \/ Takeover BY <1>1, NextGenerationStep
  <1>2. CASE GoesIdle BY <1>2, IdleStep
  <1>3. CASE CleanupAfterResume BY <1>3, CleanupStep
  <1>4. CASE \E a \in Attempts : BackstopSelect(a) BY <1>4, BackstopSelectStep
  <1>5. CASE \E s \in Sweepers : Sweep(s) \/ SweepFails(s) \/ LastList(s)
    <2>1. PICK s \in Sweepers : Sweep(s) \/ SweepFails(s) \/ LastList(s) BY <1>5
    <2>2. Walks(sweeper[s].target) \/ UNCHANGED used
      BY <2>1 DEF Sweep, SweepFails, LastList, Walks
    <2>3. used' \in Int BY <2>2, CounterTyped DEF ManifestInv, ManifestTypes
    <2>. QED BY <2>1, <2>3, SweepStep
  <1>6. CASE BackstopRelease BY <1>6, BackstopReleaseStep
  <1>. QED BY <1>1, <1>2, <1>3, <1>4, <1>5, <1>6 DEF SweeperNext

\* ManifestInv holds in every state, whichever attempts, confirms, resumes,
\* takeovers and sweeps interleave, and wherever a replica dies.
THEOREM ManifestInvariant == ManifestSpec => []ManifestInv
  <1>1. ManifestInit => ManifestInv BY ManifestStarts
  <1>2. ManifestInv /\ [ManifestNext]_manifestVars => ManifestInv'
    BY DriverKeeps, SweeperKeeps, IdleStep DEF ManifestNext
  <1>. QED BY <1>1, <1>2, PTL DEF ManifestSpec

\* A session has at most one active partial manifest, also when two replicas
\* and a resume write at once: Put supersedes what is not newer, is refused by
\* what is newer, and nothing else makes a row active.
THEOREM PartialIsSole == ManifestSpec => []OneActivePartial
  <1>1. ManifestInv => OneActivePartial BY DEF ManifestInv, RowInv
  <1>. QED BY <1>1, ManifestInvariant, PTL

\* Every object under a checkpoint's prefix has a manifest row, so that some
\* sweep finds it: no PUT is signed before the intent row is written.
THEOREM ObjectsKnown == ManifestSpec => []NoUnknownObject
  <1>1. ManifestInv => NoUnknownObject BY DEF ManifestInv, RowInv, RowFacts, NoUnknownObject
  <1>. QED BY <1>1, ManifestInvariant, PTL

\* The guarded UPDATE of ReleaseReservation takes a reservation off the
\* tenant's counter once, whoever gets to it first.
THEOREM ReleasedAtMostOnce == ManifestSpec => []ReleasedOnce
  <1>1. ManifestInv => ReleasedOnce BY DEF ManifestInv, RowInv, RowFacts, ReleasedOnce
  <1>. QED BY <1>1, ManifestInvariant, PTL

\* Unless an attempt overlaps a resume or another replica, a checkpoint the
\* retention catalogue lists can be restored: no superseding attempt, sweep
\* or rotation has taken its row or a chunk.
THEOREM ListedRestorable == ManifestSpec => []ListedIsRestorable
  <1>1. ManifestInv => ListedIsRestorable
    <2>1. SUFFICES ASSUME ManifestInv, ~plan.overlap, NEW n \in DOMAIN kept
                   PROVE  LET r == row[kept[n]] IN
                          /\ r.state = "active" /\ ~r.partial
                          /\ r.count = driver[kept[n]].confirmed
                          /\ 0..(r.count - 1) \subseteq obj[kept[n]]
      BY DEF ListedIsRestorable
    <2> DEFINE a == kept[n]
    <2>2. a \in Attempts /\ a \in Listed BY <2>1 DEF ManifestInv, ManifestTypes, Listed
    <2>3. Sound(driver[a], row[a], obj[a]) BY <2>1, <2>2 DEF ManifestInv, SoleInv
    <2>4. row[a].count \in Nat BY <2>1, <2>2, StoreTyped DEF RowType
    <2> HIDE DEF a
    <2>5. 0..(row[a].count - 1) \subseteq obj[a]
      <3>1. SUFFICES ASSUME NEW i \in 0..(row[a].count - 1) PROVE i \in obj[a] OBVIOUS
      <3>2. i \in Nat /\ i < row[a].count BY <2>4
      <3>. QED BY <2>3, <3>2 DEF Sound
    <2>. QED BY <2>3, <2>5 DEF Sound, Complete, a
  <1>. QED BY <1>1, ManifestInvariant, PTL

=============================================================================
