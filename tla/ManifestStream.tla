--------------------------- MODULE ManifestStream ---------------------------
(* The stream of an attempt keeps the invariant of ManifestSteps: its        *)
(* chunks, their confirms, the failure that ends it, and the record of the   *)
(* checkpoint it leaves.                                                     *)
EXTENDS ManifestSteps

\* A step of an attempt that has its row and is not yet listed.
LEMMA LoneStep ==
  ASSUME ManifestInv, NEW a \in Attempts, Running(a), StoreTypes',
         NEW n \in DriverType, To(a, n), UNCHANGED <<plan, gen, kept, sweeper>>,
         grant' \in [Attempts -> Grants],
         \A b \in Attempts \ {a} :
           grant'[b] = grant[b] /\ Touches(b) /\ Intact(row[b], row'[b], obj[b], obj'[b]),
         RowFacts(n, row'[a], grant'[a], obj'[a], settled'[a]),
         row'[a].state = "active" /\ row'[a].partial => ActivePartial(a),
         ~plan.overlap =>
           /\ Standing(n, row'[a], grant'[a], obj'[a]) /\ n.gen = driver[a].gen
           /\ n.pc \notin {"supersede", "sweep_prior", "rotate"}
           /\ driver[a].pc # "rotate"
           /\ Lost(a) => Doomed(n, row'[a])
  PROVE  ManifestInv'
  <1>1. /\ driver' \in [Attempts -> DriverType] /\ driver'[a] = n
        /\ \A b \in Attempts \ {a} : driver'[b] = driver[b]
    BY DriverTo DEF ManifestInv
  <1>2. ManifestTypes' BY <1>1 DEF ManifestInv, ManifestTypes, StoreTypes
  <1>3. Others(a) BY <1>1 DEF Others
  <1>4. OwnRow(a) BY <1>1 DEF OwnRow
  <1>5. ASSUME ~plan.overlap PROVE OwnSole(a)
    <2>0. SoleInv BY <1>5 DEF ManifestInv
    <2>1. Alone(a) BY <1>5, OneRuns DEF Alone, Spares
    <2>2. a \notin Listed BY <1>5, <2>0 DEF SoleInv, Running, Ended
    <2>3. Behind(n) BY <1>5, <2>0 DEF SoleInv, Behind
    <2>. QED BY <1>1, <1>5, <2>1, <2>2, <2>3 DEF OwnSole
  <1>. QED BY <1>2, <1>3, <1>4, <1>5, OwnStep

\* What a stream that is in time needs of its chunks.
Counted(d, r, o) ==
  \A i \in d.acked \ d.checking : i \in o /\ (i < r.count \/ i \in Counting(d))

\* A step of the stream that leaves every row alone.
LEMMA StreamStep ==
  ASSUME ManifestInv, NEW a \in Attempts, driver[a].pc = "stream", row[a].state # "none",
         NEW n \in DriverType, To(a, n), n.pc = "stream", n.intent = driver[a].intent,
         n.reserved = driver[a].reserved, n.gen = driver[a].gen,
         n.expired = driver[a].expired, n.declared >= driver[a].declared,
         UNCHANGED <<plan, gen, used, row, obj, kept, sweeper, settled>>,
         grant' \in [Attempts -> Grants],
         \A b \in Attempts \ {a} : grant'[b] = grant[b],
         ~plan.overlap =>
           /\ ChunkFacts(n, grant'[a])
           /\ Hopeful(driver[a]) /\ n.aborted = "" => Counted(n, row[a], obj[a])
  PROVE  ManifestInv'
  <1>1. Running(a) /\ StoreTypes' BY Zenon, StoreTyped DEF Running, Ended, StoreTypes
  <1>2. \A b \in Attempts : Touches(b) /\ Intact(row[b], row'[b], obj[b], obj'[b])
    BY Zenon, NothingTouched
  <1>3. RowFacts(n, row[a], grant'[a], obj[a], settled[a])
    <2>1. RowFacts(driver[a], row[a], grant[a], obj[a], settled[a]) BY Zenon DEF ManifestInv, RowInv
    <2>. QED BY Zenon, <2>1 DEF RowFacts, Fresh, Prepared
  <1>4. ASSUME ~plan.overlap PROVE Standing(n, row[a], grant'[a], obj[a])
    <2>1. Standing(driver[a], row[a], grant[a], obj[a]) BY Zenon, <1>4 DEF ManifestInv, SoleInv
    <2>2. HopeFacts(n, row[a], obj[a])
      <3>1. Hopeful(n) <=> Hopeful(driver[a]) BY Zenon DEF Hopeful
      <3>2. Hopeful(n) => row[a].count <= n.declared
        <4>1. row[a].count \in Nat /\ n.declared \in Nat /\ driver[a].declared \in Nat
          BY Zenon, StoreTyped DEF RowType, DriverType
        <4>2. Hopeful(n) => row[a].count <= driver[a].declared
          BY Zenon, <2>1, <3>1 DEF Standing, HopeFacts
        <4>3. n.declared >= driver[a].declared OBVIOUS
        <4>. QED BY ONLY <4>1, <4>2, <4>3
      <3>. QED BY Zenon, <1>4, <2>1, <3>1, <3>2 DEF Standing, HopeFacts, Counted
    <2>3. EndFacts(n, row[a], obj[a]) BY Zenon, <2>1 DEF Standing, EndFacts
    <2>. QED BY Zenon, <1>4, <2>2, <2>3 DEF Standing
  <1>5. Lost(a) => Doomed(n, row[a]) BY Zenon DEF Lost, Doomed
  <1>. QED BY Zenon, <1>1, <1>2, <1>3, <1>4, <1>5, LoneStep DEF ActivePartial

\* A grant is minted for one chunk of one attempt, or the attempt aborts.
LEMMA MintFacts ==
  ASSUME ManifestInv, NEW a \in Attempts, NEW e \in DriverType, NEW i \in Chunks,
         MintGrant(a, e, i)
  PROVE  \E n \in DriverType :
           /\ To(a, n) /\ Same(e, n) /\ n.pc = e.pc /\ (n.aborted = "" => e.aborted = "")
           /\ grant' \in [Attempts -> Grants]
           /\ \A b \in Attempts \ {a} : grant'[b] = grant[b]
           /\ \A j \in Chunks : j # i => grant'[a][j] = grant[a][j]
  <1>0. grant \in [Attempts -> Grants] BY DEF ManifestInv, ManifestTypes
  <1>1. CASE Refuses(e)
    <2> DEFINE n == Abort(e, "quota_exceeded")
    <2>1. n \in DriverType /\ Same(e, n) /\ n.pc = e.pc /\ n.aborted # ""
      BY Zenon, AbortFacts DEF Reasons
    <2>2. To(a, n) /\ grant' = grant BY <1>1 DEF MintGrant
    <2> HIDE DEF n
    <2>. QED BY Zenon, <1>0, <2>1, <2>2
  <1>2. CASE ~Refuses(e)
    <2> DEFINE n == [e EXCEPT !.signed = @ \cup {i}, !.out = @ + 1]
    <2>1. n \in DriverType /\ Same(e, n) /\ n.pc = e.pc /\ n.aborted = e.aborted
      <3>1. e.signed \cup {i} \in SUBSET Chunks /\ e.out + 1 \in Int BY DEF DriverType
      <3>. QED BY Zenon, <3>1 DEF DriverType, Same
    <2>2. To(a, n) /\ grant' = [grant EXCEPT ![a][i] = "out"] BY <1>2 DEF MintGrant
    <2> HIDE DEF n
    <2>3. /\ grant' \in [Attempts -> Grants]
          /\ \A b \in Attempts \ {a} : grant'[b] = grant[b]
          /\ \A j \in Chunks : j # i => grant'[a][j] = grant[a][j]
      BY <1>0, <2>2 DEF Grants
    <2>. QED BY Zenon, <2>1, <2>2, <2>3
  <1>. QED BY Zenon, <1>1, <1>2

\* One more chunk is declared, and queued or granted.
Declares(d, n, g, g2) ==
  /\ n.pc = "stream" /\ n.gen = d.gen /\ n.intent = d.intent /\ n.reserved = d.reserved
  /\ n.declared = d.declared + 1 /\ n.expired = d.expired
  /\ n.acked = d.acked /\ n.checking = d.checking /\ n.counting = d.counting
  /\ n.queue = d.queue \/ n.queue = Append(d.queue, d.declared)
  /\ n.aborted = "" => d.aborted = ""
  /\ \A j \in Chunks : j # d.declared => g2[j] = g[j]
\* A declared chunk is beyond the acknowledged and the queued ones.
LEMMA DeclareFacts ==
  ASSUME ManifestTypes, NEW d \in DriverType, NEW n \in DriverType, NEW g, NEW g2,
         ChunkFacts(d, g), d.pc = "stream", Declares(d, n, g, g2)
  PROVE  ChunkFacts(n, g2)
  <1>0. d.declared \in Nat /\ d.queue \in Seq(Chunks) /\ d.acked \subseteq Chunks
    BY DEF DriverType
  <1>6. /\ n.declared = d.declared + 1 /\ n.acked = d.acked /\ n.checking = d.checking
         /\ n.counting = d.counting /\ n.pc = "stream"
    BY Zenon DEF Declares
  <1>7. n.queue = d.queue \/ n.queue = Append(d.queue, d.declared) BY Zenon DEF Declares
  <1>8. \A j \in Chunks : j # d.declared => g2[j] = g[j] BY Zenon DEF Declares
  <1>1. \A i \in Chunks : i \in Nat BY ChunkTypes
  <1>2. \A i \in n.acked : i < n.declared BY <1>0, <1>6, <1>1 DEF ChunkFacts
  <1>3. ASSUME NEW m \in DOMAIN n.queue PROVE n.queue[m] < n.declared
    <2>1. ASSUME NEW k \in DOMAIN d.queue PROVE d.queue[k] < n.declared
      <3>1. d.queue[k] \in Nat BY <1>0, <1>1
      <3>2. d.queue[k] < d.declared BY DEF ChunkFacts
      <3>. QED BY <1>0, <1>6, <3>1, <3>2
    <2>2. CASE n.queue = d.queue BY <2>1, <2>2
    <2>3. CASE n.queue = Append(d.queue, d.declared)
      <3>1. m \in 1..(Len(d.queue) + 1) BY <1>0, <2>3
      <3>2. CASE m = Len(d.queue) + 1
        <4>1. n.queue[m] = d.declared BY <1>0, <2>3, <3>2
        <4>. QED BY <4>1, <1>0, <1>6
      <3>3. CASE m # Len(d.queue) + 1
        <4>1. m \in DOMAIN d.queue /\ n.queue[m] = d.queue[m] BY <1>0, <2>3, <3>1, <3>3
        <4>. QED BY <4>1, <2>1
      <3>. QED BY <3>2, <3>3
    <2>. QED BY <2>2, <2>3, <1>7
  <1>4. ASSUME NEW i \in Chunks, g2[i] # "none" PROVE i < n.declared
    <2>1. CASE i = d.declared BY <2>1, <1>0, <1>6
    <2>2. CASE i # d.declared
      <3>1. i < d.declared BY <2>2, <1>4, <1>8 DEF ChunkFacts
      <3>2. i \in Nat BY <1>1
      <3>. QED BY <3>1, <3>2, <1>0, <1>6
    <2>. QED BY <2>1, <2>2
  <1>5. n.checking \subseteq n.acked /\ Counting(n) \subseteq n.acked
    BY <1>6 DEF ChunkFacts, Counting
  <1>. QED BY <1>2, <1>3, <1>4, <1>5, <1>6 DEF ChunkFacts

\* OnChunkReady: before the intent the attempt aborts; after it the chunk is
\* queued or granted.
LEMMA OnChunkReadyStep ==
  ASSUME ManifestInv, NEW a \in Attempts, OnChunkReady(a)
  PROVE  ManifestInv'
  <1> DEFINE d == driver[a]
             e == [d EXCEPT !.declared = @ + 1]
  <1>1. d \in DriverType /\ d.pc = "stream" /\ Running(a) /\ d.declared \in Nat
    BY StoreTyped DEF OnChunkReady, Running, Ended, DriverType
  <1>2. UNCHANGED <<plan, gen, used, row, obj, kept, sweeper, settled>> BY DEF OnChunkReady
  <1>3. /\ e \in DriverType /\ e.pc = "stream" /\ e.gen = d.gen /\ e.intent = d.intent
        /\ e.reserved = d.reserved /\ e.declared = d.declared + 1 /\ e.queue = d.queue
        /\ e.acked = d.acked /\ e.checking = d.checking /\ e.counting = d.counting
        /\ e.expired = d.expired /\ e.aborted = d.aborted
    <2>1. d.declared + 1 \in Nat BY <1>1
    <2>. QED BY Zenon, <1>1, <2>1 DEF DriverType
  <1>4. d.declared \in Chunks
    <2>1. d.declared < plan.chunks BY DEF OnChunkReady
    <2>. QED BY <1>1, <2>1, ChunkTypes DEF ManifestInv
  <1>5. grant \in [Attempts -> Grants] /\ ManifestTypes BY DEF ManifestInv, ManifestTypes
  <1>6. ASSUME NEW n \in DriverType, To(a, n), Declares(d, n, grant[a], grant'[a]),
               grant' \in [Attempts -> Grants], d.intent,
               \A b \in Attempts \ {a} : grant'[b] = grant[b]
        PROVE  ManifestInv'
    <2>1. row[a].state # "none"
      <3>1. RowFacts(d, row[a], grant[a], obj[a], settled[a]) BY DEF ManifestInv, RowInv
      <3>. QED BY <1>6, <3>1 DEF RowFacts
    <2>2. n.declared >= d.declared
      <3>1. n.declared = d.declared + 1 BY Zenon, <1>6 DEF Declares
      <3>. QED BY <1>1, <3>1
    <2>3. ASSUME ~plan.overlap
          PROVE  /\ ChunkFacts(n, grant'[a])
                 /\ Hopeful(d) /\ n.aborted = "" => Counted(n, row[a], obj[a])
      <3>0. SoleInv BY <2>3 DEF ManifestInv
      <3>1. ChunkFacts(d, grant[a]) /\ HopeFacts(d, row[a], obj[a])
        BY <3>0 DEF SoleInv, Standing
      <3>2. ChunkFacts(n, grant'[a]) BY <1>1, <1>5, <1>6, <3>1, DeclareFacts
      <3>. QED BY Zenon, <1>6, <3>1, <3>2 DEF HopeFacts, Counted, Counting, Declares
    <2>. QED BY Zenon, <1>1, <1>2, <1>6, <2>1, <2>2, <2>3, StreamStep DEF Declares
  <1>7. CASE ~d.intent
    <2> DEFINE n == Abort(e, "stream_truncated")
    <2>1. n \in DriverType /\ Same(e, n) /\ n.pc = "stream"
      BY Zenon, <1>3, AbortFacts DEF Reasons
    <2>2. To(a, n) /\ grant' = grant BY <1>7 DEF OnChunkReady
    <2> HIDE DEF n, e
    <2>3. Early(d, n) /\ Fresh(d) /\ n.gen = d.gen
      <3>1. n.declared >= d.declared BY <1>1, <1>3, <2>1 DEF Same
      <3>. QED BY <1>1, <1>3, <1>7, <2>1, <3>1 DEF Early, Fresh, Prepared, Same
    <2>4. \A b \in Attempts : Touches(b) /\ Spares(b) BY <1>2, NothingTouched
    <2>5. StoreTypes' BY <1>2, StoreTyped DEF StoreTypes
    <2>6. ~plan.overlap => (\A b \in Attempts \ {a} : ~Running(b) /\ Spares(b)) /\ Behind(n)
      BY <1>1, <2>3, <2>4, OneRuns DEF ManifestInv, SoleInv, Behind
    <2>. QED BY <1>2, <2>1, <2>2, <2>3, <2>4, <2>5, <2>6, EarlyStep
  <1>8. CASE d.intent /\ WindowFull(d)
    <2> DEFINE n == [e EXCEPT !.queue = Append(@, d.declared)]
    <2>1. Append(e.queue, d.declared) \in Seq(Chunks) BY <1>3, <1>4 DEF DriverType
    <2> HIDE DEF e
    <2>2. n \in DriverType
          /\ n.pc = e.pc /\ n.gen = e.gen /\ n.intent = e.intent /\ n.reserved = e.reserved
          /\ n.expired = e.expired /\ n.declared = e.declared /\ n.acked = e.acked
          /\ n.checking = e.checking /\ n.counting = e.counting /\ n.aborted = e.aborted
          /\ n.queue = Append(e.queue, d.declared)
      BY Zenon, <1>3, <2>1 DEF DriverType, Same
    <2>3. To(a, n) /\ grant' = grant BY <1>8 DEF OnChunkReady, e
    <2> HIDE DEF n
    <2>. QED BY Zenon, <1>3, <1>5, <1>6, <1>8, <2>2, <2>3 DEF Declares
  <1>9. CASE d.intent /\ ~WindowFull(d)
    <2>1. MintGrant(a, e, d.declared) BY <1>9 DEF OnChunkReady
    <2> HIDE DEF e
    <2>2. PICK n \in DriverType :
           /\ To(a, n) /\ Same(e, n) /\ n.pc = e.pc /\ (n.aborted = "" => e.aborted = "")
           /\ grant' \in [Attempts -> Grants]
           /\ \A b \in Attempts \ {a} : grant'[b] = grant[b]
           /\ \A j \in Chunks : j # d.declared => grant'[a][j] = grant[a][j]
      BY Zenon, <1>3, <1>4, <2>1, MintFacts
    <2>. QED BY Zenon, <1>3, <1>6, <1>9, <2>2 DEF Same, Declares
  <1>. QED BY <1>7, <1>8, <1>9

\* One more chunk is acknowledged, and the queue's head is granted.
Commits(d, n, i) ==
  /\ n.pc = "stream" /\ n.gen = d.gen /\ n.intent = d.intent /\ n.reserved = d.reserved
  /\ n.declared = d.declared /\ n.expired = d.expired /\ n.counting = d.counting
  /\ n.acked = d.acked \cup {i} /\ n.checking = d.checking \cup {i}
  /\ n.aborted = "" => d.aborted = ""
HeadGranted(d, n, g, g2) ==
  \/ n.queue = d.queue /\ g2 = g
  \/ /\ d.queue # <<>> /\ n.queue = Tail(d.queue)
     /\ \A j \in Chunks : j # Head(d.queue) => g2[j] = g[j]
\* An acknowledged chunk waits for its confirm.
LEMMA CommitFacts ==
  ASSUME NEW d \in DriverType, NEW n, NEW g, NEW g2, NEW i \in Chunks,
         ChunkFacts(d, g), d.pc = "stream", g[i] # "none",
         Commits(d, n, i), HeadGranted(d, n, g, g2)
  PROVE  ChunkFacts(n, g2)
  <1>1. d.queue \in Seq(Chunks) BY DEF DriverType
  <1>2. /\ n.declared = d.declared /\ n.counting = d.counting /\ n.pc = "stream"
        /\ n.acked = d.acked \cup {i} /\ n.checking = d.checking \cup {i}
    BY Zenon DEF Commits
  <1>3. \A k \in n.acked : k < n.declared BY <1>2 DEF ChunkFacts
  <1>4. n.checking \subseteq n.acked /\ Counting(n) \subseteq n.acked
    BY <1>2 DEF ChunkFacts, Counting
  <1>5. /\ \A m \in DOMAIN n.queue : n.queue[m] < n.declared
        /\ \A j \in Chunks : g2[j] # "none" => j < n.declared
    <2>1. CASE n.queue = d.queue /\ g2 = g BY <2>1, <1>2 DEF ChunkFacts
    <2>2. CASE /\ d.queue # <<>> /\ n.queue = Tail(d.queue)
               /\ \A j \in Chunks : j # Head(d.queue) => g2[j] = g[j]
      <3>1. Head(d.queue) = d.queue[1] /\ 1 \in DOMAIN d.queue BY <1>1, <2>2
      <3>2. Head(d.queue) < d.declared BY <3>1 DEF ChunkFacts
      <3>3. \A m \in DOMAIN n.queue : m + 1 \in DOMAIN d.queue /\ n.queue[m] = d.queue[m + 1]
        BY <1>1, <2>2
      <3>4. \A m \in DOMAIN n.queue : n.queue[m] < n.declared BY <3>3, <1>2 DEF ChunkFacts
      <3>. QED BY <1>2, <2>2, <3>2, <3>4 DEF ChunkFacts
    <2>. QED BY Zenon, <2>1, <2>2 DEF HeadGranted
  <1>. QED BY <1>2, <1>3, <1>4, <1>5 DEF ChunkFacts

\* OnChunkCommitted: the chunk waits for its confirm, and the window moves on.
LEMMA OnChunkCommittedStep ==
  ASSUME ManifestInv, NEW a \in Attempts, NEW i \in Chunks, OnChunkCommitted(a, i)
  PROVE  ManifestInv'
  <1> DEFINE d == driver[a]
             e == [d EXCEPT !.acked = @ \cup {i}, !.out = @ - 1, !.checking = @ \cup {i}]
             f == [e EXCEPT !.queue = Tail(@)]
  <1>1. d \in DriverType /\ d.pc = "stream" /\ grant[a][i] # "none"
    BY StoreTyped DEF OnChunkCommitted
  <1>2. UNCHANGED <<plan, gen, used, row, obj, kept, sweeper, settled>>
    BY DEF OnChunkCommitted
  <1>3. e \in DriverType /\ Commits(d, e, i) /\ e.queue = d.queue /\ e.aborted = d.aborted
    <2>1. d.acked \cup {i} \in SUBSET Chunks /\ d.checking \cup {i} \in SUBSET Chunks
          /\ d.out - 1 \in Int
      BY <1>1 DEF DriverType
    <2>. QED BY Zenon, <1>1, <2>1 DEF DriverType, Commits
  <1>4. grant \in [Attempts -> Grants] BY DEF ManifestInv, ManifestTypes
  <1>5. row[a].state # "none"
    <2>1. RowFacts(d, row[a], grant[a], obj[a], settled[a]) BY DEF ManifestInv, RowInv
    <2>. QED BY <1>1, <2>1 DEF RowFacts
  <1>6. ASSUME NEW n \in DriverType, To(a, n), Commits(d, n, i),
               HeadGranted(d, n, grant[a], grant'[a]), grant' \in [Attempts -> Grants],
               \A b \in Attempts \ {a} : grant'[b] = grant[b]
        PROVE  ManifestInv'
    <2>1. n.declared >= d.declared
      <3>1. n.declared = d.declared BY Zenon, <1>6 DEF Commits
      <3>. QED BY <1>1, <3>1 DEF DriverType
    <2>2. ASSUME ~plan.overlap
          PROVE  /\ ChunkFacts(n, grant'[a])
                 /\ Hopeful(d) /\ n.aborted = "" => Counted(n, row[a], obj[a])
      <3>0. SoleInv BY <2>2 DEF ManifestInv
      <3>1. ChunkFacts(d, grant[a]) /\ HopeFacts(d, row[a], obj[a])
        BY <3>0 DEF SoleInv, Standing
      <3>2. ChunkFacts(n, grant'[a]) BY Zenon, <1>1, <1>6, <3>1, CommitFacts
      <3>3. Hopeful(d) /\ n.aborted = "" => Counted(n, row[a], obj[a])
        BY Zenon, <1>6, <3>1 DEF HopeFacts, Counted, Counting, Commits
      <3>. QED BY Zenon, <3>2, <3>3
    <2> HIDE DEF e, f
    <2>. QED BY Zenon, <1>1, <1>2, <1>5, <1>6, <2>1, <2>2, StreamStep DEF Commits
  <1> HIDE DEF e
  <1>7. CASE d.queue = <<>>
    <2>1. To(a, e) /\ grant' = grant BY <1>7 DEF OnChunkCommitted, e
    <2>2. HeadGranted(d, e, grant[a], grant'[a]) BY <1>3, <2>1 DEF HeadGranted
    <2>. QED BY <1>3, <1>4, <1>6, <2>1, <2>2
  <1>8. CASE d.queue # <<>>
    <2>0. d.queue \in Seq(Chunks) BY <1>1 DEF DriverType
    <2>1. Head(d.queue) \in Chunks /\ Tail(d.queue) \in Seq(Chunks) BY <1>8, <2>0
    <2>2. MintGrant(a, f, Head(d.queue)) BY <1>8 DEF OnChunkCommitted, e
    <2>3. f \in DriverType /\ Commits(d, f, i) /\ f.queue = Tail(d.queue)
      BY Zenon, <1>3, <2>1 DEF DriverType, Commits
    <2> HIDE DEF f
    <2>4. PICK n \in DriverType :
           /\ To(a, n) /\ Same(f, n) /\ n.pc = f.pc /\ (n.aborted = "" => f.aborted = "")
           /\ grant' \in [Attempts -> Grants]
           /\ \A b \in Attempts \ {a} : grant'[b] = grant[b]
           /\ \A j \in Chunks : j # Head(d.queue) => grant'[a][j] = grant[a][j]
      BY Zenon, <2>1, <2>2, <2>3, MintFacts
    <2>5. Commits(d, n, i) BY Zenon, <2>3, <2>4 DEF Commits, Same
    <2>6. n.queue = Tail(d.queue) BY Zenon, <2>3, <2>4 DEF Same
    <2>7. HeadGranted(d, n, grant[a], grant'[a]) BY Zenon, <1>8, <2>4, <2>6 DEF HeadGranted
    <2>. QED BY Zenon, <1>6, <2>4, <2>5, <2>7
  <1>. QED BY <1>7, <1>8

\* The pod writes a chunk: one more object, under a row.
LEMMA PutObjectStep ==
  ASSUME ManifestInv, NEW a \in Attempts, NEW i \in Chunks, PutObject(a, i)
  PROVE  ManifestInv'
  <1>1. UNCHANGED <<plan, gen, used, row, driver, kept, sweeper, settled>> BY DEF PutObject
  <1>2. /\ grant' \in [Attempts -> Grants] /\ obj' \in [Attempts -> SUBSET Chunks]
        /\ \A b \in Attempts \ {a} : grant'[b] = grant[b]
        /\ \A j \in Chunks : grant'[a][j] # "none" => grant[a][j] # "none"
        /\ \A b \in Attempts : obj[b] \subseteq obj'[b]
        /\ \A b \in Attempts \ {a} : obj'[b] = obj[b]
    <2>1. grant \in [Attempts -> Grants] /\ obj \in [Attempts -> SUBSET Chunks]
      BY DEF ManifestInv, ManifestTypes
    <2>. QED BY <2>1 DEF PutObject, Grants
  <1>3. ManifestTypes' BY <1>1, <1>2 DEF ManifestInv, ManifestTypes
  <1>4. RowFacts(driver[a], row[a], grant'[a], obj'[a], settled[a])
    <2>1. RowFacts(driver[a], row[a], grant[a], obj[a], settled[a]) BY DEF ManifestInv, RowInv
    <2>2. row[a].state # "none" BY <2>1 DEF RowFacts, PutObject
    <2>. QED BY <2>1, <2>2 DEF RowFacts
  <1>5. RowInv'
    <2>1. (\A b \in Attempts : RowFacts(driver[b], row[b], grant[b], obj[b], settled[b]))'
      BY <1>1, <1>2, <1>4 DEF ManifestInv, RowInv
    <2>2. OneActivePartial' /\ (\A s \in Sweepers : Swept(sweeper[s]))'
      BY <1>1 DEF ManifestInv, RowInv, OneActivePartial, ActivePartial
    <2>. QED BY <2>1, <2>2 DEF RowInv
  <1>6. ASSUME ~plan.overlap PROVE SoleInv'
    <2>0. SoleInv BY <1>6 DEF ManifestInv
    <2>1. ASSUME NEW b \in Attempts
          PROVE  /\ Standing(driver[b], row[b], grant'[b], obj'[b])
                 /\ b \in Listed => Sound(driver[b], row[b], obj'[b])
      <3>1. Standing(driver[b], row[b], grant[b], obj[b])
            /\ (b \in Listed => Sound(driver[b], row[b], obj[b]))
        BY <2>0 DEF SoleInv
      <3>2. obj[b] \subseteq obj'[b] BY <1>2
      <3>3. Sound(driver[b], row[b], obj[b]) => Sound(driver[b], row[b], obj'[b])
        BY <3>2 DEF Sound
      <3>4. ChunkFacts(driver[b], grant'[b]) BY <1>2, <3>1 DEF Standing, ChunkFacts
      <3>5. HopeFacts(driver[b], row[b], obj'[b]) BY Zenon, <3>1, <3>2 DEF Standing, HopeFacts
      <3>6. EndFacts(driver[b], row[b], obj'[b]) BY Zenon, <3>1, <3>3 DEF Standing, EndFacts
      <3>. QED BY <3>1, <3>3, <3>4, <3>5, <3>6 DEF Standing
    <2>2. Listed' = Listed BY <1>1 DEF Listed
    <2>. QED BY Zenon, <1>1, <2>0, <2>1, <2>2 DEF SoleInv, Running, Lost, Behind
  <1>. QED BY <1>1, <1>3, <1>5, <1>6 DEF ManifestInv

-----------------------------------------------------------------------------
(* The confirms.                                                             *)

\* Without an overlap, chunks are confirmed during the stream only.
LEMMA ConfirmsStream ==
  ASSUME ManifestInv, ~plan.overlap, NEW a \in Attempts, Running(a),
         driver[a].checking # {} \/ driver[a].counting # {}
  PROVE  driver[a].pc = "stream" /\ driver[a].intent
  <1>0. SoleInv BY DEF ManifestInv
  <1>1. ChunkFacts(driver[a], grant[a]) BY <1>0 DEF SoleInv, Standing
  <1>2. driver[a].acked # {} BY <1>1 DEF ChunkFacts, Counting
  <1>3. RowFacts(driver[a], row[a], grant[a], obj[a], settled[a]) BY DEF ManifestInv, RowInv
  <1>4. row[a].state # "none" BY <1>2, <1>3 DEF RowFacts
  <1>5. ~Fresh(driver[a]) BY <1>4, FreshFacts
  <1>6. driver[a] \in DriverType BY StoreTyped
  <1>. QED BY <1>1, <1>5, <1>6 DEF Fresh, ChunkFacts, DriverType, Pcs, Running, Ended

\* What both halves of a confirm leave of the driver.
Kept(d, n) ==
  /\ n.pc = d.pc /\ n.gen = d.gen /\ n.intent = d.intent /\ n.reserved = d.reserved
  /\ n.declared = d.declared /\ n.queue = d.queue /\ n.acked = d.acked
  /\ n.expired = d.expired /\ n.prior = d.prior
  /\ n.aborted = "" => d.aborted = ""

\* Stat: the chunk is stored and waits to be counted, or the attempt aborts.
LEMMA ConfirmStatStep ==
  ASSUME ManifestInv, NEW a \in Attempts, NEW i \in Chunks, ConfirmStat(a, i)
  PROVE  ManifestInv'
  <1> DEFINE d == driver[a]
             e == [d EXCEPT !.checking = @ \ {i}]
  <1>1. d \in DriverType /\ Running(a) /\ i \in d.checking BY StoreTyped DEF ConfirmStat
  <1>2. UNCHANGED <<plan, gen, used, row, obj, grant, kept, sweeper, settled>>
    BY DEF ConfirmStat
  <1>3. e \in DriverType /\ Kept(d, e) /\ e.checking = d.checking \ {i}
        /\ e.counting = d.counting /\ e.confirmed = d.confirmed
    <2>1. d.checking \ {i} \in SUBSET Chunks BY <1>1 DEF DriverType
    <2>. QED BY Zenon, <1>1, <2>1 DEF DriverType, Kept
  <1>4. \E n \in DriverType :
          /\ To(a, n) /\ Kept(d, n) /\ n.checking = d.checking \ {i}
          /\ \/ i \in obj[a] /\ \E k \in Nat : n.counting = d.counting \cup {<<i, k>>}
             \/ n.counting = d.counting /\ n.aborted # ""
    <2>1. CASE i \in obj[a]
      <3> DEFINE k == d.confirmed + 1
                 n == [e EXCEPT !.confirmed = @ + 1, !.counting = @ \cup {<<i, k>>}]
      <3>0. d.confirmed \in Nat /\ e.confirmed = d.confirmed
        <4> HIDE DEF e
        <4>. QED BY ONLY <1>1, <1>3 DEF DriverType
      <3>1. k \in Nat /\ e.confirmed + 1 \in Nat BY ONLY <3>0
      <3>2. To(a, n) BY <2>1 DEF ConfirmStat
      <3> HIDE DEF k, e
      <3>3. e.counting \cup {<<i, k>>} \in SUBSET (Chunks \X Nat) BY <1>3, <3>1 DEF DriverType
      <3>4. n \in DriverType /\ Kept(d, n) /\ n.checking = d.checking \ {i}
            /\ n.counting = d.counting \cup {<<i, k>>}
        BY Zenon, <1>3, <3>1, <3>3 DEF DriverType, Kept
      <3> HIDE DEF n
      <3>. QED BY Zenon, <2>1, <3>1, <3>2, <3>4
    <2>2. CASE i \notin obj[a]
      <3> DEFINE n == Abort(e, "stream_truncated")
      <3>1. To(a, n) BY <2>2 DEF ConfirmStat
      <3> HIDE DEF e
      <3>2. n \in DriverType /\ Same(e, n) /\ n.pc = e.pc /\ n.prior = e.prior /\ n.aborted # ""
        BY Zenon, <1>3, AbortFacts DEF Reasons
      <3> HIDE DEF n
      <3>3. Kept(d, n) /\ n.checking = d.checking \ {i} /\ n.counting = d.counting
        BY Zenon, <1>3, <3>2 DEF Kept, Same
      <3>. QED BY Zenon, <3>1, <3>2, <3>3
    <2>. QED BY Zenon, <2>1, <2>2
  <1>5. PICK n \in DriverType :
          /\ To(a, n) /\ Kept(d, n) /\ n.checking = d.checking \ {i}
          /\ \/ i \in obj[a] /\ \E k \in Nat : n.counting = d.counting \cup {<<i, k>>}
             \/ n.counting = d.counting /\ n.aborted # ""
    BY Zenon, <1>4
  <1> HIDE DEF e
  <1>6. RowFacts(n, row[a], grant[a], obj[a], settled[a])
    <2>1. RowFacts(d, row[a], grant[a], obj[a], settled[a]) BY DEF ManifestInv, RowInv
    <2>. QED BY Zenon, <1>5, <2>1 DEF RowFacts, Fresh, Prepared, Kept
  <1>7. ASSUME ~plan.overlap
        PROVE  /\ Standing(n, row[a], grant[a], obj[a]) /\ n.pc = "stream"
               /\ d.pc = "stream"
    <2>0. SoleInv BY <1>7 DEF ManifestInv
    <2>1. d.pc = "stream" /\ d.intent BY <1>1, <1>7, ConfirmsStream
    <2>2. ChunkFacts(d, grant[a]) /\ HopeFacts(d, row[a], obj[a]) /\ EndFacts(d, row[a], obj[a])
      BY <2>0 DEF SoleInv, Standing
    <2>3. /\ Counting(n) \subseteq Counting(d) \cup {i} /\ Counting(d) \subseteq Counting(n)
          /\ i \in Counting(n) \/ n.aborted # ""
      <3>1. CASE n.counting = d.counting /\ n.aborted # "" BY Zenon, <3>1 DEF Counting
      <3>2. CASE \E k \in Nat : n.counting = d.counting \cup {<<i, k>>}
        <4>1. PICK k \in Nat : n.counting = d.counting \cup {<<i, k>>} BY <3>2
        <4>2. <<i, k>>[1] = i OBVIOUS
        <4>. QED BY ONLY Zenon, <4>1, <4>2 DEF Counting
      <3>. QED BY Zenon, <1>5, <3>1, <3>2
    <2>4. ChunkFacts(n, grant[a]) BY Zenon, <1>1, <1>5, <2>1, <2>2, <2>3 DEF ChunkFacts, Kept
    <2>5. HopeFacts(n, row[a], obj[a])
      BY Zenon, <1>5, <2>2, <2>3 DEF HopeFacts, Hopeful, Kept, Counting
    <2>6. EndFacts(n, row[a], obj[a]) BY Zenon, <1>5, <2>1, <2>2 DEF EndFacts, Kept
    <2>. QED BY Zenon, <1>5, <2>1, <2>4, <2>5, <2>6 DEF Standing, Kept
  <1>8. Lost(a) => Doomed(n, row[a]) BY Zenon, <1>5 DEF Lost, Doomed, Kept
  <1>9. StoreTypes' /\ grant' \in [Attempts -> Grants]
    BY <1>2, StoreTyped DEF StoreTypes, ManifestInv, ManifestTypes
  <1>10. \A b \in Attempts : Touches(b) /\ Intact(row[b], row'[b], obj[b], obj'[b])
    BY <1>2, NothingTouched
  <1>11. n.gen = d.gen BY Zenon, <1>5 DEF Kept
  <1>. QED
    BY Zenon, <1>1, <1>2, <1>5, <1>6, <1>7, <1>8, <1>9, <1>10, <1>11, LoneStep DEF ActivePartial

\* The count: the row's counter reaches the chunk, unless the context is dead.
LEMMA ConfirmCountStep ==
  ASSUME ManifestInv, NEW a \in Attempts, ConfirmCount(a)
  PROVE  ManifestInv'
  <1> DEFINE d == driver[a]
  <1>1. d \in DriverType /\ Running(a) /\ row[a] \in RowType
    BY StoreTyped DEF ConfirmCount
  <1>2. UNCHANGED <<plan, gen, used, obj, grant, kept, sweeper, settled>> BY DEF ConfirmCount
  <1>3. PICK c \in d.counting :
          /\ To(a, [d EXCEPT !.counting = @ \ {c}])
          /\ IF Dead(d) THEN UNCHANGED row ELSE ConfirmChunk(a, c[1], c[2])
    BY Zenon DEF ConfirmCount
  <1> DEFINE n == [d EXCEPT !.counting = @ \ {c}]
  <1>4. c[1] \in Chunks /\ c[2] \in Nat
    <2>1. c \in Chunks \X Nat BY <1>1 DEF DriverType
    <2>. QED BY <2>1
  <1>5. To(a, n) BY <1>3
  <1>6. n \in DriverType /\ Kept(d, n) /\ n.checking = d.checking /\ n.counting = d.counting \ {c}
        /\ n.aborted = d.aborted
    <2>1. d.counting \ {c} \in SUBSET (Chunks \X Nat) BY <1>1 DEF DriverType
    <2>. QED BY Zenon, <1>1, <2>1 DEF DriverType, Kept
  <1> HIDE DEF n
  <1>7. /\ row' \in [Attempts -> RowType]
        /\ \A b \in Attempts \ {a} : row'[b] = row[b]
        /\ row'[a].state = row[a].state /\ row'[a].partial = row[a].partial
        /\ row'[a].reason = row[a].reason /\ row'[a].gen = row[a].gen
        /\ row'[a].released = row[a].released
        /\ \/ row'[a].count = row[a].count
           \/ row'[a].count = c[1] + 1 /\ row[a].count < c[1] + 1
        /\ ~Dead(d) /\ row[a].state = "active" => c[1] < row'[a].count
    <2>0. row \in [Attempts -> RowType] /\ c[1] \in Nat /\ row[a].count \in Nat
      BY <1>1, <1>4, ChunkTypes DEF ManifestInv, ManifestTypes, RowType
    <2>1. CASE ~Dead(d) /\ row[a].state = "active" /\ row[a].count < c[1] + 1
      <3>1. row' = [row EXCEPT ![a].count = c[1] + 1, ![a].bytes = c[2]]
        BY <1>3, <2>1 DEF ConfirmChunk
      <3>2. row'[a] = [row[a] EXCEPT !.count = c[1] + 1, !.bytes = c[2]]
            /\ \A b \in Attempts \ {a} : row'[b] = row[b]
        BY <2>0, <3>1
      <3>3. c[1] + 1 \in Nat BY <2>0
      <3>4. [row[a] EXCEPT !.count = c[1] + 1, !.bytes = c[2]] \in RowType
        BY Zenon, <1>1, <1>4, <3>3 DEF RowType
      <3>5. row' \in [Attempts -> RowType] BY <2>0, <3>1, <3>4
      <3>6. /\ row'[a].state = row[a].state /\ row'[a].partial = row[a].partial
            /\ row'[a].reason = row[a].reason /\ row'[a].gen = row[a].gen
            /\ row'[a].released = row[a].released /\ row'[a].count = c[1] + 1
        BY <1>1, <3>2 DEF RowType
      <3>7. c[1] < row'[a].count BY <2>0, <3>6
      <3>. QED BY <2>1, <3>2, <3>5, <3>6, <3>7
    <2>2. CASE ~(~Dead(d) /\ row[a].state = "active" /\ row[a].count < c[1] + 1)
      <3>1. row' = row BY <1>3, <2>2 DEF ConfirmChunk
      <3>2. ~Dead(d) /\ row[a].state = "active" => c[1] < row[a].count BY <2>0, <2>2
      <3>. QED BY Zenon, <2>0, <3>1, <3>2
    <2>. QED BY <2>1, <2>2
  <1>8. RowFacts(n, row'[a], grant[a], obj[a], settled[a])
    <2>1. RowFacts(d, row[a], grant[a], obj[a], settled[a]) BY DEF ManifestInv, RowInv
    <2>. QED BY Zenon, <1>6, <1>7, <2>1 DEF RowFacts, Fresh, Prepared, Kept
  <1>9. ASSUME ~plan.overlap
        PROVE  Standing(n, row'[a], grant[a], obj[a]) /\ n.pc = "stream" /\ d.pc = "stream"
    <2>0. SoleInv BY <1>9 DEF ManifestInv
    <2>1. d.pc = "stream" /\ d.intent BY <1>1, <1>3, <1>9, ConfirmsStream
    <2>2. ChunkFacts(d, grant[a]) /\ HopeFacts(d, row[a], obj[a]) /\ EndFacts(d, row[a], obj[a])
      BY <2>0 DEF SoleInv, Standing
    <2>3. /\ Counting(n) \subseteq Counting(d) /\ Counting(d) \subseteq Counting(n) \cup {c[1]}
          /\ c[1] \in Counting(d)
      BY <1>3, <1>6 DEF Counting
    <2>4. ChunkFacts(n, grant[a]) BY Zenon, <1>6, <2>1, <2>2, <2>3 DEF ChunkFacts, Kept
    <2>5. HopeFacts(n, row'[a], obj[a])
      <3>1. SUFFICES ASSUME Hopeful(n) PROVE HopeFacts(n, row'[a], obj[a]) BY Zenon DEF HopeFacts
      <3>2. Hopeful(d) /\ n.declared = d.declared /\ n.acked = d.acked
        BY Zenon, <1>6, <3>1 DEF Hopeful, Kept
      <3>3. d.declared \in Nat /\ c[1] \in Nat /\ row[a].count \in Nat /\ row'[a].count \in Nat
            /\ \A i \in d.acked : i \in Nat
        BY Zenon, <1>1, <1>4, <1>7, ChunkTypes DEF DriverType, RowType, ManifestInv
      <3>4. row'[a].count <= n.declared
        <4>1. c[1] < d.declared BY <2>2, <2>3 DEF ChunkFacts
        <4>2. row[a].count <= d.declared BY Zenon, <2>2, <3>2 DEF HopeFacts
        <4>. QED BY <1>7, <3>2, <3>3, <4>1, <4>2
      <3>5. row[a].count <= row'[a].count BY <1>7, <3>3
      <3>6. ASSUME n.aborted = "", NEW i \in n.acked \ n.checking
            PROVE  i \in obj[a] /\ (i < row'[a].count \/ i \in Counting(n))
        <4>1. d.aborted = "" BY Zenon, <1>6, <3>6
        <4>2. i \in obj[a] /\ (i < row[a].count \/ i \in Counting(d))
          BY Zenon, <1>6, <2>2, <3>2, <3>6, <4>1 DEF HopeFacts
        <4>3. c[1] < row'[a].count BY Zenon, <1>7, <2>2, <3>2, <4>1 DEF HopeFacts, Hopeful, Dead
        <4>4. i \in Nat BY Zenon, <3>2, <3>3, <3>6
        <4>. QED BY <2>3, <3>3, <3>5, <4>2, <4>3, <4>4
      <3>. QED BY Zenon, <1>7, <2>2, <3>2, <3>4, <3>6 DEF HopeFacts
    <2>6. EndFacts(n, row'[a], obj[a]) BY Zenon, <1>6, <1>7, <2>1, <2>2 DEF EndFacts, Kept
    <2>. QED BY Zenon, <1>6, <2>1, <2>4, <2>5, <2>6 DEF Standing, Kept
  <1>10. Lost(a) => Doomed(n, row'[a]) BY Zenon, <1>6, <1>7 DEF Lost, Doomed, Kept, Complete
  <1>11. StoreTypes' /\ grant' \in [Attempts -> Grants]
    BY <1>2, <1>7, StoreTyped DEF StoreTypes, ManifestInv, ManifestTypes
  <1>12. \A b \in Attempts \ {a} : Touches(b) /\ Intact(row[b], row'[b], obj[b], obj'[b])
    BY <1>2, <1>7 DEF Touches, Touch, Intact
  <1>13. n.gen = d.gen /\ (row'[a].state = "active" /\ row'[a].partial => ActivePartial(a))
    BY Zenon, <1>6, <1>7 DEF Kept, ActivePartial
  <1>. QED BY <1>1, <1>2, <1>5, <1>6, <1>8, <1>9, <1>10, <1>11, <1>12, <1>13, LoneStep

\* The deadline passes: nothing is hoped for any more.
LEMMA DeadlineStep ==
  ASSUME ManifestInv, NEW a \in Attempts, Deadline(a)
  PROVE  ManifestInv'
  <1> DEFINE d == driver[a]
             n == [d EXCEPT !.expired = TRUE]
  <1>1. d \in DriverType /\ Running(a) BY StoreTyped DEF Deadline
  <1>2. UNCHANGED <<plan, gen, used, row, obj, grant, kept, sweeper, settled>> BY DEF Deadline
  <1>3. /\ n \in DriverType /\ n.pc = d.pc /\ n.gen = d.gen /\ n.intent = d.intent
        /\ n.reserved = d.reserved /\ n.declared = d.declared /\ n.queue = d.queue
        /\ n.acked = d.acked /\ n.checking = d.checking /\ n.counting = d.counting
        /\ n.confirmed = d.confirmed /\ n.expired /\ n.aborted = d.aborted
        /\ n.prior = d.prior /\ n.drop = d.drop
    BY Zenon, <1>1 DEF DriverType
  <1>4. To(a, n) BY DEF Deadline
  <1> HIDE DEF n
  <1>5. /\ driver' \in [Attempts -> DriverType] /\ driver'[a] = n
        /\ \A b \in Attempts \ {a} : driver'[b] = driver[b]
    BY <1>3, <1>4, DriverTo DEF ManifestInv
  <1>6. ManifestTypes' BY <1>2, <1>5 DEF ManifestInv, ManifestTypes
  <1>7. \A b \in Attempts : Touches(b) /\ Spares(b) BY <1>2, NothingTouched
  <1>8. Others(a) BY <1>2, <1>5, <1>7 DEF Others
  <1>9. OwnRow(a)
    <2>1. RowFacts(d, row[a], grant[a], obj[a], settled[a]) BY DEF ManifestInv, RowInv
    <2>2. RowFacts(n, row[a], grant[a], obj[a], settled[a])
      BY <1>3, <2>1 DEF RowFacts, Fresh, Prepared
    <2>. QED BY <1>2, <1>5, <2>2 DEF OwnRow, ActivePartial
  <1>10. ASSUME ~plan.overlap PROVE OwnSole(a)
    <2>0. SoleInv BY <1>10 DEF ManifestInv
    <2>1. Alone(a) BY <1>1, <1>7, <1>10, OneRuns DEF Alone
    <2>2. Standing(d, row[a], grant[a], obj[a]) BY <2>0 DEF SoleInv
    <2>3. ChunkFacts(n, grant[a])
      BY <1>3, <2>2 DEF Standing, ChunkFacts, Counting
    <2>4. HopeFacts(n, row[a], obj[a]) BY Zenon, <1>3 DEF HopeFacts, Hopeful
    <2>5. EndFacts(n, row[a], obj[a]) BY Zenon, <1>3, <2>2 DEF Standing, EndFacts, Sound
    <2>6. d.pc \in {"supersede", "sweep_prior"} => Lost(d.prior) BY <2>0 DEF SoleInv
    <2>7. ASSUME d.pc = "rotate", NEW b \in d.drop
          PROVE  driver'[b].pc \in {"rotate", "done"} /\ b \notin Listed
      <3>1. driver[b].pc \in {"rotate", "done"} /\ b \notin Listed BY <2>0, <2>7 DEF SoleInv
      <3>2. b \in Attempts BY <1>1 DEF DriverType
      <3>. QED BY <1>3, <1>5, <3>1, <3>2
    <2>8. Behind(n) BY <1>1, <1>3, <2>0 DEF SoleInv, Behind
    <2>9. a \in Listed => d.pc \in {"rotate", "done"} /\ Sound(n, row[a], obj[a])
      BY <1>3, <2>0 DEF SoleInv, Sound
    <2>10. Lost(a) => Doomed(n, row[a]) BY <1>3 DEF Lost, Doomed
    <2>11. Standing(n, row[a], grant[a], obj[a]) BY <2>3, <2>4, <2>5 DEF Standing
    <2>. QED BY <1>2, <1>3, <1>5, <2>1, <2>6, <2>7, <2>8, <2>9, <2>10, <2>11 DEF OwnSole
  <1>. QED BY <1>2, <1>6, <1>8, <1>9, <1>10, OwnStep

\* The stream ends without its summary, or with one that does not add up.
LEMMA AbortStep ==
  ASSUME ManifestInv, NEW a \in Attempts, Confirmed(a), NEW reason \in Reasons,
         To(a, Moved(Abort(driver[a], reason), "abort")),
         UNCHANGED <<plan, gen, used, row, obj, grant, kept, sweeper, settled>>
  PROVE  ManifestInv'
  <1> DEFINE d == driver[a]
             e == Abort(d, reason)
             n == Moved(e, "abort")
  <1>1. d \in DriverType /\ d.pc = "stream" /\ Running(a) /\ d.checking = {} /\ d.counting = {}
    BY StoreTyped DEF Confirmed, Running, Ended
  <1>2. e \in DriverType /\ Same(d, e) /\ e.aborted # "" BY Zenon, <1>1, AbortFacts
  <1> HIDE DEF e
  <1>3. n \in DriverType /\ Same(e, n) /\ n.pc = "abort" /\ n.aborted = e.aborted
    BY Zenon, <1>2, MovedFacts DEF Pcs
  <1>4. To(a, n) BY DEF e
  <1> HIDE DEF n
  <1>5. RowFacts(n, row[a], grant[a], obj[a], settled[a])
    <2>1. RowFacts(d, row[a], grant[a], obj[a], settled[a]) BY DEF ManifestInv, RowInv
    <2>. QED BY Zenon, <1>1, <1>2, <1>3, <2>1 DEF RowFacts, Fresh, Prepared, Same
  <1>6. ASSUME ~plan.overlap PROVE Standing(n, row[a], grant[a], obj[a])
    <2>0. SoleInv BY <1>6 DEF ManifestInv
    <2>1. Standing(d, row[a], grant[a], obj[a]) BY <2>0 DEF SoleInv
    <2>2. ChunkFacts(n, grant[a])
      BY Zenon, <1>1, <1>2, <1>3, <2>1 DEF Standing, ChunkFacts, Counting, Same
    <2>3. HopeFacts(n, row[a], obj[a]) BY Zenon, <1>3 DEF HopeFacts, Hopeful
    <2>4. EndFacts(n, row[a], obj[a])
      BY Zenon, <1>1, <1>2, <1>3, <2>1 DEF Standing, EndFacts, Ended, Same
    <2>. QED BY <2>2, <2>3, <2>4 DEF Standing
  <1>7. Lost(a) => Doomed(n, row[a]) BY <1>3 DEF Lost, Doomed
  <1>8. StoreTypes' /\ grant' \in [Attempts -> Grants]
    BY StoreTyped DEF StoreTypes, ManifestInv, ManifestTypes
  <1>9. \A b \in Attempts : Touches(b) /\ Intact(row[b], row'[b], obj[b], obj'[b])
    BY NothingTouched
  <1>10. n.gen = d.gen BY Zenon, <1>2, <1>3 DEF Same
  <1>. QED BY <1>1, <1>3, <1>4, <1>5, <1>6, <1>7, <1>8, <1>9, <1>10, LoneStep DEF ActivePartial

\* A stream that fails ends in an abort with a reason.
LEMMA StreamFailsStep ==
  ASSUME ManifestInv, NEW a \in Attempts, StreamFails(a)
  PROVE  ManifestInv'
  <1>1. PICK reason \in Reasons : To(a, Moved(Abort(driver[a], reason), "abort"))
    BY DEF StreamFails, Moved, Reasons
  <1>. QED BY <1>1, AbortStep DEF StreamFails

-----------------------------------------------------------------------------
(* The end of the stream.                                                    *)

\* What Finalise writes.
LEMMA FinaliseFacts ==
  ASSUME ManifestTypes, NEW a \in Attempts, NEW p \in BOOLEAN, NEW reason \in Aborts,
         Finalise(a, p, reason)
  PROVE  /\ row' \in [Attempts -> RowType]
         /\ \A b \in Attempts \ {a} : row'[b] = row[b]
         /\ row'[a].gen = row[a].gen /\ row'[a].count = row[a].count
         /\ row'[a].released = row[a].released
         /\ row[a].state # "active" => row'[a] = row[a]
         /\ row[a].state = "active" =>
              /\ row'[a].partial = p
              /\ row'[a].state = IF row[a].count = 0 THEN "deleted" ELSE "active"
  <1>1. row \in [Attempts -> RowType] /\ row[a] \in RowType BY DEF ManifestTypes
  <1>2. CASE row[a].state # "active" BY <1>1, <1>2 DEF Finalise
  <1>3. CASE row[a].state = "active"
    <2> DEFINE s == IF row[a].count = 0 THEN "deleted" ELSE "active"
               r == [row[a] EXCEPT !.partial = p, !.reason = reason, !.state = s]
    <2>1. row' = [row EXCEPT ![a] = r] BY Zenon, <1>3 DEF Finalise
    <2>2. s \in {"none", "active", "deleted"} OBVIOUS
    <2> HIDE DEF s
    <2>3. r \in RowType /\ r.gen = row[a].gen /\ r.count = row[a].count
          /\ r.released = row[a].released /\ r.partial = p /\ r.state = s
      BY Zenon, <1>1, <2>2 DEF RowType
    <2> HIDE DEF r
    <2>4. row' \in [Attempts -> RowType] /\ row'[a] = r
          /\ \A b \in Attempts \ {a} : row'[b] = row[b]
      BY <1>1, <2>1, <2>3
    <2>. QED BY <1>3, <2>3, <2>4 DEF s
  <1>. QED BY <1>2, <1>3

\* An attempt whose row is finalised.
LEMMA FinalisedStep ==
  ASSUME ManifestInv, NEW a \in Attempts, driver[a].pc \in {"stream", "abort"},
         (driver[a].checking = {} /\ driver[a].counting = {}) \/ driver[a].pc = "abort",
         NEW p \in BOOLEAN, NEW reason \in Aborts, Finalise(a, p, reason),
         To(a, Moved(driver[a], "reconcile")),
         UNCHANGED <<plan, gen, used, obj, grant, kept, sweeper, settled>>,
         ~plan.overlap =>
           \/ driver[a].aborted # "" /\ p
           \/ Sound(driver[a], row'[a], obj[a]) /\ ~Lost(a)
  PROVE  ManifestInv'
  <1> DEFINE d == driver[a]
             n == Moved(d, "reconcile")
  <1>1. d \in DriverType /\ Running(a) BY Zenon, StoreTyped DEF Running, Ended
  <1>2. n \in DriverType /\ Same(d, n) /\ n.pc = "reconcile" /\ n.aborted = d.aborted
    BY Zenon, <1>1, MovedFacts DEF Pcs
  <1>3. To(a, n) OBVIOUS
  <1> HIDE DEF n
  <1>4. /\ row' \in [Attempts -> RowType]
        /\ \A b \in Attempts \ {a} : row'[b] = row[b]
        /\ row'[a].gen = row[a].gen /\ row'[a].count = row[a].count
        /\ row'[a].released = row[a].released
        /\ row[a].state # "active" => row'[a] = row[a]
        /\ row[a].state = "active" =>
             /\ row'[a].partial = p
             /\ row'[a].state = IF row[a].count = 0 THEN "deleted" ELSE "active"
    BY Zenon, FinaliseFacts DEF ManifestInv
  <1>5. RowFacts(d, row[a], grant[a], obj[a], settled[a]) BY Zenon DEF ManifestInv, RowInv
  <1>6. row'[a].state = "none" <=> row[a].state = "none" BY Zenon, <1>4
  <1>7. RowFacts(n, row'[a], grant[a], obj[a], settled[a])
    BY Zenon, <1>2, <1>4, <1>5, <1>6 DEF RowFacts, Fresh, Prepared, Same
  <1>8. row'[a].state = "active" /\ row'[a].partial => ActivePartial(a)
    BY Zenon, <1>4, <1>5 DEF RowFacts, ActivePartial
  <1>9. ASSUME ~plan.overlap
        PROVE  Standing(n, row'[a], grant[a], obj[a]) /\ (Lost(a) => Doomed(n, row'[a]))
    <2>0. SoleInv BY Zenon, <1>9 DEF ManifestInv
    <2>1. Standing(d, row[a], grant[a], obj[a]) BY Zenon, <2>0 DEF SoleInv
    <2>2. ChunkFacts(n, grant[a])
      BY Zenon, <1>2, <2>1 DEF Standing, ChunkFacts, Counting, Same
    <2>3. HopeFacts(n, row'[a], obj[a]) BY Zenon, <1>2 DEF HopeFacts, Hopeful
    <2>4. EndFacts(n, row'[a], obj[a])
      BY Zenon, <1>2, <1>4, <1>6, <1>9, <2>1 DEF Standing, EndFacts, Ended, Same, Sound
    <2>5. Lost(a) => Doomed(n, row'[a])
      <3>1. CASE d.aborted # "" /\ p
        BY Zenon, <3>1, <1>2, <1>4, <1>6 DEF Lost, Doomed, Complete
      <3>2. CASE ~Lost(a) BY Zenon, <3>2
      <3>. QED BY Zenon, <1>9, <3>1, <3>2
    <2>. QED BY Zenon, <2>2, <2>3, <2>4, <2>5 DEF Standing
  <1>10. StoreTypes' /\ grant' \in [Attempts -> Grants]
    BY Zenon, <1>4, StoreTyped DEF StoreTypes, ManifestInv, ManifestTypes
  <1>11. \A b \in Attempts \ {a} : Touches(b) /\ Intact(row[b], row'[b], obj[b], obj'[b])
    BY Zenon, <1>4 DEF Touches, Touch, Intact
  <1>12. n.gen = d.gen BY Zenon, <1>2 DEF Same
  <1>. QED BY Zenon, <1>1, <1>2, <1>3, <1>7, <1>8, <1>9, <1>10, <1>11, <1>12, LoneStep

\* finaliseAbort leaves a partial row with the reason, or none of it.
LEMMA FinaliseAbortStep ==
  ASSUME ManifestInv, NEW a \in Attempts, FinaliseAbort(a)
  PROVE  ManifestInv'
  <1> DEFINE d == driver[a]
  <1>1. Running(a) /\ d.pc = "abort" /\ d \in DriverType
    BY StoreTyped DEF FinaliseAbort, Running, Ended
  <1>2. UNCHANGED <<plan, gen, used, obj, grant, kept, sweeper, settled>> BY DEF FinaliseAbort
  <1>3. CASE To(a, Returned(d)) /\ UNCHANGED row BY <1>1, <1>2, <1>3, PlainReturn
  <1>4. CASE Finalise(a, TRUE, d.aborted) /\ To(a, [d EXCEPT !.pc = "reconcile"])
    <2>1. To(a, Moved(d, "reconcile")) BY <1>4 DEF Moved
    <2>2. d.aborted \in Aborts /\ TRUE \in BOOLEAN BY <1>1 DEF DriverType
    <2>3. ~plan.overlap => d.aborted # ""
      BY Zenon, <1>1 DEF ManifestInv, SoleInv, Standing, EndFacts
    <2>. QED BY Zenon, <1>1, <1>2, <1>4, <2>1, <2>2, <2>3, FinalisedStep
  <1>. QED BY Zenon, <1>3, <1>4 DEF FinaliseAbort

\* An attempt past its finalise moves on.
LEMMA LateStep ==
  ASSUME ManifestInv, NEW a \in Attempts, driver[a].pc \in {"reconcile", "sweep"},
         NEW p \in {"record", "sweep", "last_list"}, To(a, Moved(driver[a], p)),
         UNCHANGED <<plan, gen, grant, kept, sweeper>>, StoreTypes',
         \A b \in Attempts : Touches(b),
         \A b \in Attempts \ {a} : Intact(row[b], row'[b], obj[b], obj'[b]),
         p = "record" => /\ driver[a].aborted = "" /\ driver[a].pc = "reconcile"
                         /\ Intact(row[a], row'[a], obj[a], obj'[a])
  PROVE  ManifestInv'
  <1> DEFINE d == driver[a]
             n == Moved(d, p)
  <1>1. d \in DriverType /\ Running(a) BY Zenon, StoreTyped DEF Running, Ended
  <1>2. n \in DriverType /\ Same(d, n) /\ n.pc = p /\ n.aborted = d.aborted
    <2>1. p \in Pcs BY Zenon DEF Pcs
    <2>. QED BY Zenon, <1>1, <2>1, MovedFacts
  <1>3. To(a, n) OBVIOUS
  <1> HIDE DEF n
  <1>4. Touches(a) OBVIOUS
  <1>5. /\ RowFacts(d, row'[a], grant[a], obj'[a], settled'[a])
        /\ row'[a].state = "active" /\ row'[a].partial => ActivePartial(a)
    <2>1. RowFacts(d, row[a], grant[a], obj[a], settled[a]) BY Zenon DEF ManifestInv, RowInv
    <2>. QED BY Zenon, <1>4, <2>1, TouchRow DEF Touches, ActivePartial
  <1>6. RowFacts(n, row'[a], grant[a], obj'[a], settled'[a])
    BY Zenon, <1>2, <1>5 DEF RowFacts, Fresh, Prepared, Same
  <1>7. ASSUME ~plan.overlap PROVE Standing(n, row'[a], grant[a], obj'[a])
    <2>0. SoleInv BY Zenon, <1>7 DEF ManifestInv
    <2>1. Standing(d, row[a], grant[a], obj[a]) BY Zenon, <2>0 DEF SoleInv
    <2>2. ChunkFacts(n, grant[a])
      BY Zenon, <1>2, <2>1 DEF Standing, ChunkFacts, Counting, Same
    <2>3. HopeFacts(n, row'[a], obj'[a]) BY Zenon, <1>2 DEF HopeFacts, Hopeful
    <2>4. p = "record" => Sound(n, row'[a], obj'[a])
      <3>1. p = "record" => Sound(d, row[a], obj[a]) BY Zenon, <2>1 DEF Standing, EndFacts
      <3>. QED BY Zenon, <1>2, <3>1, IntactSound DEF Same
    <2>5. row'[a].state # "none" => row'[a].gen = n.gen
      <3>1. row'[a].gen = row[a].gen /\ (row'[a].state # "none" => row[a].state # "none")
        BY Zenon, <1>4 DEF Touches, Touch
      <3>2. row[a].state # "none" => row[a].gen = d.gen
        BY Zenon, <2>1 DEF Standing, EndFacts, Ended
      <3>. QED BY Zenon, <1>2, <3>1, <3>2 DEF Same
    <2>6. EndFacts(n, row'[a], obj'[a]) BY Zenon, <1>2, <2>4, <2>5 DEF EndFacts
    <2>. QED BY Zenon, <2>2, <2>3, <2>6 DEF Standing
  <1>8. Lost(a) => Doomed(n, row'[a])
    <2>1. Lost(a) => Doomed(d, row'[a]) BY Zenon, <1>4, TouchLost DEF Lost, Touches
    <2>. QED BY Zenon, <1>2, <2>1 DEF Doomed
  <1>9. grant' \in [Attempts -> Grants] BY Zenon DEF ManifestInv, ManifestTypes
  <1>10. n.gen = d.gen BY Zenon, <1>2 DEF Same
  <1>. QED BY Zenon, <1>1, <1>2, <1>3, <1>5, <1>6, <1>7, <1>8, <1>9, <1>10, LoneStep

\* What is left of the reservation goes back; then the attempt is recorded,
\* kept for a resume, or swept.
LEMMA ReconcileStep ==
  ASSUME ManifestInv, NEW a \in Attempts, Reconcile(a)
  PROVE  ManifestInv'
  <1> DEFINE d == driver[a]
  <1>1. d \in DriverType /\ Running(a) /\ d.pc = "reconcile"
    BY Zenon, StoreTyped DEF Reconcile, Running, Ended
  <1>2. UNCHANGED <<plan, gen, obj, grant, kept, sweeper>> BY Zenon DEF Reconcile
  <1>3. StoreTypes' /\ \A b \in Attempts : Touches(b) /\ Intact(row[b], row'[b], obj[b], obj'[b])
    <2>1. CASE d.aborted = "" /\ d.expired
      <3>1. UNCHANGED <<row, used, settled>> BY Zenon, <2>1 DEF Reconcile
      <3>. QED BY <1>2, <3>1, StoreTyped, NothingTouched DEF StoreTypes
    <2>2. CASE ~(d.aborted = "" /\ d.expired)
      <3>1. ReleaseReservation(a, "own", Unconfirmed(a)) BY Zenon, <2>2 DEF Reconcile
      <3>2. Unconfirmed(a) \in Int BY <1>1 DEF Unconfirmed, DriverType
      <3>3. /\ row' \in [Attempts -> RowType] /\ used' \in Int
            /\ settled' \in [Attempts -> Seq({"own", "other"})]
            /\ \A c \in Attempts :
                 /\ Touch(row[c], row'[c], obj[c], obj[c], settled[c], settled'[c])
                 /\ Intact(row[c], row'[c], obj[c], obj[c])
        BY <3>1, <3>2, ReleaseFacts
      <3>. QED BY <1>2, <3>3, StoreTyped DEF StoreTypes, Touches
    <2>. QED BY Zenon, <2>1, <2>2
  <1>4. To(a, CASE d.aborted = "" -> [d EXCEPT !.pc = "record"]
                [] d.aborted = "timeout" -> Returned(d)
                [] OTHER -> [d EXCEPT !.pc = "sweep"])
    BY Zenon DEF Reconcile
  <1>5. CASE d.aborted = ""
    <2>1. To(a, Moved(d, "record")) BY Zenon, <1>4, <1>5 DEF Moved
    <2>. QED BY Zenon, <1>1, <1>2, <1>3, <1>5, <2>1, LateStep
  <1>6. CASE d.aborted = "timeout"
    <2>1. To(a, Returned(d)) BY <1>4, <1>6
    <2>2. Gone(d, Returned(d)) BY <1>1, ReturnedFacts DEF Gone
    <2>. QED BY <1>1, <1>2, <1>3, <2>1, <2>2, ReturnStep DEF Spares
  <1>7. CASE d.aborted # "" /\ d.aborted # "timeout"
    <2>1. To(a, Moved(d, "sweep")) BY Zenon, <1>4, <1>7 DEF Moved
    <2>. QED BY Zenon, <1>1, <1>2, <1>3, <2>1, LateStep
  <1>. QED BY Zenon, <1>5, <1>6, <1>7

\* The attempt sweeps its own objects.
LEMMA AbortSweepStep ==
  ASSUME ManifestInv, NEW a \in Attempts, AbortSweep(a), used' \in Int
  PROVE  ManifestInv'
  <1> DEFINE d == driver[a]
  <1>1. d \in DriverType /\ Running(a) /\ d.pc = "sweep"
    BY StoreTyped DEF AbortSweep, Running, Ended
  <1>2. UNCHANGED <<plan, gen, grant, kept, sweeper>> BY DEF AbortSweep
  <1>3. Takes(a) BY DEF AbortSweep, Takes, Walks
  <1>4. /\ StoreTypes' /\ \A c \in Attempts : Touches(c)
        /\ \A c \in Attempts \ {a} : Intact(row[c], row'[c], obj[c], obj'[c]) /\ Spares(c)
    BY <1>3, TakesFacts
  <1>5. CASE To(a, [d EXCEPT !.pc = "last_list"])
    <2>1. To(a, Moved(d, "last_list")) BY <1>5 DEF Moved
    <2>. QED BY Zenon, <1>1, <1>2, <1>4, <2>1, LateStep
  <1>6. CASE To(a, Returned(d))
    <2>1. Gone(d, Returned(d)) BY <1>1, ReturnedFacts DEF Gone
    <2>. QED BY <1>1, <1>2, <1>4, <1>6, <2>1, ReturnStep
  <1>. QED BY <1>5, <1>6 DEF AbortSweep

\* The row goes once the prefix lists empty.
LEMMA AbortLastListStep ==
  ASSUME ManifestInv, NEW a \in Attempts, AbortLastList(a), used' \in Int
  PROVE  ManifestInv'
  <1> DEFINE d == driver[a]
  <1>1. d \in DriverType /\ Running(a) /\ d.pc = "last_list"
    BY StoreTyped DEF AbortLastList, Running, Ended
  <1>2. UNCHANGED <<plan, gen, grant, kept, sweeper>> BY DEF AbortLastList
  <1>3. Takes(a) BY DEF AbortLastList, Takes
  <1>4. /\ StoreTypes' /\ \A c \in Attempts : Touches(c)
        /\ \A c \in Attempts \ {a} : Intact(row[c], row'[c], obj[c], obj'[c]) /\ Spares(c)
    BY <1>3, TakesFacts
  <1>5. To(a, Returned(d)) /\ Gone(d, Returned(d))
    BY <1>1, ReturnedFacts DEF Gone, AbortLastList
  <1>. QED BY <1>1, <1>2, <1>4, <1>5, ReturnStep

\* What the rotation keeps of a catalogue, and what it drops.
LEMMA RotationFacts ==
  ASSUME NEW all \in Seq(Attempts)
  PROVE  LET excess == Max({Len(all) - RetainedCount, 0})
             rest == SubSeq(all, excess + 1, Len(all))
             drop == {all[i] : i \in 1..excess}
         IN /\ rest \in Seq(Attempts) /\ drop \in SUBSET Attempts
            /\ \A m \in DOMAIN rest : \E i \in DOMAIN all : rest[m] = all[i] /\ i = excess + m
            /\ \A b \in drop : \E i \in DOMAIN all : b = all[i] /\ i <= excess
            /\ excess \in Nat
  <1> DEFINE excess == Max({Len(all) - RetainedCount, 0})
             rest == SubSeq(all, excess + 1, Len(all))
             drop == {all[i] : i \in 1..excess}
  <1>1. Len(all) \in Nat /\ RetainedCount \in Nat BY ManifestConstants
  <1>2. excess \in Nat /\ excess <= Len(all)
    <2> DEFINE S == {Len(all) - RetainedCount, 0}
    <2>1. \E x \in S : \A y \in S : x >= y BY <1>1
    <2>2. excess \in S /\ excess >= 0 BY <2>1 DEF Max
    <2>. QED BY <1>1, <2>2
  <1> HIDE DEF excess
  <1>3. rest \in Seq(Attempts) BY <1>1, <1>2
  <1>4. ASSUME NEW m \in DOMAIN rest
        PROVE  excess + m \in DOMAIN all /\ rest[m] = all[excess + m]
    <2>1. Len(rest) = Len(all) - excess BY <1>1, <1>2
    <2>2. m \in 1..(Len(all) - excess) BY <1>1, <1>2, <1>3, <2>1
    <2>. QED BY <1>1, <1>2, <2>2
  <1>5. \A i \in 1..excess : i \in DOMAIN all /\ i <= excess /\ all[i] \in Attempts BY <1>1, <1>2
  <1>6. drop \in SUBSET Attempts BY <1>5
  <1>7. \A b \in drop : \E i \in DOMAIN all : b = all[i] /\ i <= excess BY <1>5
  <1>. QED BY Zenon, <1>2, <1>3, <1>4, <1>6, <1>7 DEF excess

\* The catalogue gains the attempt, and may lose older ones.
LEMMA RecordedStep ==
  ASSUME ManifestInv, NEW a \in Attempts, driver[a].pc = "record",
         NEW n \in DriverType, To(a, n), n.pc \in {"rotate", "done"},
         n.confirmed = driver[a].confirmed, n.pc = "rotate" => n.gen = driver[a].gen,
         RowFacts(n, row[a], grant[a], obj[a], settled[a]),
         UNCHANGED <<plan, gen, used, row, obj, grant, sweeper, settled>>,
         kept' \in Seq(Attempts),
         ~plan.overlap =>
           /\ Standing(n, row[a], grant[a], obj[a])
           /\ Listed' \subseteq Listed \cup {a}
           /\ \A i, j \in DOMAIN kept' : kept'[i] = kept'[j] => i = j
           /\ n.pc = "rotate" => \A b \in n.drop : b \in Listed \cup {a} /\ b \notin Listed'
  PROVE  ManifestInv'
  <1>1. /\ driver' \in [Attempts -> DriverType] /\ driver'[a] = n
        /\ \A b \in Attempts \ {a} : driver'[b] = driver[b]
    BY DriverTo DEF ManifestInv
  <1>2. ManifestTypes' BY <1>1 DEF ManifestInv, ManifestTypes
  <1>3. RowInv'
    <2>1. \A b \in Attempts : Touches(b) BY NothingTouched
    <2>2. Others(a) BY Zenon, <1>1, <2>1 DEF Others
    <2>3. OwnRow(a) BY <1>1 DEF OwnRow, ActivePartial
    <2>. QED BY <2>2, <2>3, RowStep
  <1>4. ASSUME ~plan.overlap PROVE SoleInv'
    <2>0. SoleInv /\ Running(a) BY Zenon, <1>4 DEF ManifestInv, Running, Ended
    <2>1. \A b \in Attempts \ {a} : driver[b].pc \in Ended BY <1>4, <2>0, OneRuns DEF Running
    <2>2. Standing(driver[a], row[a], grant[a], obj[a]) BY <2>0 DEF SoleInv
    <2>3. Sound(n, row[a], obj[a]) BY Zenon, <2>2 DEF Standing, EndFacts, Sound
    <2>4. ASSUME NEW b \in Attempts PROVE Lost(b) => Lost(b)'
      <3>1. CASE b = a BY <3>1, <2>3 DEF Lost, Doomed, Sound
      <3>2. CASE b # a BY <3>2, <1>1 DEF Lost
      <3>. QED BY Zenon, <3>1, <3>2
    <2>5. ASSUME NEW b \in Attempts, b \in Listed \cup {a}
          PROVE  driver'[b].pc \in {"rotate", "done"} /\ Sound(driver'[b], row[b], obj[b])
      <3>1. CASE b = a BY <3>1, <1>1, <2>3
      <3>2. CASE b # a
        <4>1. driver[b].pc \in {"rotate", "done"} /\ Sound(driver[b], row[b], obj[b])
          BY <2>0, <2>5, <3>2 DEF SoleInv
        <4>. QED BY <1>1, <3>2, <4>1
      <3>. QED BY <3>1, <3>2
    <2>6. ASSUME NEW b \in Attempts
          PROVE  (/\ Standing(driver[b], row[b], grant[b], obj[b])
                  /\ driver[b].pc \in {"supersede", "sweep_prior"} => Lost(driver[b].prior)
                  /\ driver[b].pc = "rotate" =>
                       \A c \in driver[b].drop : driver[c].pc \in {"rotate", "done"} /\ c \notin Listed
                  /\ Running(b) => Behind(driver[b])
                  /\ b \in Listed =>
                       driver[b].pc \in {"rotate", "done"} /\ Sound(driver[b], row[b], obj[b]))'
      <3>1. b \in Listed' =>
              driver'[b].pc \in {"rotate", "done"} /\ Sound(driver'[b], row[b], obj[b])
        BY Zenon, <1>4, <2>5
      <3>2. CASE b = a
        <4>1. n.drop \in SUBSET Attempts BY DEF DriverType
        <4>2. n.pc = "rotate" =>
                \A c \in n.drop : driver'[c].pc \in {"rotate", "done"} /\ c \notin Listed'
          BY <1>4, <2>5, <4>1
        <4>3. Running(a)' => Behind(driver[a])'
          BY Zenon, <1>1, <2>0 DEF SoleInv, Running, Ended, Behind
        <4>. QED BY <1>1, <1>4, <3>1, <3>2, <4>2, <4>3
      <3>3. CASE b # a
        <4>1. Standing(driver[b], row[b], grant[b], obj[b]) BY Zenon, <2>0 DEF SoleInv
        <4>. QED BY Zenon, <1>1, <2>1, <3>1, <3>3, <4>1 DEF Running, Ended
      <3>. QED BY Zenon, <3>2, <3>3
    <2>7. (\A b, c \in Attempts : Running(b) /\ Running(c) => b = c)'
      BY Zenon, <1>1, <2>1 DEF Running
    <2>8. ASSUME NEW s \in Sweepers
          PROVE  (/\ sweeper[s].gen <= gen
                  /\ sweeper[s].pc \in {"sweep", "release", "last_list"} =>
                       Lost(sweeper[s].target))'
      <3>1. Swept(sweeper[s]) BY DEF ManifestInv, RowInv
      <3>. QED BY <2>0, <2>4, <3>1 DEF SoleInv, Lost, Swept
    <2>. QED BY Zenon, <1>4, <2>6, <2>7, <2>8 DEF SoleInv
  <1>. QED BY <1>2, <1>3, <1>4 DEF ManifestInv

\* snapshot: the catalogue rotates, keeps all, or was not reached.
LEMMA RecordSnapshotStep ==
  ASSUME ManifestInv, NEW a \in Attempts, RecordSnapshot(a)
  PROVE  ManifestInv'
  <1> DEFINE d == driver[a]
             all == Append(kept, a)
             excess == Max({Len(all) - RetainedCount, 0})
             rest == SubSeq(all, excess + 1, Len(all))
             drop == {all[i] : i \in 1..excess}
  <1>1. d \in DriverType /\ Running(a) /\ d.pc = "record" /\ kept \in Seq(Attempts)
    BY StoreTyped DEF RecordSnapshot, Running, Ended, ManifestInv, ManifestTypes
  <1>2. UNCHANGED <<plan, gen, used, row, obj, grant, sweeper, settled>> BY DEF RecordSnapshot
  <1>3. RowFacts(d, row[a], grant[a], obj[a], settled[a]) BY DEF ManifestInv, RowInv
  <1>4. /\ all \in Seq(Attempts) /\ Len(all) = Len(kept) + 1 /\ all[Len(all)] = a
        /\ \A i \in DOMAIN all : i \in 1..Len(all) /\ (i # Len(all) => i \in DOMAIN kept /\ all[i] = kept[i])
    BY <1>1
  <1> HIDE DEF all
  <1>5. \A i \in DOMAIN all : all[i] \in Listed \cup {a}
    BY <1>4 DEF Listed
  <1>6. ASSUME ~plan.overlap
        PROVE  \A i, j \in DOMAIN all : all[i] = all[j] => i = j
    <2>0. SoleInv BY <1>6 DEF ManifestInv
    <2>1. a \notin Listed BY <1>1, <2>0 DEF SoleInv
    <2>2. \A i \in DOMAIN all : i # Len(all) => all[i] # a BY <1>4, <2>1 DEF Listed
    <2>3. \A i, j \in DOMAIN kept : kept[i] = kept[j] => i = j BY <2>0 DEF SoleInv
    <2>. QED BY <1>4, <2>2, <2>3
  <1>7. ASSUME ~plan.overlap PROVE Standing(d, row[a], grant[a], obj[a])
    <2>0. SoleInv BY <1>7 DEF ManifestInv
    <2>. QED BY <2>0 DEF SoleInv
  <1>8. CASE kept' = rest /\ To(a, [d EXCEPT !.pc = "rotate", !.drop = drop])
    <2>1. excess \in Nat /\ rest \in Seq(Attempts) /\ drop \in SUBSET Attempts
          /\ (\A m \in DOMAIN rest : \E i \in DOMAIN all : rest[m] = all[i] /\ i = excess + m)
          /\ (\A b \in drop : \E i \in DOMAIN all : b = all[i] /\ i <= excess)
      BY Zenon, <1>4, RotationFacts
    <2> DEFINE n == [d EXCEPT !.pc = "rotate", !.drop = drop]
    <2> HIDE DEF excess, rest, drop
    <2>2. /\ n \in DriverType /\ Same(d, n) /\ n.pc = "rotate" /\ n.drop = drop
          /\ n.aborted = d.aborted
      BY Zenon, <1>1, <2>1 DEF DriverType, Pcs, Same
    <2>3. To(a, n) /\ kept' = rest BY <1>8
    <2> HIDE DEF n
    <2>4. RowFacts(n, row[a], grant[a], obj[a], settled[a])
      BY <1>3, <2>2 DEF RowFacts, Fresh, Prepared, Same
    <2>5. ASSUME ~plan.overlap
          PROVE  /\ Standing(n, row[a], grant[a], obj[a])
                 /\ Listed' \subseteq Listed \cup {a}
                 /\ \A i, j \in DOMAIN kept' : kept'[i] = kept'[j] => i = j
                 /\ \A b \in n.drop : b \in Listed \cup {a} /\ b \notin Listed'
      <3>1. ChunkFacts(n, grant[a])
        BY <1>1, <1>7, <2>2, <2>5 DEF Standing, ChunkFacts, Counting, Same
      <3>2. HopeFacts(n, row[a], obj[a]) BY Zenon, <2>2 DEF HopeFacts, Hopeful
      <3>3. EndFacts(n, row[a], obj[a])
        BY Zenon, <1>1, <1>7, <2>2, <2>5 DEF Standing, EndFacts, Ended, Same
      <3>4. Listed' = {rest[m] : m \in DOMAIN rest} BY <2>3 DEF Listed
      <3>5. Listed' \subseteq Listed \cup {a} BY <1>5, <2>1, <3>4
      <3>6. \A i, j \in DOMAIN rest : rest[i] = rest[j] => i = j
        <4>1. SUFFICES ASSUME NEW i \in DOMAIN rest, NEW j \in DOMAIN rest, rest[i] = rest[j]
                       PROVE  i = j
          OBVIOUS
        <4>2. i \in Nat /\ j \in Nat BY <2>1
        <4>3. PICK k \in DOMAIN all : rest[i] = all[k] /\ k = excess + i BY <2>1
        <4>4. PICK l \in DOMAIN all : rest[j] = all[l] /\ l = excess + j BY <2>1
        <4>5. k = l BY Zenon, <1>6, <2>5, <4>1, <4>3, <4>4
        <4>. QED BY <2>1, <4>2, <4>3, <4>4, <4>5
      <3>7. ASSUME NEW b \in drop PROVE b \in Listed \cup {a} /\ b \notin Listed'
        <4>1. PICK i \in DOMAIN all : b = all[i] /\ i <= excess BY <2>1
        <4>2. SUFFICES ASSUME NEW m \in DOMAIN rest, b = rest[m] PROVE FALSE
          BY <1>5, <3>4, <4>1
        <4>3. PICK k \in DOMAIN all : rest[m] = all[k] /\ k = excess + m BY <2>1
        <4>4. i = k BY Zenon, <1>6, <2>5, <4>1, <4>2, <4>3
        <4>5. m \in Nat /\ m >= 1 /\ i \in Nat BY <1>4, <2>1
        <4>. QED BY <2>1, <4>1, <4>3, <4>4, <4>5
      <3>. QED BY Zenon, <2>2, <2>3, <3>1, <3>2, <3>3, <3>5, <3>6, <3>7 DEF Standing
    <2>6. n.confirmed = d.confirmed /\ n.gen = d.gen BY <2>2 DEF Same
    <2>. QED BY Zenon, <1>1, <1>2, <2>1, <2>2, <2>3, <2>4, <2>5, <2>6, RecordedStep
  <1>9. CASE kept' = all /\ To(a, Returned(d))
    <2> DEFINE n == Returned(d)
    <2>1. Gone(d, n) BY <1>1, ReturnedFacts DEF Gone
    <2> HIDE DEF n
    <2>2. RowFacts(n, row[a], grant[a], obj[a], settled[a])
      BY Zenon, <1>3, <2>1 DEF RowFacts, Gone, Fresh, Prepared
    <2>3. Standing(n, row[a], grant[a], obj[a])
      <3>1. ChunkFacts(n, grant[a]) BY <2>1 DEF ChunkFacts, Gone, Counting
      <3>2. HopeFacts(n, row[a], obj[a]) BY <2>1 DEF HopeFacts, Hopeful, Gone
      <3>3. EndFacts(n, row[a], obj[a]) BY <2>1 DEF EndFacts, Gone, Ended
      <3>. QED BY <3>1, <3>2, <3>3 DEF Standing
    <2>4. Listed' \subseteq Listed \cup {a} BY <1>5, <1>9 DEF Listed
    <2>5. n \in DriverType /\ n.pc = "done" /\ n.confirmed = d.confirmed /\ To(a, n)
      BY <1>9, <2>1 DEF Gone, n
    <2>6. kept' \in Seq(Attempts)
          /\ (~plan.overlap => \A i, j \in DOMAIN kept' : kept'[i] = kept'[j] => i = j)
      BY <1>4, <1>6, <1>9
    <2>. QED BY <1>1, <1>2, <2>2, <2>3, <2>4, <2>5, <2>6, RecordedStep
  <1>10. CASE kept' = kept /\ To(a, Returned(d)) BY <1>1, <1>2, <1>10, PlainReturn
  <1>. QED BY Zenon, <1>8, <1>9, <1>10 DEF RecordSnapshot, all

=============================================================================
