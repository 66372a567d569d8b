--------------------------- MODULE ManifestSteps ----------------------------
(* The inductive invariant of Manifest, for any number of attempts and       *)
(* chunks, any limits and any plan; what a step has to show to keep it; and  *)
(* that the steps of an attempt up to its intent row do.                     *)
EXTENDS Manifest, TLAPS

Pcs == {"new", "stream", "prior", "supersede", "sweep_prior", "put", "abort",
        "reconcile", "record", "rotate", "sweep", "last_list", "done"}
Aborts == Reasons \cup {""}
RowType ==
  [state : {"none", "active", "deleted"}, partial : BOOLEAN, reason : Aborts,
   gen : Nat, count : Nat, bytes : Nat, reserved : Nat, released : BOOLEAN]
DriverType ==
  [pc : Pcs, gen : Nat, reserved : Nat, cap : Int, intent : BOOLEAN,
   declared : Nat, signed : SUBSET Chunks, queue : Seq(Chunks), out : Int,
   acked : SUBSET Chunks, checking : SUBSET Chunks,
   counting : SUBSET (Chunks \X Nat), confirmed : Nat, expired : BOOLEAN,
   aborted : Aborts, prior : Attempts \cup {0}, seen : RowType,
   drop : SUBSET Attempts]
SweeperType ==
  [pc : {"idle", "read", "sweep", "release", "last_list"},
   target : Attempts \cup {0}, seen : RowType, gen : Nat]
Grants == [Chunks -> {"none", "out", "spent"}]

ManifestTypes ==
  /\ plan \in Plans /\ gen \in Nat /\ used \in Int
  /\ row \in [Attempts -> RowType]
  /\ obj \in [Attempts -> SUBSET Chunks]
  /\ grant \in [Attempts -> Grants]
  /\ driver \in [Attempts -> DriverType]
  /\ kept \in Seq(Attempts)
  /\ sweeper \in [Sweepers -> SweeperType]
  /\ settled \in [Attempts -> Seq({"own", "other"})]

(* Before its Put an attempt has no row, and with no row it has no grant, no *)
(* object and nothing settled; until it finalises, its row is partial.       *)
Fresh(d) ==
  \/ d.pc \in {"new", "prior", "supersede", "sweep_prior", "put"}
  \/ d.pc = "stream" /\ ~d.intent
Prepared(d) ==
  /\ d.pc \in {"prior", "supersede", "sweep_prior", "put"} => d.reserved > 0
  /\ d.pc \in {"supersede", "sweep_prior"} => d.prior \in Attempts
RowFacts(d, r, g, o, st) ==
  /\ Prepared(d)
  /\ Fresh(d) => r.state = "none"
  /\ d.intent => r.state # "none" /\ d.reserved > 0
  /\ d.pc \in {"stream", "abort"} /\ r.state = "active" => r.partial
  /\ r.state = "none" => o = {} /\ d.acked = {} /\ \A i \in Chunks : g[i] = "none"
  /\ Len(st) <= 1
  /\ st # <<>> => r.released /\ r.state # "none"

Swept(w) == w.pc \in {"sweep", "release", "last_list"} => w.target \in Attempts

RowInv ==
  /\ \A a \in Attempts : RowFacts(driver[a], row[a], grant[a], obj[a], settled[a])
  /\ \A s \in Sweepers : Swept(sweeper[s])
  /\ OneActivePartial

(* Of the chunks a driver declared, the pod has stored the acknowledged ones *)
(* and the confirms have counted them, or are still at it.                   *)
Counting(d) == {c[1] : c \in d.counting}
ChunkFacts(d, g) ==
  /\ \A i \in d.acked : i < d.declared
  /\ \A n \in DOMAIN d.queue : d.queue[n] < d.declared
  /\ d.checking \subseteq d.acked /\ Counting(d) \subseteq d.acked
  /\ d.pc = "stream" => \A i \in Chunks : g[i] # "none" => i < d.declared
  /\ d.pc \in {"abort", "reconcile", "record", "rotate", "sweep", "last_list", "done"} =>
       d.checking = {} /\ d.counting = {}

(* A stream in time has its row, and what it needs to complete.              *)
Hopeful(d) == d.pc = "stream" /\ d.intent /\ ~d.expired
HopeFacts(d, r, o) ==
  Hopeful(d) =>
    /\ r.state = "active" /\ r.reason = "in_progress" /\ r.count <= d.declared
    /\ d.aborted = "" =>
         \A i \in d.acked \ d.checking : i \in o /\ (i < r.count \/ i \in Counting(d))

Complete(r) == r.state = "active" /\ ~r.partial
Sound(d, r, o) ==
  Complete(r) /\ r.count = d.confirmed /\ \A i \in Nat : i < r.count => i \in o
EndFacts(d, r, o) ==
  /\ d.pc = "abort" => d.aborted # ""
  /\ d.pc \in {"record", "rotate"} => d.aborted = ""
  /\ d.pc \in {"reconcile", "record"} /\ d.aborted = "" => Sound(d, r, o)
  /\ d.pc \notin Ended /\ r.state # "none" => r.gen = d.gen

(* An attempt with a row that can no longer complete.                        *)
Doomed(d, r) ==
  /\ r.state # "none" /\ ~Complete(r)
  /\ d.pc # "stream" \/ d.expired
Lost(b) == Doomed(driver[b], row[b])

Listed == {kept[n] : n \in DOMAIN kept}
Standing(d, r, g, o) == ChunkFacts(d, g) /\ HopeFacts(d, r, o) /\ EndFacts(d, r, o)
Behind(d) == sweeper["cleaner"].pc = "read" => sweeper["cleaner"].gen <= d.gen

(* Without an overlap: one attempt runs; what a sweep is about to take is    *)
(* lost; and what the catalogue lists is complete and stored.                *)
SoleInv ==
  /\ \A a, b \in Attempts : Running(a) /\ Running(b) => a = b
  /\ \A a \in Attempts :
       /\ Standing(driver[a], row[a], grant[a], obj[a])
       /\ driver[a].pc \in {"supersede", "sweep_prior"} =>
            Lost(driver[a].prior)
       /\ driver[a].pc = "rotate" =>
            \A b \in driver[a].drop : driver[b].pc \in {"rotate", "done"} /\ b \notin Listed
       /\ Running(a) => Behind(driver[a])
       /\ a \in Listed =>
            driver[a].pc \in {"rotate", "done"} /\ Sound(driver[a], row[a], obj[a])
  /\ \A s \in Sweepers :
       /\ sweeper[s].gen <= gen
       /\ sweeper[s].pc \in {"sweep", "release", "last_list"} =>
            Lost(sweeper[s].target)
  /\ \A m, n \in DOMAIN kept : kept[m] = kept[n] => m = n

ManifestInv == ManifestTypes /\ RowInv /\ (~plan.overlap => SoleInv)

-----------------------------------------------------------------------------
(* Records.                                                                  *)

\* A chunk that is one of the archive's.
LEMMA ChunkTypes ==
  ASSUME ManifestTypes
  PROVE  /\ \A i \in Chunks : i \in Nat
         /\ \A m \in Nat : m < plan.chunks => m \in Chunks
         /\ plan.overlap \in BOOLEAN
  BY ManifestConstants DEF ManifestTypes, Chunks

\* What the absent row, the idle driver and the idle sweeper are.
LEMMA IdleTypes ==
  /\ NoRow \in RowType /\ IdleDriver \in DriverType /\ IdleSweeper \in SweeperType
  <1>1. NoRow \in RowType BY DEF NoRow, RowType, Aborts, Reasons
  <1>2. IdleSweeper \in SweeperType BY <1>1 DEF IdleSweeper, SweeperType
  <1>3. <<>> \in Seq(Chunks) OBVIOUS
  <1>4. "" \in Aborts /\ "new" \in Pcs BY DEF Aborts, Pcs
  <1>5. IdleDriver \in DriverType
    <2>1. {} \in SUBSET Chunks /\ {} \in SUBSET (Chunks \X Nat) /\ {} \in SUBSET Attempts
      OBVIOUS
    <2>2. 0 \in Nat /\ 0 \in Int /\ 0 \in Attempts \cup {0} OBVIOUS
    <2>3. FALSE \in BOOLEAN OBVIOUS
    <2>. QED BY ONLY Zenon, <1>1, <1>3, <1>4, <2>1, <2>2, <2>3 DEF IdleDriver, DriverType
  <1>. QED BY <1>1, <1>2, <1>5

\* What is left of a driver that returned.
LEMMA ReturnedFacts ==
  ASSUME NEW d \in DriverType
  PROVE  /\ Returned(d) \in DriverType /\ Returned(d).pc = "done" /\ ~Returned(d).intent
         /\ Returned(d).acked = {} /\ Returned(d).checking = {} /\ Returned(d).counting = {}
         /\ Returned(d).queue = <<>> /\ Returned(d).confirmed = d.confirmed
  <1>1. [IdleDriver EXCEPT !.pc = "done", !.reserved = d.reserved, !.confirmed = d.confirmed]
          \in DriverType
    BY Zenon, IdleTypes DEF DriverType, Pcs
  <1>. QED BY <1>1 DEF Returned, IdleDriver

\* A driver that gives its reservation back.
LEMMA GivenBackFacts ==
  ASSUME NEW d \in DriverType, NEW v \in Nat
  PROVE  LET n == [Returned(d) EXCEPT !.reserved = v] IN
         /\ n \in DriverType /\ n.pc = "done" /\ ~n.intent
         /\ n.acked = {} /\ n.checking = {} /\ n.counting = {}
         /\ n.queue = <<>> /\ n.confirmed = d.confirmed
  <1>1. Returned(d) \in DriverType BY ReturnedFacts
  <1>. QED BY Zenon, <1>1, ReturnedFacts DEF DriverType

\* The fields that a step along the driver's way leaves alone.
Same(d, n) ==
  /\ n.gen = d.gen /\ n.intent = d.intent /\ n.reserved = d.reserved
  /\ n.declared = d.declared /\ n.queue = d.queue /\ n.acked = d.acked
  /\ n.checking = d.checking /\ n.counting = d.counting
  /\ n.confirmed = d.confirmed /\ n.expired = d.expired
Moved(d, p) == [d EXCEPT !.pc = p]
\* A move to another step changes the step only.
LEMMA MovedFacts ==
  ASSUME NEW d \in DriverType, NEW p \in Pcs
  PROVE  /\ Moved(d, p) \in DriverType /\ Same(d, Moved(d, p))
         /\ Moved(d, p).pc = p /\ Moved(d, p).aborted = d.aborted
         /\ Moved(d, p).prior = d.prior /\ Moved(d, p).drop = d.drop
  BY DEF Moved, DriverType, Same

\* The abort of an attempt keeps the first reason.
LEMMA AbortFacts ==
  ASSUME NEW d \in DriverType, NEW reason \in Reasons
  PROVE  /\ Abort(d, reason) \in DriverType /\ Same(d, Abort(d, reason))
         /\ Abort(d, reason).pc = d.pc /\ Abort(d, reason).aborted # ""
         /\ Abort(d, reason).prior = d.prior
  <1>1. reason \in Aborts /\ reason # "" BY Zenon DEF Aborts, Reasons
  <1>. QED BY Zenon, <1>1 DEF Abort, DriverType, Same

-----------------------------------------------------------------------------
(* What an attempt may find done to its row and objects by others: the row   *)
(* is deleted, its reservation settled, objects are gone.                    *)

Touch(r, r2, o, o2, st, st2) ==
  /\ r2.partial = r.partial /\ r2.gen = r.gen /\ r2.count = r.count
  /\ r2.state = r.state \/ (r.state = "active" /\ r2.state = "deleted")
  /\ r.released => r2.released
  /\ o2 \subseteq o
  /\ \/ st2 = st
     \/ st = <<>> /\ Len(st2) = 1 /\ r2.released /\ r2.state # "none"
Touches(b) == Touch(row[b], row'[b], obj[b], obj'[b], settled[b], settled'[b])

\* All that a reader of the checkpoint looks at is as it was.
Intact(r, r2, o, o2) ==
  r2.state = r.state /\ r2.partial = r.partial /\ r2.reason = r.reason
    /\ r2.gen = r.gen /\ r2.count = r.count /\ o2 = o
\* An attempt that nothing will be read from.
Spent(b) == Lost(b) \/ (driver[b].pc \in {"rotate", "done"} /\ b \notin Listed)
Spares(b) == Intact(row[b], row'[b], obj[b], obj'[b]) \/ Spent(b)

\* What is done to a row by others leaves it what it has to be.
LEMMA TouchRow ==
  ASSUME NEW d, NEW r, NEW r2, NEW g, NEW o, NEW o2, NEW st, NEW st2,
         RowFacts(d, r, g, o, st), Touch(r, r2, o, o2, st, st2)
  PROVE  /\ RowFacts(d, r2, g, o2, st2)
         /\ r2.state = "active" /\ r2.partial => r.state = "active" /\ r.partial
         /\ r2.state = "none" <=> r.state = "none"
  <1>1. r2.state = "none" <=> r.state = "none" BY DEF Touch
  <1>2. r2.state = "active" => r.state = "active" BY DEF Touch
  <1>3. Len(st2) <= 1 /\ (st2 # <<>> => r2.released /\ r2.state # "none")
    <2>1. CASE st2 = st BY <2>1, <1>1 DEF Touch, RowFacts
    <2>2. CASE st2 # st
      <3>1. Len(st2) = 1 /\ r2.released /\ r2.state # "none"
        BY ONLY Zenon, Touch(r, r2, o, o2, st, st2), <2>2 DEF Touch
      <3>2. Len(st2) <= 1 BY <3>1
      <3>. QED BY ONLY Zenon, <3>1, <3>2
    <2>. QED BY <2>1, <2>2
  <1>. QED BY <1>1, <1>2, <1>3 DEF RowFacts, Touch

\* And what is lost stays lost.
LEMMA TouchLost ==
  ASSUME NEW d, NEW r, NEW r2, NEW o, NEW o2, NEW st, NEW st2,
         Doomed(d, r), Touch(r, r2, o, o2, st, st2)
  PROVE  Doomed(d, r2)
  BY DEF Doomed, Touch, Complete

\* A sound checkpoint that is left intact stays sound.
LEMMA IntactSound ==
  ASSUME NEW d, NEW n, NEW r, NEW r2, NEW o, NEW o2,
         Sound(d, r, o), Intact(r, r2, o, o2), n.confirmed = d.confirmed
  PROVE  Sound(n, r2, o2)
  BY DEF Sound, Intact, Complete

\* What is done to an attempt that is lost, or to none, leaves it what it has to be.
LEMMA TouchStanding ==
  ASSUME NEW d, NEW r, NEW r2, NEW g, NEW o, NEW o2, NEW st, NEW st2,
         Standing(d, r, g, o), Touch(r, r2, o, o2, st, st2),
         Intact(r, r2, o, o2) \/ Doomed(d, r) \/ d.pc \in {"rotate", "done"}
  PROVE  Standing(d, r2, g, o2)
  <1>1. HopeFacts(d, r2, o2)
    <2>1. CASE Intact(r, r2, o, o2) BY Zenon, <2>1 DEF Intact, Standing, HopeFacts
    <2>2. CASE Doomed(d, r) \/ d.pc \in {"rotate", "done"}
      BY Zenon, <2>2 DEF Doomed, HopeFacts, Hopeful
    <2>. QED BY <2>1, <2>2
  <1>2. d.pc \in {"reconcile", "record"} /\ d.aborted = "" => Sound(d, r2, o2)
    <2>1. CASE Intact(r, r2, o, o2) BY Zenon, <2>1, IntactSound DEF Standing, EndFacts
    <2>2. CASE Doomed(d, r) \/ d.pc \in {"rotate", "done"}
      BY Zenon, <2>2 DEF Doomed, Standing, EndFacts, Sound
    <2>. QED BY Zenon, <2>1, <2>2
  <1>3. EndFacts(d, r2, o2) BY Zenon, <1>2 DEF EndFacts, Standing, Touch
  <1>. QED BY <1>1, <1>3 DEF Standing

-----------------------------------------------------------------------------
(* A step of one attempt, and of the sweepers: what is left to show.         *)

\* The driver of one attempt steps; the others are only touched.
Others(a) ==
  \A b \in Attempts \ {a} :
    driver'[b] = driver[b] /\ grant'[b] = grant[b] /\ Touches(b)
Alone(a) == \A b \in Attempts \ {a} : ~Running(b) /\ Spares(b)
OwnRow(a) ==
  /\ RowFacts(driver'[a], row'[a], grant'[a], obj'[a], settled'[a])
  /\ row'[a].state = "active" /\ row'[a].partial =>
       \/ ActivePartial(a)
       \/ \A b \in Attempts \ {a} : ~(row'[b].state = "active" /\ row'[b].partial)
OwnSole(a) ==
  /\ Alone(a)
  /\ Standing(driver'[a], row'[a], grant'[a], obj'[a])
  /\ driver'[a].pc \in {"supersede", "sweep_prior"} =>
       Lost(driver'[a].prior)
  /\ driver'[a].pc = "rotate" =>
       \A b \in driver'[a].drop : driver'[b].pc \in {"rotate", "done"} /\ b \notin Listed
  /\ driver'[a].pc \notin Ended => Behind(driver'[a])
  /\ a \in Listed =>
       driver'[a].pc \in {"rotate", "done"} /\ Sound(driver'[a], row'[a], obj'[a])
  /\ Lost(a) => Doomed(driver'[a], row'[a])

\* A step of one attempt keeps what every attempt's row has to be.
LEMMA RowStep ==
  ASSUME ManifestInv, NEW a \in Attempts, Others(a), OwnRow(a), UNCHANGED sweeper
  PROVE  RowInv'
  <1>1. ASSUME NEW b \in Attempts
        PROVE  /\ RowFacts(driver'[b], row'[b], grant'[b], obj'[b], settled'[b])
               /\ b # a /\ row'[b].state = "active" /\ row'[b].partial => ActivePartial(b)
    <2>1. CASE b = a BY ONLY Zenon, <2>1, OwnRow(a) DEF OwnRow
    <2>2. CASE b # a
      <3>1. RowFacts(driver[b], row[b], grant[b], obj[b], settled[b])
        BY DEF ManifestInv, RowInv
      <3>2. driver'[b] = driver[b] /\ grant'[b] = grant[b] /\ Touches(b) BY <2>2 DEF Others
      <3>. QED BY <3>1, <3>2, TouchRow DEF Touches, ActivePartial
    <2>. QED BY <2>1, <2>2
  <1>2. OneActivePartial'
    <2>1. SUFFICES ASSUME NEW b \in Attempts, NEW c \in Attempts,
                          row'[b].state = "active" /\ row'[b].partial,
                          row'[c].state = "active" /\ row'[c].partial
                   PROVE  b = c
      BY DEF OneActivePartial, ActivePartial
    <2>2. ASSUME NEW x \in Attempts, NEW y \in Attempts, ActivePartial(x), ActivePartial(y)
          PROVE  x = y
      BY <2>2 DEF ManifestInv, RowInv, OneActivePartial
    <2>3. CASE b # a /\ c # a BY <2>1, <2>2, <2>3, <1>1
    <2>4. CASE b = a /\ c # a BY <2>1, <2>2, <2>4, <1>1 DEF OwnRow
    <2>5. CASE c = a /\ b # a BY <2>1, <2>2, <2>5, <1>1 DEF OwnRow
    <2>. QED BY <2>3, <2>4, <2>5
  <1>3. (\A s \in Sweepers : Swept(sweeper[s]))' BY DEF ManifestInv, RowInv
  <1>. QED BY <1>1, <1>2, <1>3 DEF RowInv

\* Without an overlap it also keeps SoleInv: the others do not run, and are
\* spared or spent.
LEMMA SoleStep ==
  ASSUME ManifestInv, NEW a \in Attempts, ManifestTypes', Others(a), OwnRow(a), OwnSole(a),
         ~plan.overlap, UNCHANGED <<plan, gen, kept, sweeper>>
  PROVE  SoleInv'
  <1>0. SoleInv BY DEF ManifestInv
  <1>1. Listed' = Listed /\ \A d : Behind(d)' <=> Behind(d) BY DEF Listed, Behind
  <1>2. ASSUME NEW b \in Attempts PROVE Lost(b) => Lost(b)'
    <2>1. CASE b = a BY <2>1 DEF OwnSole, Lost
    <2>2. CASE b # a
      <3>1. driver'[b] = driver[b] /\ Touches(b) BY <2>2 DEF Others
      <3>. QED BY <3>1, TouchLost DEF Lost, Touches
    <2>. QED BY <2>1, <2>2
  <1>3. ASSUME NEW b \in Attempts, b # a
        PROVE  /\ driver'[b] = driver[b] /\ driver[b].pc \in Ended
               /\ Standing(driver'[b], row'[b], grant'[b], obj'[b])
               /\ b \in Listed =>
                    driver'[b].pc \in {"rotate", "done"} /\ Sound(driver'[b], row'[b], obj'[b])
    <2>1. driver'[b] = driver[b] /\ grant'[b] = grant[b] /\ Touches(b) BY <1>3 DEF Others
    <2>2. driver[b].pc \in Ended /\ Spares(b) BY <1>3 DEF OwnSole, Alone, Running
    <2>3. Standing(driver[b], row[b], grant[b], obj[b])
          /\ (b \in Listed =>
                driver[b].pc \in {"rotate", "done"} /\ Sound(driver[b], row[b], obj[b]))
      BY <1>0 DEF SoleInv
    <2>4. Standing(driver[b], row'[b], grant[b], obj'[b])
      BY <2>1, <2>2, <2>3, TouchStanding DEF Touches, Spares, Spent, Lost
    <2>5. b \in Listed => Intact(row[b], row'[b], obj[b], obj'[b])
      BY <2>2, <2>3 DEF Spares, Spent, Lost, Doomed, Sound
    <2>6. b \in Listed => Sound(driver[b], row'[b], obj'[b]) BY <2>3, <2>5, IntactSound
    <2>. QED BY <2>1, <2>2, <2>3, <2>4, <2>6
  <1>4. \A b, c \in Attempts : Running(b)' /\ Running(c)' => b = c
    BY <1>3 DEF Running
  <1>5. ASSUME NEW b \in Attempts
        PROVE  (/\ Standing(driver[b], row[b], grant[b], obj[b])
                /\ driver[b].pc \in {"supersede", "sweep_prior"} =>
                     Lost(driver[b].prior)
                /\ driver[b].pc = "rotate" =>
                     \A c \in driver[b].drop : driver[c].pc \in {"rotate", "done"} /\ c \notin Listed
                /\ Running(b) => Behind(driver[b])
                /\ b \in Listed =>
                     driver[b].pc \in {"rotate", "done"} /\ Sound(driver[b], row[b], obj[b]))'
    <2>1. CASE b = a
      <3>1. driver'[a].pc \in {"supersede", "sweep_prior"} =>
              Lost(driver[a].prior)'
        <4>1. Prepared(driver'[a]) BY DEF OwnRow, RowFacts
        <4>. QED BY <4>1, <1>2 DEF OwnSole, Lost, Prepared
      <3>2. Running(a)' => Behind(driver[a])' BY <1>1 DEF OwnSole, Running, Behind
      <3>. QED BY <2>1, <3>1, <3>2, <1>1 DEF OwnSole
    <2>2. CASE b # a
      <3>1. driver'[b].pc \in Ended BY <2>2, <1>3
      <3>. QED BY <2>2, <3>1, <1>1, <1>3 DEF Ended, Running
    <2>. QED BY <2>1, <2>2
  <1>6. ASSUME NEW s \in Sweepers
        PROVE  (/\ sweeper[s].gen <= gen
                /\ sweeper[s].pc \in {"sweep", "release", "last_list"} =>
                     Lost(sweeper[s].target))'
    <2>1. Swept(sweeper[s]) BY DEF ManifestInv, RowInv
    <2>. QED BY <2>1, <1>0, <1>2 DEF SoleInv, Lost, Swept
  <1>7. (\A m, n \in DOMAIN kept : kept[m] = kept[n] => m = n)' BY <1>0 DEF SoleInv
  <1>. QED BY <1>4, <1>5, <1>6, <1>7 DEF SoleInv

\* So what is left to show of a step is what it does to its own attempt.
LEMMA OwnStep ==
  ASSUME ManifestInv, NEW a \in Attempts, ManifestTypes', Others(a), OwnRow(a),
         ~plan.overlap => OwnSole(a), UNCHANGED <<plan, gen, kept, sweeper>>
  PROVE  ManifestInv'
  <1>1. RowInv' BY RowStep
  <1>2. ~plan'.overlap => SoleInv' BY SoleStep
  <1>. QED BY <1>1, <1>2 DEF ManifestInv

\* A sweeper steps: every attempt is only touched, and only one that is spent.
SweepSole ==
  /\ \A b \in Attempts : Spares(b) /\ (Running(b) => Behind(driver[b])')
  /\ \A s \in Sweepers :
       /\ sweeper'[s].gen <= gen'
       /\ sweeper'[s].pc \in {"sweep", "release", "last_list"} =>
            Lost(sweeper'[s].target)

\* And of a step of a sweeper, that it takes only what is spent.
LEMMA SweeperStep ==
  ASSUME ManifestInv, ManifestTypes', UNCHANGED <<plan, driver, grant, kept>>,
         \A b \in Attempts : Touches(b), \A s \in Sweepers : Swept(sweeper'[s]),
         ~plan.overlap => SweepSole
  PROVE  ManifestInv'
  <1>1. ASSUME NEW b \in Attempts
        PROVE  /\ RowFacts(driver'[b], row'[b], grant'[b], obj'[b], settled'[b])
               /\ row'[b].state = "active" /\ row'[b].partial => ActivePartial(b)
    <2>1. RowFacts(driver[b], row[b], grant[b], obj[b], settled[b])
      BY DEF ManifestInv, RowInv
    <2>. QED BY <2>1, TouchRow DEF Touches, ActivePartial
  <1>2. RowInv' BY <1>1 DEF RowInv, OneActivePartial, ActivePartial, ManifestInv
  <1>3. ASSUME ~plan.overlap PROVE SoleInv'
    <2>0. SoleInv /\ SweepSole BY <1>3 DEF ManifestInv
    <2>1. Listed' = Listed BY DEF Listed
    <2>2. ASSUME NEW b \in Attempts PROVE Lost(b) => Lost(b)'
      BY TouchLost DEF Lost, Touches
    <2>3. ASSUME NEW b \in Attempts
          PROVE  /\ Standing(driver[b], row'[b], grant[b], obj'[b])
                 /\ b \in Listed =>
                      driver[b].pc \in {"rotate", "done"} /\ Sound(driver[b], row'[b], obj'[b])
      <3>1. Touches(b) /\ Spares(b) BY <2>0 DEF SweepSole
      <3>2. Standing(driver[b], row[b], grant[b], obj[b])
            /\ (b \in Listed =>
                  driver[b].pc \in {"rotate", "done"} /\ Sound(driver[b], row[b], obj[b]))
        BY <2>0 DEF SoleInv
      <3>3. Standing(driver[b], row'[b], grant[b], obj'[b])
        BY <3>1, <3>2, TouchStanding DEF Touches, Spares, Spent, Lost
      <3>4. b \in Listed => Intact(row[b], row'[b], obj[b], obj'[b])
        BY <3>1, <3>2 DEF Spares, Spent, Lost, Doomed, Sound
      <3>5. b \in Listed => Sound(driver[b], row'[b], obj'[b]) BY <3>2, <3>4, IntactSound
      <3>. QED BY <3>2, <3>3, <3>5
    <2>4. ASSUME NEW b \in Attempts
          PROVE  (/\ Standing(driver[b], row[b], grant[b], obj[b])
                  /\ driver[b].pc \in {"supersede", "sweep_prior"} =>
                       Lost(driver[b].prior)
                  /\ driver[b].pc = "rotate" =>
                       \A c \in driver[b].drop : driver[c].pc \in {"rotate", "done"} /\ c \notin Listed
                  /\ Running(b) => Behind(driver[b])
                  /\ b \in Listed =>
                       driver[b].pc \in {"rotate", "done"} /\ Sound(driver[b], row[b], obj[b]))'
      <3>1. driver[b].pc \in {"supersede", "sweep_prior"} =>
              Lost(driver[b].prior)'
        <4>1. Prepared(driver[b]) BY DEF ManifestInv, RowInv, RowFacts
        <4>. QED BY <4>1, <2>0, <2>2 DEF SoleInv, Lost, Prepared
      <3>2. driver[b].pc = "rotate" =>
              \A c \in driver[b].drop : driver[c].pc \in {"rotate", "done"} /\ c \notin Listed
        BY <2>0 DEF SoleInv
      <3>3. Running(b)' => Behind(driver[b])' BY <2>0 DEF SweepSole, Running
      <3>. QED BY <2>1, <2>3, <3>1, <3>2, <3>3
    <2>5. ASSUME NEW s \in Sweepers
          PROVE  (/\ sweeper[s].gen <= gen
                  /\ sweeper[s].pc \in {"sweep", "release", "last_list"} =>
                       Lost(sweeper[s].target))'
      <3>1. Swept(sweeper'[s]) OBVIOUS
      <3>. QED BY <3>1, <2>0, <2>2 DEF SweepSole, Lost, Swept
    <2>6. (\A m, n \in DOMAIN kept : kept[m] = kept[n] => m = n)' BY <2>0 DEF SoleInv
    <2>7. (\A b, c \in Attempts : Running(b) /\ Running(c) => b = c)'
      BY <2>0 DEF SoleInv, Running
    <2>. QED BY <2>4, <2>5, <2>6, <2>7 DEF SoleInv
  <1>. QED BY <1>2, <1>3 DEF ManifestInv

-----------------------------------------------------------------------------
(* The stores, attempt by attempt.                                           *)

\* The guarded UPDATE changes no more than the release and its record.
LEMMA ReleaseFacts ==
  ASSUME ManifestInv, NEW b \in Attempts, NEW who \in {"own", "other"}, NEW delta \in Int,
         ReleaseReservation(b, who, delta)
  PROVE  /\ row' \in [Attempts -> RowType] /\ used' \in Int
         /\ settled' \in [Attempts -> Seq({"own", "other"})]
         /\ \A c \in Attempts :
              /\ Touch(row[c], row'[c], obj[c], obj[c], settled[c], settled'[c])
              /\ Intact(row[c], row'[c], obj[c], obj[c])
  <1>1. row \in [Attempts -> RowType] /\ used \in Int
        /\ settled \in [Attempts -> Seq({"own", "other"})]
    BY DEF ManifestInv, ManifestTypes
  <1>2. CASE ~Outstanding(b)
    <2>1. row' = row /\ used' = used /\ settled' = settled BY <1>2 DEF ReleaseReservation
    <2>. QED BY <1>1, <2>1 DEF Touch, Intact
  <1>3. CASE Outstanding(b)
    <2>1. /\ row' = [row EXCEPT ![b].released = TRUE]
          /\ used' = Adjust(delta)
          /\ settled' = [settled EXCEPT ![b] = Append(settled[b], who)]
      BY <1>3 DEF ReleaseReservation
    <2>2. used' \in Int BY <1>1, <2>1 DEF Adjust
    <2>3. Append(settled[b], who) \in Seq({"own", "other"}) BY <1>1
    <2>4. settled' \in [Attempts -> Seq({"own", "other"})]
          /\ settled'[b] = Append(settled[b], who)
          /\ \A c \in Attempts \ {b} : settled'[c] = settled[c]
      BY <1>1, <2>1, <2>3
    <2>5. RowFacts(driver[b], row[b], grant[b], obj[b], settled[b])
      BY DEF ManifestInv, RowInv
    <2>6. settled[b] = <<>> BY <1>3, <2>5 DEF RowFacts, Outstanding
    <2>7. Len(settled'[b]) = 1 BY <2>4, <2>6
    <2>8. row' \in [Attempts -> RowType]
          /\ row'[b] = [row[b] EXCEPT !.released = TRUE]
          /\ \A c \in Attempts \ {b} : row'[c] = row[c]
      BY Zenon, <1>1, <2>1 DEF RowType
    <2>9. row'[b].released /\ row'[b].state = row[b].state
          /\ Intact(row[b], row'[b], obj[b], obj[b])
      BY <1>1, <2>8 DEF RowType, Intact
    <2>10. row[b].state # "none" BY <1>3 DEF Outstanding
    <2>11. Touch(row[b], row'[b], obj[b], obj[b], settled[b], settled'[b])
      BY <2>6, <2>7, <2>9, <2>10 DEF Touch, Intact
    <2>12. \A c \in Attempts \ {b} :
              /\ Touch(row[c], row'[c], obj[c], obj[c], settled[c], settled'[c])
              /\ Intact(row[c], row'[c], obj[c], obj[c])
      BY <2>4, <2>8 DEF Touch, Intact
    <2>. QED BY Zenon, <2>2, <2>4, <2>8, <2>9, <2>11, <2>12
  <1>. QED BY <1>2, <1>3

\* A walk over a prefix takes objects of that prefix only.
Walks(b) == ReleasePrefix(b) \/ ReleasePrefixFails(b)
\* The objects of the other attempts stay.
LEMMA WalkFacts ==
  ASSUME ManifestTypes, NEW b \in Attempts, Walks(b)
  PROVE  /\ obj' \in [Attempts -> SUBSET Chunks]
         /\ \A c \in Attempts : obj'[c] \subseteq obj[c]
         /\ \A c \in Attempts \ {b} : obj'[c] = obj[c]
  <1>1. PICK rows \in SUBSET Chunks, objects \in SUBSET Chunks : ReleaseChunks(b, rows, objects)
    <2>1. obj[b] \in SUBSET Chunks BY DEF ManifestTypes
    <2>2. CASE ReleasePrefix(b) BY <2>1, <2>2 DEF ReleasePrefix
    <2>3. CASE ReleasePrefixFails(b)
      <3>1. PICK last \in obj[b] :
              ReleaseChunks(b, {i \in obj[b] : i <= last}, {i \in obj[b] : i < last})
        BY Zenon, <2>3 DEF ReleasePrefixFails
      <3>2. {i \in obj[b] : i <= last} \in SUBSET Chunks
            /\ {i \in obj[b] : i < last} \in SUBSET Chunks
        BY <2>1
      <3>. QED BY <3>1, <3>2
    <2>. QED BY <2>2, <2>3 DEF Walks
  <1>2. obj' = [obj EXCEPT ![b] = obj[b] \ objects] BY <1>1 DEF ReleaseChunks
  <1>. QED BY <1>2 DEF ManifestTypes

\* The soft delete of a row that is taken out of use.
LEMMA SoftDeleteFacts ==
  ASSUME ManifestTypes, NEW b \in Attempts, SoftDelete(b)
  PROVE  /\ row' \in [Attempts -> RowType]
         /\ \A c \in Attempts \ {b} : row'[c] = row[c]
         /\ row'[b].partial = row[b].partial /\ row'[b].gen = row[b].gen
         /\ row'[b].count = row[b].count /\ row'[b].released = row[b].released
         /\ row'[b].state = row[b].state \/ (row[b].state = "active" /\ row'[b].state = "deleted")
  <1>1. CASE row[b].state = "active"
    BY Zenon, <1>1 DEF SoftDelete, RowType, ManifestTypes
  <1>2. CASE row[b].state # "active"
    BY <1>2 DEF SoftDelete, ManifestTypes
  <1>. QED BY <1>1, <1>2

-----------------------------------------------------------------------------
(* Steps that end an attempt, and steps before its row.                      *)

StoreTypes ==
  /\ row \in [Attempts -> RowType] /\ obj \in [Attempts -> SUBSET Chunks]
  /\ used \in Int /\ settled \in [Attempts -> Seq({"own", "other"})]

\* What a step of an attempt's driver assigns.
LEMMA DriverTo ==
  ASSUME ManifestTypes, NEW a \in Attempts, NEW n \in DriverType, To(a, n)
  PROVE  /\ driver' \in [Attempts -> DriverType] /\ driver'[a] = n
         /\ \A b \in Attempts \ {a} : driver'[b] = driver[b]
  BY DEF To, ManifestTypes

\* A step that leaves rows, objects and settlements alone touches nothing.
LEMMA NothingTouched ==
  ASSUME NEW b, row' = row, obj' = obj, settled' = settled
  PROVE  Touches(b) /\ Intact(row[b], row'[b], obj[b], obj'[b]) /\ Spares(b)
  BY DEF Touches, Touch, Intact, Spares

\* Without an overlap, the attempt that runs is the only one.
LEMMA OneRuns ==
  ASSUME ManifestInv, ~plan.overlap, NEW a \in Attempts, Running(a)
  PROVE  \A b \in Attempts \ {a} : ~Running(b)
  BY DEF ManifestInv, SoleInv

Gone(d, n) ==
  /\ n \in DriverType /\ n.pc = "done" /\ ~n.intent
  /\ n.acked = {} /\ n.checking = {} /\ n.counting = {} /\ n.queue = <<>>
  /\ n.confirmed = d.confirmed

\* The attempt returns or dies.
LEMMA ReturnStep ==
  ASSUME ManifestInv, NEW a \in Attempts, Running(a), StoreTypes',
         NEW n, Gone(driver[a], n), To(a, n),
         UNCHANGED <<plan, gen, grant, kept, sweeper>>,
         \A b \in Attempts : Touches(b),
         ~plan.overlap => \A b \in Attempts \ {a} : Spares(b),
         ~plan.overlap => \/ Intact(row[a], row'[a], obj[a], obj'[a])
                          \/ driver[a].pc \notin {"rotate", "done"}
  PROVE  ManifestInv'
  <1>1. n \in DriverType BY DEF Gone
  <1>2. /\ driver' \in [Attempts -> DriverType] /\ driver'[a] = n
        /\ \A b \in Attempts \ {a} : driver'[b] = driver[b]
    BY <1>1, DriverTo DEF ManifestInv
  <1>3. ManifestTypes' BY <1>2 DEF ManifestInv, ManifestTypes, StoreTypes
  <1>4. Others(a) BY <1>2 DEF Others
  <1>5. /\ RowFacts(driver[a], row'[a], grant[a], obj'[a], settled'[a])
        /\ row'[a].state = "active" /\ row'[a].partial => ActivePartial(a)
    <2>1. RowFacts(driver[a], row[a], grant[a], obj[a], settled[a])
      BY DEF ManifestInv, RowInv
    <2>2. Touches(a) OBVIOUS
    <2>. QED BY <2>1, <2>2, TouchRow DEF Touches, ActivePartial
  <1>6. OwnRow(a)
    <2>1. RowFacts(n, row'[a], grant[a], obj'[a], settled'[a])
      BY Zenon, <1>5 DEF RowFacts, Gone, Fresh, Prepared
    <2>. QED BY <2>1, <1>5, <1>2 DEF OwnRow
  <1>7. ASSUME ~plan.overlap PROVE OwnSole(a)
    <2>0. SoleInv BY <1>7 DEF ManifestInv
    <2>1. Alone(a) BY <1>7, OneRuns DEF Alone
    <2>2. Standing(n, row'[a], grant'[a], obj'[a])
      <3>1. ChunkFacts(n, grant'[a]) BY DEF ChunkFacts, Gone, Counting
      <3>2. HopeFacts(n, row'[a], obj'[a]) BY DEF HopeFacts, Hopeful, Gone
      <3>3. EndFacts(n, row'[a], obj'[a]) BY DEF EndFacts, Gone, Ended
      <3>. QED BY <3>1, <3>2, <3>3 DEF Standing
    <2>3. a \in Listed => Sound(n, row'[a], obj'[a])
      BY <1>7, <2>0, IntactSound DEF SoleInv, Gone
    <2>4. Lost(a) => Doomed(n, row'[a])
      <3>1. Lost(a) => Doomed(driver[a], row'[a]) BY TouchLost DEF Lost, Touches
      <3>. QED BY <3>1 DEF Doomed, Gone
    <2>. QED BY <2>1, <2>2, <2>3, <2>4, <1>2 DEF OwnSole, Gone, Ended
  <1>. QED BY <1>3, <1>4, <1>6, <1>7, OwnStep

\* A step of an attempt that has no row yet, and will not have one after it.
Early(d, n) ==
  /\ n \in DriverType /\ Fresh(n) /\ ~n.intent /\ Prepared(n)
  /\ n.acked = d.acked /\ n.checking = d.checking /\ n.counting = d.counting
  /\ n.queue = d.queue /\ n.declared >= d.declared

\* Such a step has nothing of its own to lose.
LEMMA EarlyStep ==
  ASSUME ManifestInv, NEW a \in Attempts, Fresh(driver[a]), StoreTypes',
         NEW n, Early(driver[a], n), To(a, n),
         UNCHANGED <<plan, gen, grant, kept, sweeper>>,
         \A b \in Attempts : Touches(b),
         ~plan.overlap =>
           /\ \A b \in Attempts \ {a} : ~Running(b) /\ Spares(b)
           /\ n.pc \in {"supersede", "sweep_prior"} => Lost(n.prior)
           /\ n.pc \notin Ended => Behind(n)
  PROVE  ManifestInv'
  <1>1. n \in DriverType BY DEF Early
  <1>2. /\ driver' \in [Attempts -> DriverType] /\ driver'[a] = n
        /\ \A b \in Attempts \ {a} : driver'[b] = driver[b]
    BY <1>1, DriverTo DEF ManifestInv
  <1>3. ManifestTypes' BY <1>2 DEF ManifestInv, ManifestTypes, StoreTypes
  <1>4. Others(a) BY <1>2 DEF Others
  <1>5. RowFacts(driver[a], row'[a], grant[a], obj'[a], settled'[a])
    <2>1. RowFacts(driver[a], row[a], grant[a], obj[a], settled[a])
      BY DEF ManifestInv, RowInv
    <2>2. Touches(a) OBVIOUS
    <2>. QED BY Zenon, <2>1, <2>2, TouchRow DEF Touches
  <1>6. /\ row'[a].state = "none" /\ \A i \in Chunks : grant[a][i] = "none"
        /\ n.acked = {} /\ row[a].state = "none"
    <2>1. row'[a].state = "none" BY <1>5 DEF RowFacts
    <2>2. Touches(a) OBVIOUS
    <2>3. row[a].state = "none" BY <2>1, <2>2 DEF Touches, Touch
    <2>. QED BY Zenon, <1>5, <2>1, <2>3 DEF RowFacts, Early
  <1>7. OwnRow(a)
    <2>1. RowFacts(n, row'[a], grant[a], obj'[a], settled'[a])
      BY Zenon, <1>5, <1>6 DEF RowFacts, Early
    <2>. QED BY Zenon, <2>1, <1>6, <1>2 DEF OwnRow
  <1>8. ASSUME ~plan.overlap PROVE OwnSole(a)
    <2>0. SoleInv BY <1>8 DEF ManifestInv
    <2>1. Alone(a) BY <1>8 DEF Alone
    <2>2. Standing(n, row'[a], grant'[a], obj'[a])
      <3>1. ChunkFacts(driver[a], grant[a]) BY Zenon, <2>0 DEF SoleInv, Standing
      <3>2. driver[a] \in DriverType BY DEF ManifestInv, ManifestTypes
      <3>3. ChunkFacts(n, grant'[a])
        <4>1. n.checking = {} /\ n.counting = {}
          BY <3>1, <1>6 DEF ChunkFacts, Early, Counting
        <4>2. \A m \in DOMAIN n.queue : n.queue[m] < n.declared
          <5>1. SUFFICES ASSUME NEW m \in DOMAIN n.queue PROVE n.queue[m] < n.declared
            OBVIOUS
          <5>2. n.queue = driver[a].queue /\ n.declared >= driver[a].declared BY DEF Early
          <5>3. n.queue \in Seq(Chunks) /\ n.declared \in Nat /\ driver[a].declared \in Nat
            BY <1>1, <3>2 DEF DriverType
          <5>4. n.queue[m] \in Chunks BY <5>3
          <5>5. n.queue[m] \in Nat BY <5>4, ChunkTypes DEF ManifestInv
          <5>6. n.queue[m] < driver[a].declared BY <5>2, <3>1 DEF ChunkFacts
          <5>. QED BY ONLY <5>2, <5>3, <5>5, <5>6
        <4>. QED BY <4>1, <4>2, <1>6 DEF ChunkFacts, Counting
      <3>4. HopeFacts(n, row'[a], obj'[a]) BY Zenon DEF HopeFacts, Hopeful, Early
      <3>5. EndFacts(n, row'[a], obj'[a]) BY Zenon, <1>6 DEF EndFacts, Early, Fresh
      <3>. QED BY <3>3, <3>4, <3>5 DEF Standing
    <2>3. a \notin Listed BY <1>6, <2>0 DEF SoleInv, Sound, Complete
    <2>4. ~Lost(a) BY <1>6 DEF Lost, Doomed
    <2>5. n.pc # "rotate" BY DEF Early, Fresh
    <2>. QED BY <2>1, <2>2, <2>3, <2>4, <2>5, <1>8, <1>2 DEF OwnSole
  <1>. QED BY <1>3, <1>4, <1>7, <1>8, OwnStep

-----------------------------------------------------------------------------
(* An attempt up to its row.                                                 *)

\* What is known of the stores before a step that leaves them alone.
LEMMA StoreTyped ==
  ASSUME ManifestInv
  PROVE  /\ StoreTypes
         /\ \A b \in Attempts : driver[b] \in DriverType /\ row[b] \in RowType
         /\ gen \in Nat /\ Limit \in Int
  BY ManifestConstants DEF ManifestInv, ManifestTypes, StoreTypes

\* An attempt without its intent has no row, and the converse before its Put.
LEMMA FreshFacts ==
  ASSUME ManifestInv, NEW a \in Attempts, Fresh(driver[a])
  PROVE  ~driver[a].intent /\ row[a].state = "none" /\ Prepared(driver[a])
  <1>1. RowFacts(driver[a], row[a], grant[a], obj[a], settled[a]) BY DEF ManifestInv, RowInv
  <1>. QED BY <1>1 DEF RowFacts

\* A row of an attempt that does not run is lost, unless it is complete.
LEMMA IdleIsLost ==
  ASSUME ManifestInv, NEW b \in Attempts, ~Running(b), ActivePartial(b)
  PROVE  Lost(b)
  <1>1. ~Fresh(driver[b]) BY FreshFacts DEF ActivePartial
  <1>2. driver[b].pc # "stream" BY DEF Running, Ended
  <1>. QED BY <1>2 DEF ActivePartial, Lost, Doomed, Complete

\* A step that changes one driver only, to one that returned.
LEMMA PlainReturn ==
  ASSUME ManifestInv, NEW a \in Attempts, Running(a), To(a, Returned(driver[a])),
         UNCHANGED <<plan, gen, used, row, obj, grant, kept, sweeper, settled>>
  PROVE  ManifestInv'
  <1>1. Gone(driver[a], Returned(driver[a])) BY ReturnedFacts, StoreTyped DEF Gone
  <1>2. StoreTypes' BY StoreTyped DEF StoreTypes
  <1>3. \A b \in Attempts :
          Touches(b) /\ Intact(row[b], row'[b], obj[b], obj'[b]) /\ Spares(b)
    BY NothingTouched
  <1>. QED BY <1>1, <1>2, <1>3, ReturnStep

\* onProbe: the reservation is taken, or the attempt ends.
LEMMA ReserveStep ==
  ASSUME ManifestInv, NEW a \in Attempts, Reserve(a)
  PROVE  ManifestInv'
  <1> DEFINE d == driver[a]
  <1>1. d \in DriverType /\ used \in Int /\ d.pc = "stream" /\ Running(a) /\ d.reserved = 0
    BY StoreTyped DEF StoreTypes, Reserve, Running, Ended
  <1>2. Fresh(d)
    <2>1. RowFacts(d, row[a], grant[a], obj[a], settled[a]) BY DEF ManifestInv, RowInv
    <2>2. ~d.intent BY <2>1, <1>1 DEF RowFacts
    <2>. QED BY <2>2, <1>1 DEF Fresh
  <1>3. UNCHANGED <<plan, gen, row, obj, grant, kept, sweeper, settled>> BY DEF Reserve
  <1>4. PICK probed \in 1..plan.chunks :
          IF Dead(driver[a]) \/ used + probed > Limit
            THEN /\ To(a, Returned(driver[a]))
                 /\ UNCHANGED used
            ELSE /\ To(a, [driver[a] EXCEPT !.pc = "prior", !.reserved = probed,
                                            !.cap = Limit - used])
                 /\ used' = used + probed
    BY Zenon DEF Reserve
  <1>5. CASE Dead(driver[a]) \/ used + probed > Limit
    BY <1>1, <1>3, <1>4, <1>5, PlainReturn
  <1>6. CASE ~(Dead(driver[a]) \/ used + probed > Limit)
    <2> DEFINE n == [driver[a] EXCEPT !.pc = "prior", !.reserved = probed, !.cap = Limit - used]
    <2>1. probed \in Nat /\ probed > 0 OBVIOUS
    <2>2. Limit - used \in Int BY <1>1, ManifestConstants
    <2>3. n \in DriverType /\ n.pc = "prior" /\ n.gen = d.gen /\ n.intent = d.intent
          /\ n.reserved = probed /\ n.acked = d.acked /\ n.checking = d.checking /\ n.counting = d.counting
          /\ n.queue = d.queue /\ n.declared = d.declared
      BY Zenon, <1>1, <2>1, <2>2 DEF DriverType, Pcs
    <2>4. Early(d, n)
      <3>1. n.declared >= d.declared BY <1>1, <2>3 DEF DriverType
      <3>2. ~d.intent BY <1>2, FreshFacts
      <3>. QED BY <2>1, <2>3, <3>1, <3>2 DEF Early, Fresh, Prepared
    <2>5. To(a, n) /\ used' \in Int BY <1>1, <1>4, <1>6, <2>1
    <2>6. StoreTypes' BY <2>5, <1>3, StoreTyped DEF StoreTypes
    <2>7. \A b \in Attempts : Touches(b) /\ Spares(b) BY <1>3, NothingTouched
    <2>8. ~plan.overlap => (\A b \in Attempts \ {a} : ~Running(b) /\ Spares(b)) /\ Behind(n)
      BY <1>1, <2>3, <2>7, OneRuns DEF ManifestInv, SoleInv, Behind
    <2>9. n.pc \notin {"supersede", "sweep_prior"} BY <2>3
    <2> HIDE DEF n
    <2>. QED BY <1>2, <1>3, <2>4, <2>5, <2>6, <2>7, <2>8, <2>9, EarlyStep
  <1>. QED BY <1>5, <1>6

\* An early failure: the reservation goes back, or stays with a dead context.
LEMMA GiveBackStep ==
  ASSUME ManifestInv, NEW a \in Attempts, Running(a), GiveBack(a),
         UNCHANGED <<plan, gen, row, obj, grant, kept, sweeper, settled>>
  PROVE  ManifestInv'
  <1> DEFINE v == IF Dead(driver[a]) THEN Returned(driver[a]).reserved ELSE 0
             n == [Returned(driver[a]) EXCEPT !.reserved = v]
  <1>1. driver[a] \in DriverType /\ used \in Int BY StoreTyped DEF StoreTypes
  <1>2. v \in Nat BY <1>1, ReturnedFacts DEF DriverType
  <1>3. Gone(driver[a], n) BY Zenon, <1>1, <1>2, GivenBackFacts DEF Gone
  <1>4. To(a, n) BY DEF GiveBack
  <1>5. used' \in Int BY <1>1 DEF GiveBack, Adjust, DriverType
  <1>6. StoreTypes' BY <1>5, StoreTyped DEF StoreTypes
  <1>7. \A b \in Attempts :
          Touches(b) /\ Intact(row[b], row'[b], obj[b], obj'[b]) /\ Spares(b)
    BY NothingTouched
  <1> HIDE DEF n
  <1>. QED BY <1>3, <1>4, <1>6, <1>7, ReturnStep

\* A step along the way to the row.
LEMMA EarlyMove ==
  ASSUME ManifestInv, NEW a \in Attempts, Running(a), Fresh(driver[a]), StoreTypes',
         NEW n \in DriverType, Same(driver[a], n), Prepared(n), To(a, n),
         n.pc \in {"supersede", "sweep_prior", "put"},
         UNCHANGED <<plan, gen, grant, kept, sweeper>>,
         \A b \in Attempts : Touches(b),
         ~plan.overlap =>
           /\ \A b \in Attempts \ {a} : Spares(b)
           /\ n.pc \in {"supersede", "sweep_prior"} => Lost(n.prior)
  PROVE  ManifestInv'
  <1>1. driver[a] \in DriverType BY StoreTyped
  <1>2. Early(driver[a], n)
    <2>0. n.declared = driver[a].declared /\ driver[a].declared \in Nat
      BY Zenon, <1>1 DEF DriverType, Same
    <2>1. n.declared >= driver[a].declared BY ONLY <2>0
    <2>2. ~driver[a].intent BY FreshFacts
    <2>. QED BY <2>1, <2>2 DEF Early, Same, Fresh
  <1>3. ~plan.overlap => (\A b \in Attempts \ {a} : ~Running(b) /\ Spares(b)) /\ Behind(n)
    BY OneRuns DEF ManifestInv, SoleInv, Behind, Same
  <1>. QED BY <1>2, <1>3, EarlyStep

\* The prior attempt is looked up: without an overlap it is lost.
LEMMA ReadPriorStep ==
  ASSUME ManifestInv, NEW a \in Attempts, ReadPrior(a)
  PROVE  ManifestInv'
  <1> DEFINE d == driver[a]
  <1>1. d \in DriverType /\ d.pc = "prior" /\ Running(a) /\ Fresh(d)
    BY Zenon, StoreTyped DEF ReadPrior, Running, Ended, Fresh
  <1>2. UNCHANGED <<plan, gen, row, obj, grant, kept, sweeper, settled>> BY Zenon DEF ReadPrior
  <1>3. \A b \in Attempts : Touches(b) /\ Spares(b) BY <1>2, NothingTouched
  <1>4. CASE Dead(d)
    <2>1. GiveBack(a) BY <1>4 DEF ReadPrior
    <2>. QED BY <1>1, <1>2, <2>1, GiveBackStep
  <1>5. CASE ~Dead(d)
    <2>1. StoreTypes' BY Zenon, <1>2, <1>5, StoreTyped DEF StoreTypes, ReadPrior
    <2>2. CASE To(a, [d EXCEPT !.pc = "put"])
      <3> DEFINE n == Moved(d, "put")
      <3>1. n \in DriverType /\ Same(d, n) /\ n.pc = "put"
        BY <1>1, MovedFacts DEF Pcs
      <3>2. To(a, n) BY <2>2 DEF Moved
      <3> HIDE DEF n
      <3>3. Prepared(n) BY <1>1, <3>1, FreshFacts DEF Prepared, Same
      <3>. QED BY <1>1, <1>2, <1>3, <2>1, <3>1, <3>2, <3>3, EarlyMove
    <2>3. CASE \E b \in LatestActive :
                 To(a, [d EXCEPT !.pc = "supersede", !.prior = b, !.seen = row[b]])
      <3>1. PICK b \in LatestActive :
              To(a, [d EXCEPT !.pc = "supersede", !.prior = b, !.seen = row[b]])
        BY Zenon, <2>3
      <3> DEFINE n == [d EXCEPT !.pc = "supersede", !.prior = b, !.seen = row[b]]
      <3>2. b \in Attempts /\ ActivePartial(b) BY DEF LatestActive
      <3>3. row[b] \in RowType BY <3>2, StoreTyped
      <3>4. n \in DriverType /\ Same(d, n) /\ n.pc = "supersede" /\ n.prior = b
        BY Zenon, <1>1, <3>2, <3>3 DEF DriverType, Pcs, Same
      <3>5. To(a, n) BY <3>1
      <3>6. Prepared(n) BY <1>1, <3>2, <3>4, FreshFacts DEF Prepared, Same
      <3>7. ~plan.overlap => Lost(b)
        <4>1. row[a].state = "none" BY <1>1, FreshFacts
        <4>2. b # a BY <3>2, <4>1 DEF ActivePartial
        <4>. QED BY <1>1, <3>2, <4>2, OneRuns, IdleIsLost
      <3> HIDE DEF n
      <3>. QED BY <1>1, <1>2, <1>3, <2>1, <3>4, <3>5, <3>6, <3>7, EarlyMove
    <2>. QED BY Zenon, <1>5, <2>2, <2>3 DEF ReadPrior
  <1>. QED BY <1>4, <1>5

\* The prior attempt's reservation is released, unless it was.
LEMMA SupersedeReleaseStep ==
  ASSUME ManifestInv, NEW a \in Attempts, SupersedeRelease(a)
  PROVE  ManifestInv'
  <1> DEFINE d == driver[a]
             n == Moved(d, "sweep_prior")
  <1>1. d \in DriverType /\ d.pc = "supersede" /\ Running(a) /\ Fresh(d)
    BY StoreTyped DEF SupersedeRelease, Running, Ended, Fresh
  <1>2. UNCHANGED <<plan, gen, obj, grant, kept, sweeper>> BY DEF SupersedeRelease
  <1>3. n \in DriverType /\ Same(d, n) /\ n.pc = "sweep_prior" /\ n.prior = d.prior
    BY <1>1, MovedFacts DEF Pcs
  <1>4. To(a, n) BY DEF SupersedeRelease, Moved
  <1>5. d.prior \in Attempts BY <1>1, FreshFacts DEF Prepared
  <1>6. Prepared(n) BY <1>1, <1>3, <1>5, FreshFacts DEF Prepared, Same
  <1>7. StoreTypes' /\ \A b \in Attempts : Touches(b) /\ Spares(b)
    <2>1. CASE Dead(d)
      <3>1. UNCHANGED <<row, used, settled>> BY <2>1 DEF SupersedeRelease
      <3>. QED BY <3>1, <1>2, StoreTyped, NothingTouched DEF StoreTypes
    <2>2. CASE ~Dead(d)
      <3> DEFINE delta == d.seen.bytes - d.seen.reserved
      <3>1. ReleaseReservation(d.prior, "other", delta) BY <2>2 DEF SupersedeRelease
      <3>2. delta \in Int
        <4>1. d.seen \in RowType BY <1>1 DEF DriverType
        <4>. QED BY <4>1 DEF RowType
      <3> HIDE DEF delta
      <3>3. /\ row' \in [Attempts -> RowType] /\ used' \in Int
            /\ settled' \in [Attempts -> Seq({"own", "other"})]
            /\ \A c \in Attempts :
                 /\ Touch(row[c], row'[c], obj[c], obj[c], settled[c], settled'[c])
                 /\ Intact(row[c], row'[c], obj[c], obj[c])
        BY <1>5, <3>1, <3>2, ReleaseFacts
      <3>. QED BY <3>3, <1>2, StoreTyped DEF StoreTypes, Touches, Spares
    <2>. QED BY <2>1, <2>2
  <1>8. ~plan.overlap => Lost(n.prior) BY <1>1, <1>3 DEF ManifestInv, SoleInv
  <1> HIDE DEF n
  <1>. QED BY <1>1, <1>2, <1>3, <1>4, <1>6, <1>7, <1>8, EarlyMove

\* What a sweeper takes of one attempt: objects, and the row.
Takes(b) ==
  /\ Walks(b) \/ UNCHANGED <<obj, used>>
  /\ SoftDelete(b) \/ UNCHANGED row
  /\ UNCHANGED settled
\* The other attempts are left alone; so is this one, if it is spent.
LEMMA TakesFacts ==
  ASSUME ManifestInv, NEW b \in Attempts, Takes(b), used' \in Int
  PROVE  /\ StoreTypes' /\ \A c \in Attempts : Touches(c)
         /\ \A c \in Attempts \ {b} : Intact(row[c], row'[c], obj[c], obj'[c]) /\ Spares(c)
         /\ Spent(b) => Spares(b)
  <1>0. ManifestTypes BY DEF ManifestInv
  <1>1. /\ obj' \in [Attempts -> SUBSET Chunks]
        /\ \A c \in Attempts : obj'[c] \subseteq obj[c]
        /\ \A c \in Attempts \ {b} : obj'[c] = obj[c]
    <2>1. CASE Walks(b) BY <2>1, <1>0, WalkFacts
    <2>2. CASE UNCHANGED <<obj, used>> BY <2>2, <1>0 DEF ManifestTypes
    <2>. QED BY <2>1, <2>2 DEF Takes
  <1>2. /\ row' \in [Attempts -> RowType]
        /\ \A c \in Attempts \ {b} : row'[c] = row[c]
        /\ row'[b].partial = row[b].partial /\ row'[b].gen = row[b].gen
        /\ row'[b].count = row[b].count /\ row'[b].released = row[b].released
        /\ row'[b].state = row[b].state \/ (row[b].state = "active" /\ row'[b].state = "deleted")
    <2>1. CASE SoftDelete(b) BY <2>1, <1>0, SoftDeleteFacts
    <2>2. CASE UNCHANGED row BY <2>2, <1>0 DEF ManifestTypes
    <2>. QED BY <2>1, <2>2 DEF Takes
  <1>3. settled' = settled BY DEF Takes
  <1>4. StoreTypes' BY <1>0, <1>1, <1>2, <1>3 DEF StoreTypes, ManifestTypes
  <1>5. Touches(b) BY <1>1, <1>2, <1>3 DEF Touches, Touch
  <1>6. \A c \in Attempts \ {b} :
          Touches(c) /\ Intact(row[c], row'[c], obj[c], obj'[c]) /\ Spares(c)
    BY <1>1, <1>2, <1>3 DEF Touches, Touch, Intact, Spares
  <1>. QED BY <1>4, <1>5, <1>6 DEF Spares

\* The prior attempt's objects are swept, or left.
LEMMA SupersedeSweepStep ==
  ASSUME ManifestInv, NEW a \in Attempts, SupersedeSweep(a), used' \in Int
  PROVE  ManifestInv'
  <1> DEFINE d == driver[a]
             n == [d EXCEPT !.pc = "put", !.prior = 0, !.seen = NoRow]
  <1>1. d \in DriverType /\ d.pc = "sweep_prior" /\ Running(a) /\ Fresh(d)
    BY StoreTyped DEF SupersedeSweep, Running, Ended, Fresh
  <1>2. UNCHANGED <<plan, gen, grant, kept, sweeper>> BY DEF SupersedeSweep
  <1>3. n \in DriverType /\ Same(d, n) /\ n.pc = "put"
    BY Zenon, <1>1, IdleTypes DEF Pcs, DriverType, Same
  <1>4. To(a, n) BY DEF SupersedeSweep
  <1>5. d.prior \in Attempts /\ d.reserved > 0 BY <1>1, FreshFacts DEF Prepared
  <1>6. Prepared(n) BY <1>3, <1>5 DEF Prepared, Same
  <1>7. Takes(d.prior) BY DEF SupersedeSweep, Takes, Walks
  <1>8. ~plan.overlap => Spent(d.prior) BY <1>1 DEF ManifestInv, SoleInv, Spent
  <1>9. StoreTypes' /\ \A b \in Attempts : Touches(b) BY <1>5, <1>7, TakesFacts
  <1>10. ~plan.overlap => \A b \in Attempts : Spares(b) BY <1>5, <1>7, <1>8, TakesFacts
  <1> HIDE DEF n
  <1>. QED BY <1>1, <1>2, <1>3, <1>4, <1>6, <1>9, <1>10, EarlyMove

\* Put inserts the intent row, and leaves no other active partial row.
LEMMA PutStep ==
  ASSUME ManifestInv, NEW a \in Attempts, Put(a)
  PROVE  ManifestInv'
  <1> DEFINE d == driver[a]
             n == [d EXCEPT !.pc = "stream", !.intent = TRUE]
             r == IntentRow(d)
  <1>1. d \in DriverType /\ d.pc = "put" /\ Running(a) /\ Fresh(d)
    BY StoreTyped DEF Put, Running, Ended, Fresh
  <1>2. UNCHANGED <<plan, gen, obj, grant, kept, sweeper, settled>> BY DEF Put
  <1>3. CASE Dead(d) \/ Refused(a)
    <2>1. GiveBack(a) /\ UNCHANGED row BY <1>3 DEF Put
    <2>. QED BY <1>1, <1>2, <2>1, GiveBackStep
  <1>4. CASE ~(Dead(d) \/ Refused(a))
    <2>1. row' = Superseding(a, r) /\ To(a, n) /\ used' = used BY <1>4 DEF Put
    <2>2. /\ n \in DriverType /\ n.pc = "stream" /\ n.intent /\ n.gen = d.gen
          /\ n.reserved = d.reserved /\ n.acked = d.acked /\ n.checking = d.checking
          /\ n.counting = d.counting /\ n.queue = d.queue /\ n.declared = d.declared
      BY Zenon, <1>1 DEF DriverType, Pcs
    <2>3. /\ r \in RowType /\ r.state = "active" /\ r.partial /\ r.gen = d.gen
          /\ r.count = 0 /\ r.reason = "in_progress"
      <3>1. d.gen \in Nat /\ d.reserved \in Nat BY <1>1 DEF DriverType
      <3>. QED BY Zenon, <3>1, IdleTypes DEF IntentRow, NoRow, RowType
    <2>4. d.reserved > 0 /\ row[a].state = "none" BY <1>1, FreshFacts DEF Prepared
    <2>5. RowFacts(d, row[a], grant[a], obj[a], settled[a]) BY DEF ManifestInv, RowInv
    <2>6. /\ driver' \in [Attempts -> DriverType] /\ driver'[a] = n
          /\ \A b \in Attempts \ {a} : driver'[b] = driver[b]
      BY <2>1, <2>2, DriverTo DEF ManifestInv
    <2> HIDE DEF n, r
    <2>7. row'[a] = r /\ row' \in [Attempts -> RowType]
      <3>1. ASSUME NEW b \in Attempts
            PROVE  [row[b] EXCEPT !.state = "deleted", !.reason = "superseded"] \in RowType
        <4>1. row[b] \in RowType BY StoreTyped
        <4>. QED BY Zenon, <4>1 DEF RowType, Aborts, Reasons
      <3>. QED BY Zenon, <2>1, <2>3, <3>1, StoreTyped DEF Superseding
    <2>8. ASSUME NEW b \in Attempts \ {a}
          PROVE  /\ Touches(b) /\ ~(row'[b].state = "active" /\ row'[b].partial)
                 /\ ActivePartial(b) \/ Intact(row[b], row'[b], obj[b], obj'[b])
      <3>0. row[b] \in RowType BY StoreTyped
      <3>1. CASE ActivePartial(b)
        <4>1. row[b].gen <= d.gen
          <5>1. row[b].gen \in Nat /\ d.gen \in Nat BY <1>1, <3>0 DEF RowType, DriverType
          <5>2. ~(row[b].gen > d.gen) BY Zenon, <1>4, <3>1 DEF Refused
          <5>. QED BY <5>1, <5>2
        <4>2. Supersedes(b, r) BY <2>3, <3>1, <4>1 DEF Supersedes
        <4>3. row'[b] = [row[b] EXCEPT !.state = "deleted", !.reason = "superseded"]
          BY Zenon, <2>1, <4>2 DEF Superseding
        <4>4. /\ row'[b].state = "deleted" /\ row'[b].partial = row[b].partial
              /\ row'[b].gen = row[b].gen /\ row'[b].count = row[b].count
              /\ row'[b].released = row[b].released
          BY <3>0, <4>3 DEF RowType
        <4>. QED BY <3>1, <4>4, <1>2 DEF Touches, Touch, ActivePartial
      <3>2. CASE ~ActivePartial(b)
        <4>1. row'[b] = row[b] BY Zenon, <2>1, <3>2 DEF Superseding, Supersedes
        <4>. QED BY <3>2, <4>1, <1>2 DEF Touches, Touch, Intact, ActivePartial
      <3>. QED BY <3>1, <3>2
    <2>9. ManifestTypes'
      BY <1>2, <2>1, <2>6, <2>7 DEF ManifestInv, ManifestTypes
    <2>10. Others(a) BY <1>2, <2>6, <2>8 DEF Others
    <2>11. OwnRow(a)
      <3>1. RowFacts(n, r, grant[a], obj[a], settled[a])
        BY <2>2, <2>3, <2>4, <2>5 DEF RowFacts, Fresh, Prepared
      <3>. QED BY <3>1, <2>6, <2>7, <2>8, <1>2 DEF OwnRow
    <2>12. ASSUME ~plan.overlap PROVE OwnSole(a)
      <3>0. SoleInv BY <2>12 DEF ManifestInv
      <3>1. Alone(a)
        BY <1>1, <2>8, <2>12, OneRuns, IdleIsLost DEF Alone, Spares, Spent
      <3>2. Standing(n, r, grant[a], obj[a])
        <4>1. ChunkFacts(d, grant[a]) BY <3>0 DEF SoleInv, Standing
        <4>2. d.acked = {} /\ \A i \in Chunks : grant[a][i] = "none"
          BY <2>4, <2>5 DEF RowFacts
        <4>3. ChunkFacts(n, grant[a])
          BY <4>1, <4>2, <2>2 DEF ChunkFacts, Counting
        <4>4. HopeFacts(n, r, obj[a])
          <5>1. 0 <= n.declared BY <2>2 DEF DriverType
          <5>. QED BY <5>1, <4>2, <2>2, <2>3 DEF HopeFacts
        <4>5. EndFacts(n, r, obj[a]) BY <2>2, <2>3 DEF EndFacts
        <4>. QED BY <4>3, <4>4, <4>5 DEF Standing
      <3>3. a \notin Listed BY <2>4, <3>0 DEF SoleInv, Sound, Complete
      <3>4. ~Lost(a) BY <2>4 DEF Lost, Doomed
      <3>5. Behind(n) BY <1>1, <2>2, <3>0 DEF SoleInv, Behind
      <3>. QED BY <3>1, <3>2, <3>3, <3>4, <3>5, <1>2, <2>2, <2>6, <2>7 DEF OwnSole
    <2>. QED BY <1>2, <2>9, <2>10, <2>11, <2>12, OwnStep
  <1>. QED BY <1>3, <1>4

=============================================================================
