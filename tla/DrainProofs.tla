---------------------------- MODULE DrainProofs -----------------------------
(* The inductive invariant of Drain, for every set of sessions and every     *)
(* plan: which streams own the operation lock and wait for it, what a        *)
(* release does to them, the CheckpointBarrier calls up to their return, the *)
(* hooks; and the theorems.                                                  *)
EXTENDS Drain, TLAPS

Places == {"idle", "lock", "wait", "woken", "held", "chunks", "ended"}
StreamType ==
  [pc : Places,
   kind : {"none", "periodic", "barrier", "loop"}, linked : BOOLEAN]
StreamMaps == [Drainers -> [DrainSessions -> StreamType]]
OpsType ==
  [running : BOOLEAN, interrupt : BOOLEAN,
   pending : [DrainSessions -> Drainers \cup {"none"}]]

LockTypes ==
  /\ stream \in StreamMaps
  /\ ops \in OpsType
  /\ intr \in {"idle", "wait", "woken", "held"}

(* LockHasOneOwner, taken apart: nobody owns the lock in this assignment of  *)
(* streams and interrupt; one stream does; or the interrupt does.            *)
Vacant(streams, i) ==
  /\ i \notin Owning
  /\ \A q \in Drainers, t \in DrainSessions : streams[q][t].pc \notin Owning
Waiting(streams, i, o) ==
  /\ o.interrupt <=> i = "wait"
  /\ \A q \in Drainers, t \in DrainSessions :
       streams[q][t].pc = "wait" <=> o.pending[t] = q
  /\ o.interrupt => \A t \in DrainSessions : o.pending[t] = "none"
OwnedBy(streams, i, r, s) ==
  /\ i \notin Owning
  /\ streams[r][s].pc \in Owning
  /\ \A q \in Drainers, t \in DrainSessions :
       streams[q][t].pc \in Owning => q = r /\ t = s
Interrupting(streams, i) ==
  /\ i \in Owning
  /\ \A q \in Drainers, t \in DrainSessions : streams[q][t].pc \notin Owning
Unclaimed(o) == ~o.interrupt /\ \A t \in DrainSessions : o.pending[t] = "none"

LockState(streams, i, o) ==
  /\ Waiting(streams, i, o)
  /\ \/ ~o.running /\ Unclaimed(o) /\ Vacant(streams, i)
     \/ o.running /\ Interrupting(streams, i)
     \/ o.running /\ \E r \in Drainers, s \in DrainSessions :
                       OwnedBy(streams, i, r, s)

LockInv == LockTypes /\ LockState(stream, intr, ops)

-----------------------------------------------------------------------------
(* Updates of one stream.                                                    *)

\* A stream that goes to another place keeps the rest of its state.
LEMMA StreamMoves ==
  ASSUME NEW o \in StreamType,
         NEW p \in Places
  PROVE  /\ [o EXCEPT !.pc = p] \in StreamType
         /\ [o EXCEPT !.pc = p].pc = p
         /\ [o EXCEPT !.pc = p].linked = o.linked
         /\ [o EXCEPT !.pc = p].kind = o.kind
  BY DEF StreamType, Places

\* What the absent stream is.
LEMMA NoStreamTyped == NoStream \in StreamType /\ NoStream.pc = "idle" /\ ~NoStream.linked
  BY DEF NoStream, StreamType, Places

\* A set of sessions has a first member, which is the one that Min takes. The steps
\* are proved from this; FirstPending shows it.
HaveFirst == \A T \in SUBSET DrainSessions : T # {} => Min(T) \in T

\* The owner of the lock leaves: the lock passes to the interrupt that waits,
\* else to a checkpoint that waits, else it is free.
LEMMA Released ==
  ASSUME HaveFirst, LockTypes, ops.running, NEW streams \in StreamMaps,
         NEW i \in {"idle", "wait"}, Vacant(streams, i), Waiting(streams, i, ops),
         ReleaseOp(streams, i)
  PROVE  LockInv'
  <1>1. CASE ops.interrupt
    <2>1. ops' = [ops EXCEPT !.interrupt = FALSE] /\ intr' = "woken" /\ stream' = streams
      BY <1>1 DEF ReleaseOp
    <2>2. /\ ops' \in OpsType /\ ops'.running /\ ~ops'.interrupt /\ ops'.pending = ops.pending
      BY Zenon, <2>1 DEF LockTypes, OpsType
    <2>3. LockTypes' BY <2>1, <2>2 DEF LockTypes
    <2>4. Waiting(stream', intr', ops') BY <1>1, <2>1, <2>2 DEF Waiting
    <2>5. Interrupting(stream', intr') BY <2>1 DEF Interrupting, Vacant, Owning
    <2>. QED BY <2>2, <2>3, <2>4, <2>5 DEF LockInv, LockState
  <1>2. CASE ~ops.interrupt /\ Pending # {}
    <2>. DEFINE s == Min(Pending)
                q == ops.pending[s]
                n == [streams[q][s] EXCEPT !.pc = "woken"]
    <2>1. s \in DrainSessions /\ q # "none" BY <1>2 DEF Pending, HaveFirst
    <2>2. q \in Drainers BY <2>1 DEF LockTypes, OpsType
    <2>3. /\ ops' = [ops EXCEPT !.pending[s] = "none"] /\ intr' = i
          /\ stream' = [streams EXCEPT ![q][s].pc = "woken"]
      BY <1>2 DEF ReleaseOp
    <2>. HIDE DEF s
    <2>4. /\ ops' \in OpsType /\ ops'.running /\ ops'.interrupt = ops.interrupt
          /\ ops'.pending[s] = "none"
          /\ \A t \in DrainSessions \ {s} : ops'.pending[t] = ops.pending[t]
      BY <2>1, <2>3 DEF LockTypes, OpsType
    <2>. HIDE DEF q
    <2>5. streams[q][s] \in StreamType BY <2>1, <2>2 DEF StreamMaps
    <2>6. n \in StreamType /\ n.pc = "woken" BY Zenon, <2>5, StreamMoves DEF Places
    <2>7. stream' = [streams EXCEPT ![q][s] = n] BY <2>1, <2>2, <2>3 DEF StreamMaps
    <2>. HIDE DEF n
    <2>8. /\ stream' \in StreamMaps /\ stream'[q][s] = n
          /\ \A p \in Drainers, t \in DrainSessions :
               p # q \/ t # s => stream'[p][t] = streams[p][t]
      BY ONLY <2>1, <2>2, <2>6, <2>7, streams \in StreamMaps DEF StreamMaps
    <2>9. LockTypes' BY <2>3, <2>4, <2>8 DEF LockTypes
    <2>10. Waiting(stream', intr', ops')
      <3>1. ASSUME NEW p \in Drainers, NEW t \in DrainSessions
            PROVE  stream'[p][t].pc = "wait" <=> ops'.pending[t] = p
        <4>1. CASE t # s BY <2>4, <2>8, <4>1 DEF Waiting
        <4>2. CASE t = s /\ p = q BY <2>4, <2>6, <2>8, <4>2 DEF Drainers
        <4>3. CASE t = s /\ p # q
          <5>1. stream'[p][t] = streams[p][t] BY <2>8, <4>3
          <5>2. streams[p][t].pc # "wait" BY <2>1, <4>3 DEF Waiting, q
          <5>. QED BY <2>4, <4>3, <5>1, <5>2 DEF Drainers
        <4>. QED BY <4>1, <4>2, <4>3
      <3>. QED BY <1>2, <2>3, <2>4, <3>1 DEF Waiting
    <2>11. OwnedBy(stream', intr', q, s)
      BY <2>1, <2>2, <2>3, <2>6, <2>8 DEF OwnedBy, Vacant, Owning
    <2>. QED BY <2>1, <2>2, <2>4, <2>9, <2>10, <2>11 DEF LockInv, LockState
  <1>3. CASE ~ops.interrupt /\ Pending = {}
    <2>1. ops' = [ops EXCEPT !.running = FALSE] /\ stream' = streams /\ intr' = i
      BY <1>3 DEF ReleaseOp
    <2>2. /\ ops' \in OpsType /\ ~ops'.running /\ ops'.interrupt = ops.interrupt
          /\ ops'.pending = ops.pending
      BY Zenon, <2>1 DEF LockTypes, OpsType
    <2>3. LockTypes' BY <2>1, <2>2 DEF LockTypes
    <2>4. Waiting(stream', intr', ops') BY <2>1, <2>2 DEF Waiting
    <2>5. Unclaimed(ops') BY <1>3, <2>2 DEF Unclaimed, Pending
    <2>. QED BY <2>1, <2>2, <2>3, <2>4, <2>5 DEF LockInv, LockState
  <1>. QED BY <1>1, <1>2, <1>3

-----------------------------------------------------------------------------
(* Every step keeps the lock.                                                *)

\* The stream of r for s becomes n, and no other stream changes.
Becomes(r, s, n) ==
  /\ stream' \in StreamMaps /\ stream'[r][s] = n
  /\ \A q \in Drainers, t \in DrainSessions :
       q # r \/ t # s => stream'[q][t] = stream[q][t]

\* An update of one stream is such a step.
LEMMA BecomesStream ==
  ASSUME stream \in StreamMaps, NEW r \in Drainers, NEW s \in DrainSessions,
         NEW n \in StreamType, stream' = [stream EXCEPT ![r][s] = n]
  PROVE  Becomes(r, s, n)
  BY DEF StreamMaps, Becomes

\* A stream that changes its place and nothing else.
Placed(o, p) == [o EXCEPT !.pc = p]

\* So is a change of its place.
LEMMA GoesTo ==
  ASSUME stream \in StreamMaps, NEW r \in Drainers, NEW s \in DrainSessions,
         NEW p \in Places,
         stream' = [stream EXCEPT ![r][s].pc = p]
  PROVE  /\ Becomes(r, s, Placed(stream[r][s], p))
         /\ Placed(stream[r][s], p) \in StreamType
         /\ Placed(stream[r][s], p).pc = p
         /\ Placed(stream[r][s], p).linked = stream[r][s].linked
  <1>. DEFINE n == [stream[r][s] EXCEPT !.pc = p]
  <1>1. stream[r][s] \in StreamType BY DEF StreamMaps
  <1>2. n \in StreamType /\ n.pc = p /\ n.linked = stream[r][s].linked BY <1>1, StreamMoves
  <1>3. stream' = [stream EXCEPT ![r][s] = n] BY DEF StreamMaps
  <1>. HIDE DEF n
  <1>4. Becomes(r, s, n) BY Zenon, <1>2, <1>3, BecomesStream
  <1>. QED BY <1>2, <1>4 DEF Placed, n

\* A stream that goes on without the lock, or with it.
LEMMA Onward ==
  ASSUME LockInv, NEW r \in Drainers, NEW s \in DrainSessions, NEW n \in StreamType,
         Becomes(r, s, n), ops' = ops, intr' = intr,
         n.pc \in Owning <=> stream[r][s].pc \in Owning,
         n.pc = "wait" <=> stream[r][s].pc = "wait"
  PROVE  LockInv'
  <1>1. LockTypes' BY DEF LockInv, LockTypes, Becomes
  <1>2. \A q \in Drainers, t \in DrainSessions :
          /\ stream'[q][t].pc \in Owning <=> stream[q][t].pc \in Owning
          /\ stream'[q][t].pc = "wait" <=> stream[q][t].pc = "wait"
    BY DEF Becomes
  <1>3. Waiting(stream', intr', ops') BY <1>2 DEF LockInv, LockState, Waiting
  <1>4. Vacant(stream, intr) => Vacant(stream', intr') BY <1>2 DEF Vacant
  <1>5. Interrupting(stream, intr) => Interrupting(stream', intr') BY <1>2 DEF Interrupting
  <1>6. \A q \in Drainers, t \in DrainSessions :
          OwnedBy(stream, intr, q, t) => OwnedBy(stream', intr', q, t)
    BY <1>2 DEF OwnedBy
  <1>. QED BY ZenonT(60), <1>1, <1>3, <1>4, <1>5, <1>6 DEF LockInv, LockState

\* The stream that owns the lock returns.
LEMMA StreamLeaves ==
  ASSUME HaveFirst, LockInv, ops.running, NEW r \in Drainers, NEW s \in DrainSessions,
         OwnedBy(stream, intr, r, s), ReleaseOp([stream EXCEPT ![r][s] = NoStream], intr)
  PROVE  LockInv'
  <1>. DEFINE streams == [stream EXCEPT ![r][s] = NoStream]
  <1>0. LockTypes /\ stream \in StreamMaps /\ Waiting(stream, intr, ops)
    BY DEF LockInv, LockState, LockTypes
  <1>1. /\ streams \in StreamMaps /\ streams[r][s] = NoStream
        /\ \A q \in Drainers, t \in DrainSessions :
             q # r \/ t # s => streams[q][t] = stream[q][t]
    BY <1>0, NoStreamTyped DEF StreamMaps
  <1>2. ReleaseOp(streams, intr) OBVIOUS
  <1>. HIDE DEF streams
  <1>3. intr \in {"idle", "wait"} BY <1>0 DEF OwnedBy, Owning, LockTypes
  <1>4. Vacant(streams, intr) BY <1>1, NoStreamTyped DEF OwnedBy, Vacant, Owning
  <1>5. Waiting(streams, intr, ops) BY <1>0, <1>1, NoStreamTyped DEF Waiting, OwnedBy, Owning
  <1>. QED BY <1>0, <1>1, <1>2, <1>3, <1>4, <1>5, Released

\* A stream asks for the lock: it is free, the request is refused, or it waits.
LEMMA BeginStep ==
  ASSUME LockInv, NEW r \in Drainers, NEW s \in DrainSessions, BeginCheckpoint(r, s)
  PROVE  LockInv'
  <1>. LockTypes /\ stream \in StreamMaps BY DEF LockInv, LockTypes
  <1>0. stream[r][s].pc = "lock" /\ intr' = intr BY DEF BeginCheckpoint
  <1>1. CASE ~ops.running
    <2>1. ops' = [ops EXCEPT !.running = TRUE] /\ stream' = [stream EXCEPT ![r][s].pc = "held"]
      BY <1>1 DEF BeginCheckpoint
    <2>2. PICK n \in StreamType : Becomes(r, s, n) /\ n.pc = "held"
      BY Zenon, <2>1, GoesTo DEF Places
    <2>3. /\ ops' \in OpsType /\ ops'.running /\ ops'.interrupt = ops.interrupt
          /\ ops'.pending = ops.pending
      BY Zenon, <2>1 DEF LockTypes, OpsType
    <2>4. Waiting(stream, intr, ops) /\ Vacant(stream, intr)
      BY <1>1 DEF LockInv, LockState
    <2>5. Waiting(stream', intr', ops') BY <1>0, <2>2, <2>3, <2>4 DEF Waiting, Becomes
    <2>6. OwnedBy(stream', intr', r, s) BY <1>0, <2>2, <2>4 DEF OwnedBy, Vacant, Becomes, Owning
    <2>7. LockTypes' BY <1>0, <2>2, <2>3 DEF LockTypes, Becomes
    <2>. QED BY <2>3, <2>5, <2>6, <2>7 DEF LockInv, LockState
  <1>2. CASE ops.running /\ (ops.interrupt \/ s \in Pending)
    <2>1. ops' = ops /\ stream' = [stream EXCEPT ![r][s] = NoStream]
      BY <1>2 DEF BeginCheckpoint
    <2>2. Becomes(r, s, NoStream) BY Zenon, <2>1, NoStreamTyped, BecomesStream
    <2>. QED BY <1>0, <2>1, <2>2, NoStreamTyped, Onward DEF Owning
  <1>3. CASE ops.running /\ ~ops.interrupt /\ s \notin Pending
    <2>1. /\ ops' = [ops EXCEPT !.pending[s] = r]
          /\ stream' = [stream EXCEPT ![r][s].pc = "wait"]
      BY <1>3 DEF BeginCheckpoint
    <2>2. PICK n \in StreamType : Becomes(r, s, n) /\ n.pc = "wait"
      BY Zenon, <2>1, GoesTo DEF Places
    <2>3. /\ ops' \in OpsType /\ ops'.running /\ ops'.interrupt = ops.interrupt
          /\ ops'.pending[s] = r /\ ops.pending[s] = "none"
          /\ \A t \in DrainSessions \ {s} : ops'.pending[t] = ops.pending[t]
      BY <1>3, <2>1 DEF LockTypes, OpsType, Pending
    <2>4. Waiting(stream, intr, ops) BY DEF LockInv, LockState
    <2>5. Waiting(stream', intr', ops')
      BY <1>0, <1>3, <2>2, <2>3, <2>4 DEF Waiting, Becomes, Drainers
    <2>6. Interrupting(stream, intr) => Interrupting(stream', intr')
      BY <1>0, <2>2 DEF Interrupting, Becomes, Owning
    <2>7. \A q \in Drainers, t \in DrainSessions :
            OwnedBy(stream, intr, q, t) => OwnedBy(stream', intr', q, t)
      BY <1>0, <2>2 DEF OwnedBy, Becomes, Owning
    <2>8. LockTypes' BY <1>0, <2>2, <2>3 DEF LockTypes, Becomes
    <2>. QED BY ZenonT(60), <1>3, <2>3, <2>5, <2>6, <2>7, <2>8 DEF LockInv, LockState
  <1>. QED BY <1>1, <1>2, <1>3

\* A stream gives up while it waits, or hands on the lock it was given meanwhile.
LEMMA CancelStep ==
  ASSUME HaveFirst, LockInv, NEW r \in Drainers, NEW s \in DrainSessions, CancelCheckpoint(r, s)
  PROVE  LockInv'
  <1>. LockTypes /\ stream \in StreamMaps BY DEF LockInv, LockTypes
  <1>. DEFINE streams == [stream EXCEPT ![r][s] = NoStream]
  <1>0. /\ Waiting(stream, intr, ops) /\ stream[r][s].pc \in {"wait", "woken"}
        /\ intr \in {"idle", "wait", "woken", "held"}
    BY DEF LockInv, LockState, LockTypes, CancelCheckpoint
  <1>1. CASE ops.pending[s] = r
    <2>1. ops' = [ops EXCEPT !.pending[s] = "none"] /\ stream' = streams /\ intr' = intr
      BY <1>1 DEF CancelCheckpoint
    <2>2. Becomes(r, s, NoStream) BY Zenon, <2>1, NoStreamTyped, BecomesStream
    <2>3. /\ ops' \in OpsType /\ ops'.running = ops.running /\ ops'.interrupt = ops.interrupt
          /\ ops'.pending[s] = "none"
          /\ \A t \in DrainSessions \ {s} : ops'.pending[t] = ops.pending[t]
      BY <2>1 DEF LockTypes, OpsType
    <2>4. stream[r][s].pc = "wait" BY <1>0, <1>1 DEF Waiting
    <2>5. Waiting(stream', intr', ops')
      BY <1>0, <1>1, <2>1, <2>2, <2>3, NoStreamTyped DEF Waiting, Becomes, Drainers
    <2>6. Interrupting(stream, intr) => Interrupting(stream', intr')
      BY <2>1, <2>2, NoStreamTyped DEF Interrupting, Becomes, Owning
    <2>7. \A q \in Drainers, t \in DrainSessions :
            OwnedBy(stream, intr, q, t) => OwnedBy(stream', intr', q, t)
      BY <2>1, <2>2, <2>4, NoStreamTyped DEF OwnedBy, Becomes, Owning
    <2>8. LockTypes' BY <2>1, <2>2, <2>3 DEF LockTypes, Becomes
    <2>9. ops.running BY <1>1 DEF LockInv, LockState, Unclaimed, Drainers
    <2>. QED BY ZenonT(60), <2>3, <2>5, <2>6, <2>7, <2>8, <2>9 DEF LockInv, LockState
  <1>2. CASE ops.pending[s] # r
    <2>1. ReleaseOp(streams, intr) BY <1>2 DEF CancelCheckpoint
    <2>2. stream[r][s].pc = "woken" BY <1>0, <1>2 DEF Waiting
    <2>3. ops.running /\ OwnedBy(stream, intr, r, s)
      BY ZenonT(30), <2>2 DEF LockInv, LockState, Vacant, Interrupting, OwnedBy, Owning
    <2>. QED BY <1>0, <2>1, <2>3, StreamLeaves
  <1>. QED BY <1>1, <1>2

\* An interrupt asks for the lock, or wakes with it.
LEMMA InterruptBegins ==
  ASSUME LockInv, BeginInterrupt \/ WakeInterrupt
  PROVE  LockInv'
  <1>. LockTypes BY DEF LockInv
  <1>0. stream' = stream /\ Waiting(stream, intr, ops)
    BY DEF LockInv, LockState, BeginInterrupt, WakeInterrupt
  <1>1. CASE BeginInterrupt /\ ~ops.running
    <2>1. ops' = [ops EXCEPT !.running = TRUE] /\ intr' = "held" /\ intr = "idle"
      BY <1>1 DEF BeginInterrupt
    <2>2. /\ ops' \in OpsType /\ ops'.running /\ ops'.interrupt = ops.interrupt
          /\ ops'.pending = ops.pending
      BY Zenon, <2>1 DEF LockTypes, OpsType
    <2>3. Vacant(stream, intr) BY <1>1 DEF LockInv, LockState
    <2>4. Waiting(stream', intr', ops') BY <1>0, <2>1, <2>2 DEF Waiting
    <2>5. Interrupting(stream', intr') BY <1>0, <2>1, <2>3 DEF Interrupting, Vacant, Owning
    <2>6. LockTypes' BY <1>0, <2>1, <2>2 DEF LockTypes
    <2>. QED BY <2>2, <2>4, <2>5, <2>6 DEF LockInv, LockState
  <1>2. CASE BeginInterrupt /\ ops.running
    <2>1. /\ ops' = [ops EXCEPT !.interrupt = TRUE] /\ intr' = "wait" /\ intr = "idle"
          /\ Pending = {}
      BY <1>2 DEF BeginInterrupt
    <2>2. /\ ops' \in OpsType /\ ops'.running /\ ops'.interrupt /\ ops'.pending = ops.pending
      BY Zenon, <1>2, <2>1 DEF LockTypes, OpsType
    <2>3. PICK r \in Drainers, s \in DrainSessions : OwnedBy(stream, intr, r, s)
      BY <1>2, <2>1 DEF LockInv, LockState, Interrupting, Owning
    <2>4. Waiting(stream', intr', ops') BY <1>0, <2>1, <2>2 DEF Waiting, Pending
    <2>5. OwnedBy(stream', intr', r, s) BY <1>0, <2>1, <2>3 DEF OwnedBy, Owning
    <2>6. LockTypes' BY <1>0, <2>1, <2>2 DEF LockTypes
    <2>. QED BY <2>2, <2>4, <2>5, <2>6 DEF LockInv, LockState
  <1>3. CASE WakeInterrupt
    <2>1. ops' = ops /\ intr' = "held" /\ intr = "woken" BY <1>3 DEF WakeInterrupt
    <2>2. ops.running /\ Interrupting(stream, intr)
      BY <2>1 DEF LockInv, LockState, Vacant, OwnedBy, Owning
    <2>3. Waiting(stream', intr', ops') BY <1>0, <2>1 DEF Waiting
    <2>4. Interrupting(stream', intr') BY <1>0, <2>1, <2>2 DEF Interrupting, Owning
    <2>5. LockTypes' BY <1>0, <2>1 DEF LockTypes
    <2>. QED BY <2>1, <2>2, <2>3, <2>4, <2>5 DEF LockInv, LockState
  <1>. QED BY <1>1, <1>2, <1>3

\* An interrupt returns, or gives up while it waits for the lock.
LEMMA InterruptLeaves ==
  ASSUME HaveFirst, LockInv, CancelInterrupt \/ InterruptEnds
  PROVE  LockInv'
  <1>. LockTypes BY DEF LockInv
  <1>0. Waiting(stream, intr, ops) BY DEF LockInv, LockState
  <1>1. CASE CancelInterrupt /\ ops.interrupt
    <2>1. ops' = [ops EXCEPT !.interrupt = FALSE] /\ intr' = "idle" /\ stream' = stream
      BY <1>1 DEF CancelInterrupt
    <2>2. /\ ops' \in OpsType /\ ops'.running = ops.running /\ ~ops'.interrupt
          /\ ops'.pending = ops.pending
      BY Zenon, <2>1 DEF LockTypes, OpsType
    <2>3. intr = "wait" BY <1>0, <1>1 DEF Waiting
    <2>4. PICK r \in Drainers, s \in DrainSessions : ops.running /\ OwnedBy(stream, intr, r, s)
      BY <1>1, <2>3 DEF LockInv, LockState, Unclaimed, Interrupting, Owning
    <2>5. Waiting(stream', intr', ops') BY <1>0, <2>1, <2>2 DEF Waiting
    <2>6. OwnedBy(stream', intr', r, s) BY <2>1, <2>4 DEF OwnedBy, Owning
    <2>7. LockTypes' BY <2>1, <2>2 DEF LockTypes
    <2>. QED BY <2>2, <2>4, <2>5, <2>6, <2>7 DEF LockInv, LockState
  <1>2. CASE (CancelInterrupt /\ ~ops.interrupt) \/ InterruptEnds
    <2>1. intr \in Owning /\ ReleaseOp(stream, "idle")
      BY <1>0, <1>2 DEF CancelInterrupt, InterruptEnds, Waiting, Owning
    <2>2. ops.running /\ Interrupting(stream, intr)
      BY <2>1 DEF LockInv, LockState, Vacant, OwnedBy
    <2>3. Vacant(stream, "idle") BY <2>2 DEF Vacant, Interrupting, Owning
    <2>4. Waiting(stream, "idle", ops) BY <1>0, <2>1 DEF Waiting, Owning
    <2>5. stream \in StreamMaps BY DEF LockTypes
    <2>. QED BY <2>1, <2>2, <2>3, <2>4, <2>5, Released
  <1>. QED BY <1>1, <1>2

\* A stream opens: it has neither the lock nor a place in the queue.
LEMMA OpenStep ==
  ASSUME LockInv, NEW r \in Drainers, NEW s \in DrainSessions,
         NEW kind \in {"periodic", "barrier", "loop"},
         FlightFree(r, s), Open(r, s, kind), ops' = ops, intr' = intr
  PROVE  /\ LockInv'
         /\ \E n \in StreamType : Becomes(r, s, n) /\ n.pc = "lock" /\ ~n.linked
  <1>. DEFINE n == [NoStream EXCEPT !.pc = "lock", !.kind = kind]
  <1>1. n \in StreamType /\ n.pc = "lock" /\ ~n.linked BY Zenon DEF NoStream, StreamType, Places
  <1>2. stream' = [stream EXCEPT ![r][s] = n] BY DEF Open
  <1>3. stream \in StreamMaps BY DEF LockInv, LockTypes
  <1>. HIDE DEF n
  <1>4. Becomes(r, s, n) BY Zenon, <1>1, <1>2, <1>3, BecomesStream
  <1>5. LockInv' BY <1>1, <1>4, Onward DEF FlightFree, Owning
  <1>. QED BY <1>1, <1>4, <1>5

-----------------------------------------------------------------------------
(* Streams move.                                                             *)

\* No stream links, and a replica that drives none for a session still drives none.
Calm(f, h) ==
  \A q \in Drainers, t \in DrainSessions :
    /\ h[q][t].linked => f[q][t].linked
    /\ f[q][t] = NoStream => h[q][t] = NoStream

\* A stream that ends or moves on without linking.
LEMMA BecomesCalm ==
  ASSUME NEW r \in Drainers, NEW s \in DrainSessions, NEW n \in StreamType,
         Becomes(r, s, n), n.linked => stream[r][s].linked,
         stream[r][s] = NoStream => n = NoStream
  PROVE  Calm(stream, stream')
  BY DEF Calm, Becomes

\* So is one that only changes its place.
LEMMA GoesCalm ==
  ASSUME stream \in StreamMaps, NEW r \in Drainers, NEW s \in DrainSessions,
         NEW p \in Places,
         stream[r][s].pc # "idle", stream' = [stream EXCEPT ![r][s].pc = p]
  PROVE  Calm(stream, stream')
  <1>1. /\ Becomes(r, s, Placed(stream[r][s], p)) /\ Placed(stream[r][s], p) \in StreamType
        /\ Placed(stream[r][s], p).linked = stream[r][s].linked
    BY Zenon, GoesTo
  <1>2. stream[r][s] # NoStream BY NoStreamTyped
  <1>. QED BY Zenon, <1>1, <1>2, BecomesCalm

\* The release of the lock wakes a stream that waited.
LEMMA ReleaseCalm ==
  ASSUME HaveFirst, LockTypes, NEW streams \in StreamMaps, NEW i, Waiting(streams, i, ops),
         ReleaseOp(streams, i)
  PROVE  Calm(streams, stream')
  <1>1. CASE ops.interrupt \/ Pending = {} BY <1>1 DEF ReleaseOp, Calm
  <1>2. CASE ~ops.interrupt /\ Pending # {}
    <2>. DEFINE s == Min(Pending)
                q == ops.pending[s]
                n == [streams[q][s] EXCEPT !.pc = "woken"]
    <2>1. s \in DrainSessions /\ q # "none" BY <1>2 DEF Pending, HaveFirst
    <2>2. q \in Drainers BY <2>1 DEF LockTypes, OpsType
    <2>3. stream' = [streams EXCEPT ![q][s].pc = "woken"] BY <1>2 DEF ReleaseOp
    <2>. HIDE DEF s
    <2>4. streams[q][s].pc = "wait" BY <2>1, <2>2 DEF Waiting
    <2>. HIDE DEF q
    <2>5. streams[q][s] \in StreamType BY <2>1, <2>2 DEF StreamMaps
    <2>6. n \in StreamType /\ n.linked = streams[q][s].linked BY Zenon, <2>5, StreamMoves DEF Places
    <2>7. stream' = [streams EXCEPT ![q][s] = n] BY <2>1, <2>2, <2>3 DEF StreamMaps
    <2>. HIDE DEF n
    <2>8. /\ stream'[q][s] = n
          /\ \A p \in Drainers, t \in DrainSessions :
               p # q \/ t # s => stream'[p][t] = streams[p][t]
      BY ONLY <2>1, <2>2, <2>6, <2>7, streams \in StreamMaps DEF StreamMaps
    <2>9. streams[q][s] # NoStream BY <2>4, NoStreamTyped
    <2>. QED BY ZenonT(30), <2>6, <2>8, <2>9 DEF Calm
  <1>. QED BY <1>1, <1>2

\* The steps of the lock are calm.
LEMMA LockIsCalm ==
  ASSUME HaveFirst, LockInv, NEW r \in Drainers, NEW s \in DrainSessions,
         \/ BeginCheckpoint(r, s) \/ WakeCheckpoint(r, s) \/ CancelCheckpoint(r, s)
         \/ StreamReleases(r, s)
  PROVE  Calm(stream, stream')
  <1>. LockTypes /\ stream \in StreamMaps /\ Waiting(stream, intr, ops)
    BY DEF LockInv, LockTypes, LockState
  <1>. DEFINE streams == [stream EXCEPT ![r][s] = NoStream]
  <1>0. ASSUME stream[r][s].pc # "idle",
               NEW p \in Places,
               stream' = [stream EXCEPT ![r][s].pc = p]
        PROVE  Calm(stream, stream')
    BY ONLY Zenon, <1>0, stream \in StreamMaps, r \in Drainers, s \in DrainSessions, GoesCalm
  <1>1. ASSUME stream' = streams PROVE Calm(stream, stream')
    BY Zenon, <1>1, NoStreamTyped, BecomesStream, BecomesCalm
  <1>2. ASSUME stream[r][s].pc \in Owning, ReleaseOp(streams, intr)
        PROVE  Calm(stream, stream')
    <2>1. /\ streams \in StreamMaps /\ streams[r][s] = NoStream
          /\ \A q \in Drainers, t \in DrainSessions :
               q # r \/ t # s => streams[q][t] = stream[q][t]
      BY NoStreamTyped DEF StreamMaps
    <2>2. ReleaseOp(streams, intr) BY <1>2
    <2>. HIDE DEF streams
    <2>3. ops.pending[s] # r BY <1>2 DEF Waiting, Owning
    <2>4. Waiting(streams, intr, ops) BY <1>2, <2>1, <2>3, NoStreamTyped DEF Waiting, Owning
    <2>5. Calm(streams, stream') BY <2>1, <2>2, <2>4, ReleaseCalm
    <2>. QED BY <2>1, <2>5, NoStreamTyped DEF Calm
  <1>3. CASE BeginCheckpoint(r, s) BY <1>0, <1>1, <1>3 DEF BeginCheckpoint, Places
  <1>4. CASE WakeCheckpoint(r, s) BY <1>0, <1>4 DEF WakeCheckpoint, Places
  <1>5. CASE CancelCheckpoint(r, s)
    <2>1. CASE ops.pending[s] = r BY <1>1, <1>5, <2>1 DEF CancelCheckpoint
    <2>2. CASE ops.pending[s] # r
      <3>1. stream[r][s].pc = "woken" /\ ReleaseOp(streams, intr)
        BY <1>5, <2>2 DEF CancelCheckpoint, Waiting
      <3>. QED BY <1>2, <3>1 DEF Owning
    <2>. QED BY <2>1, <2>2
  <1>6. CASE StreamReleases(r, s) BY <1>2, <1>6 DEF StreamReleases, Owning
  <1>. QED BY <1>3, <1>4, <1>5, <1>6

\* So is an interrupt that leaves.
LEMMA InterruptIsCalm ==
  ASSUME HaveFirst, LockInv, CancelInterrupt \/ InterruptEnds
  PROVE  Calm(stream, stream')
  <1>. LockTypes /\ stream \in StreamMaps /\ Waiting(stream, intr, ops)
    BY DEF LockInv, LockTypes, LockState
  <1>1. CASE stream' = stream BY <1>1 DEF Calm
  <1>2. CASE ReleaseOp(stream, "idle") /\ intr \in {"woken", "held"}
    <2>1. Waiting(stream, "idle", ops) BY <1>2 DEF Waiting
    <2>. QED BY <1>2, <2>1, ReleaseCalm
  <1>. QED BY <1>1, <1>2 DEF CancelInterrupt, InterruptEnds, Waiting

-----------------------------------------------------------------------------
(* The barriers.                                                             *)

CallType ==
  [pc : {"idle", "sent", "admitted", "quiesced", "holding", "acking", "late"},
   closed : BOOLEAN, ref : Drainers \cup {"none"},
   result : {"none", "stale", "failed", "acked"}, covered : BOOLEAN]
GateType ==
  [waiting : BOOLEAN, ref : Drainers \cup {"none"}, signaled : BOOLEAN,
   chan : Drainers \cup {"none"}]
HookType ==
  [pc : {"up", "barrier", "loop", "done"}, expired : BOOLEAN,
   starting : SUBSET DrainSessions, todo : SUBSET DrainSessions]

BarrierTypes ==
  /\ dplan \in DrainPlans
  /\ owner \in [DrainSessions -> Drainers]
  /\ quiesced \in [DrainSessions -> BOOLEAN]
  /\ gate \in [DrainSessions -> GateType]
  /\ call \in [Drainers -> [DrainSessions -> CallType]]
  /\ hook \in [Drainers -> HookType]

(* A call is signalled only after a stream ended under it, and acknowledges  *)
(* only after it was signalled.                                              *)
Signalled(c) ==
  /\ c.closed => c.covered /\ c.pc \in {"holding", "acking", "late", "idle"}
  /\ c.pc = "acking" => c.closed
  /\ c.result = "acked" => c.covered /\ c.pc = "idle"

Holds(c) == c.pc \in {"quiesced", "holding", "acking", "late"}

(* Nobody takes over: the gate and the stream of a session serve one call.   *)
Alone == "takeover" \notin dplan.moves
Solo(c, g, st, h, q) ==
  /\ Holds(c) => q
  /\ c.closed \/ st.linked => /\ g.ref = "old" /\ h # "up"
                              /\ c.pc \notin {"sent", "admitted", "quiesced"}
  /\ c.pc = "acking" \/ c.result = "acked" => c.ref = "old"

AloneState ==
  /\ hook["new"].pc = "up" /\ hook["new"].starting = {} /\ hook["new"].todo = {}
  /\ \A s \in DrainSessions :
       /\ owner[s] = "old" /\ stream["new"][s] = NoStream
       /\ Solo(call["old"][s], gate[s], stream["old"][s], hook["old"].pc, quiesced[s])

BarrierInv ==
  /\ BarrierTypes
  /\ \A r \in Drainers : hook[r].pc = "up" => \A s \in DrainSessions : call[r][s] = NoCall
  /\ \A s \in DrainSessions :
       gate[s].waiting => gate[s].chan \in Drainers /\ call[gate[s].chan][s].pc = "holding"
  /\ \A r \in Drainers, s \in DrainSessions : Signalled(call[r][s])
  /\ \A s \in DrainSessions : quiesced[s] => \E r \in Drainers : Holds(call[r][s])
  /\ Alone => AloneState

\* A step of one call on the pod: it becomes c, the gate of its session g and the
\* session's quiesce flag b.
LEMMA CallBecomes ==
  ASSUME BarrierInv, NEW r \in Drainers, NEW s \in DrainSessions,
         NEW c \in CallType, NEW g \in GateType, NEW b \in BOOLEAN,
         call' = [call EXCEPT ![r][s] = c], gate' = [gate EXCEPT ![s] = g],
         quiesced' = [quiesced EXCEPT ![s] = b],
         UNCHANGED <<dplan, owner, stream, hook>>,
         call[r][s] # NoCall, Signalled(c),
         g.waiting => /\ g.chan \in Drainers
                      /\ g.chan = r => c.pc = "holding"
                      /\ g.chan # r => call[g.chan][s].pc = "holding",
         b => Holds(c) \/ \E q \in Drainers \ {r} : Holds(call[q][s]),
         Alone /\ r = "old" => Solo(c, g, stream["old"][s], hook["old"].pc, b)
  PROVE  BarrierInv'
  <1>. BarrierTypes BY DEF BarrierInv
  <1>1. /\ call' \in [Drainers -> [DrainSessions -> CallType]]
        /\ call'[r][s] = c
        /\ \A q \in Drainers, t \in DrainSessions : q # r \/ t # s => call'[q][t] = call[q][t]
    BY DEF BarrierTypes
  <1>2. /\ gate' \in [DrainSessions -> GateType] /\ gate'[s] = g
        /\ \A t \in DrainSessions \ {s} : gate'[t] = gate[t]
        /\ quiesced' \in [DrainSessions -> BOOLEAN] /\ quiesced'[s] = b
        /\ \A t \in DrainSessions \ {s} : quiesced'[t] = quiesced[t]
    BY DEF BarrierTypes
  <1>3. BarrierTypes' BY <1>1, <1>2 DEF BarrierTypes
  <1>4. hook[r].pc # "up" BY DEF BarrierInv
  <1>5. ASSUME NEW q \in Drainers, hook'[q].pc = "up", NEW t \in DrainSessions
        PROVE  call'[q][t] = NoCall
    BY <1>1, <1>4, <1>5 DEF BarrierInv
  <1>6. ASSUME NEW t \in DrainSessions, gate'[t].waiting
        PROVE  gate'[t].chan \in Drainers /\ call'[gate'[t].chan][t].pc = "holding"
    <2>1. CASE t = s BY <1>1, <1>2, <1>6, <2>1
    <2>2. CASE t # s BY <1>1, <1>2, <1>6, <2>2 DEF BarrierInv
    <2>. QED BY <2>1, <2>2
  <1>7. \A q \in Drainers, t \in DrainSessions : Signalled(call'[q][t])
    BY ZenonT(30), <1>1 DEF BarrierInv
  <1>8. ASSUME NEW t \in DrainSessions, quiesced'[t]
        PROVE  \E q \in Drainers : Holds(call'[q][t])
    <2>1. CASE t = s BY <1>1, <1>2, <1>8, <2>1
    <2>2. CASE t # s BY <1>1, <1>2, <1>8, <2>2 DEF BarrierInv
    <2>. QED BY <2>1, <2>2
  <1>9. ASSUME Alone' PROVE AloneState'
    <2>1. Alone BY <1>9 DEF Alone
    <2>2. r = "old" BY ZenonT(30), <1>4, <2>1 DEF BarrierInv, AloneState, Drainers
    <2>3. \A t \in DrainSessions :
            Solo(call'["old"][t], gate'[t], stream["old"][t], hook["old"].pc, quiesced'[t])
      <3>. TAKE t \in DrainSessions
      <3>1. CASE t = s BY <1>1, <1>2, <2>1, <2>2, <3>1
      <3>2. CASE t # s BY ZenonT(30), <1>1, <1>2, <2>1, <3>2 DEF BarrierInv, AloneState, Drainers
      <3>. QED BY <3>1, <3>2
    <2>4. stream' = stream /\ hook' = hook /\ owner' = owner OBVIOUS
    <2>5. \A t \in DrainSessions :
            Solo(call["old"][t], gate[t], stream["old"][t], hook["old"].pc, quiesced[t])'
      BY ZenonT(30), <2>3, <2>4 DEF Solo, Holds
    <2>. QED BY <2>1, <2>4, <2>5 DEF BarrierInv, AloneState
  <1>. QED BY ZenonT(30), <1>3, <1>5, <1>6, <1>7, <1>8, <1>9 DEF BarrierInv

\* What the invariant says of a call that is on its way.
LEMMA CallFacts ==
  ASSUME BarrierInv, NEW r \in Drainers, NEW s \in DrainSessions
  PROVE  /\ call[r][s] \in CallType /\ gate[s] \in GateType /\ quiesced[s] \in BOOLEAN
         /\ call \in [Drainers -> [DrainSessions -> CallType]]
         /\ gate \in [DrainSessions -> GateType] /\ quiesced \in [DrainSessions -> BOOLEAN]
         /\ Signalled(call[r][s])
         /\ gate[s].waiting =>
              gate[s].chan \in Drainers /\ call[gate[s].chan][s].pc = "holding"
         /\ quiesced[s] => \E q \in Drainers : Holds(call[q][s])
         /\ Alone => Solo(call["old"][s], gate[s], stream["old"][s], hook["old"].pc, quiesced[s])
  BY ZenonT(30) DEF BarrierInv, BarrierTypes, AloneState

\* The admission of a barrier, and the end of its window, touch nothing but the call.
LEMMA AdmitStep ==
  ASSUME BarrierInv, NEW r \in Drainers, NEW s \in DrainSessions,
         BarrierAdmit(r, s) \/ SendFails(r, s)
  PROVE  BarrierInv'
  <1>. DEFINE o == call[r][s]
  <1>0. /\ gate' = [gate EXCEPT ![s] = gate[s]] /\ quiesced' = [quiesced EXCEPT ![s] = quiesced[s]]
        /\ UNCHANGED <<dplan, owner, stream, hook>>
    BY CallFacts DEF BarrierAdmit, SendFails
  <1>1. PICK c : /\ call' = [call EXCEPT ![r][s] = c]
                 /\ \/ o.pc = "sent" /\ c = [o EXCEPT !.pc = "admitted"]
                    \/ /\ o.pc = "sent" /\ c = [o EXCEPT !.pc = "idle", !.result =
                                                  IF @ = "none" THEN "stale" ELSE @]
                    \/ /\ o.pc # "idle" /\ o.result = "none"
                       /\ c = [o EXCEPT !.result = "failed"]
    BY Zenon DEF BarrierAdmit, SendFails, CallTo
  <1>2. o \in CallType /\ o # NoCall BY <1>1, CallFacts DEF NoCall
  <1>3. /\ c \in CallType /\ c.closed = o.closed /\ c.covered = o.covered /\ c.ref = o.ref
        /\ \/ o.pc = "sent" /\ c.pc \in {"idle", "admitted"}
           \/ o.pc # "idle" /\ c.pc = o.pc
        /\ c.result = "acked" => o.result = "acked"
    BY Zenon, <1>1, <1>2 DEF CallType
  <1>. HIDE DEF o
  <1>4. Signalled(o) BY CallFacts DEF o
  <1>5. Signalled(c) BY <1>3, <1>4 DEF Signalled
  <1>6. gate[s].waiting => /\ gate[s].chan \in Drainers
                           /\ gate[s].chan = r => c.pc = "holding"
                           /\ gate[s].chan # r => call[gate[s].chan][s].pc = "holding"
    BY ZenonT(30), <1>3, CallFacts DEF o
  <1>7. quiesced[s] => Holds(c) \/ \E q \in Drainers \ {r} : Holds(call[q][s])
    BY ZenonT(30), <1>3, CallFacts DEF Holds, o
  <1>8. Alone /\ r = "old" => Solo(c, gate[s], stream["old"][s], hook["old"].pc, quiesced[s])
    <2>1. ASSUME Alone, r = "old"
          PROVE  Solo(o, gate[s], stream["old"][s], hook["old"].pc, quiesced[s])
      BY <2>1, CallFacts DEF o
    <2>. QED BY <1>3, <1>4, <2>1 DEF Solo, Holds, Signalled
  <1>9. call[r][s] # NoCall /\ gate[s] \in GateType /\ quiesced[s] \in BOOLEAN
    BY <1>2, CallFacts DEF o
  <1>. QED BY Zenon, <1>0, <1>1, <1>3, <1>5, <1>6, <1>7, <1>8, <1>9, CallBecomes

\* The session is quiesced, and the gate opened for the call.
LEMMA QuiesceStep ==
  ASSUME BarrierInv, NEW r \in Drainers, NEW s \in DrainSessions,
         BarrierQuiesce(r, s) \/ BarrierOpen(r, s)
  PROVE  BarrierInv'
  <1>. DEFINE o == call[r][s]
  <1>0. o \in CallType /\ Signalled(o) BY CallFacts
  <1>1. CASE BarrierQuiesce(r, s)
    <2>. DEFINE c == [o EXCEPT !.pc = "quiesced"]
    <2>1. /\ call' = [call EXCEPT ![r][s] = c] /\ gate' = [gate EXCEPT ![s] = gate[s]]
          /\ quiesced' = [quiesced EXCEPT ![s] = TRUE] /\ o.pc = "admitted"
          /\ UNCHANGED <<dplan, owner, stream, hook>>
      BY <1>1, CallFacts DEF BarrierQuiesce, CallTo
    <2>2. /\ c \in CallType /\ c.pc = "quiesced" /\ c.closed = o.closed /\ c.covered = o.covered
          /\ c.ref = o.ref /\ c.result = o.result /\ o # NoCall
      BY <1>0, <2>1 DEF CallType, NoCall
    <2>. HIDE DEF c, o
    <2>3. ~o.closed /\ Signalled(c) /\ Holds(c) BY <1>0, <2>1, <2>2 DEF Signalled, Holds
    <2>4. gate[s].waiting => /\ gate[s].chan \in Drainers
                             /\ gate[s].chan = r => c.pc = "holding"
                             /\ gate[s].chan # r => call[gate[s].chan][s].pc = "holding"
      BY <2>1, CallFacts DEF o
    <2>5. Alone /\ r = "old" => Solo(c, gate[s], stream["old"][s], hook["old"].pc, TRUE)
      <3>1. ASSUME Alone, r = "old"
            PROVE  Solo(o, gate[s], stream["old"][s], hook["old"].pc, quiesced[s])
        BY <3>1, CallFacts DEF o
      <3>. QED BY <2>1, <2>2, <2>3, <3>1 DEF Solo
    <2>6. call[r][s] # NoCall /\ gate[s] \in GateType BY ZenonT(30), <2>2, CallFacts DEF o
    <2>. QED BY Zenon, <2>1, <2>2, <2>3, <2>4, <2>5, <2>6, CallBecomes
  <1>2. CASE BarrierOpen(r, s)
    <2>. DEFINE c == [o EXCEPT !.pc = "holding"]
                g == [ClosedGate EXCEPT !.waiting = TRUE, !.chan = r]
    <2>1. /\ call' = [call EXCEPT ![r][s] = c] /\ gate' = [gate EXCEPT ![s] = g]
          /\ quiesced' = [quiesced EXCEPT ![s] = quiesced[s]] /\ o.pc = "quiesced"
          /\ UNCHANGED <<dplan, owner, stream, hook>>
      BY <1>2, CallFacts DEF BarrierOpen, CallTo
    <2>2. /\ c \in CallType /\ c.pc = "holding" /\ c.closed = o.closed /\ c.covered = o.covered
          /\ c.ref = o.ref /\ c.result = o.result /\ o # NoCall
      BY <1>0, <2>1 DEF CallType, NoCall
    <2>3. g \in GateType /\ g.chan = r BY Zenon DEF GateType, ClosedGate
    <2>. HIDE DEF c, g, o
    <2>4. ~o.closed /\ Signalled(c) /\ Holds(c) BY <1>0, <2>1, <2>2 DEF Signalled, Holds
    <2>5. Alone /\ r = "old" => Solo(c, g, stream["old"][s], hook["old"].pc, quiesced[s])
      <3>1. ASSUME Alone, r = "old"
            PROVE  Solo(o, gate[s], stream["old"][s], hook["old"].pc, quiesced[s])
        BY <3>1, CallFacts DEF o
      <3>. QED BY <2>1, <2>2, <2>4, <3>1 DEF Solo, Holds
    <2>6. call[r][s] # NoCall /\ quiesced[s] \in BOOLEAN BY ZenonT(30), <2>2, CallFacts DEF o
    <2>. QED BY Zenon, <2>1, <2>2, <2>3, <2>4, <2>5, <2>6, CallBecomes
  <1>. QED BY <1>1, <1>2

\* The barrier stops waiting, and answers.
LEMMA ReturnStep ==
  ASSUME BarrierInv, NEW r \in Drainers, NEW s \in DrainSessions,
         BarrierRelease(r, s) \/ BarrierReturn(r, s)
  PROVE  BarrierInv'
  <1>. DEFINE o == call[r][s]
  <1>0. o \in CallType /\ Signalled(o) /\ gate[s] \in GateType /\ quiesced[s] \in BOOLEAN
    BY ZenonT(30), CallFacts
  <1>1. CASE BarrierRelease(r, s)
    <2>. DEFINE g == [gate[s] EXCEPT !.waiting = FALSE]
    <2>1. PICK c : /\ call' = [call EXCEPT ![r][s] = c]
                   /\ \/ o.closed /\ c = [o EXCEPT !.pc = "acking", !.ref = gate[s].ref]
                      \/ c = [o EXCEPT !.pc = "late"]
      BY Zenon, <1>1 DEF BarrierRelease, CallTo
    <2>2. /\ gate' = [gate EXCEPT ![s] = g] /\ quiesced' = [quiesced EXCEPT ![s] = quiesced[s]]
          /\ o.pc = "holding" /\ UNCHANGED <<dplan, owner, stream, hook>>
      BY <1>1, CallFacts DEF BarrierRelease
    <2>3. /\ c \in CallType /\ c.closed = o.closed /\ c.covered = o.covered
          /\ c.result = o.result /\ o # NoCall
          /\ \/ o.closed /\ c.pc = "acking" /\ c.ref = gate[s].ref
             \/ c.pc = "late" /\ c.ref = o.ref
      <3>0. o # NoCall BY <2>2 DEF NoCall
      <3>1. gate[s].ref \in Drainers \cup {"none"} BY ZenonT(30), <1>0 DEF GateType
      <3>. HIDE DEF o
      <3>2. CASE o.closed /\ c = [o EXCEPT !.pc = "acking", !.ref = gate[s].ref]
        BY Zenon, <1>0, <3>0, <3>1, <3>2 DEF CallType
      <3>3. CASE c = [o EXCEPT !.pc = "late"] BY <1>0, <3>0, <3>3 DEF CallType
      <3>. QED BY <2>1, <3>2, <3>3 DEF o
    <2>4. g \in GateType /\ ~g.waiting /\ g.ref = gate[s].ref BY Zenon, <1>0 DEF GateType
    <2>. HIDE DEF g, o
    <2>5. Signalled(c) /\ Holds(c) BY <1>0, <2>2, <2>3 DEF Signalled, Holds
    <2>6. Alone /\ r = "old" => Solo(c, g, stream["old"][s], hook["old"].pc, quiesced[s])
      <3>1. ASSUME Alone, r = "old"
            PROVE  Solo(o, gate[s], stream["old"][s], hook["old"].pc, quiesced[s])
        BY <3>1, CallFacts DEF o
      <3>. QED BY <1>0, <2>2, <2>3, <2>4, <3>1 DEF Solo, Holds, Signalled
    <2>7. call[r][s] # NoCall BY <2>3 DEF o
    <2>. QED BY Zenon, <1>0, <2>1, <2>2, <2>3, <2>4, <2>5, <2>6, <2>7, CallBecomes
  <1>2. CASE BarrierReturn(r, s)
    <2>1. PICK c : /\ call' = [call EXCEPT ![r][s] = c]
                   /\ \/ /\ o.pc = "acking" /\ c = [o EXCEPT !.pc = "idle", !.result = "acked"]
                      \/ c = [NoCall EXCEPT !.result =
                                IF o.result = "none" THEN "failed" ELSE o.result]
      BY Zenon, <1>2 DEF BarrierReturn, CallTo
    <2>2. /\ gate' = [gate EXCEPT ![s] = gate[s]] /\ quiesced' = [quiesced EXCEPT ![s] = FALSE]
          /\ o.pc \in {"acking", "late"} /\ UNCHANGED <<dplan, owner, stream, hook>>
      BY <1>2, CallFacts DEF BarrierReturn
    <2>3. /\ c \in CallType /\ c.pc = "idle" /\ o # NoCall
          /\ \/ /\ o.pc = "acking" /\ c.closed = o.closed /\ c.covered = o.covered
                /\ c.ref = o.ref
             \/ ~c.closed /\ (c.result = "acked" => o.result = "acked")
      <3>0. o # NoCall BY <2>2 DEF NoCall
      <3>. HIDE DEF o
      <3>1. CASE o.pc = "acking" /\ c = [o EXCEPT !.pc = "idle", !.result = "acked"]
        BY Zenon, <1>0, <3>0, <3>1 DEF CallType
      <3>2. CASE c = [NoCall EXCEPT !.result = IF o.result = "none" THEN "failed" ELSE o.result]
        BY Zenon, <1>0, <3>0, <3>2 DEF CallType, NoCall
      <3>. QED BY <2>1, <3>1, <3>2 DEF o
    <2>. HIDE DEF o
    <2>4. Signalled(c) BY <1>0, <2>2, <2>3 DEF Signalled
    <2>5. gate[s].waiting => /\ gate[s].chan \in Drainers
                             /\ gate[s].chan = r => c.pc = "holding"
                             /\ gate[s].chan # r => call[gate[s].chan][s].pc = "holding"
      BY <2>2, CallFacts DEF o
    <2>6. Alone /\ r = "old" => Solo(c, gate[s], stream["old"][s], hook["old"].pc, FALSE)
      <3>1. ASSUME Alone, r = "old"
            PROVE  Solo(o, gate[s], stream["old"][s], hook["old"].pc, quiesced[s])
        BY <3>1, CallFacts DEF o
      <3>. QED BY <1>0, <2>2, <2>3, <3>1 DEF Solo, Holds, Signalled
    <2>7. call[r][s] # NoCall BY <2>3 DEF o
    <2>. QED BY Zenon, <1>0, <2>1, <2>2, <2>3, <2>4, <2>5, <2>6, <2>7, CallBecomes
  <1>. QED BY <1>1, <1>2

-----------------------------------------------------------------------------
(* The streams that link and end.                                            *)

\* The step leaves the lease and the other replica alone, and links no stream.
NewIdle ==
  /\ owner' = owner /\ hook'["new"].starting = {} /\ hook'["new"].todo = {}
  /\ \A t \in DrainSessions : /\ stream'["new"][t] = NoStream
                              /\ stream'["old"][t].linked => stream["old"][t].linked

\* A step that touches neither a call nor a gate: of the hooks, of the streams
\* on their way to the lock and from it, of the lease.
LEMMA Bystander ==
  ASSUME BarrierInv, UNCHANGED <<dplan, quiesced, gate, call>>,
         owner' \in [DrainSessions -> Drainers], hook' \in [Drainers -> HookType],
         \A r \in Drainers : hook'[r].pc = "up" <=> hook[r].pc = "up",
         Alone => NewIdle
  PROVE  BarrierInv'
  <1>. BarrierTypes BY DEF BarrierInv
  <1>1. BarrierTypes' BY DEF BarrierTypes
  <1>2. \A r \in Drainers : hook'[r].pc = "up" => \A s \in DrainSessions : call'[r][s] = NoCall
    BY DEF BarrierInv
  <1>3. \A s \in DrainSessions :
          gate'[s].waiting => gate'[s].chan \in Drainers /\ call'[gate'[s].chan][s].pc = "holding"
    BY DEF BarrierInv
  <1>4. \A r \in Drainers, s \in DrainSessions : Signalled(call'[r][s]) BY DEF BarrierInv
  <1>5. \A s \in DrainSessions : quiesced'[s] => \E r \in Drainers : Holds(call'[r][s])
    BY DEF BarrierInv
  <1>6. ASSUME Alone' PROVE AloneState'
    <2>1. Alone BY <1>6 DEF Alone
    <2>2. AloneState /\ NewIdle BY <2>1 DEF BarrierInv
    <2>3. (hook["new"].pc = "up")' BY <2>2 DEF AloneState, Drainers
    <2>4. \A t \in DrainSessions :
            Solo(call["old"][t], gate[t], stream["old"][t], hook["old"].pc, quiesced[t])'
      BY <2>2 DEF AloneState, NewIdle, Solo, Holds, Drainers
    <2>. QED BY ZenonT(30), <2>2, <2>3, <2>4 DEF AloneState, NewIdle
  <1>. QED BY ZenonT(30), <1>1, <1>2, <1>3, <1>4, <1>5, <1>6 DEF BarrierInv

\* A stream links itself to the gate of a barrier that waits.
LEMMA LinkStep ==
  ASSUME LockInv, BarrierInv, NEW r \in Drainers, NEW s \in DrainSessions, Link(r, s)
  PROVE  LockInv' /\ BarrierInv'
  <1>. BarrierTypes /\ stream \in StreamMaps BY ZenonT(30) DEF BarrierInv, LockInv, LockTypes
  <1>. DEFINE w == gate[s].waiting
              n == [stream[r][s] EXCEPT !.pc = "chunks", !.linked = w]
  <1>0. /\ stream[r][s].pc = "held" /\ ops' = ops /\ intr' = intr
        /\ UNCHANGED <<dplan, owner, quiesced, call, hook>>
    BY DEF Link
  <1>1. stream[r][s] \in StreamType /\ gate[s] \in GateType /\ w \in BOOLEAN
    BY DEF StreamMaps, BarrierTypes, GateType
  <1>2. n \in StreamType /\ n.pc = "chunks" /\ n.linked = w BY Zenon, <1>1 DEF StreamType, Places
  <1>3. stream' = [stream EXCEPT ![r][s] = n] BY Zenon DEF Link, StreamMaps
  <1>. HIDE DEF n
  <1>4. Becomes(r, s, n) BY Zenon, <1>2, <1>3, BecomesStream
  <1>5. LockInv' BY ZenonT(30), <1>0, <1>2, <1>4, Onward DEF Owning
  <1>6. /\ gate' \in [DrainSessions -> GateType]
        /\ \A t \in DrainSessions : /\ gate'[t].waiting = gate[t].waiting
                                    /\ gate'[t].chan = gate[t].chan
                                    /\ gate'[t].ref = IF t = s /\ w THEN r ELSE gate[t].ref
    <2>1. CASE w
      <3>. DEFINE g == [gate[s] EXCEPT !.ref = r]
      <3>1. gate' = [gate EXCEPT ![s] = g] BY <2>1 DEF Link, BarrierTypes
      <3>2. /\ g \in GateType /\ g.waiting = gate[s].waiting /\ g.chan = gate[s].chan
            /\ g.ref = r
        BY <1>1 DEF GateType
      <3>. HIDE DEF g
      <3>. QED BY Zenon, <2>1, <3>1, <3>2 DEF BarrierTypes
    <2>2. CASE ~w BY <2>2 DEF Link, BarrierTypes
    <2>. QED BY ZenonT(30), <2>1, <2>2
  <1>7. BarrierTypes' BY <1>0, <1>6 DEF BarrierTypes
  <1>8. ASSUME Alone' PROVE AloneState'
    <2>1. Alone BY <1>0, <1>8 DEF Alone
    <2>2. AloneState BY ZenonT(30), <2>1 DEF BarrierInv
    <2>3. r = "old" BY <1>0, <2>2, NoStreamTyped DEF AloneState, Drainers
    <2>4. \A t \in DrainSessions : stream'["new"][t] = NoStream
      BY <1>4, <2>2, <2>3 DEF AloneState, Becomes, Drainers
    <2>5. w => call["old"][s].pc = "holding" /\ hook["old"].pc # "up"
      <3>. SUFFICES ASSUME w PROVE call["old"][s].pc = "holding" /\ hook["old"].pc # "up"
        OBVIOUS
      <3>1. gate[s].chan \in Drainers /\ call[gate[s].chan][s].pc = "holding"
        BY Zenon DEF BarrierInv
      <3>2. \A q \in Drainers : hook[q].pc = "up" => call[q][s] = NoCall BY Zenon DEF BarrierInv
      <3>3. hook["new"].pc = "up" BY Zenon, <2>2 DEF AloneState
      <3>4. NoCall.pc # "holding" BY ONLY DEF NoCall
      <3>. QED BY ONLY <3>1, <3>2, <3>3, <3>4 DEF Drainers
    <2>6. \A t \in DrainSessions :
            Solo(call["old"][t], gate'[t], stream'["old"][t], hook["old"].pc, quiesced[t])
      <3>. TAKE t \in DrainSessions
      <3>1. CASE t = s
        <4>1. stream'["old"][t].linked = w BY <1>2, <1>4, <2>3, <3>1 DEF Becomes
        <4>. QED BY ZenonT(30), <1>6, <2>2, <2>3, <2>5, <3>1, <4>1 DEF AloneState, Solo
      <3>2. CASE t # s
        <4>1. stream'["old"][t] = stream["old"][t] BY <1>4, <3>2 DEF Becomes, Drainers
        <4>. QED BY ZenonT(30), <1>6, <2>2, <3>2, <4>1 DEF AloneState, Solo
      <3>. QED BY ZenonT(30), <3>1, <3>2
    <2>. QED BY ZenonT(30), <1>0, <2>2, <2>4, <2>6 DEF AloneState
  <1>. QED BY ZenonT(30), <1>0, <1>5, <1>6, <1>7, <1>8 DEF BarrierInv

\* The stream ends, and signals the barrier that waits on the gate it linked.
LEMMA EndStep ==
  ASSUME LockInv, BarrierInv, NEW r \in Drainers, NEW s \in DrainSessions, StreamEnds(r, s)
  PROVE  LockInv' /\ BarrierInv'
  <1>. BarrierTypes /\ stream \in StreamMaps BY ZenonT(30) DEF BarrierInv, LockInv, LockTypes
  <1>. DEFINE signals == stream[r][s].linked /\ gate[s].waiting /\ ~gate[s].signaled
              closes(q) == signals /\ gate[s].chan = q
              c(q) == [call[q][s] EXCEPT !.closed = @ \/ closes(q),
                                         !.covered = @ \/ call[q][s].pc = "holding"]
              g == [gate[s] EXCEPT !.signaled = @ \/ signals]
  <1>0. /\ stream[r][s].pc = "chunks" /\ ops' = ops /\ intr' = intr
        /\ stream' = [stream EXCEPT ![r][s].pc = "ended"]
        /\ UNCHANGED <<dplan, owner, quiesced, hook>>
    BY DEF StreamEnds
  <1>1. Becomes(r, s, Placed(stream[r][s], "ended"))
        /\ Placed(stream[r][s], "ended") \in StreamType
        /\ Placed(stream[r][s], "ended").pc = "ended"
        /\ Placed(stream[r][s], "ended").linked = stream[r][s].linked
    BY Zenon, <1>0, GoesTo DEF Places
  <1>2. LockInv' BY <1>0, <1>1, Onward DEF Owning
  <1>3. Calm(stream, stream') BY Zenon, <1>0, GoesCalm DEF Places
  <1>4. /\ gate' \in [DrainSessions -> GateType]
        /\ \A t \in DrainSessions : /\ gate'[t].waiting = gate[t].waiting
                                    /\ gate'[t].chan = gate[t].chan
                                    /\ gate'[t].ref = gate[t].ref
    <2>1. gate[s] \in GateType BY DEF BarrierTypes
    <2>2. /\ g \in GateType /\ g.waiting = gate[s].waiting /\ g.chan = gate[s].chan
          /\ g.ref = gate[s].ref
      BY <2>1 DEF GateType
    <2>3. gate' = [gate EXCEPT ![s] = g] BY DEF StreamEnds, BarrierTypes
    <2>. HIDE DEF g
    <2>. QED BY <2>2, <2>3 DEF BarrierTypes
  <1>5. \A q \in Drainers : closes(q) => call[q][s].pc = "holding" BY ZenonT(30) DEF BarrierInv
  <1>6. \A q \in Drainers :
          /\ c(q) \in CallType /\ c(q).pc = call[q][s].pc /\ c(q).ref = call[q][s].ref
          /\ c(q).result = call[q][s].result
          /\ c(q).closed <=> call[q][s].closed \/ closes(q)
          /\ c(q).covered <=> call[q][s].covered \/ call[q][s].pc = "holding"
    <2>. TAKE q \in Drainers
    <2>1. call[q][s] \in CallType BY DEF BarrierTypes
    <2>2. closes(q) \in BOOLEAN OBVIOUS
    <2>. HIDE DEF closes
    <2>. QED BY Zenon, <2>1, <2>2 DEF CallType
  <1>7. call' = [q \in Drainers |-> [call[q] EXCEPT ![s] = c(q)]]
    <2>1. \A q \in Drainers : call[q] \in [DrainSessions -> CallType] BY DEF BarrierTypes
    <2>. QED BY Zenon, <2>1 DEF StreamEnds
  <1>. HIDE DEF c, g
  <1>8. /\ call' \in [Drainers -> [DrainSessions -> CallType]]
        /\ \A q \in Drainers : call'[q][s] = c(q)
        /\ \A q \in Drainers, t \in DrainSessions : t # s => call'[q][t] = call[q][t]
    BY ZenonT(30), <1>6, <1>7 DEF BarrierTypes
  <1>9. BarrierTypes' BY <1>0, <1>4, <1>8 DEF BarrierTypes
  <1>10. \A q \in Drainers, t \in DrainSessions :
           /\ Signalled(call'[q][t])
           /\ call'[q][t].pc = call[q][t].pc
           /\ call[q][t] = NoCall => call'[q][t] = NoCall
    <2>. TAKE q \in Drainers, t \in DrainSessions
    <2>1. Signalled(call[q][t]) BY DEF BarrierInv
    <2>2. CASE t # s BY <1>8, <2>1, <2>2
    <2>3. CASE t = s
      <3>1. call'[q][t] = c(q) BY <1>8, <2>3
      <3>2. Signalled(c(q)) BY ZenonT(30), <1>5, <1>6, <2>1, <2>3 DEF Signalled
      <3>3. call[q][t] = NoCall => c(q) = NoCall
        BY <1>5, <1>6, <2>3 DEF CallType, NoCall
      <3>. QED BY ZenonT(30), <1>6, <2>3, <3>1, <3>2, <3>3
    <2>. QED BY <2>2, <2>3
  <1>11. ASSUME Alone' PROVE AloneState'
    <2>1. Alone BY <1>0, <1>11 DEF Alone
    <2>2. AloneState BY <2>1 DEF BarrierInv
    <2>3. r = "old" BY <1>0, <2>2, NoStreamTyped DEF AloneState, Drainers
    <2>4. \A t \in DrainSessions :
            /\ stream'["new"][t] = NoStream
            /\ stream'["old"][t].linked => stream["old"][t].linked
      BY ZenonT(30), <1>3, <2>2 DEF AloneState, Calm, Drainers
    <2>5. \A t \in DrainSessions :
            Solo(call'["old"][t], gate'[t], stream'["old"][t], hook["old"].pc, quiesced[t])
      <3>. TAKE t \in DrainSessions
      <3>1. /\ call'["old"][t].closed => call["old"][t].closed \/ stream["old"][t].linked
            /\ call'["old"][t].pc = call["old"][t].pc /\ call'["old"][t].ref = call["old"][t].ref
            /\ call'["old"][t].result = call["old"][t].result
        <4>1. "old" \in Drainers BY Zenon DEF Drainers
        <4>2. CASE t # s BY Zenon, <1>8, <4>1, <4>2
        <4>3. CASE t = s BY ZenonT(30), <1>6, <1>8, <2>3, <4>1, <4>3
        <4>. QED BY <4>2, <4>3
      <3>. QED BY ZenonT(30), <1>4, <2>2, <2>4, <3>1 DEF AloneState, Solo, Holds
    <2>. QED BY <1>0, <2>2, <2>4, <2>5 DEF AloneState
  <1>12. \A t \in DrainSessions : quiesced'[t] => \E q \in Drainers : Holds(call'[q][t])
    BY <1>0, <1>10 DEF BarrierInv, Holds
  <1>13. \A t \in DrainSessions :
           gate'[t].waiting => gate'[t].chan \in Drainers /\ call'[gate'[t].chan][t].pc = "holding"
    BY <1>4, <1>10 DEF BarrierInv
  <1>14. \A q \in Drainers : hook'[q].pc = "up" => \A t \in DrainSessions : call'[q][t] = NoCall
    BY <1>0, <1>10 DEF BarrierInv
  <1>. QED BY ZenonT(30), <1>2, <1>9, <1>10, <1>11, <1>12, <1>13, <1>14 DEF BarrierInv

-----------------------------------------------------------------------------
(* The hooks, and the whole.                                                 *)

\* A calm step that touches nothing but the streams and the lock.
LEMMA CalmStep ==
  ASSUME BarrierInv, Calm(stream, stream'),
         UNCHANGED <<dplan, owner, quiesced, gate, call, hook>>
  PROVE  BarrierInv'
  <1>1. /\ owner' \in [DrainSessions -> Drainers] /\ hook' \in [Drainers -> HookType]
        /\ \A r \in Drainers : hook'[r].pc = "up" <=> hook[r].pc = "up"
    BY DEF BarrierInv, BarrierTypes
  <1>2. Alone => NewIdle BY ZenonT(30) DEF BarrierInv, AloneState, NewIdle, Calm, Drainers
  <1>. QED BY <1>1, <1>2, Bystander

\* What a hook does to itself, and whether it opens a stream beside.
LEMMA HookMoves ==
  ASSUME LockInv, BarrierInv, NEW r \in Drainers, NEW s \in DrainSessions, NEW h \in HookType,
         NEW kind \in {"periodic", "barrier", "loop"},
         \/ FlightFree(r, s) /\ Open(r, s, kind)
         \/ stream' = stream,
         hook' = [hook EXCEPT ![r] = h], h.pc = "up" <=> hook[r].pc = "up",
         UNCHANGED <<dplan, owner, quiesced, gate, call, ops, intr>>,
         Alone => r = "old" \/ (stream' = stream /\ h = hook[r])
  PROVE  LockInv' /\ BarrierInv'
  <1>. BarrierTypes BY ZenonT(30) DEF BarrierInv
  <1>1. LockInv' /\ (stream' = stream \/ \E n \in StreamType : Becomes(r, s, n) /\ ~n.linked)
    <2>1. CASE FlightFree(r, s) /\ Open(r, s, kind) BY <2>1, OpenStep
    <2>2. CASE stream' = stream BY <2>2 DEF LockInv, LockTypes
    <2>. QED BY <2>1, <2>2
  <1>2. /\ owner' \in [DrainSessions -> Drainers] /\ hook' \in [Drainers -> HookType]
        /\ hook'[r] = h /\ \A q \in Drainers \ {r} : hook'[q] = hook[q]
    BY DEF BarrierTypes
  <1>3. \A q \in Drainers : hook'[q].pc = "up" <=> hook[q].pc = "up" BY <1>2
  <1>4. ASSUME Alone PROVE NewIdle
    <2>1. /\ hook["new"].starting = {} /\ hook["new"].todo = {}
          /\ \A t \in DrainSessions : stream["new"][t] = NoStream
      BY ZenonT(30), <1>4 DEF BarrierInv, AloneState
    <2>2. hook'["new"] = hook["new"] BY <1>2, <1>4 DEF Drainers
    <2>3. CASE stream' = stream BY ZenonT(30), <2>1, <2>2, <2>3 DEF NewIdle
    <2>4. CASE stream' # stream
      <3>1. PICK n \in StreamType : Becomes(r, s, n) /\ ~n.linked BY <1>1, <2>4
      <3>2. r = "old" BY <1>4, <2>4
      <3>. QED BY ZenonT(30), <2>1, <2>2, <3>1, <3>2 DEF NewIdle, Becomes, Drainers
    <2>. QED BY <2>3, <2>4
  <1>. QED BY <1>1, <1>2, <1>3, <1>4, Bystander

\* The steps of a hook after it fired, and of the periodic loop.
LEMMA HookStep ==
  ASSUME LockInv, BarrierInv, NEW r \in Drainers, NEW s \in DrainSessions,
         \/ BarrierStream(r, s) \/ LoopCheckpoint(r, s) \/ PeriodicStream(r, s)
  PROVE  LockInv' /\ BarrierInv'
  <1>. BarrierTypes BY ZenonT(30) DEF BarrierInv
  <1>0. /\ hook[r] \in HookType
        /\ UNCHANGED <<dplan, owner, quiesced, gate, call, ops, intr>>
    BY DEF BarrierTypes, BarrierStream, LoopCheckpoint, PeriodicStream
  <1>1. CASE BarrierStream(r, s)
    <2>. DEFINE h == [hook[r] EXCEPT !.starting = @ \ {s}]
    <2>1. h \in HookType /\ h.pc = hook[r].pc BY <1>0 DEF HookType
    <2>2. /\ hook' = [hook EXCEPT ![r] = h]
          /\ (FlightFree(r, s) /\ Open(r, s, "barrier")) \/ stream' = stream
          /\ s \in hook[r].starting
      BY <1>1 DEF BarrierStream, HookTo
    <2>. HIDE DEF h
    <2>3. Alone => r = "old" BY ZenonT(30), <2>2 DEF BarrierInv, AloneState, Drainers
    <2>. QED BY Zenon, <1>0, <2>1, <2>2, <2>3, HookMoves
  <1>2. CASE LoopCheckpoint(r, s)
    <2>. DEFINE h == [hook[r] EXCEPT !.todo = @ \ {s}]
    <2>1. h \in HookType /\ h.pc = hook[r].pc BY <1>0 DEF HookType
    <2>2. /\ hook' = [hook EXCEPT ![r] = h]
          /\ (FlightFree(r, s) /\ Open(r, s, "loop")) \/ stream' = stream
          /\ s \in hook[r].todo
      BY <1>2 DEF LoopCheckpoint, HookTo
    <2>. HIDE DEF h
    <2>3. Alone => r = "old" BY ZenonT(30), <2>2 DEF BarrierInv, AloneState, Drainers
    <2>. QED BY Zenon, <1>0, <2>1, <2>2, <2>3, HookMoves
  <1>3. CASE PeriodicStream(r, s)
    <2>1. /\ hook' = [hook EXCEPT ![r] = hook[r]] /\ FlightFree(r, s) /\ Open(r, s, "periodic")
          /\ r = "new" => owner[s] = "new"
      BY ZenonT(30), <1>3 DEF PeriodicStream, BarrierTypes
    <2>2. Alone => r = "old" BY <2>1 DEF BarrierInv, AloneState, Drainers
    <2>. QED BY Zenon, <1>0, <2>1, <2>2, HookMoves
  <1>. QED BY <1>1, <1>2, <1>3

\* The turns of a hook that open no stream, and what happens to the lease and
\* the fence.
LEMMA TurnStep ==
  ASSUME LockInv, BarrierInv,
         \/ \E r \in Drainers : WindowEnds(r) \/ EndDispatch(r) \/ HookReturns(r)
         \/ \E s \in DrainSessions : TakeLease(s) \/ Fence(s)
  PROVE  LockInv' /\ BarrierInv'
  <1>. BarrierTypes BY ZenonT(30) DEF BarrierInv
  <1>0. UNCHANGED <<dplan, quiesced, gate, call, stream, ops, intr>>
    BY Zenon DEF WindowEnds, EndDispatch, HookReturns, TakeLease, Fence
  <1>1. LockInv' BY <1>0 DEF LockInv, LockTypes
  <1>2. ASSUME NEW r \in Drainers, WindowEnds(r) \/ EndDispatch(r) \/ HookReturns(r)
        PROVE  BarrierInv'
    <2>1. hook[r] \in HookType /\ dplan.sessions \in SUBSET DrainSessions
      BY DrainConstants DEF BarrierTypes
    <2>2. PICK h : /\ hook' = [hook EXCEPT ![r] = h]
                   /\ \/ hook[r].pc = "barrier" /\ h = [hook[r] EXCEPT !.expired = TRUE]
                      \/ /\ hook[r].pc = "barrier"
                         /\ \E T \in SUBSET dplan.sessions :
                              h = [hook[r] EXCEPT !.pc = "loop", !.todo = T]
                      \/ hook[r].pc = "loop" /\ h = [hook[r] EXCEPT !.pc = "done"]
      <3>1. CASE WindowEnds(r) BY Zenon, <3>1 DEF WindowEnds, HookTo
      <3>2. CASE EndDispatch(r)
        <4>. DEFINE T == {s \in {t \in dplan.sessions : r = "old" \/ owner[t] = r} :
                             call[r][s].result # "acked"}
                    h == [hook[r] EXCEPT !.pc = "loop", !.todo = T]
        <4>1. hook' = [hook EXCEPT ![r] = h] /\ hook[r].pc = "barrier"
          BY Zenon, <3>2 DEF EndDispatch, HookTo
        <4>2. T \in SUBSET dplan.sessions OBVIOUS
        <4>. HIDE DEF T
        <4>. QED BY Zenon, <4>1, <4>2
      <3>3. CASE HookReturns(r) BY Zenon, <3>3 DEF HookReturns, HookTo
      <3>. QED BY Zenon, <1>2, <3>1, <3>2, <3>3
    <2>3. h \in HookType /\ h.pc # "up" /\ hook[r].pc # "up" BY Zenon, <2>1, <2>2 DEF HookType
    <2>4. /\ hook' \in [Drainers -> HookType] /\ hook'[r] = h
          /\ \A q \in Drainers \ {r} : hook'[q] = hook[q]
      BY Zenon, <2>2, <2>3 DEF BarrierTypes
    <2>5. owner' = owner BY Zenon, <1>2 DEF WindowEnds, EndDispatch, HookReturns
    <2>6. owner' \in [DrainSessions -> Drainers] BY <2>5 DEF BarrierTypes
    <2>7. \A q \in Drainers : hook'[q].pc = "up" <=> hook[q].pc = "up" BY <2>3, <2>4
    <2>8. Alone => NewIdle
      BY ZenonT(30), <1>0, <2>3, <2>4, <2>5 DEF BarrierInv, AloneState, NewIdle, Drainers
    <2>. QED BY ZenonT(30), <1>0, <2>4, <2>6, <2>7, <2>8, Bystander
  <1>3. ASSUME NEW s \in DrainSessions, TakeLease(s) \/ Fence(s)
        PROVE  BarrierInv'
    <2>1. hook' = hook /\ owner' \in [DrainSessions -> Drainers] /\ (Alone => owner' = owner)
      BY ZenonT(30), <1>3 DEF TakeLease, Fence, BarrierTypes, Drainers, Alone
    <2>2. /\ hook' \in [Drainers -> HookType]
          /\ \A q \in Drainers : hook'[q].pc = "up" <=> hook[q].pc = "up"
      BY <2>1 DEF BarrierTypes
    <2>3. Alone => NewIdle BY ZenonT(30), <1>0, <2>1 DEF BarrierInv, AloneState, NewIdle
    <2>. QED BY <1>0, <2>1, <2>2, <2>3, Bystander
  <1>. QED BY <1>1, <1>2, <1>3

\* A hook fires: its barriers are sent, over calls that never were.
LEMMA FireStep ==
  ASSUME LockInv, BarrierInv, NEW r \in Drainers, FireBarrier(r)
  PROVE  LockInv' /\ BarrierInv'
  <1>. BarrierTypes BY ZenonT(30) DEF BarrierInv
  <1>. DEFINE h == [hook[r] EXCEPT !.pc = "barrier", !.starting = Targets(r)]
              c(s) == IF s \in Targets(r) THEN [NoCall EXCEPT !.pc = "sent"] ELSE NoCall
  <1>0. /\ UNCHANGED <<dplan, owner, quiesced, gate, stream, ops, intr>>
        /\ hook[r].pc = "up" /\ (r = "new" => Targets(r) # {})
        /\ hook' = [hook EXCEPT ![r] = h]
        /\ call' = [call EXCEPT ![r] = [s \in DrainSessions |-> c(s)]]
    BY DEF FireBarrier, HookTo
  <1>1. LockInv' BY <1>0 DEF LockInv, LockTypes
  <1>2. Targets(r) \in SUBSET DrainSessions BY DrainConstants DEF Targets, BarrierTypes
  <1>3. h \in HookType /\ h.pc = "barrier"
    <2>1. hook[r] \in HookType BY DEF BarrierTypes
    <2>. QED BY Zenon, <1>2, <2>1 DEF HookType
  <1>4. \A s : /\ c(s) \in CallType /\ c(s).pc \in {"sent", "idle"} /\ ~c(s).closed
               /\ c(s).result = "none"
    BY Zenon DEF NoCall, CallType
  <1>. HIDE DEF h, c
  <1>5. /\ hook' \in [Drainers -> HookType] /\ hook'[r] = h
        /\ \A q \in Drainers \ {r} : hook'[q] = hook[q]
    BY <1>0, <1>3 DEF BarrierTypes
  <1>6. /\ call' \in [Drainers -> [DrainSessions -> CallType]]
        /\ \A s \in DrainSessions : call'[r][s] = c(s)
        /\ \A q \in Drainers \ {r}, s \in DrainSessions : call'[q][s] = call[q][s]
    BY <1>0, <1>4 DEF BarrierTypes
  <1>7. BarrierTypes' BY <1>0, <1>5, <1>6 DEF BarrierTypes
  <1>8. \A s \in DrainSessions : call[r][s] = NoCall /\ ~Holds(call[r][s]) /\ call[r][s].pc = "idle"
    BY <1>0 DEF BarrierInv, NoCall, Holds
  <1>9. \A q \in Drainers : hook'[q].pc = "up" => \A s \in DrainSessions : call'[q][s] = NoCall
    BY <1>3, <1>5, <1>6 DEF BarrierInv
  <1>10. \A s \in DrainSessions :
           gate'[s].waiting => gate'[s].chan \in Drainers /\ call'[gate'[s].chan][s].pc = "holding"
    BY ZenonT(30), <1>0, <1>6, <1>8 DEF BarrierInv
  <1>11. \A q \in Drainers, s \in DrainSessions : Signalled(call'[q][s])
    <2>1. \A s : Signalled(c(s)) BY ONLY Zenon, <1>4 DEF Signalled
    <2>2. \A q \in Drainers, s \in DrainSessions : Signalled(call[q][s]) BY Zenon DEF BarrierInv
    <2>. QED BY ONLY Zenon, <1>6, <2>1, <2>2
  <1>12. \A s \in DrainSessions : quiesced'[s] => \E q \in Drainers : Holds(call'[q][s])
    BY ZenonT(30), <1>0, <1>6, <1>8 DEF BarrierInv
  <1>13. ASSUME Alone' PROVE AloneState'
    <2>1. Alone BY ZenonT(30), <1>0, <1>13 DEF Alone
    <2>2. AloneState BY ZenonT(30), <2>1 DEF BarrierInv
    <2>3. r = "old" BY ZenonT(30), <1>0, <1>2, <2>2 DEF AloneState, Targets, Drainers
    <2>4. \A t \in DrainSessions :
            Solo(call'["old"][t], gate[t], stream["old"][t], hook'["old"].pc, quiesced[t])
      <3>. TAKE t \in DrainSessions
      <3>1. ~stream["old"][t].linked BY ZenonT(30), <1>0, <2>2, <2>3 DEF AloneState, Solo
      <3>. QED BY ZenonT(30), <1>4, <1>6, <2>3, <3>1 DEF Solo, Holds
    <2>. QED BY ZenonT(30), <1>0, <1>5, <2>2, <2>3, <2>4 DEF AloneState, Drainers
  <1>. QED BY ZenonT(30), <1>1, <1>7, <1>9, <1>10, <1>11, <1>12, <1>13 DEF BarrierInv

\* The inductive invariant: the lock, and the barriers that wait on its streams.
DrainInv == LockInv /\ BarrierInv

\* It holds as the pod starts.
LEMMA DrainStarts ==
  ASSUME DrainInit
  PROVE  DrainInv
  <1>1. LockInv
    <2>1. stream \in StreamMaps /\ \A q \in Drainers, t \in DrainSessions : stream[q][t] = NoStream
      BY ZenonT(30), NoStreamTyped DEF DrainInit, StreamMaps
    <2>2. /\ ops \in OpsType /\ ~ops.running /\ ~ops.interrupt /\ intr = "idle"
          /\ \A t \in DrainSessions : ops.pending[t] = "none"
      BY ZenonT(30) DEF DrainInit, OpsType
    <2>3. Waiting(stream, intr, ops) BY <2>1, <2>2, NoStreamTyped DEF Waiting, Drainers
    <2>4. Vacant(stream, intr) BY <2>1, <2>2, NoStreamTyped DEF Vacant, Owning
    <2>. QED BY ZenonT(30), <2>1, <2>2, <2>3, <2>4 DEF LockInv, LockTypes, LockState, Unclaimed
  <1>2. BarrierInv
    <2>1. NoCall \in CallType /\ ClosedGate \in GateType
      BY DEF NoCall, CallType, ClosedGate, GateType
    <2>2. hook \in [Drainers -> HookType] /\ \A q \in Drainers :
            hook[q].pc = "up" /\ hook[q].starting = {} /\ hook[q].todo = {}
      BY ZenonT(30) DEF DrainInit, HookType
    <2>3. BarrierTypes BY <2>1, <2>2 DEF DrainInit, BarrierTypes, Drainers
    <2>4. \A t \in DrainSessions :
            /\ gate[t] = ClosedGate /\ ~quiesced[t] /\ owner[t] = "old"
            /\ \A q \in Drainers : call[q][t] = NoCall /\ stream[q][t] = NoStream
      BY DEF DrainInit
    <2>5. /\ ~ClosedGate.waiting /\ ~NoCall.closed /\ NoCall.pc = "idle"
          /\ NoCall.result = "none"
      BY DEF ClosedGate, NoCall
    <2>6. Signalled(NoCall) /\ Solo(NoCall, ClosedGate, NoStream, "up", FALSE)
      BY <2>5, NoStreamTyped DEF Signalled, Solo, Holds
    <2>7. \A t \in DrainSessions :
            Solo(call["old"][t], gate[t], stream["old"][t], hook["old"].pc, quiesced[t])
      BY ZenonT(30), <2>2, <2>4, <2>5, NoStreamTyped DEF Solo, Holds, Drainers
    <2>. QED BY ZenonT(30), <2>2, <2>3, <2>4, <2>5, <2>6, <2>7 DEF BarrierInv, AloneState, Drainers
  <1>. QED BY <1>1, <1>2 DEF DrainInv

\* Every step keeps it.
LEMMA DrainKeeps ==
  ASSUME HaveFirst, DrainInv, [DrainNext]_drainVars
  PROVE  DrainInv'
  <1>. USE DEF DrainInv
  <1>1. ASSUME NEW r \in Drainers, NEW s \in DrainSessions, StreamNext(r, s)
        PROVE  DrainInv'
    <2>1. CASE Link(r, s) BY <2>1, LinkStep
    <2>2. CASE StreamEnds(r, s) BY <2>2, EndStep
    <2>3. CASE \/ BeginCheckpoint(r, s) \/ WakeCheckpoint(r, s) \/ CancelCheckpoint(r, s)
               \/ StreamReleases(r, s)
      <3>1. UNCHANGED <<dplan, owner, quiesced, gate, call, hook>>
        BY <2>3 DEF BeginCheckpoint, WakeCheckpoint, CancelCheckpoint, StreamReleases
      <3>2. BarrierInv' BY <2>3, <3>1, LockIsCalm, CalmStep
      <3>3. CASE WakeCheckpoint(r, s)
        <4>1. /\ stream[r][s].pc = "woken" /\ ops' = ops /\ intr' = intr
              /\ stream' = [stream EXCEPT ![r][s].pc = "held"] /\ stream \in StreamMaps
          BY <3>3 DEF WakeCheckpoint, LockInv, LockTypes
        <4>2. PICK n \in StreamType : Becomes(r, s, n) /\ n.pc = "held"
          BY Zenon, <4>1, GoesTo DEF Places
        <4>3. LockInv' BY <4>1, <4>2, Onward DEF Owning
        <4>. QED BY <3>2, <4>3
      <3>4. CASE StreamReleases(r, s)
        <4>1. /\ stream[r][s].pc = "ended"
              /\ ReleaseOp([stream EXCEPT ![r][s] = NoStream], intr)
          BY <3>4 DEF StreamReleases
        <4>2. ops.running /\ OwnedBy(stream, intr, r, s)
          BY <4>1 DEF LockInv, LockState, Vacant, Interrupting, OwnedBy, Owning
        <4>3. LockInv' BY <4>1, <4>2, StreamLeaves
        <4>. QED BY <3>2, <4>3
      <3>. QED BY <2>3, <3>2, <3>3, <3>4, BeginStep, CancelStep
    <2>. QED BY <1>1, <2>1, <2>2, <2>3 DEF StreamNext
  <1>2. ASSUME NEW r \in Drainers, NEW s \in DrainSessions, CallNext(r, s)
        PROVE  DrainInv'
    <2>1. UNCHANGED <<stream, ops, intr>>
      BY <1>2 DEF CallNext, BarrierAdmit, BarrierQuiesce, BarrierOpen, BarrierRelease,
                  BarrierReturn, SendFails
    <2>2. LockInv' BY <2>1 DEF LockInv, LockTypes
    <2>3. BarrierInv' BY <1>2, AdmitStep, QuiesceStep, ReturnStep DEF CallNext
    <2>. QED BY <2>2, <2>3
  <1>3. ASSUME NEW r \in Drainers, HookNext(r) \/ FireBarrier(r)
        PROVE  DrainInv'
    BY <1>3, TurnStep, HookStep, FireStep DEF HookNext
  <1>4. ASSUME NEW r \in Drainers, NEW s \in DrainSessions, PeriodicStream(r, s)
        PROVE  DrainInv'
    BY <1>4, HookStep
  <1>5. CASE BeginInterrupt \/ InterruptNext
    <2>1. UNCHANGED <<dplan, owner, quiesced, gate, call, hook>>
      BY <1>5 DEF BeginInterrupt, InterruptNext, WakeInterrupt, CancelInterrupt, InterruptEnds
    <2>2. Calm(stream, stream')
      <3>1. CASE BeginInterrupt \/ WakeInterrupt
        BY <3>1 DEF BeginInterrupt, WakeInterrupt, Calm
      <3>. QED BY <1>5, <3>1, InterruptIsCalm DEF InterruptNext
    <2>3. LockInv' BY <1>5, InterruptBegins, InterruptLeaves DEF InterruptNext
    <2>. QED BY <2>1, <2>2, <2>3, CalmStep
  <1>6. ASSUME NEW s \in DrainSessions, TakeLease(s) \/ Fence(s)
        PROVE  DrainInv'
    BY <1>6, TurnStep
  <1>7. CASE UNCHANGED drainVars
    <2>1. LockInv' BY <1>7 DEF drainVars, LockInv, LockTypes
    <2>2. BarrierInv' BY <1>7, CalmStep DEF drainVars, Calm
    <2>. QED BY <2>1, <2>2
  <1>. QED BY <1>1, <1>2, <1>3, <1>4, <1>5, <1>6, <1>7 DEF DrainNext, DrainSteps

LOCAL INSTANCE WellFoundedInduction

\* The naturals are well founded, so a set of sessions has a first member.
LEMMA FirstPending == HaveFirst
  <1>. SUFFICES ASSUME NEW T \in SUBSET DrainSessions, T # {} PROVE Min(T) \in T
    BY DEF HaveFirst
  <1>1. T \in SUBSET Nat BY DrainConstants
  <1>2. PICK m \in T : \A n \in T : ~ <<n, m>> \in OpToRel(<, Nat)
    BY ZenonT(60), <1>1, NatLessThanWellFounded, WFMin
  <1>3. \A n \in T : m <= n
    <2>. TAKE n \in T
    <2>1. m \in Nat /\ n \in Nat BY <1>1
    <2>2. ~(n < m) BY ZenonT(60), <1>2, <2>1 DEF OpToRel
    <2>. QED BY <2>1, <2>2
  <1>. QED BY <1>3 DEF Min

\* The invariant holds throughout.
THEOREM DrainInvariant == DrainSpec => []DrainInv
  <1>1. DrainInit => DrainInv BY DrainStarts
  <1>2. DrainInv /\ [DrainNext]_drainVars => DrainInv' BY DrainKeeps, FirstPending
  <1>. QED BY <1>1, <1>2, PTL DEF DrainSpec

\* For every set of sessions and every plan: the pod's operation lock has exactly
\* one owner while it is taken, and nobody waits for a free lock (opLock).
THEOREM LockOwned == DrainSpec => []LockHasOneOwner
  <1>1. ASSUME LockInv PROVE LockHasOneOwner
    <2>0. LockTypes /\ Waiting(stream, intr, ops) BY <1>1 DEF LockInv, LockState
    <2>1. ops.running \in BOOLEAN /\ ops.interrupt \in BOOLEAN BY <2>0 DEF LockTypes, OpsType
    <2>2. \A x \in Owners : \/ x = <<"interrupt", 0>> /\ intr \in Owning
                            \/ \E r \in Drainers, s \in DrainSessions :
                                 x = <<r, s>> /\ stream[r][s].pc \in Owning
      BY DEF Owners
    <2>3. /\ \A r \in Drainers, s \in DrainSessions :
               stream[r][s].pc \in Owning => <<r, s>> \in Owners
          /\ intr \in Owning => <<"interrupt", 0>> \in Owners
      BY DEF Owners
    <2>4. ops.running <=> Owners # {}
      BY Zenon, <1>1, <2>2, <2>3 DEF LockInv, LockState, Vacant, Interrupting, OwnedBy
    <2>5. ASSUME NEW x \in Owners, NEW y \in Owners PROVE x = y
      BY <1>1, <2>2, <2>5 DEF LockInv, LockState, Vacant, Interrupting, OwnedBy
    <2>6. ops.interrupt \/ Pending # {} => ops.running
      BY ZenonT(30), <1>1 DEF LockInv, LockState, Unclaimed, Pending
    <2>7. ~(ops.interrupt /\ Pending # {}) BY <2>0 DEF Waiting, Pending
    <2>8. ops.interrupt = (intr = "wait") BY <2>0, <2>1 DEF Waiting
    <2>9. \A r \in Drainers, s \in DrainSessions :
            (stream[r][s].pc = "wait") = (ops.pending[s] = r)
      BY <2>0 DEF Waiting
    <2>10. ops.running = (Owners # {}) BY <2>1, <2>4
    <2>. QED BY <2>5, <2>6, <2>7, <2>8, <2>9, <2>10 DEF LockHasOneOwner
  <1>2. DrainInv => LockHasOneOwner BY <1>1 DEF DrainInv
  <1>. QED BY <1>2, DrainInvariant, PTL

\* A barrier that acknowledged was held while a stream of its session ended, and
\* without a takeover it names that stream (CheckpointBarrier, barrierGate).
THEOREM AckCovered == DrainSpec => []AckFollowsStream
  <1>1. ASSUME BarrierInv, NEW r \in Drainers, NEW s \in DrainSessions,
               call[r][s].result = "acked"
        PROVE  call[r][s].covered /\ ("takeover" \notin dplan.moves => call[r][s].ref = r)
    <2>1. call[r][s].covered BY ZenonT(30), <1>1 DEF BarrierInv, Signalled
    <2>2. ASSUME Alone PROVE call[r][s].ref = r
      <3>1. call[r][s] # NoCall BY <1>1 DEF NoCall
      <3>2. r = "old" BY ZenonT(30), <1>1, <2>2, <3>1 DEF BarrierInv, AloneState, Drainers
      <3>3. Solo(call["old"][s], gate[s], stream["old"][s], hook["old"].pc, quiesced[s])
        BY ZenonT(30), <1>1, <2>2 DEF BarrierInv, AloneState
      <3>. QED BY <1>1, <3>2, <3>3 DEF Solo
    <2>. QED BY <2>1, <2>2 DEF Alone
  <1>2. DrainInv => AckFollowsStream BY ZenonT(30), <1>1 DEF DrainInv, AckFollowsStream
  <1>. QED BY <1>2, DrainInvariant, PTL

\* A session is quiesced only while a barrier holds it, and without a takeover
\* for as long as one does (coord.quiesced).
THEOREM QuiesceHeld == DrainSpec => []QuiescedWhileHeld
  <1>1. ASSUME BarrierInv PROVE QuiescedWhileHeld
    <2>1. ASSUME NEW s \in DrainSessions, quiesced[s]
          PROVE  \E r \in Drainers :
                   call[r][s].pc \in {"quiesced", "holding", "acking", "late"}
      BY ZenonT(30), <1>1, <2>1 DEF BarrierInv, Holds
    <2>2. ASSUME NEW s \in DrainSessions, Alone, NEW r \in Drainers,
                 call[r][s].pc \in {"quiesced", "holding", "acking", "late"}
          PROVE  quiesced[s]
      <3>1. call[r][s] # NoCall BY <2>2 DEF NoCall
      <3>2. r = "old" BY ZenonT(30), <1>1, <2>2, <3>1 DEF BarrierInv, AloneState, Drainers
      <3>3. Solo(call["old"][s], gate[s], stream["old"][s], hook["old"].pc, quiesced[s])
        BY ZenonT(30), <1>1, <2>2 DEF BarrierInv, AloneState
      <3>. QED BY <2>2, <3>2, <3>3 DEF Solo, Holds
    <2>. QED BY <2>1, <2>2 DEF QuiescedWhileHeld, Alone
  <1>2. DrainInv => QuiescedWhileHeld BY <1>1 DEF DrainInv
  <1>. QED BY <1>2, DrainInvariant, PTL
=============================================================================
