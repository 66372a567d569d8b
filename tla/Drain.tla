------------------------------- MODULE Drain --------------------------------
(* A replica drains: its preStop hook sends every session it coordinates a   *)
(* CheckpointBarrier and drives a Checkpoint stream beside each, then runs a *)
(* checkpoint for every session that did not acknowledge.  On the pod the    *)
(* streams queue for the operation lock they share with Interrupt, and link  *)
(* themselves to the gate of a barrier that waits.  "old" coordinates the    *)
(* sessions first; "new" may take one over, fence it and drain too.          *)
EXTENDS Integers, FiniteSetsExt

CONSTANTS
  DrainSessions,  \* sessions of the pod: numbers, ordered as identifiers are
  DrainPlans      \* see dplan

ASSUME DrainConstants ==
  /\ DrainSessions \subseteq Nat
  /\ DrainPlans \subseteq [sessions : SUBSET DrainSessions, fenced : 0..1,
                           periodic : Nat, moves : SUBSET {"interrupt", "takeover"}]

VARIABLES
  dplan,     \* the sessions in use, the generation the pod holds for them
             \*   (0: none), how many periodic checkpoints run, and which of
             \*   "interrupt" and "takeover" may happen; chosen once
  sweeps,    \* periodic checkpoints begun
  owner,     \* session -> the replica whose lease the mirror shows
  fenced,    \* session -> coord.lastFenced, 0 while not initialized
  quiesced,  \* session -> coord.quiesced
  gate,      \* session -> barrierGate; chan is whose open made the channel
  ops,       \* opLock
  intr,      \* an Interrupt call: idle, wait, woken, held
  stream,    \* replica -> session -> its Checkpoint stream
  call,      \* replica -> session -> its CheckpointBarrier call
  hook       \* replica -> its preStop hook

drainVars == <<dplan, sweeps, owner, fenced, quiesced, gate, ops, intr, stream,
               call, hook>>

Drainers == {"old", "new"}
Generation(r) == IF r = "old" THEN 1 ELSE 2

NoStream == [pc |-> "idle", kind |-> "none", linked |-> FALSE]
NoCall == [pc |-> "idle", closed |-> FALSE, ref |-> "none", result |-> "none",
           covered |-> FALSE]
ClosedGate == [waiting |-> FALSE, ref |-> "none", signaled |-> FALSE,
               chan |-> "none"]

DrainInit ==
  /\ dplan \in DrainPlans
  /\ sweeps = 0
  /\ owner = [s \in DrainSessions |-> "old"]
  /\ fenced = [s \in DrainSessions |-> dplan.fenced]
  /\ quiesced = [s \in DrainSessions |-> FALSE]
  /\ gate = [s \in DrainSessions |-> ClosedGate]
  /\ ops = [running |-> FALSE, interrupt |-> FALSE,
            pending |-> [s \in DrainSessions |-> "none"]]
  /\ intr = "idle"
  /\ stream = [r \in Drainers |-> [s \in DrainSessions |-> NoStream]]
  /\ call = [r \in Drainers |-> [s \in DrainSessions |-> NoCall]]
  /\ hook = [r \in Drainers |->
               [pc |-> "up", expired |-> FALSE, starting |-> {}, todo |-> {}]]

-----------------------------------------------------------------------------
(* The pod-level operation lock.                                             *)

Pending == {s \in DrainSessions : ops.pending[s] # "none"}

(* Ownership passes to the pending interrupt, else to the pending checkpoint *)
(* with the lowest session; with nothing pending the lock is idle.           *)
ReleaseOp(streams, i) ==
  IF ops.interrupt
    THEN /\ ops' = [ops EXCEPT !.interrupt = FALSE]
         /\ intr' = "woken" /\ stream' = streams
    ELSE IF Pending # {}
           THEN LET s == Min(Pending) IN
                /\ ops' = [ops EXCEPT !.pending[s] = "none"]
                /\ stream' = [streams EXCEPT ![ops.pending[s]][s].pc = "woken"]
                /\ intr' = i
           ELSE /\ ops' = [ops EXCEPT !.running = FALSE]
                /\ stream' = streams /\ intr' = i

(* A refused stream, coalesced or busy, returns Aborted.                     *)
BeginCheckpoint(r, s) ==
  /\ stream[r][s].pc = "lock"
  /\ IF ~ops.running
       THEN /\ ops' = [ops EXCEPT !.running = TRUE]
            /\ stream' = [stream EXCEPT ![r][s].pc = "held"]
       ELSE IF ops.interrupt \/ s \in Pending
              THEN /\ stream' = [stream EXCEPT ![r][s] = NoStream]
                   /\ UNCHANGED ops
              ELSE /\ ops' = [ops EXCEPT !.pending[s] = r]
                   /\ stream' = [stream EXCEPT ![r][s].pc = "wait"]
  /\ UNCHANGED <<dplan, sweeps, owner, fenced, quiesced, gate, intr, call,
                 hook>>

(* A busy interrupt returns and changes nothing.                             *)
BeginInterrupt ==
  /\ "interrupt" \in dplan.moves /\ intr = "idle"
  /\ \/ /\ ~ops.running
        /\ ops' = [ops EXCEPT !.running = TRUE] /\ intr' = "held"
     \/ /\ ops.running /\ Pending = {}
        /\ ops' = [ops EXCEPT !.interrupt = TRUE] /\ intr' = "wait"
  /\ UNCHANGED <<dplan, sweeps, owner, fenced, quiesced, gate, stream, call,
                 hook>>

WakeCheckpoint(r, s) ==
  /\ stream[r][s].pc = "woken"
  /\ stream' = [stream EXCEPT ![r][s].pc = "held"]
  /\ UNCHANGED <<dplan, sweeps, owner, fenced, quiesced, gate, ops, intr,
                 call, hook>>

WakeInterrupt ==
  /\ intr = "woken" /\ intr' = "held"
  /\ UNCHANGED <<dplan, sweeps, owner, fenced, quiesced, gate, ops, stream,
                 call, hook>>

(* The barrier's streams share the barrier window; the other streams have a  *)
(* deadline of their own.                                                    *)
MayExpire(r, s) == stream[r][s].kind = "barrier" => hook[r].expired

\* Mutant: a waiter that was promoted as its context ended just returns.
CancelForgetsLock(r, s) ==
  /\ stream[r][s].pc \in {"wait", "woken"} /\ MayExpire(r, s)
  /\ ops' = [ops EXCEPT !.pending[s] = IF @ = r THEN "none" ELSE @]
  /\ stream' = [stream EXCEPT ![r][s] = NoStream]
  /\ UNCHANGED <<dplan, sweeps, owner, fenced, quiesced, gate, intr, call,
                 hook>>

(* The context of a waiter ends: it withdraws, or gives back the lock it was *)
(* promoted to meanwhile.                                                    *)
CancelCheckpoint(r, s) ==
  /\ stream[r][s].pc \in {"wait", "woken"} /\ MayExpire(r, s)
  /\ IF ops.pending[s] = r
       THEN /\ ops' = [ops EXCEPT !.pending[s] = "none"]
            /\ stream' = [stream EXCEPT ![r][s] = NoStream]
            /\ UNCHANGED intr
       ELSE ReleaseOp([stream EXCEPT ![r][s] = NoStream], intr)
  /\ UNCHANGED <<dplan, sweeps, owner, fenced, quiesced, gate, call, hook>>

CancelInterrupt ==
  /\ intr \in {"wait", "woken"}
  /\ IF ops.interrupt
       THEN /\ ops' = [ops EXCEPT !.interrupt = FALSE] /\ intr' = "idle"
            /\ UNCHANGED stream
       ELSE ReleaseOp(stream, "idle")
  /\ UNCHANGED <<dplan, sweeps, owner, fenced, quiesced, gate, call, hook>>

InterruptEnds ==
  /\ intr = "held" /\ ReleaseOp(stream, "idle")
  /\ UNCHANGED <<dplan, sweeps, owner, fenced, quiesced, gate, call, hook>>

-----------------------------------------------------------------------------
(* The Checkpoint stream.                                                    *)

FlightFree(r, s) == stream[r][s].pc = "idle"
Open(r, s, kind) ==
  stream' = [stream EXCEPT ![r][s] = [NoStream EXCEPT !.pc = "lock",
                                                      !.kind = kind]]

PeriodicStream(r, s) ==
  /\ sweeps < dplan.periodic /\ sweeps' = sweeps + 1
  /\ s \in dplan.sessions
  /\ r = "new" => owner[s] = "new"
  /\ hook[r].pc # "done" /\ FlightFree(r, s) /\ Open(r, s, "periodic")
  /\ UNCHANGED <<dplan, owner, fenced, quiesced, gate, ops, intr, call, hook>>

\* Mutant: the gate is signalled as the stream links, not as it ends.
LinkCompletes(r, s) ==
  /\ stream[r][s].pc = "held"
  /\ stream' = [stream EXCEPT ![r][s].pc = "chunks"]
  /\ gate' = IF gate[s].waiting
               THEN [gate EXCEPT ![s].ref = r, ![s].signaled = TRUE] ELSE gate
  /\ call' = [q \in Drainers |-> [call[q] EXCEPT
                ![s].closed = @ \/ (gate[s].waiting /\ gate[s].chan = q)]]
  /\ UNCHANGED <<dplan, sweeps, owner, fenced, quiesced, ops, intr, hook>>

Link(r, s) ==
  /\ stream[r][s].pc = "held"
  /\ stream' = [stream EXCEPT ![r][s].pc = "chunks",
                              ![r][s].linked = gate[s].waiting]
  /\ gate' = IF gate[s].waiting THEN [gate EXCEPT ![s].ref = r] ELSE gate
  /\ UNCHANGED <<dplan, sweeps, owner, fenced, quiesced, ops, intr, call,
                 hook>>

(* The stream ends, well or badly; the deferred calls run in turn: complete  *)
(* on the gate it linked, then the release of the lock.                      *)
StreamEnds(r, s) ==
  LET signals == stream[r][s].linked /\ gate[s].waiting /\ ~gate[s].signaled IN
  /\ stream[r][s].pc = "chunks"
  /\ stream' = [stream EXCEPT ![r][s].pc = "ended"]
  /\ gate' = [gate EXCEPT ![s].signaled = @ \/ signals]
  /\ call' = [q \in Drainers |-> [call[q] EXCEPT
                ![s].closed = @ \/ (signals /\ gate[s].chan = q),
                ![s].covered = @ \/ call[q][s].pc = "holding"]]
  /\ UNCHANGED <<dplan, sweeps, owner, fenced, quiesced, ops, intr, hook>>

StreamReleases(r, s) ==
  /\ stream[r][s].pc = "ended"
  /\ ReleaseOp([stream EXCEPT ![r][s] = NoStream], intr)
  /\ UNCHANGED <<dplan, sweeps, owner, fenced, quiesced, gate, call, hook>>

-----------------------------------------------------------------------------
(* CheckpointBarrier on the pod, and the fence that makes one stale.         *)

CallTo(r, s, c) == call' = [call EXCEPT ![r][s] = c]

BarrierAdmit(r, s) ==
  LET c == call[r][s] IN
  /\ c.pc = "sent"
  /\ CallTo(r, s, IF fenced[s] \notin {0, Generation(r)}
                    THEN [c EXCEPT !.pc = "idle", !.result =
                            IF @ = "none" THEN "stale" ELSE @]
                    ELSE [c EXCEPT !.pc = "admitted"])
  /\ UNCHANGED <<dplan, sweeps, owner, fenced, quiesced, gate, ops, intr,
                 stream, hook>>

BarrierQuiesce(r, s) ==
  /\ call[r][s].pc = "admitted"
  /\ CallTo(r, s, [call[r][s] EXCEPT !.pc = "quiesced"])
  /\ quiesced' = [quiesced EXCEPT ![s] = TRUE]
  /\ UNCHANGED <<dplan, sweeps, owner, fenced, gate, ops, intr, stream, hook>>

BarrierOpen(r, s) ==
  /\ call[r][s].pc = "quiesced"
  /\ CallTo(r, s, [call[r][s] EXCEPT !.pc = "holding"])
  /\ gate' = [gate EXCEPT ![s] = [ClosedGate EXCEPT !.waiting = TRUE,
                                                    !.chan = r]]
  /\ UNCHANGED <<dplan, sweeps, owner, fenced, quiesced, ops, intr, stream,
                 hook>>

(* The select returns, on either arm, and the gate is released.              *)
BarrierRelease(r, s) ==
  /\ call[r][s].pc = "holding"
  /\ \/ call[r][s].closed /\ CallTo(r, s, [call[r][s] EXCEPT
                                      !.pc = "acking", !.ref = gate[s].ref])
     \/ hook[r].expired /\ CallTo(r, s, [call[r][s] EXCEPT !.pc = "late"])
  /\ gate' = [gate EXCEPT ![s].waiting = FALSE]
  /\ UNCHANGED <<dplan, sweeps, owner, fenced, quiesced, ops, intr, stream,
                 hook>>

\* Mutant: the clear is not deferred; the late arm leaves without it.
ReturnQuiesced(r, s) ==
  /\ call[r][s].pc \in {"acking", "late"}
  /\ CallTo(r, s, [NoCall EXCEPT !.result = "failed"])
  /\ quiesced' = [quiesced EXCEPT ![s] = call[r][s].pc = "late"]
  /\ UNCHANGED <<dplan, sweeps, owner, fenced, gate, ops, intr, stream, hook>>

(* The deferred clear, and the answer: the window of a late one has ended on *)
(* the gateway before it ended on the pod.                                   *)
BarrierReturn(r, s) ==
  LET c == call[r][s] IN
  /\ c.pc \in {"acking", "late"}
  /\ CallTo(r, s, IF c.pc = "acking" /\ c.result = "none"
                    THEN [c EXCEPT !.pc = "idle", !.result = "acked"]
                    ELSE [NoCall EXCEPT !.result =
                            IF c.result = "none" THEN "failed" ELSE c.result])
  /\ quiesced' = [quiesced EXCEPT ![s] = FALSE]
  /\ UNCHANGED <<dplan, sweeps, owner, fenced, gate, ops, intr, stream, hook>>

TakeLease(s) ==
  /\ "takeover" \in dplan.moves /\ s \in dplan.sessions /\ owner[s] = "old"
  /\ owner' = [owner EXCEPT ![s] = "new"]
  /\ UNCHANGED <<dplan, sweeps, fenced, quiesced, gate, ops, intr, stream,
                 call, hook>>

Fence(s) ==
  /\ owner[s] = "new" /\ fenced[s] < Generation("new")
  /\ fenced' = [fenced EXCEPT ![s] = Generation("new")]
  /\ UNCHANGED <<dplan, sweeps, owner, quiesced, gate, ops, intr, stream,
                 call, hook>>

-----------------------------------------------------------------------------
(* The preStop hook and the barrier coordinator.                             *)

HookTo(r, h) == hook' = [hook EXCEPT ![r] = h]
Targets(r) == {s \in dplan.sessions : owner[s] = r}

(* Dispatch sends to every target of the mirror at once.                     *)
FireBarrier(r) ==
  /\ hook[r].pc = "up" /\ (r = "new" => Targets(r) # {})
  /\ HookTo(r, [hook[r] EXCEPT !.pc = "barrier", !.starting = Targets(r)])
  /\ call' = [call EXCEPT ![r] = [s \in DrainSessions |->
                IF s \in Targets(r) THEN [NoCall EXCEPT !.pc = "sent"]
                                    ELSE NoCall]]
  /\ UNCHANGED <<dplan, sweeps, owner, fenced, quiesced, gate, ops, intr,
                 stream>>

(* The stream of dispatchOne, or its wait for the single-flight lock ended   *)
(* by the window.                                                            *)
BarrierStream(r, s) ==
  /\ s \in hook[r].starting
  /\ \/ FlightFree(r, s) /\ Open(r, s, "barrier")
     \/ hook[r].expired /\ UNCHANGED stream
  /\ HookTo(r, [hook[r] EXCEPT !.starting = @ \ {s}])
  /\ UNCHANGED <<dplan, sweeps, owner, fenced, quiesced, gate, ops, intr,
                 call>>

\* Mutant: the fan-out has no deadline.
WindowStaysOpen(r) == FALSE /\ UNCHANGED drainVars
WindowEnds(r) ==
  /\ hook[r].pc = "barrier" /\ ~hook[r].expired
  /\ HookTo(r, [hook[r] EXCEPT !.expired = TRUE])
  /\ UNCHANGED <<dplan, sweeps, owner, fenced, quiesced, gate, ops, intr,
                 stream, call>>

(* Send returns with the window, whatever the pod is doing.                  *)
SendFails(r, s) ==
  /\ hook[r].expired /\ call[r][s].result = "none" /\ call[r][s].pc # "idle"
  /\ CallTo(r, s, [call[r][s] EXCEPT !.result = "failed"])
  /\ UNCHANGED <<dplan, sweeps, owner, fenced, quiesced, gate, ops, intr,
                 stream, hook>>

Draining == {r \in Drainers : hook[r].pc \in {"barrier", "loop"}}
Driving(r, kind) ==
  {s \in DrainSessions : stream[r][s].pc # "idle" /\ stream[r][s].kind = kind}

(* Every dispatchOne has returned: the loop takes the sessions of the        *)
(* registry that did not acknowledge.                                        *)
EndDispatch(r) ==
  LET called == {s \in DrainSessions : call[r][s] # NoCall}
      registry == {s \in dplan.sessions : r = "old" \/ owner[s] = r}
  IN
  /\ hook[r].pc = "barrier" /\ hook[r].starting = {}
  /\ Driving(r, "barrier") = {}
  /\ \A s \in called : call[r][s].result # "none"
  /\ HookTo(r, [hook[r] EXCEPT !.pc = "loop", !.todo =
                  {s \in registry : call[r][s].result # "acked"}])
  /\ UNCHANGED <<dplan, sweeps, owner, fenced, quiesced, gate, ops, intr,
                 stream, call>>

(* One session at a time; a budget may end while it waits for the flight.    *)
LoopCheckpoint(r, s) ==
  /\ s \in hook[r].todo /\ Driving(r, "loop") = {}
  /\ \/ FlightFree(r, s) /\ Open(r, s, "loop")
     \/ ~FlightFree(r, s) /\ UNCHANGED stream
  /\ HookTo(r, [hook[r] EXCEPT !.todo = @ \ {s}])
  /\ UNCHANGED <<dplan, sweeps, owner, fenced, quiesced, gate, ops, intr,
                 call>>

HookReturns(r) ==
  /\ hook[r].pc = "loop" /\ hook[r].todo = {} /\ Driving(r, "loop") = {}
  /\ HookTo(r, [hook[r] EXCEPT !.pc = "done"])
  /\ UNCHANGED <<dplan, sweeps, owner, fenced, quiesced, gate, ops, intr,
                 stream, call>>

-----------------------------------------------------------------------------
StreamNext(r, s) ==
  \/ BeginCheckpoint(r, s) \/ WakeCheckpoint(r, s) \/ CancelCheckpoint(r, s)
  \/ Link(r, s) \/ StreamEnds(r, s) \/ StreamReleases(r, s)
CallNext(r, s) ==
  \/ BarrierAdmit(r, s) \/ BarrierQuiesce(r, s) \/ BarrierOpen(r, s)
  \/ BarrierRelease(r, s) \/ BarrierReturn(r, s) \/ SendFails(r, s)
HookNext(r) ==
  \/ EndDispatch(r) \/ HookReturns(r) \/ WindowEnds(r)
  \/ \E s \in DrainSessions : BarrierStream(r, s) \/ LoopCheckpoint(r, s)
InterruptNext == WakeInterrupt \/ CancelInterrupt \/ InterruptEnds

DrainSteps ==
  \/ \E r \in Drainers : HookNext(r)
  \/ \E r \in Drainers, s \in DrainSessions :
       StreamNext(r, s) \/ CallNext(r, s)

DrainNext ==
  \/ DrainSteps
  \/ \E r \in Drainers : FireBarrier(r)
  \/ \E r \in Drainers, s \in DrainSessions : PeriodicStream(r, s)
  \/ BeginInterrupt \/ InterruptNext
  \/ \E s \in DrainSessions : TakeLease(s) \/ Fence(s)

(* Goroutines that can run do run, calls to the pod return, and the windows  *)
(* and budgets end.  Nothing makes a replica drain, a sweep begin a periodic *)
(* checkpoint, a client interrupt or an interrupt return.                    *)
DrainFairness == WF_drainVars(DrainSteps)

DrainSpec == DrainInit /\ [][DrainNext]_drainVars

-----------------------------------------------------------------------------
Owning == {"woken", "held", "chunks", "ended"}
Owners ==
  {x \in Drainers \X DrainSessions : stream[x[1]][x[2]].pc \in Owning}
  \cup {x \in {<<"interrupt", 0>>} : intr \in Owning}

(* The operation lock has exactly one owner while it is taken, and nobody    *)
(* waits for a lock that is free: a waiter whose context ended as it was     *)
(* promoted hands the lock on.                                               *)
LockHasOneOwner ==
  /\ ops.running = (Owners # {})
  /\ \A x, y \in Owners : x = y
  /\ ops.interrupt \/ Pending # {} => ops.running
  /\ ~(ops.interrupt /\ Pending # {})
  /\ ops.interrupt = (intr = "wait")
  /\ \A r \in Drainers, s \in DrainSessions :
       (stream[r][s].pc = "wait") = (ops.pending[s] = r)

(* A gateway that reads an acknowledgement knows that a stream of that very  *)
(* session ended while the barrier held it; without a takeover the answer    *)
(* names the stream.  After one, two barriers share a gate.                  *)
AckFollowsStream ==
  \A r \in Drainers, s \in DrainSessions :
    call[r][s].result = "acked" =>
      /\ call[r][s].covered
      /\ "takeover" \notin dplan.moves => call[r][s].ref = r

(* No session stays quiesced once its barriers returned, although a barrier  *)
(* outlives the window, and the hook, of the gateway that sent it; without a *)
(* takeover it is quiesced for as long as one holds it.                      *)
QuiescedWhileHeld ==
  \A s \in DrainSessions :
    LET held == \E r \in Drainers :
                  call[r][s].pc \in {"quiesced", "holding", "acking", "late"}
    IN
    /\ quiesced[s] => held
    /\ "takeover" \notin dplan.moves => (held => quiesced[s])

(* A drain that began returns its summary, although each barrier waits for a *)
(* stream, each stream for the lock, and a co-tenant or an interrupt holds   *)
(* it.  A replica drains once, so when none is draining each has returned.   *)
DrainEnds == Draining # {} ~> Draining = {}

=============================================================================
