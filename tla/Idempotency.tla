---------------------------- MODULE Idempotency -----------------------------
(* One (tenant, Idempotency-Key) pair: requests that carry the key arrive at *)
(* any replica, claim the key's row, run the operation and finalise the row. *)
(* A request may be cancelled by its client, panic or die with its replica.  *)
(* Time is counted in units of the key's TTL.                                *)
EXTENDS Integers, Sequences

CONSTANTS
  Requests,  \* 1..n: requests that carry the key, as they arrive
  Bodies,    \* body hashes
  TTL,       \* the life of a row
  MaxTime    \* bound on the clock

ASSUME RequestsAssumption == 0 \notin Requests
ASSUME BodiesAssumption == "none" \notin Bodies
ASSUME TTLAssumption == TTL \in Nat

VARIABLES
  clock,     \* the time
  keyRow,    \* the idempotency_keys row
  req,       \* request -> its handler
  ran,       \* the requests that won a claim, in order: when each arrived,
             \*   and when it won
  overran    \* some handler took longer than the TTL

keyVars == <<clock, keyRow, req, ran, overran>>

NoKey == [hash |-> "none", by |-> 0, at |-> 0]   \* by: 0 while pending
NewRequest(b) ==
  [pc |-> "new", body |-> b, now |-> 0, outcome |-> "none", replayed |-> 0]

KeyInit ==
  /\ clock = 0
  /\ keyRow = NoKey
  /\ \E body \in [Requests -> Bodies] :
       req = [q \in Requests |-> NewRequest(body[q])]
  /\ ran = <<>>
  /\ overran = FALSE

Present == keyRow.hash # "none"
IsExpired(now) == now - keyRow.at > TTL
\* Mutant: a pending row can be claimed again.
FreePending(now) == ~Present \/ keyRow.by = 0 \/ IsExpired(now)
Free(now) == ~Present \/ IsExpired(now)

ReqTo(q, r) == req' = [req EXCEPT ![q] = r]
Answered(r) == [r EXCEPT !.pc = "done", !.now = 0]

(* ServeHTTP reads the clock once, for the claim and for nothing else.       *)
Arrive(q) ==
  /\ req[q].pc = "new" /\ \A p \in Requests : p < q => req[p].pc # "new"
  /\ ReqTo(q, [req[q] EXCEPT !.pc = "claim", !.now = clock])
  /\ UNCHANGED <<clock, keyRow, ran, overran>>

(* The row is taken when it is absent or expired; else it is in flight, a    *)
(* replay or a reuse.  Its age is measured at the time the request arrived.  *)
Claim(q) ==
  LET r == req[q] IN
  /\ r.pc = "claim"
  /\ IF Free(r.now)
       THEN /\ keyRow' = [hash |-> r.body, by |-> 0, at |-> r.now]
            /\ ReqTo(q, [r EXCEPT !.pc = "run"])
            /\ ran' = Append(ran, [by |-> q, from |-> r.now, at |-> clock])
       ELSE /\ ReqTo(q, [Answered(r) EXCEPT !.replayed =
                           IF keyRow.hash = r.body THEN keyRow.by ELSE @])
            /\ UNCHANGED <<keyRow, ran>>
  /\ UNCHANGED <<clock, overran>>

(* The operation returns a response to keep, or one that must not be         *)
(* replayed: a 5xx, a stream, a refused forward, a panic.                    *)
InnerReturns(q) ==
  /\ req[q].pc = "run"
  /\ \E o \in {"kept", "dropped"} :
       ReqTo(q, [req[q] EXCEPT !.pc = "persist", !.outcome = o])
  /\ UNCHANGED <<clock, keyRow, ran, overran>>

\* Mutant: Put updates the response and not the body hash.
PersistResponse(q) ==
  LET r == req[q] IN
  /\ r.pc = "persist"
  /\ keyRow' = IF r.outcome = "kept"
                 THEN [keyRow EXCEPT !.by = q, !.at = clock] ELSE NoKey
  /\ ReqTo(q, Answered(r))
  /\ UNCHANGED <<clock, ran, overran>>

\* Mutant: the claim is released when Put fails.
PersistOrRelease(q) ==
  LET r == req[q] IN
  /\ r.pc = "persist"
  /\ \/ /\ r.outcome = "kept"
        /\ keyRow' = [hash |-> r.body, by |-> q, at |-> clock]
     \/ keyRow' = NoKey
  /\ ReqTo(q, Answered(r))
  /\ UNCHANGED <<clock, ran, overran>>

(* Put or Release names the key alone.  Either may fail, always so once the  *)
(* client has gone: the row stays as it is.                                  *)
MaybePersist(q) ==
  LET r == req[q] IN
  /\ r.pc = "persist"
  /\ \/ keyRow' = IF r.outcome = "kept"
                    THEN [hash |-> r.body, by |-> q, at |-> clock]
                    ELSE NoKey
     \/ UNCHANGED keyRow
  /\ ReqTo(q, Answered(r))
  /\ UNCHANGED <<clock, ran, overran>>

(* The replica dies: the operation may have taken effect.                    *)
RequestDies(q) ==
  /\ req[q].pc \in {"run", "persist"}
  /\ ReqTo(q, [Answered(req[q]) EXCEPT !.outcome =
                 IF @ = "none" THEN "kept" ELSE @])
  /\ UNCHANGED <<clock, keyRow, ran, overran>>

DeleteExpired ==
  /\ Present /\ keyRow.at < clock - TTL
  /\ keyRow' = NoKey
  /\ UNCHANGED <<clock, req, ran, overran>>

InFlight == {q \in Requests : req[q].pc \in {"run", "persist"}}
Served == {q \in Requests : req[q].pc \notin {"new", "done"}}

Tick ==
  /\ clock < MaxTime /\ clock' = clock + 1
  /\ overran' = (overran \/ \E q \in Served : clock + 1 - req[q].now > TTL)
  /\ UNCHANGED <<keyRow, req, ran>>

KeyNext ==
  \/ Tick \/ DeleteExpired
  \/ \E q \in Requests : \/ Arrive(q) \/ Claim(q) \/ InnerReturns(q)
                         \/ MaybePersist(q) \/ RequestDies(q)

KeySpec == KeyInit /\ [][KeyNext]_keyVars

-----------------------------------------------------------------------------
(* Within the TTL of its claim an operation that took effect is not run      *)
(* again, although its Put failed, its client left or its replica died.  No  *)
(* handler may take longer than the TTL.                                     *)
EffectOnce ==
  ~overran =>
    \A i, j \in DOMAIN ran :
      i < j /\ req[ran[i].by].outcome = "kept" =>
        ran[j].at - ran[i].from > TTL

(* Two operations of a key are in flight at once only if a handler took      *)
(* longer than the TTL.                                                      *)
OneInFlight == ~overran => \A p, q \in InFlight : p = q

(* A replay is the kept response of a request with the same body, even if a  *)
(* handler outlived its claim and wrote over its successor's.                *)
ReplayMatchesBody ==
  \A q \in Requests :
    req[q].replayed # 0 =>
      LET p == req[req[q].replayed] IN
      p.body = req[q].body /\ p.outcome = "kept"

=============================================================================
