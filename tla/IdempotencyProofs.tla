------------------------- MODULE IdempotencyProofs --------------------------
(* The properties of Idempotency for every set of requests and bodies, every *)
(* TTL and every bound on the clock.                                         *)
EXTENDS Idempotency, TLAPS

RequestType ==
  [pc : {"new", "claim", "run", "persist", "done"}, body : Bodies, now : Nat,
   outcome : {"none", "kept", "dropped"}, replayed : Requests \cup {0}]
RowType == [hash : Bodies \cup {"none"}, by : Requests \cup {0}, at : Nat]
WinType == [by : Requests, from : Nat, at : Nat]

KeyTypeOK ==
  /\ clock \in Nat
  /\ keyRow \in RowType
  /\ req \in [Requests -> RequestType]
  /\ ran \in Seq(WinType)
  /\ overran \in BOOLEAN

(* The row names the request whose response it holds.                        *)
RowIsKept ==
  keyRow.by # 0 => /\ req[keyRow.by].body = keyRow.hash
                   /\ req[keyRow.by].outcome = "kept"

(* An operation has an outcome when it returns, and not before.              *)
OutcomeAfterRun ==
  \A q \in Requests :
    /\ req[q].pc \in {"new", "claim", "run"} => req[q].outcome = "none"
    /\ req[q].pc = "persist" => req[q].outcome # "none"

(* What has a time has a past one, and no handler is older than the TTL      *)
(* unless one overran.                                                       *)
Timely ==
  /\ \A q \in Served : req[q].now <= clock
  /\ \A i \in 1..Len(ran) : ran[i].from <= clock /\ ran[i].at <= clock
  /\ ~overran => \A q \in Served : clock - req[q].now <= TTL

(* A request wins at most one claim, and answers only afterwards.            *)
WonOnce ==
  /\ \A i \in 1..Len(ran) : req[ran[i].by].pc \in {"run", "persist", "done"}
  /\ \A i, j \in 1..Len(ran) : ran[i].by = ran[j].by => i = j

(* The operation in flight won the last claim, and the row is still its own. *)
FlightHoldsRow ==
  ~overran =>
    \A q \in InFlight : /\ Present /\ keyRow.at = req[q].now
                        /\ Len(ran) > 0 /\ ran[Len(ran)].by = q

(* An operation that took or may take effect is guarded by a row no older    *)
(* than its claim, or its TTL has passed.                                    *)
Guarded(i) ==
  \/ Present /\ ran[i].from <= keyRow.at
  \/ clock - ran[i].from > TTL
EffectGuarded ==
  ~overran =>
    \A i \in 1..Len(ran) : req[ran[i].by].outcome # "dropped" => Guarded(i)

Spaced ==
  ~overran =>
    \A i, j \in 1..Len(ran) :
      i < j /\ req[ran[i].by].outcome # "dropped" =>
        ran[j].at - ran[i].from > TTL

KeyInv ==
  /\ KeyTypeOK /\ RowIsKept /\ OutcomeAfterRun /\ Timely /\ WonOnce
  /\ FlightHoldsRow /\ EffectGuarded /\ Spaced /\ ReplayMatchesBody

-----------------------------------------------------------------------------
(* A handler that answers stays a handler.                                   *)
LEMMA AnsweredType == \A r \in RequestType : Answered(r) \in RequestType
BY Zenon DEF RequestType, Answered

(* Every step of the clock, the sweep and a handler keeps the types.         *)
LEMMA KeyTypeStep == KeyTypeOK /\ [KeyNext]_keyVars => KeyTypeOK'
<1> SUFFICES ASSUME KeyTypeOK, [KeyNext]_keyVars PROVE KeyTypeOK'
  OBVIOUS
<1>1. CASE Tick
  BY <1>1 DEF Tick, KeyTypeOK, Served
<1>2. CASE DeleteExpired
  BY <1>2 DEF DeleteExpired, KeyTypeOK, NoKey, RowType
<1>3. ASSUME NEW q \in Requests, NEW r \in RequestType, ReqTo(q, r)
      PROVE req' \in [Requests -> RequestType]
  BY <1>3 DEF KeyTypeOK, ReqTo
<1>4. ASSUME NEW q \in Requests, Arrive(q) PROVE KeyTypeOK'
  <2>1. [req[q] EXCEPT !.pc = "claim", !.now = clock] \in RequestType
    BY Zenon DEF KeyTypeOK, RequestType
  <2> QED
    BY <1>3, <1>4, <2>1 DEF Arrive, KeyTypeOK
<1>5. ASSUME NEW q \in Requests, Claim(q) PROVE KeyTypeOK'
  <2>1. CASE Free(req[q].now)
    <3>1. [req[q] EXCEPT !.pc = "run"] \in RequestType
      BY DEF KeyTypeOK, RequestType
    <3>2. [hash |-> req[q].body, by |-> 0, at |-> req[q].now] \in RowType
      BY DEF KeyTypeOK, RequestType, RowType
    <3>3. [by |-> q, from |-> req[q].now, at |-> clock] \in WinType
      BY DEF KeyTypeOK, RequestType, WinType
    <3>4. Append(ran, [by |-> q, from |-> req[q].now, at |-> clock])
            \in Seq(WinType)
      BY <3>3 DEF KeyTypeOK
    <3>5. req' \in [Requests -> RequestType]
      BY <1>3, <1>5, <2>1, <3>1 DEF Claim
    <3> QED
      BY Zenon, <1>5, <2>1, <3>2, <3>4, <3>5 DEF Claim, KeyTypeOK
  <2>2. CASE ~Free(req[q].now)
    <3> DEFINE r == [Answered(req[q]) EXCEPT !.replayed =
                       IF keyRow.hash = req[q].body THEN keyRow.by ELSE @]
    <3>1. r \in RequestType
      BY ZenonT(60) DEF KeyTypeOK, RequestType, RowType, Answered
    <3> QED
      BY <1>3, <1>5, <2>2, <3>1 DEF Claim, KeyTypeOK
  <2> QED
    BY <2>1, <2>2
<1>6. ASSUME NEW q \in Requests, InnerReturns(q) PROVE KeyTypeOK'
  <2>1. PICK o \in {"kept", "dropped"} :
          ReqTo(q, [req[q] EXCEPT !.pc = "persist", !.outcome = o])
    BY Zenon, <1>6 DEF InnerReturns
  <2>2. [req[q] EXCEPT !.pc = "persist", !.outcome = o] \in RequestType
    BY Zenon DEF KeyTypeOK, RequestType
  <2> QED
    BY <1>3, <1>6, <2>1, <2>2 DEF InnerReturns, KeyTypeOK
<1>7. ASSUME NEW q \in Requests, MaybePersist(q) PROVE KeyTypeOK'
  <2>1. Answered(req[q]) \in RequestType
    BY AnsweredType DEF KeyTypeOK
  <2>2. [hash |-> req[q].body, by |-> q, at |-> clock] \in RowType
    BY DEF KeyTypeOK, RequestType, RowType
  <2>3. NoKey \in RowType
    BY DEF NoKey, RowType
  <2> QED
    BY <1>3, <1>7, <2>1, <2>2, <2>3 DEF MaybePersist, KeyTypeOK
<1>8. ASSUME NEW q \in Requests, RequestDies(q) PROVE KeyTypeOK'
  <2>1. [Answered(req[q]) EXCEPT !.outcome = IF @ = "none" THEN "kept" ELSE @]
          \in RequestType
    BY Zenon DEF KeyTypeOK, RequestType, Answered
  <2> QED
    BY <1>3, <1>8, <2>1 DEF RequestDies, KeyTypeOK
<1>9. CASE UNCHANGED keyVars
  BY <1>9 DEF keyVars, KeyTypeOK
<1> QED
  BY <1>1, <1>2, <1>4, <1>5, <1>6, <1>7, <1>8, <1>9 DEF KeyNext

(* What the types say of a claim that was won.                               *)
LEMMA WinFacts ==
  ASSUME KeyTypeOK, NEW i \in 1..Len(ran)
  PROVE  /\ ran[i].by \in Requests /\ ran[i].from \in Nat /\ ran[i].at \in Nat
         /\ req[ran[i].by] \in RequestType
<1>1. ran[i] \in WinType
  BY DEF KeyTypeOK
<1> QED
  BY <1>1 DEF KeyTypeOK, WinType

(* KeyInv is kept when the clock advances: a handler that becomes older than *)
(* the TTL sets overran.                                                     *)
LEMMA TickKeeps == ASSUME KeyInv, KeyTypeOK', Tick PROVE KeyInv'
<1> USE DEF KeyInv
<1>1. /\ keyRow' = keyRow /\ req' = req /\ ran' = ran /\ clock' = clock + 1
      /\ clock \in Nat /\ TTL \in Nat
  BY TTLAssumption DEF Tick, KeyTypeOK
<1>2. ~overran' => /\ ~overran
                   /\ \A q \in Served : ~(clock + 1 - req[q].now > TTL)
  BY Zenon DEF Tick
<1>3. \A q \in Served : q \in Requests /\ req[q].now \in Nat
  BY DEF Served, KeyTypeOK, RequestType
<1>4. RowIsKept' /\ OutcomeAfterRun' /\ WonOnce' /\ ReplayMatchesBody'
  BY <1>1 DEF RowIsKept, OutcomeAfterRun, WonOnce, ReplayMatchesBody
<1>5. Timely'
  <2>1. Served' = Served
    BY <1>1 DEF Served
  <2>2. \A i \in 1..Len(ran) : ran[i].from <= clock' /\ ran[i].at <= clock'
    BY <1>1, WinFacts DEF Timely
  <2>3. \A q \in Served : req[q].now <= clock'
    BY <1>1, <1>3 DEF Timely
  <2>4. ~overran' => \A q \in Served : clock' - req[q].now <= TTL
    BY <1>1, <1>2, <1>3
  <2> QED
    BY <1>1, <2>1, <2>2, <2>3, <2>4 DEF Timely
<1>6. FlightHoldsRow' /\ Spaced'
  BY <1>1, <1>2 DEF FlightHoldsRow, Spaced, InFlight, Present
<1>7. EffectGuarded'
  <2>1. ASSUME NEW i \in 1..Len(ran), Guarded(i) PROVE Guarded(i)'
    BY <1>1, <2>1, WinFacts DEF Guarded, Present
  <2> QED
    BY <1>1, <1>2, <2>1 DEF EffectGuarded
<1> QED
  BY <1>4, <1>5, <1>6, <1>7

(* KeyInv is kept when the sweep deletes an expired row: no operation in     *)
(* flight can own it, and what it guarded is past its TTL.                   *)
LEMMA DeleteExpiredKeeps ==
  ASSUME KeyInv, KeyTypeOK', DeleteExpired PROVE KeyInv'
<1> USE DEF KeyInv
<1>1. /\ Present /\ keyRow.at < clock - TTL /\ keyRow' = NoKey
      /\ UNCHANGED <<clock, req, ran, overran>>
      /\ clock \in Nat /\ TTL \in Nat /\ keyRow.at \in Nat
  BY TTLAssumption DEF DeleteExpired, KeyTypeOK, RowType
<1>2. RowIsKept' /\ OutcomeAfterRun' /\ WonOnce' /\ ReplayMatchesBody'
      /\ Timely' /\ Spaced'
  BY <1>1 DEF RowIsKept, OutcomeAfterRun, WonOnce, ReplayMatchesBody, Timely,
              Spaced, Served, NoKey
<1>3. FlightHoldsRow'
  <2>1. InFlight' = InFlight /\ InFlight \subseteq Served
    BY <1>1 DEF InFlight, Served
  <2>2. ~overran => \A q \in InFlight : clock - keyRow.at <= TTL
    BY <2>1 DEF Timely, FlightHoldsRow
  <2>3. ~overran => InFlight = {}
    BY <1>1, <2>2
  <2> QED
    BY <1>1, <2>1, <2>3 DEF FlightHoldsRow
<1>4. EffectGuarded'
  <2>1. ASSUME NEW i \in 1..Len(ran), Guarded(i) PROVE Guarded(i)'
    BY <1>1, <2>1, WinFacts DEF Guarded, Present, NoKey
  <2> QED
    BY <1>1, <2>1 DEF EffectGuarded
<1> QED
  BY <1>2, <1>3, <1>4

(* KeyInv is kept when a request arrives.                                    *)
LEMMA ArriveKeeps ==
  ASSUME KeyInv, KeyTypeOK', NEW q \in Requests, Arrive(q) PROVE KeyInv'
<1> USE DEF KeyInv
<1>1. /\ UNCHANGED <<clock, keyRow, ran, overran>>
      /\ clock \in Nat /\ TTL \in Nat /\ req[q].pc = "new"
  BY TTLAssumption DEF Arrive, KeyTypeOK
<1>2. req'[q] = [req[q] EXCEPT !.pc = "claim", !.now = clock]
  BY DEF Arrive, ReqTo, KeyTypeOK
<1>3. \A p \in Requests : p # q => req'[p] = req[p]
  BY DEF Arrive, ReqTo, KeyTypeOK
<1>4. /\ req'[q].pc = "claim" /\ req'[q].now = clock
      /\ req'[q].body = req[q].body /\ req'[q].outcome = req[q].outcome
      /\ req'[q].replayed = req[q].replayed
  BY <1>2 DEF KeyTypeOK, RequestType
<1>5. \A p \in Requests : /\ req'[p].body = req[p].body
                          /\ req'[p].outcome = req[p].outcome
                          /\ req'[p].replayed = req[p].replayed
  BY <1>3, <1>4
<1>6. InFlight' = InFlight /\ q \notin InFlight /\ Served' = Served \cup {q}
  BY <1>1, <1>3, <1>4 DEF InFlight, Served
<1>7. RowIsKept' /\ ReplayMatchesBody'
  BY <1>1, <1>5
     DEF RowIsKept, ReplayMatchesBody, KeyTypeOK, RowType, RequestType
<1>8. OutcomeAfterRun'
  BY <1>1, <1>3, <1>4 DEF OutcomeAfterRun
<1>9. Timely'
  BY <1>1, <1>3, <1>4, <1>6 DEF Timely, Served
<1>10. WonOnce'
  BY <1>1, <1>3, WinFacts DEF WonOnce
<1>11. FlightHoldsRow'
  BY <1>1, <1>3, <1>6 DEF FlightHoldsRow, InFlight, Present
<1>12. EffectGuarded' /\ Spaced'
  BY <1>1, <1>5, WinFacts DEF EffectGuarded, Guarded, Spaced, Present
<1> QED
  BY <1>7, <1>8, <1>9, <1>10, <1>11, <1>12

(* KeyInv is kept when a request wins the claim: unless a handler overran,   *)
(* nothing is in flight, and what took effect is past its TTL.               *)
LEMMA WinKeeps ==
  ASSUME KeyInv, KeyTypeOK', NEW q \in Requests, Claim(q), Free(req[q].now)
  PROVE  KeyInv'
<1> USE DEF KeyInv
<1> DEFINE w == [by |-> q, from |-> req[q].now, at |-> clock]
<1>1. /\ UNCHANGED <<clock, overran>> /\ req[q].pc = "claim"
      /\ keyRow' = [hash |-> req[q].body, by |-> 0, at |-> req[q].now]
      /\ ran' = Append(ran, w)
  BY DEF Claim
<1>2. /\ clock \in Nat /\ TTL \in Nat /\ req[q].now \in Nat
      /\ keyRow.at \in Nat /\ ran \in Seq(WinType)
      /\ req[q].body \in Bodies /\ req[q].body # "none"
  BY TTLAssumption, BodiesAssumption DEF KeyTypeOK, RequestType, RowType
<1>3. req'[q] = [req[q] EXCEPT !.pc = "run"]
  BY DEF Claim, ReqTo, KeyTypeOK
<1>4. \A p \in Requests : p # q => req'[p] = req[p]
  BY DEF Claim, ReqTo, KeyTypeOK
<1>5. /\ req'[q].pc = "run" /\ req'[q].now = req[q].now
      /\ req'[q].body = req[q].body /\ req'[q].outcome = req[q].outcome
      /\ req'[q].replayed = req[q].replayed
  BY <1>3 DEF KeyTypeOK, RequestType
<1>6. \A p \in Requests : /\ req'[p].body = req[p].body
                          /\ req'[p].outcome = req[p].outcome
                          /\ req'[p].replayed = req[p].replayed
                          /\ req'[p].now = req[p].now
  BY <1>4, <1>5
<1>7. /\ Len(ran') = Len(ran) + 1 /\ Len(ran) \in Nat
      /\ \A i \in 1..Len(ran) : ran'[i] = ran[i]
      /\ ran'[Len(ran')] = w
  BY <1>1, <1>2
<1>8. /\ InFlight' = InFlight \cup {q} /\ Served' = Served
      /\ q \in Served /\ req[q].now <= clock
  BY <1>1, <1>4, <1>5 DEF InFlight, Served, Timely
<1>9. ~overran => InFlight = {}
  <2>1. ASSUME ~overran, NEW p \in InFlight PROVE FALSE
    <3>1. /\ Present /\ keyRow.at = req[p].now /\ clock - req[p].now <= TTL
      BY <2>1 DEF FlightHoldsRow, Timely, InFlight, Served
    <3> QED
      BY <1>2, <1>8, <3>1 DEF Free, IsExpired
  <2> QED
    BY <2>1
<1>10. ASSUME ~overran, NEW i \in 1..Len(ran),
              req[ran[i].by].outcome # "dropped"
       PROVE  clock - ran[i].from > TTL
  <2>1. Guarded(i) /\ ran[i].from \in Nat
    BY <1>10, WinFacts DEF EffectGuarded
  <2> QED
    BY <1>2, <1>8, <2>1 DEF Guarded, Free, IsExpired
<1>11. RowIsKept' /\ ReplayMatchesBody'
  BY <1>1, <1>6 DEF RowIsKept, ReplayMatchesBody, KeyTypeOK, RequestType
<1>12. OutcomeAfterRun'
  BY <1>1, <1>4, <1>5 DEF OutcomeAfterRun
<1>13. Timely'
  BY SMTT(60), <1>1, <1>2, <1>6, <1>7, <1>8 DEF Timely, Served
<1>14. WonOnce'
  <2>1. \A i \in 1..Len(ran) : ran[i].by \in Requests /\ ran[i].by # q
    BY <1>1, WinFacts DEF WonOnce
  <2> QED
    BY SMTT(60), <1>4, <1>5, <1>7, <2>1 DEF WonOnce
<1>15. FlightHoldsRow'
  BY SMTT(60), <1>1, <1>2, <1>5, <1>7, <1>8, <1>9 DEF FlightHoldsRow, Present
<1>16. EffectGuarded'
  <2>1. ASSUME ~overran, NEW i \in 1..Len(ran'),
               req'[ran'[i].by].outcome # "dropped"
        PROVE  Guarded(i)'
    <3>1. CASE i \in 1..Len(ran)
      BY <1>1, <1>6, <1>7, <1>10, <2>1, <3>1, WinFacts DEF Guarded
    <3>2. CASE i = Len(ran')
      BY <1>1, <1>2, <1>7, <3>2 DEF Guarded, Present
    <3> QED
      BY <1>7, <3>1, <3>2
  <2> QED
    BY <1>1, <2>1 DEF EffectGuarded
<1>17. Spaced'
  <2>1. ASSUME ~overran, NEW i \in 1..Len(ran'), NEW j \in 1..Len(ran'),
               i < j, req'[ran'[i].by].outcome # "dropped"
        PROVE  ran'[j].at - ran'[i].from > TTL
    <3>1. i \in 1..Len(ran) /\ req[ran[i].by].outcome # "dropped"
      BY <1>6, <1>7, <2>1, WinFacts
    <3>2. CASE j \in 1..Len(ran)
      BY <1>7, <2>1, <3>1, <3>2 DEF Spaced
    <3>3. CASE j = Len(ran')
      BY <1>7, <1>10, <2>1, <3>1, <3>3
    <3> QED
      BY <1>7, <3>2, <3>3
  <2> QED
    BY Zenon, <1>1, <2>1 DEF Spaced
<1> QED
  BY <1>11, <1>12, <1>13, <1>14, <1>15, <1>16, <1>17

(* KeyInv is kept when a request finds the row taken: a response it replays  *)
(* is the kept one of a request with its body.                               *)
LEMMA FoundKeeps ==
  ASSUME KeyInv, KeyTypeOK', NEW q \in Requests, Claim(q), ~Free(req[q].now)
  PROVE  KeyInv'
<1> USE DEF KeyInv
<1>1. UNCHANGED <<clock, keyRow, ran, overran>> /\ req[q].pc = "claim"
  BY DEF Claim
<1>2. req'[q] = [Answered(req[q]) EXCEPT !.replayed =
                   IF keyRow.hash = req[q].body THEN keyRow.by ELSE @]
  BY DEF Claim, ReqTo, KeyTypeOK
<1>3. \A p \in Requests : p # q => req'[p] = req[p]
  BY DEF Claim, ReqTo, KeyTypeOK
<1>4. /\ req'[q].pc = "done"
      /\ req'[q].body = req[q].body /\ req'[q].outcome = req[q].outcome
      /\ \/ req'[q].replayed = req[q].replayed
         \/ req'[q].replayed = keyRow.by /\ keyRow.hash = req[q].body
  BY <1>2 DEF KeyTypeOK, RequestType, Answered
<1>5. \A p \in Requests : /\ req'[p].body = req[p].body
                          /\ req'[p].outcome = req[p].outcome
  BY <1>3, <1>4
<1>6. InFlight' = InFlight /\ q \notin InFlight /\ Served' = Served \ {q}
  BY <1>1, <1>3, <1>4 DEF InFlight, Served
<1>7. RowIsKept' /\ ReplayMatchesBody'
  BY SMTT(60), <1>1, <1>3, <1>4, <1>5
     DEF RowIsKept, ReplayMatchesBody, KeyTypeOK, RowType, RequestType
<1>8. OutcomeAfterRun'
  BY <1>1, <1>3, <1>4 DEF OutcomeAfterRun
<1>9. Timely'
  BY <1>1, <1>3, <1>6 DEF Timely, Served
<1>10. WonOnce'
  BY <1>1, <1>3, <1>4, WinFacts DEF WonOnce
<1>11. FlightHoldsRow'
  BY <1>1, <1>3, <1>6 DEF FlightHoldsRow, InFlight, Present
<1>12. EffectGuarded' /\ Spaced'
  BY <1>1, <1>5, WinFacts DEF EffectGuarded, Guarded, Spaced, Present
<1> QED
  BY <1>7, <1>8, <1>9, <1>10, <1>11, <1>12

(* KeyInv is kept when an operation returns.                                 *)
LEMMA InnerReturnsKeeps ==
  ASSUME KeyInv, KeyTypeOK', NEW q \in Requests, InnerReturns(q) PROVE KeyInv'
<1> USE DEF KeyInv
<1>1. UNCHANGED <<clock, keyRow, ran, overran>> /\ req[q].pc = "run"
  BY DEF InnerReturns
<1>2. PICK o \in {"kept", "dropped"} :
        ReqTo(q, [req[q] EXCEPT !.pc = "persist", !.outcome = o])
  BY Zenon DEF InnerReturns
<1>3. req'[q] = [req[q] EXCEPT !.pc = "persist", !.outcome = o]
  BY <1>2 DEF ReqTo, KeyTypeOK
<1>4. \A p \in Requests : p # q => req'[p] = req[p]
  BY <1>2 DEF ReqTo, KeyTypeOK
<1>5. /\ req'[q].pc = "persist" /\ req'[q].outcome = o
      /\ req'[q].body = req[q].body /\ req'[q].now = req[q].now
      /\ req'[q].replayed = req[q].replayed
  BY <1>3 DEF KeyTypeOK, RequestType
<1>6. /\ req[q].outcome = "none"
      /\ \A p \in Requests : /\ req'[p].body = req[p].body
                             /\ req'[p].now = req[p].now
                             /\ req'[p].replayed = req[p].replayed
                             /\ req[p].outcome = "kept" =>
                                  req'[p].outcome = "kept"
                             /\ req[p].outcome = "dropped" =>
                                  req'[p].outcome = "dropped"
  BY <1>1, <1>4, <1>5 DEF OutcomeAfterRun
<1>7. InFlight' = InFlight /\ Served' = Served
  BY <1>1, <1>4, <1>5 DEF InFlight, Served
<1>8. RowIsKept' /\ ReplayMatchesBody'
  BY <1>1, <1>6
     DEF RowIsKept, ReplayMatchesBody, KeyTypeOK, RowType, RequestType
<1>9. OutcomeAfterRun'
  BY <1>4, <1>5 DEF OutcomeAfterRun
<1>10. Timely'
  BY <1>1, <1>6, <1>7 DEF Timely, Served
<1>11. WonOnce'
  BY <1>1, <1>4, <1>5, WinFacts DEF WonOnce
<1>12. FlightHoldsRow'
  BY <1>1, <1>6, <1>7 DEF FlightHoldsRow, InFlight, Present
<1>13. EffectGuarded' /\ Spaced'
  BY <1>1, <1>6, WinFacts DEF EffectGuarded, Guarded, Spaced, Present
<1> QED
  BY <1>8, <1>9, <1>10, <1>11, <1>12, <1>13

(* KeyInv is kept when a handler writes or releases its row, or fails to: a  *)
(* row it releases guards no operation whose TTL has not passed.             *)
LEMMA MaybePersistKeeps ==
  ASSUME KeyInv, KeyTypeOK', NEW q \in Requests, MaybePersist(q) PROVE KeyInv'
<1> USE DEF KeyInv
<1>1. /\ UNCHANGED <<clock, ran, overran>> /\ req[q].pc = "persist"
      /\ ReqTo(q, Answered(req[q]))
      /\ clock \in Nat /\ TTL \in Nat
      /\ req[q].body \in Bodies /\ req[q].body # "none"
  BY TTLAssumption, BodiesAssumption DEF MaybePersist, KeyTypeOK, RequestType
<1>2. req'[q] = Answered(req[q])
  BY <1>1 DEF ReqTo, KeyTypeOK
<1>3. \A p \in Requests : p # q => req'[p] = req[p]
  BY <1>1 DEF ReqTo, KeyTypeOK
<1>4. /\ req'[q].pc = "done"
      /\ req'[q].body = req[q].body /\ req'[q].outcome = req[q].outcome
      /\ req'[q].replayed = req[q].replayed
  BY <1>2 DEF KeyTypeOK, RequestType, Answered
<1>5. \A p \in Requests : /\ req'[p].body = req[p].body
                          /\ req'[p].outcome = req[p].outcome
                          /\ req'[p].replayed = req[p].replayed
  BY <1>3, <1>4
<1>6. /\ q \in InFlight /\ InFlight' = InFlight \ {q}
      /\ Served' = Served \ {q}
  BY <1>1, <1>3, <1>4 DEF InFlight, Served
<1>7. \/ /\ req[q].outcome = "kept"
         /\ keyRow' = [hash |-> req[q].body, by |-> q, at |-> clock]
      \/ req[q].outcome = "dropped" /\ keyRow' = NoKey
      \/ keyRow' = keyRow
  BY <1>1 DEF MaybePersist, OutcomeAfterRun, KeyTypeOK, RequestType
<1>8. ~overran => InFlight' = {} /\ Len(ran) > 0 /\ ran[Len(ran)].by = q
  BY <1>6 DEF FlightHoldsRow
<1>9. RowIsKept' /\ ReplayMatchesBody'
  BY <1>5, <1>7
     DEF RowIsKept, ReplayMatchesBody, KeyTypeOK, RowType, RequestType, NoKey
<1>10. OutcomeAfterRun'
  BY <1>3, <1>4 DEF OutcomeAfterRun
<1>11. Timely'
  BY <1>1, <1>3, <1>6 DEF Timely, Served
<1>12. WonOnce'
  BY <1>1, <1>3, <1>4, WinFacts DEF WonOnce
<1>13. FlightHoldsRow'
  BY <1>1, <1>8 DEF FlightHoldsRow
<1>14. EffectGuarded'
  <2>1. ASSUME ~overran, NEW i \in 1..Len(ran),
               req[ran[i].by].outcome # "dropped"
        PROVE  Guarded(i)'
    <3>1. /\ Guarded(i) /\ ran[i].from \in Nat /\ ran[i].from <= clock
      BY <2>1, WinFacts DEF EffectGuarded, Timely
    <3>2. CASE keyRow' = [hash |-> req[q].body, by |-> q, at |-> clock]
      BY <1>1, <3>1, <3>2 DEF Guarded, Present
    <3>3. CASE req[q].outcome = "dropped" /\ keyRow' = NoKey
      <4>1. /\ Len(ran) \in 1..Len(ran) /\ i < Len(ran)
            /\ ran[Len(ran)].at \in Nat
        BY <1>8, <2>1, <3>3, WinFacts DEF KeyTypeOK
      <4>2. /\ ran[Len(ran)].at - ran[i].from > TTL
            /\ ran[Len(ran)].at <= clock
        BY <2>1, <4>1 DEF Spaced, Timely
      <4> QED
        BY <1>1, <3>1, <4>1, <4>2 DEF Guarded
    <3>4. CASE keyRow' = keyRow
      BY <1>1, <3>1, <3>4 DEF Guarded, Present
    <3> QED
      BY <1>7, <3>2, <3>3, <3>4
  <2> QED
    BY <1>1, <1>5, <2>1, WinFacts DEF EffectGuarded
<1>15. Spaced'
  BY <1>1, <1>5, WinFacts DEF Spaced
<1> QED
  BY <1>9, <1>10, <1>11, <1>12, <1>13, <1>14, <1>15

(* KeyInv is kept when a replica dies with a handler: the row stays.         *)
LEMMA RequestDiesKeeps ==
  ASSUME KeyInv, KeyTypeOK', NEW q \in Requests, RequestDies(q) PROVE KeyInv'
<1> USE DEF KeyInv
<1>1. /\ UNCHANGED <<clock, keyRow, ran, overran>>
      /\ req[q].pc \in {"run", "persist"}
  BY DEF RequestDies
<1>2. req'[q] = [Answered(req[q]) EXCEPT !.outcome =
                   IF @ = "none" THEN "kept" ELSE @]
  BY DEF RequestDies, ReqTo, KeyTypeOK
<1>3. \A p \in Requests : p # q => req'[p] = req[p]
  BY DEF RequestDies, ReqTo, KeyTypeOK
<1>4. /\ req'[q].pc = "done" /\ req'[q].body = req[q].body
      /\ req'[q].replayed = req[q].replayed
      /\ req'[q].outcome = IF req[q].outcome = "none" THEN "kept"
                                                     ELSE req[q].outcome
  BY <1>2 DEF KeyTypeOK, RequestType, Answered
<1>5. \A p \in Requests :
        /\ req'[p].body = req[p].body /\ req'[p].replayed = req[p].replayed
        /\ req[p].outcome = "kept" => req'[p].outcome = "kept"
        /\ req[p].outcome = "dropped" => req'[p].outcome = "dropped"
  BY <1>3, <1>4
<1>6. InFlight' = InFlight \ {q} /\ Served' = Served \ {q}
  BY <1>1, <1>3, <1>4 DEF InFlight, Served
<1>7. RowIsKept' /\ ReplayMatchesBody'
  BY <1>1, <1>5
     DEF RowIsKept, ReplayMatchesBody, KeyTypeOK, RowType, RequestType
<1>8. OutcomeAfterRun'
  BY <1>3, <1>4 DEF OutcomeAfterRun
<1>9. Timely'
  BY <1>1, <1>3, <1>6 DEF Timely, Served
<1>10. WonOnce'
  BY <1>1, <1>3, <1>4, WinFacts DEF WonOnce
<1>11. FlightHoldsRow'
  BY <1>1, <1>3, <1>6 DEF FlightHoldsRow, InFlight, Present
<1>12. EffectGuarded' /\ Spaced'
  BY <1>1, <1>5, WinFacts DEF EffectGuarded, Guarded, Spaced, Present
<1> QED
  BY <1>7, <1>8, <1>9, <1>10, <1>11, <1>12

-----------------------------------------------------------------------------
(* KeyInv holds in every reachable state of the key's row and handlers.      *)
THEOREM KeyCorrect == KeySpec => []KeyInv
<1>1. KeyInit => KeyInv
  <2> SUFFICES ASSUME KeyInit PROVE KeyInv
    OBVIOUS
  <2>1. PICK body \in [Requests -> Bodies] :
          req = [q \in Requests |-> NewRequest(body[q])]
    BY DEF KeyInit
  <2>2. \A b \in Bodies : /\ NewRequest(b) \in RequestType
                          /\ NewRequest(b).pc = "new"
                          /\ NewRequest(b).outcome = "none"
                          /\ NewRequest(b).replayed = 0
    BY DEF NewRequest, RequestType
  <2>3. \A q \in Requests : /\ req[q] \in RequestType /\ req[q].pc = "new"
                            /\ req[q].outcome = "none" /\ req[q].replayed = 0
    BY Zenon, <2>1, <2>2
  <2>4. req \in [Requests -> RequestType]
    BY <2>1, <2>2
  <2>5. clock = 0 /\ keyRow = NoKey /\ ran = <<>> /\ overran = FALSE
    BY DEF KeyInit
  <2>6. KeyTypeOK
    <3>1. keyRow \in RowType
      BY <2>5 DEF NoKey, RowType
    <3>2. ran \in Seq(WinType)
      BY <2>5
    <3>3. clock \in Nat /\ overran \in BOOLEAN
      BY Zenon, <2>5
    <3> QED
      BY <2>4, <3>1, <3>2, <3>3 DEF KeyTypeOK
  <2>7. Served = {} /\ InFlight = {} /\ Len(ran) = 0 /\ keyRow.by = 0
    <3>1. Served = {} /\ InFlight = {}
      BY <2>3 DEF Served, InFlight
    <3>2. Len(ran) = 0 /\ keyRow.by = 0
      BY <2>5 DEF NoKey
    <3> QED
      BY <3>1, <3>2
  <2>8. RowIsKept /\ OutcomeAfterRun /\ ReplayMatchesBody
    BY <2>3, <2>7 DEF RowIsKept, OutcomeAfterRun, ReplayMatchesBody
  <2>9. Timely /\ WonOnce /\ FlightHoldsRow /\ EffectGuarded /\ Spaced
    BY <2>7 DEF Timely, WonOnce, FlightHoldsRow, EffectGuarded, Spaced
  <2> QED
    BY <2>6, <2>8, <2>9 DEF KeyInv
<1>2. KeyInv /\ [KeyNext]_keyVars => KeyInv'
  <2> SUFFICES ASSUME KeyInv, [KeyNext]_keyVars PROVE KeyInv'
    OBVIOUS
  <2>1. KeyTypeOK'
    BY KeyTypeStep DEF KeyInv
  <2>2. CASE UNCHANGED keyVars
    BY <2>1, <2>2
       DEF keyVars, KeyInv, RowIsKept, OutcomeAfterRun, Timely, WonOnce,
           FlightHoldsRow, EffectGuarded, Guarded, Spaced, ReplayMatchesBody,
           Served, InFlight, Present
  <2> QED
    BY <2>1, <2>2, TickKeeps, DeleteExpiredKeeps, ArriveKeeps, WinKeeps,
       FoundKeeps, InnerReturnsKeeps, MaybePersistKeeps, RequestDiesKeeps
       DEF KeyNext
<1> QED
  BY <1>1, <1>2, PTL DEF KeySpec

(* Whatever ServeHTTP, maybePersist and the sweep interleave, an operation   *)
(* that took effect is not run again within the TTL of its claim, unless     *)
(* some handler took longer than that.                                       *)
THEOREM EffectHappensOnce == KeySpec => []EffectOnce
<1>1. KeyInv => EffectOnce
  BY DEF KeyInv, KeyTypeOK, Spaced, EffectOnce
<1> QED
  BY <1>1, KeyCorrect, PTL

(* The claim is a lock: without a handler that outlives the TTL, at most one *)
(* operation of a key is in flight.                                          *)
THEOREM ClaimExcludes == KeySpec => []OneInFlight
<1>1. KeyInv => OneInFlight
  BY DEF KeyInv, FlightHoldsRow, OneInFlight
<1> QED
  BY <1>1, KeyCorrect, PTL

(* A replayed response is the kept one of a request with the same body, with *)
(* no assumption on how long a handler takes.                                *)
THEOREM ReplayIsOfSameBody == KeySpec => []ReplayMatchesBody
<1>1. KeyInv => ReplayMatchesBody
  BY DEF KeyInv
<1> QED
  BY <1>1, KeyCorrect, PTL

=============================================================================
