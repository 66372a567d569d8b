------------------------------ MODULE MCDrain -------------------------------
(* Drain on two sessions of a pod and two replicas, and Idempotency on three *)
(* requests with one key; a behaviour plays one scene.  The plans of a drain *)
(* keep the product of its faults small: a takeover of one session, two      *)
(* sessions and an interrupt on a pod that was never fenced, and a session   *)
(* with an interrupt and two periodic checkpoints.                           *)
EXTENDS Drain, Idempotency

VARIABLE scene

MCVars == <<drainVars, keyVars, scene>>

DrainPlan(n, f, p, m) ==
  [sessions |-> 1..n, fenced |-> f, periodic |-> p, moves |-> m]

MCDrainPlans ==
  {DrainPlan(1, 1, 0, {"takeover"}), DrainPlan(2, 0, 0, {"interrupt"}),
   DrainPlan(1, 1, 2, {"interrupt"})}

\* The scene that is not played stays at one initial state, and the first
\* request has the first of the bodies, which are alike.
First == NewRequest("a")
OneOfEach ==
  /\ req[1] = First
  /\ scene = "drain" => req = [q \in Requests |-> First]
  /\ scene = "key" => dplan = DrainPlan(1, 1, 2, {"interrupt"})

MCInit == DrainInit /\ KeyInit /\ scene \in {"drain", "key"} /\ OneOfEach
MCNext ==
  \/ scene = "drain" /\ DrainNext /\ UNCHANGED <<keyVars, scene>>
  \/ scene = "key" /\ KeyNext /\ UNCHANGED <<drainVars, scene>>

MCSpec == MCInit /\ [][MCNext]_MCVars /\ DrainFairness

=============================================================================
