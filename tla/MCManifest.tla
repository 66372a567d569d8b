----------------------------- MODULE MCManifest -----------------------------
(* Manifest on two attempts.  The plans keep the product of the faults small *)
(* enough for the liveness check: an attempt alone meets every move of its   *)
(* session, and two attempts in turn meet each move by itself.  Two attempts *)
(* of two replicas overlap without a resume.  Three chunks pass the grant    *)
(* window and, with Limit, the headroom of the reservation.                  *)
EXTENDS Manifest

Plan(o, n, c, m) == [overlap |-> o, attempts |-> n, chunks |-> c, moves |-> m]
Moves == {"resume", "takeover", "idle"}

MCPlans ==
  {Plan(FALSE, 1, 2, Moves), Plan(FALSE, 1, 3, {"idle"}),
   Plan(TRUE, 1, 1, Moves), Plan(TRUE, 2, 1, {})}
  \cup {Plan(FALSE, 2, 1, {m}) : m \in Moves}

ManifestLive == ManifestSpec /\ BackstopFairness

=============================================================================
