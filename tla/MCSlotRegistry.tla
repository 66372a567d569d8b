-------------------------- MODULE MCSlotRegistry --------------------------
(***************************************************************************)
(* The slot registry on two sessions and three handlers.  A behaviour      *)
(* plays one of two scenes: one slot that every handler contends for, or   *)
(* a pod that two sessions share, two handlers at a time.                  *)
(***************************************************************************)
EXTENDS SlotRegistry, TLC

VARIABLE scene

Symmetry == Permutations(Handlers) \cup Permutations(Tokens)

Slot == 1
SlotNext1 ==
  \/ \E h \in Handlers :
       \/ \E t \in Tokens \cup {NoTok} : Admit(h, "bind", Slot, t) \/ Shutdown(h, Slot, t)
       \/ \E t \in Tokens : Admit(h, "resume", Slot, t)
       \/ StartSession(h, Slot) \/ CoordinatorFence(h, Slot)
       \/ HandlerSteps(h) \/ HoldTimeout(h)
  \/ \E t \in Tokens : AssignCredentials(Slot, t)
  \/ ControlStreamClosed

\* Two handlers at a time: the third is left out of this scene.
MaxBusy == 2
Busy == Cardinality({h \in Handlers : ~At(h, "idle")})
PodNext ==
  \/ \E h \in Handlers :
       \/ /\ Busy < MaxBusy
          /\ \/ \E s \in Sessions :
                  Shutdown(h, s, NoTok) \/ StartSession(h, s)
             \/ HoldTimeout(h)
       \/ HandlerSteps(h)
  \/ \E s \in Sessions, t \in Tokens : AssignCredentials(s, t)
  \/ ControlStreamClosed

MCSlotInit == SlotInit /\ scene \in {"slot", "pod"}
MCSlotNext ==
  /\ (scene = "slot" /\ SlotNext1) \/ (scene = "pod" /\ PodNext)
  /\ UNCHANGED scene
MCSlotSpec == MCSlotInit /\ [][MCSlotNext]_<<vars, scene>>
=============================================================================
