----------------------------- MODULE SlotSteps ------------------------------
(***************************************************************************)
(* Two inductive invariants of the slot registry. The first is about its   *)
(* entries, trees and reclaim holds: the kinds of steps that its handlers  *)
(* take and why each kind keeps the invariant, how the actions move a      *)
(* handler, and every step. The second stands on the first and is about    *)
(* what the registry has on the runtime: sessions, MCP surface, Shutdowns  *)
(* in flight and reports; here are the steps that leave the entries alone. *)
(***************************************************************************)
EXTENDS SlotRegistry, TLAPS

-----------------------------------------------------------------------------
(* What a handler is doing, read from the state o it carries.               *)

\* It is inside the guard of its slot.
Holding(o) ==
  \/ o.pc \in {"resolve", "work", "restore", "check", "write", "confirm"}
  \/ o.rpc = "resume" /\ o.pc \in {"arm", "run", "rollback"}
  \/ o.guarded

\* It relies on the entry it was admitted against, inside the guard.
Attached(o) ==
  \/ o.pc \in {"work", "restore", "write", "confirm"}
  \/ o.rpc = "resume" /\ o.pc \in {"arm", "run", "check", "reclaim"}

\* It has taken s out of the registry and its cleanup is not over.
Removing(o, s) == s \in o.todo \/ (o.s = s /\ o.removed /\ o.pc # "record")

\* It has claimed an entry and has not confirmed its start.
Opening == {"restore", "arm", "run", "open", "check", "write", "confirm"}
Claimer(o) == o.rpc \in {"start", "resume"} /\ o.pc \in Opening \cup {"release", "reclaim"}

\* How the fields of a handler's state go together.
Places(o) ==
  /\ o.pc \notin {"idle", "end", "pass1"} => o.s \in Sessions
  /\ o.pc \in Opening \cup {"rollback"} => o.rpc \in {"start", "resume"}
  /\ o.pc = "restore" => o.rpc = "resume"
  /\ o.pc = "open" => o.rpc = "start"
  /\ o.pc = "decide" => o.rpc = "shutdown"
  /\ o.pc = "release" => o.rpc \in {"start", "shutdown", "timeout"}
  /\ o.pc = "reclaim" => o.rpc # "resume" \/ o.guarded
Removals(o) ==
  /\ o.pc \in {"close", "tree"} => o.removed
  /\ o.pc = "release" /\ o.rpc = "timeout" => o.removed
  /\ o.removed => \/ o.pc \in {"close", "tree", "finish", "record"}
                  \/ o.pc = "release" /\ o.rpc = "timeout"
  /\ o.todo # {} => o.rpc = "timeout" /\ o.pc \in {"release", "close", "tree", "finish"}
  /\ o.s \notin o.todo
  /\ o.guarded => o.pc \in {"reclaim", "close", "tree", "finish", "record"}
  /\ Claimer(o) \/ o.pc = "work" => o.e # 0

Coherent(o) == o \in Op /\ Places(o) /\ Removals(o)

-----------------------------------------------------------------------------
(* The registry's inductive invariant.                                      *)

RegistryTypes ==
  /\ slots \in [Sessions -> Entry \cup {NoEntry}]
  /\ reclaiming \subseteq Sessions
  /\ created \in 0 .. MaxEntry
  /\ guard \in [Sessions -> Handlers \cup {NoHandler}]
  /\ tree \in [Sessions -> 0 .. MaxEntry]
  /\ op \in [Handlers -> Op]

\* Every handler is coherent, and has the guard it thinks it has.
Handling ==
  \A h \in Handlers : Coherent(op[h]) /\ (Holding(op[h]) => guard[op[h].s] = h)

\* An identifier under a reclaim hold has no entry; one that is being cleaned up
\* is under a hold, and one handler cleans it up.
Held ==
  /\ \A s \in reclaiming : slots[s].id = 0
  /\ \A h \in Handlers, s \in Sessions : Removing(op[h], s) => s \in reclaiming
  /\ \A h, k \in Handlers, s \in Sessions :
       Removing(op[h], s) /\ Removing(op[k], s) => h = k

\* Inside the guard an entry is removed at most, never replaced.
Kept ==
  \A h \in Handlers :
    Attached(op[h]) => op[h].s \in reclaiming \/ slots[op[h].s].id = op[h].e

\* A cleanup that is about to end its hold has removed the tree.
Emptied ==
  \A h \in Handlers : op[h].pc = "finish" /\ Completed(h) => tree[op[h].s] = 0

RegistryInv == RegistryTypes /\ Handling /\ Held /\ Kept /\ Emptied /\ TreeMatchesRegistry

-----------------------------------------------------------------------------
(* Facts about entries.                                                     *)

\* An entry's number tells whether the identifier is registered.
LEMMA EntryFacts ==
  ASSUME RegistryTypes, NEW s \in Sessions
  PROVE  /\ slots[s].id \in Nat /\ slots[s].id <= MaxEntry
         /\ Registered(s) <=> slots[s].id # 0
         /\ slots[s].started \in BOOLEAN /\ slots[s].bound \in BOOLEAN
         /\ slots[s].started => Registered(s)
         /\ slots[s].bound => Registered(s)
  <1>1. CASE slots[s] = NoEntry BY <1>1, SlotConstants DEF NoEntry, Registered
  <1>2. CASE slots[s] \in Entry
    <2>1. /\ slots[s].id \in 1 .. MaxEntry
          /\ slots[s].started \in BOOLEAN /\ slots[s].bound \in BOOLEAN
      BY <1>2 DEF Entry, Entries
    <2>2. slots[s] # NoEntry BY <2>1 DEF NoEntry
    <2>3. slots[s].id \in Nat /\ slots[s].id <= MaxEntry /\ slots[s].id # 0
      BY <2>1, SlotConstants
    <2>. QED BY <2>1, <2>2, <2>3 DEF Registered
  <1>. QED BY <1>1, <1>2 DEF RegistryTypes

-----------------------------------------------------------------------------
(* The kinds of steps.                                                      *)

\* A step of handler h: the others stay where they are and keep their guards.
Moved(h) ==
  /\ op' \in [Handlers -> Op]
  /\ \A k \in Handlers \ {h} : op'[k] = op[k]
  /\ Coherent(op'[h])
  /\ guard' \in [Sessions -> Handlers \cup {NoHandler}]
  /\ Holding(op'[h]) => guard'[op'[h].s] = h
  /\ \A s \in Sessions, k \in Handlers \ {h} : guard[s] = k => guard'[s] = k

\* h takes out nothing more, and relies on no entry but the one it relied on or
\* one that it has just found registered.
Calm(h) ==
  /\ \A s \in Sessions : Removing(op'[h], s) => Removing(op[h], s)
  /\ Attached(op'[h]) => \/ Attached(op[h]) /\ op'[h].s = op[h].s /\ op'[h].e = op[h].e
                         \/ slots[op'[h].s].id = op'[h].e

\* It leaves the registry and the trees alone.
Quiet(h) ==
  /\ Moved(h) /\ Calm(h)
  /\ slots' = slots /\ reclaiming' = reclaiming /\ created' = created /\ tree' = tree
  /\ op'[h].pc = "finish" => ~Completed(h)'

\* It writes the tree of its slot, inside the guard, or empties it.
WritesTree(h, t) ==
  /\ Moved(h) /\ Calm(h)
  /\ slots' = slots /\ reclaiming' = reclaiming /\ created' = created
  /\ op[h].s \in Sessions /\ t \in 0 .. MaxEntry
  /\ tree' = [tree EXCEPT ![op[h].s] = t]
  /\ op[h].s \notin reclaiming => t = tree[op[h].s] \/ t = slots[op[h].s].id
  /\ t = 0 \/ t = tree[op[h].s] \/ Holding(op[h])
  /\ op'[h].pc = "finish" => t = 0 /\ op'[h].s = op[h].s

\* It removes the entries of S from the registry and opens their holds.
TakesOut(h, S) ==
  /\ Moved(h)
  /\ S \subseteq Sessions /\ \A s \in S : slots[s].id # 0
  /\ ReclaimSlots(S) /\ tree' = tree
  /\ \A s \in Sessions : Removing(op'[h], s) => s \in S \/ Removing(op[h], s)
  /\ ~Attached(op'[h]) /\ op'[h].pc # "finish"

\* It ends its hold, if its cleanup was complete.
EndsHold(h) ==
  /\ Moved(h)
  /\ op[h].pc = "finish" /\ EndHold(h) /\ tree' = tree
  /\ \A s \in Sessions : Removing(op'[h], s) => s # op[h].s /\ Removing(op[h], s)
  /\ ~Attached(op'[h]) /\ op'[h].pc # "finish"

\* A resolve that was not refused registers an entry, which is the one it found or
\* a new one.
Registers(s, entry) ==
  /\ s \in Sessions \ reclaiming /\ entry \in Entry
  /\ Register(s, entry)
  /\ IF Registered(s) THEN entry.id = slots[s].id ELSE entry.id = created + 1

\* The handler, if there is one, then relies on the entry or on none.
Relies(h, s, entry) ==
  /\ Moved(h)
  /\ \A x \in Sessions : ~Removing(op'[h], x)
  /\ Attached(op'[h]) => op'[h].s = s /\ op'[h].e = entry.id
  /\ op'[h].pc # "finish"

-----------------------------------------------------------------------------
(* Each kind keeps the registry's invariant.                                *)

\* Handlers stay coherent and keep their guards.
LEMMA MovedHandling ==
  ASSUME Handling, RegistryTypes, NEW h \in Handlers, Moved(h)
  PROVE  Handling'
  <1>. SUFFICES ASSUME NEW k \in Handlers
                PROVE  Coherent(op'[k]) /\ (Holding(op'[k]) => guard'[op'[k].s] = k)
    BY DEF Handling
  <1>1. CASE k = h BY <1>1 DEF Moved
  <1>2. CASE k # h
    <2>1. op'[k] = op[k] BY <1>2 DEF Moved
    <2>2. Coherent(op[k]) /\ (Holding(op[k]) => guard[op[k].s] = k) BY DEF Handling
    <2>3. Holding(op[k]) => op[k].s \in Sessions
      BY <2>2 DEF Coherent, Places, Removals, Holding
    <2>. QED BY <1>2, <2>1, <2>2, <2>3 DEF Moved
  <1>. QED BY <1>1, <1>2

\* A handler that relies on its entry, or has a complete cleanup, is in the guard.
LEMMA InGuard ==
  ASSUME Handling, NEW h \in Handlers
  PROVE  /\ Holding(op[h]) => op[h].s \in Sessions /\ guard[op[h].s] = h
         /\ Attached(op[h]) => Holding(op[h])
         /\ Completed(h) => Holding(op[h])
  BY DEF Handling, Coherent, Places, Removals, Holding, Attached, Completed, Opening

\* Steps that leave the registry alone.
LEMMA QuietKeeps ==
  ASSUME RegistryInv, NEW h \in Handlers, Quiet(h)
  PROVE  RegistryInv'
  <1>. USE DEF RegistryInv, Quiet
  <1>1. RegistryTypes' BY DEF RegistryTypes, Moved
  <1>2. Handling' BY MovedHandling
  <1>3. Held' BY DEF Held, Moved, Calm
  <1>4. Kept' BY DEF Kept, Moved, Calm
  <1>5. Emptied' BY DEF Emptied, Moved, Completed
  <1>6. TreeMatchesRegistry' BY DEF TreeMatchesRegistry
  <1>. QED BY <1>1, <1>2, <1>3, <1>4, <1>5, <1>6

\* Steps that write a tree.
LEMMA WritesTreeKeeps ==
  ASSUME RegistryInv, NEW h \in Handlers, NEW t, WritesTree(h, t)
  PROVE  RegistryInv'
  <1>. USE DEF RegistryInv, WritesTree
  <1>1. RegistryTypes' BY DEF RegistryTypes, Moved
  <1>2. Handling' BY MovedHandling
  <1>3. Held' BY DEF Held, Moved, Calm
  <1>4. Kept' BY DEF Kept, Moved, Calm
  <1>5. Emptied'
    <2>. SUFFICES ASSUME NEW k \in Handlers, op'[k].pc = "finish", Completed(k)'
                  PROVE  tree'[op'[k].s] = 0
      BY DEF Emptied
    <2>1. CASE k = h BY <2>1 DEF RegistryTypes
    <2>2. CASE k # h
      <3>1. op'[k] = op[k] BY <2>2 DEF Moved
      <3>2. Completed(k) /\ tree[op[k].s] = 0 BY <3>1 DEF Emptied, Completed
      <3>3. guard[op[k].s] = k BY <3>2, InGuard
      <3>4. op[k].s = op[h].s => ~Holding(op[h]) BY <2>2, <3>3, InGuard
      <3>. QED BY <3>1, <3>2, <3>4 DEF RegistryTypes
    <2>. QED BY <2>1, <2>2
  <1>6. TreeMatchesRegistry' BY DEF TreeMatchesRegistry, RegistryTypes
  <1>. QED BY <1>1, <1>2, <1>3, <1>4, <1>5, <1>6

\* Steps that take entries out.
LEMMA TakesOutKeeps ==
  ASSUME RegistryInv, NEW h \in Handlers, NEW S, TakesOut(h, S)
  PROVE  RegistryInv'
  <1>. USE DEF RegistryInv, TakesOut
  <1>1. /\ \A s \in S : slots'[s] = NoEntry
        /\ \A s \in Sessions \ S : slots'[s] = slots[s]
        /\ reclaiming' = reclaiming \cup S /\ created' = created
    BY DEF ReclaimSlots
  <1>2. RegistryTypes' BY DEF RegistryTypes, Moved, ReclaimSlots
  <1>3. Handling' BY MovedHandling
  <1>4. Held'
    <2>1. \A s \in S : s \notin reclaiming BY DEF Held
    <2>2. \A s \in S, k \in Handlers : ~Removing(op[k], s) BY <2>1 DEF Held
    <2>3. \A s \in reclaiming' : slots'[s].id = 0
      BY <1>1 DEF Held, NoEntry, RegistryTypes
    <2>4. \A k \in Handlers, s \in Sessions : Removing(op'[k], s) => s \in reclaiming'
      BY <1>1 DEF Held, Moved
    <2>5. \A j, k \in Handlers, s \in Sessions :
            Removing(op'[j], s) /\ Removing(op'[k], s) => j = k
      BY <2>2 DEF Held, Moved
    <2>. QED BY <2>3, <2>4, <2>5 DEF Held
  <1>5. Kept'
    <2>. SUFFICES ASSUME NEW k \in Handlers, Attached(op'[k])
                  PROVE  op'[k].s \in reclaiming' \/ slots'[op'[k].s].id = op'[k].e
      BY DEF Kept
    <2>1. op'[k] = op[k] BY DEF Moved
    <2>2. op[k].s \in Sessions BY <2>1, InGuard
    <2>. QED BY <1>1, <2>1, <2>2 DEF Kept
  <1>6. Emptied' BY DEF Emptied, Moved, Completed
  <1>7. TreeMatchesRegistry' BY <1>1 DEF TreeMatchesRegistry
  <1>. QED BY <1>2, <1>3, <1>4, <1>5, <1>6, <1>7

\* Steps that end a hold.
LEMMA EndsHoldKeeps ==
  ASSUME RegistryInv, NEW h \in Handlers, EndsHold(h)
  PROVE  RegistryInv'
  <1>. USE DEF RegistryInv, EndsHold
  <1>1. /\ reclaiming' = IF Completed(h) THEN reclaiming \ {op[h].s} ELSE reclaiming
        /\ slots' = slots /\ created' = created
    BY DEF EndHold
  <1>2. RegistryTypes' BY <1>1 DEF RegistryTypes, Moved
  <1>3. Handling' BY MovedHandling
  <1>4. Completed(h) => Removing(op[h], op[h].s) /\ op[h].s \in Sessions
    BY InGuard DEF Completed, Removing
  <1>5. Held'
    <2>0. \A k \in Handlers, s \in Sessions : Removing(op'[k], s) => Removing(op[k], s)
      BY ZenonT(60) DEF Moved
    <2>1. \A s \in reclaiming' : slots'[s].id = 0 BY <1>1 DEF Held
    <2>2. \A k \in Handlers, s \in Sessions : Removing(op'[k], s) => s \in reclaiming'
      <3>. SUFFICES ASSUME NEW k \in Handlers, NEW s \in Sessions, Removing(op'[k], s)
                    PROVE  s \in reclaiming'
        OBVIOUS
      <3>1. s \in reclaiming BY ZenonT(60), <2>0 DEF Held
      <3>2. Completed(h) => s # op[h].s
        <4>1. CASE k = h BY Zenon, <4>1
        <4>2. CASE k # h BY ZenonT(60), <1>4, <2>0, <4>2 DEF Held
        <4>. QED BY <4>1, <4>2
      <3>. QED BY ONLY <1>1, <3>1, <3>2
    <2>3. \A j, k \in Handlers, s \in Sessions :
            Removing(op'[j], s) /\ Removing(op'[k], s) => j = k
      BY ZenonT(60), <2>0 DEF Held
    <2>. QED BY <2>1, <2>2, <2>3 DEF Held
  <1>6. Kept'
    <2>. SUFFICES ASSUME NEW k \in Handlers, Attached(op'[k])
                  PROVE  op'[k].s \in reclaiming' \/ slots'[op'[k].s].id = op'[k].e
      BY DEF Kept
    <2>1. k # h /\ op'[k] = op[k] BY DEF Moved
    <2>2. guard[op[k].s] = k BY <2>1, InGuard
    <2>3. Completed(h) => op[k].s # op[h].s BY <2>1, <2>2, InGuard
    <2>. QED BY <1>1, <2>1, <2>3 DEF Kept
  <1>7. Emptied' BY DEF Emptied, Moved, Completed
  <1>8. TreeMatchesRegistry'
    <2>1. Completed(h) => tree[op[h].s] = 0 /\ slots[op[h].s].id = 0
      BY <1>4 DEF Emptied, Held
    <2>. QED BY <1>1, <2>1 DEF TreeMatchesRegistry
  <1>. QED BY <1>2, <1>3, <1>5, <1>6, <1>7, <1>8

\* Steps that register an entry, with or without a handler that goes on with it.
LEMMA RegistersKeeps ==
  ASSUME RegistryInv, NEW s, NEW entry, Registers(s, entry),
         \/ op' = op /\ guard' = guard
         \/ \E h \in Handlers : Relies(h, s, entry)
  PROVE  RegistryInv'
  <1>. USE DEF RegistryInv, Registers
  <1>1. /\ slots'[s] = entry /\ \A x \in Sessions \ {s} : slots'[x] = slots[x]
        /\ tree'[s] = entry.id /\ \A x \in Sessions \ {s} : tree'[x] = tree[x]
        /\ reclaiming' = reclaiming /\ s \in Sessions \ reclaiming
    BY DEF Register, RegistryTypes, TreeMatchesRegistry
  <1>2. entry.id \in 1 .. MaxEntry BY DEF Entry, Entries
  <1>3. RegistryTypes'
    <2>1. slots' \in [Sessions -> Entry \cup {NoEntry}] BY DEF RegistryTypes, Register
    <2>2. created' \in 0 .. MaxEntry BY <1>2, SlotConstants DEF RegistryTypes, Register
    <2>3. tree' \in [Sessions -> 0 .. MaxEntry] BY <1>2, SlotConstants DEF RegistryTypes, Register
    <2>. QED BY <1>1, <2>1, <2>2, <2>3 DEF RegistryTypes, Relies, Moved
  <1>4. Handling'
    <2>1. CASE op' = op /\ guard' = guard BY <2>1 DEF Handling
    <2>2. CASE \E h \in Handlers : Relies(h, s, entry) BY <2>2, MovedHandling DEF Relies
    <2>. QED BY <2>1, <2>2
  <1>5. \A k \in Handlers, x \in Sessions : Removing(op'[k], x) => Removing(op[k], x)
    BY DEF Relies, Moved
  <1>6. Held'
    <2>1. \A x \in reclaiming' : slots'[x].id = 0 BY <1>1 DEF Held, RegistryTypes
    <2>. QED BY <1>1, <1>5, <2>1 DEF Held
  <1>7. Kept'
    <2>. SUFFICES ASSUME NEW k \in Handlers, Attached(op'[k])
                  PROVE  op'[k].s \in reclaiming' \/ slots'[op'[k].s].id = op'[k].e
      BY DEF Kept
    <2>1. CASE op'[k] = op[k]
      <3>1. op[k].s \in Sessions /\ op[k].e # 0
        <4>1. Attached(op[k]) BY Zenon, <2>1
        <4>2. op[k].s \in Sessions BY <4>1, InGuard
        <4>3. Coherent(op[k]) BY Zenon DEF Handling
        <4>4. Claimer(op[k]) \/ op[k].pc = "work"
          BY ONLY <4>1, <4>3 DEF Coherent, Places, Attached, Claimer, Opening
        <4>. QED BY ONLY <4>2, <4>3, <4>4 DEF Coherent, Removals
      <3>2. slots[op[k].s].id = op[k].e \/ op[k].s \in reclaiming BY <2>1 DEF Kept
      <3>3. CASE op[k].s = s
        <4>1. Registered(s) BY <3>1, <3>2, <3>3, EntryFacts
        <4>. QED BY <1>1, <2>1, <3>2, <3>3, <4>1
      <3>4. CASE op[k].s # s BY <1>1, <2>1, <3>1, <3>2, <3>4
      <3>. QED BY <3>3, <3>4
    <2>2. CASE op'[k] # op[k] BY <1>1, <2>2 DEF Relies, Moved
    <2>. QED BY <2>1, <2>2
  <1>8. Emptied'
    <2>. SUFFICES ASSUME NEW k \in Handlers, op'[k].pc = "finish", Completed(k)'
                  PROVE  tree'[op'[k].s] = 0
      BY DEF Emptied
    <2>1. op'[k] = op[k] BY DEF Relies, Moved
    <2>2. Completed(k) /\ op[k].pc = "finish" BY <2>1 DEF Completed
    <2>3. op[k].s \in reclaiming /\ op[k].s \in Sessions
      BY <2>2, InGuard DEF Held, Removing, Completed
    <2>. QED BY <1>1, <2>1, <2>2, <2>3 DEF Emptied
  <1>9. TreeMatchesRegistry' BY <1>1 DEF TreeMatchesRegistry
  <1>. QED BY <1>3, <1>4, <1>6, <1>7, <1>8, <1>9

-----------------------------------------------------------------------------
(* How the actions move a handler.                                          *)

\* h is at p and carries what it carried.
Onward(h, p) ==
  /\ op' \in [Handlers -> Op] /\ \A k \in Handlers \ {h} : op'[k] = op[k]
  /\ op'[h].pc = p
  /\ op'[h].rpc = op[h].rpc /\ op'[h].s = op[h].s /\ op'[h].e = op[h].e
  /\ op'[h].removed = op[h].removed /\ op'[h].guarded = op[h].guarded
  /\ op'[h].failed = op[h].failed /\ op'[h].todo = op[h].todo

\* The handler's state is replaced.
LEMMA StateReplaced ==
  ASSUME RegistryTypes, NEW h \in Handlers, NEW o \in Op, op' = [op EXCEPT ![h] = o]
  PROVE  op' \in [Handlers -> Op] /\ op'[h] = o /\ \A k \in Handlers \ {h} : op'[k] = op[k]
  BY DEF RegistryTypes

\* Goto changes a handler's place alone.
LEMMA GotoMoves ==
  ASSUME RegistryTypes, NEW h \in Handlers, NEW p \in PCs, Goto(h, p)
  PROVE  Onward(h, p)
  <1>. DEFINE o == [op[h] EXCEPT !.pc = p]
  <1>1. op[h] \in Op BY DEF RegistryTypes
  <1>2. /\ o \in Op /\ o.pc = p /\ o.rpc = op[h].rpc /\ o.s = op[h].s /\ o.e = op[h].e
        /\ o.removed = op[h].removed /\ o.guarded = op[h].guarded /\ o.failed = op[h].failed
        /\ o.todo = op[h].todo
    BY <1>1 DEF Op
  <1>3. op' = [op EXCEPT ![h] = o] BY DEF Goto
  <1>. HIDE DEF o
  <1>4. op' \in [Handlers -> Op] /\ op'[h] = o /\ \A k \in Handlers \ {h} : op'[k] = op[k]
    BY ZenonT(60), <1>2, <1>3, StateReplaced
  <1>. QED BY <1>2, <1>4 DEF Onward

\* A handler that is opening a session and goes on with it stays coherent and
\* cleans up nothing.
LEMMA PlaceMoves ==
  ASSUME NEW o, NEW n, Coherent(o), n \in Op,
         n.rpc = o.rpc, n.s = o.s, n.e = o.e, n.removed = o.removed, n.guarded = o.guarded,
         n.todo = o.todo, o.pc \in Opening, n.pc \in Opening \cup {"rollback"},
         n.pc = "restore" => o.rpc = "resume", n.pc = "open" => o.rpc = "start"
  PROVE  Coherent(n) /\ \A s \in Sessions : ~Removing(n, s)
  <1>1. o.rpc \in {"start", "resume"} /\ o.s \in Sessions BY DEF Coherent, Places, Opening
  <1>2. ~o.removed /\ ~o.guarded /\ o.todo = {} /\ o.e # 0
    BY <1>1 DEF Coherent, Removals, Claimer, Opening
  <1>3. Places(n) BY <1>1, <1>2 DEF Places, Opening
  <1>4. Removals(n)
    <2>1. n.pc \notin {"close", "tree", "release", "reclaim", "finish", "record", "work"}
      BY DEF Opening
    <2>. QED BY ONLY <1>2, <2>1, n.removed = o.removed, n.guarded = o.guarded, n.todo = o.todo,
                     n.e = o.e DEF Removals
  <1>5. \A s \in Sessions : ~Removing(n, s) BY <1>2 DEF Removing
  <1>. QED BY <1>3, <1>4, <1>5 DEF Coherent

\* An idle handler is in no guard, relies on no entry and cleans up nothing.
LEMMA IdleFacts ==
  /\ Coherent(Idle) /\ ~Holding(Idle) /\ ~Attached(Idle) /\ ~Claimer(Idle)
  /\ \A s \in Sessions : ~Removing(Idle, s)
  /\ Idle.pc = "idle" /\ Idle.e = 0 /\ Idle.todo = {} /\ Idle.removed = FALSE
  <1>1. Idle \in Op BY SlotConstants DEF Idle, Op, RPCs, PCs
  <1>. QED
    BY ZenonT(60), <1>1 DEF Idle, Coherent, Places, Removals, Holding, Attached, Claimer, Opening,
                       Removing

\* A handler that takes up a call carries its identifier and token.
LEMMA CallFacts ==
  ASSUME NEW rpc \in RPCs, NEW p \in PCs, NEW s \in Sessions \cup {NoSession},
         NEW t \in Tokens \cup {NoTok}
  PROVE  /\ Call(rpc, p, s, t) \in Op
         /\ Call(rpc, p, s, t).rpc = rpc /\ Call(rpc, p, s, t).pc = p
         /\ Call(rpc, p, s, t).s = s /\ Call(rpc, p, s, t).e = 0
         /\ Call(rpc, p, s, t).removed = FALSE /\ Call(rpc, p, s, t).guarded = FALSE
         /\ Call(rpc, p, s, t).failed = FALSE /\ Call(rpc, p, s, t).todo = {}
  <1>1. Call(rpc, p, s, t) \in Op BY Zenon, IdleFacts DEF Call, Op, Coherent
  <1>. QED BY <1>1 DEF Call, Idle

\* Unlock opens no guard but the handler's own.
LEMMA UnlockKeeps ==
  ASSUME RegistryTypes, NEW h \in Handlers, Unlock(h)
  PROVE  /\ guard' \in [Sessions -> Handlers \cup {NoHandler}]
         /\ \A s \in Sessions, k \in Handlers \ {h} : guard[s] = k => guard'[s] = k
  BY DEF RegistryTypes, Unlock

\* A handler that returns, with or without a guard to open.
LEMMA Returned ==
  ASSUME RegistryTypes, NEW h \in Handlers, Return(h), Unlock(h) \/ guard' = guard
  PROVE  Moved(h) /\ Calm(h) /\ op'[h] = Idle /\ \A k \in Handlers \ {h} : op'[k] = op[k]
  <1>1. op' \in [Handlers -> Op] /\ op'[h] = Idle /\ \A k \in Handlers \ {h} : op'[k] = op[k]
    BY ZenonT(60), IdleFacts, StateReplaced DEF Return, Coherent
  <1>2. /\ guard' \in [Sessions -> Handlers \cup {NoHandler}]
        /\ \A s \in Sessions, k \in Handlers \ {h} : guard[s] = k => guard'[s] = k
    BY UnlockKeeps DEF RegistryTypes
  <1>. QED BY <1>1, <1>2, IdleFacts DEF Moved, Calm

\* A handler that returns and leaves the registry as it is.
LEMMA ReturnedQuiet ==
  ASSUME RegistryTypes, NEW h \in Handlers, Return(h), Unlock(h) \/ guard' = guard,
         slots' = slots, reclaiming' = reclaiming, created' = created, tree' = tree
  PROVE  Quiet(h)
  BY Returned, IdleFacts DEF Quiet

\* A handler that takes up a call.
LEMMA Called ==
  ASSUME RegistryTypes, NEW h \in Handlers, NEW s \in Sessions, NEW t \in Tokens \cup {NoTok},
         NEW rpc \in RPCs, NEW p \in PCs,
         \/ rpc \in {"bind", "resume"} /\ p = "guard"
         \/ rpc = "shutdown" /\ p = "decide"
         \/ rpc = "fence" /\ p = "fence",
         op' = [op EXCEPT ![h] = Call(rpc, p, s, t)], guard' = guard,
         slots' = slots, reclaiming' = reclaiming, created' = created, tree' = tree
  PROVE  Quiet(h)
  <1>1. Call(rpc, p, s, t) \in Op BY ZenonT(60), CallFacts
  <1>2. /\ op' \in [Handlers -> Op] /\ \A k \in Handlers \ {h} : op'[k] = op[k]
        /\ op'[h] = Call(rpc, p, s, t)
    BY ZenonT(60), <1>1, StateReplaced
  <1>3. /\ op'[h].rpc = rpc /\ op'[h].pc = p /\ op'[h].s = s /\ op'[h].e = 0
        /\ op'[h].removed = FALSE /\ op'[h].guarded = FALSE /\ op'[h].todo = {}
    BY <1>2 DEF Call, Idle
  <1>4. Coherent(op'[h])
    BY ZenonT(30), <1>1, <1>2, <1>3 DEF Coherent, Places, Removals, Claimer, Opening
  <1>5. ~Holding(op'[h]) /\ ~Attached(op'[h]) /\ \A x \in Sessions : ~Removing(op'[h], x)
    BY <1>3 DEF Holding, Attached, Removing
  <1>. QED BY ZenonT(30), <1>2, <1>3, <1>4, <1>5 DEF Quiet, Moved, Calm, RegistryTypes

\* The steps that bring a call in, and those of the hold that touch no slot.
LEMMA CallStep ==
  ASSUME RegistryInv, NEW h \in Handlers,
         \/ \E s \in Sessions, t \in Tokens \cup {NoTok} :
              Admit(h, "bind", s, t) \/ Admit(h, "resume", s, t) \/ Shutdown(h, s, t)
         \/ \E s \in Sessions : CoordinatorFence(h, s)
         \/ GuardTimeout(h) \/ FenceExitsHold(h)
  PROVE  Quiet(h)
  <1>. RegistryTypes BY DEF RegistryInv
  <1>1. ASSUME NEW s \in Sessions, NEW t \in Tokens \cup {NoTok},
               Admit(h, "bind", s, t) \/ Admit(h, "resume", s, t) \/ Shutdown(h, s, t)
        PROVE  Quiet(h)
    BY <1>1, Called DEF Admit, Shutdown, RPCs, PCs, registryVars
  <1>2. ASSUME NEW s \in Sessions, CoordinatorFence(h, s) PROVE Quiet(h)
    BY ZenonT(60), <1>2, Called DEF CoordinatorFence, RPCs, PCs, registryVars
  <1>3. CASE GuardTimeout(h) \/ FenceExitsHold(h)
    BY ZenonT(30), <1>3, ReturnedQuiet DEF GuardTimeout, FenceExitsHold, registryVars
  <1>. QED BY <1>1, <1>2, <1>3

\* The timer of the hold fires, and the transport ends.
LEMMA HoldStep ==
  ASSUME RegistryInv, NEW h \in Handlers, HoldTimeout(h) \/ EndRuntime(h)
  PROVE  Quiet(h)
  <1>. RegistryTypes BY DEF RegistryInv
  <1>1. CASE HoldTimeout(h)
    <2>. DEFINE o == [Idle EXCEPT !.rpc = "timeout", !.pc = "end"]
    <2>0. o \in Op BY Zenon, IdleFacts DEF Op, Coherent, RPCs, PCs
    <2>1. /\ o.rpc = "timeout" /\ o.pc = "end" /\ o.removed = FALSE /\ o.guarded = FALSE
          /\ o.todo = {} /\ o.e = 0
      BY DEF Idle
    <2>2. /\ op' \in [Handlers -> Op] /\ op'[h] = o /\ \A k \in Handlers \ {h} : op'[k] = op[k]
      BY ZenonT(60), <1>1, <2>0, StateReplaced DEF HoldTimeout
    <2>3. Coherent(o) /\ ~Holding(o) /\ ~Attached(o) /\ \A x \in Sessions : ~Removing(o, x)
      BY <2>0, <2>1 DEF Coherent, Places, Removals, Claimer, Opening, Holding, Attached, Removing
    <2>. HIDE DEF o
    <2>. QED
      BY <1>1, <2>1, <2>2, <2>3 DEF HoldTimeout, registryVars, Quiet, Moved, Calm, RegistryTypes
  <1>2. CASE EndRuntime(h)
    <2>1. Onward(h, "pass1") BY <1>2, GotoMoves DEF EndRuntime, PCs
    <2>2. Coherent(op[h]) /\ op[h].pc = "end" BY <1>2 DEF EndRuntime, At, RegistryInv, Handling
    <2>3. Coherent(op'[h]) /\ ~Holding(op'[h]) /\ ~Attached(op'[h])
          /\ \A x \in Sessions : ~Removing(op'[h], x)
      BY ZenonT(30), <2>1, <2>2
         DEF Onward, Coherent, Places, Removals, Claimer, Opening, Holding, Attached, Removing
    <2>. QED
      BY ZenonT(30), <1>2, <2>1, <2>3
         DEF EndRuntime, registryVars, Quiet, Moved, Calm, RegistryTypes, Onward
  <1>. QED BY <1>1, <1>2

\* A free guard is taken.
LEMMA GuardTaken ==
  ASSUME RegistryTypes, NEW h \in Handlers, NEW s \in Sessions,
         guard[s] = NoHandler, guard' = [guard EXCEPT ![s] = h]
  PROVE  /\ guard' \in [Sessions -> Handlers \cup {NoHandler}] /\ guard'[s] = h
         /\ \A x \in Sessions, k \in Handlers \ {h} : guard[x] = k => guard'[x] = k
  BY SlotConstants DEF RegistryTypes

\* What the invariant says of one handler.
LEMMA HandlerFacts ==
  ASSUME RegistryInv, NEW h \in Handlers
  PROVE  /\ RegistryTypes /\ op[h] \in Op /\ Places(op[h]) /\ Removals(op[h])
         /\ op[h].e \in 0 .. MaxEntry
         /\ op[h].pc \notin {"idle", "end", "pass1"} => op[h].s \in Sessions
         /\ Holding(op[h]) => guard[op[h].s] = h
  BY ZenonT(30) DEF RegistryInv, Handling, Coherent, Places, Op

\* A start that fails after its claim.
LEMMA Failed ==
  ASSUME RegistryInv, NEW h \in Handlers, op[h].pc \in Opening, Fail(h),
         slots' = slots, reclaiming' = reclaiming, created' = created, tree' = tree
  PROVE  Quiet(h)
  <1>. USE HandlerFacts
  <1>0. /\ op[h].rpc \in {"start", "resume"} /\ op[h].s \in Sessions /\ op[h].e # 0
        /\ op[h].todo = {} /\ ~op[h].removed
    BY ZenonT(30) DEF Places, Removals, Opening, Claimer
  <1>1. CASE op[h].rpc = "resume"
    <2>. DEFINE o == [op[h] EXCEPT !.pc = "reclaim", !.guarded = TRUE]
    <2>0. op[h] \in Op /\ "reclaim" \in PCs BY ZenonT(30) DEF PCs
    <2>1. o \in Op BY ONLY Zenon, <2>0 DEF Op
    <2>2. /\ o.pc = "reclaim" /\ o.rpc = op[h].rpc /\ o.s = op[h].s /\ o.e = op[h].e
          /\ o.todo = op[h].todo /\ o.guarded /\ o.removed = op[h].removed
      BY DEF Op
    <2>3. op' = [op EXCEPT ![h] = o] /\ guard' = guard BY ZenonT(60), <1>1 DEF Fail
    <2>. HIDE DEF o
    <2>4. op' \in [Handlers -> Op] /\ op'[h] = o /\ \A k \in Handlers \ {h} : op'[k] = op[k]
      BY ZenonT(60), <2>1, <2>3, StateReplaced
    <2>5. Coherent(o) /\ \A s \in Sessions : ~Removing(o, s)
      BY ZenonT(30), <1>0, <1>1, <2>1, <2>2
         DEF Coherent, Places, Removals, Claimer, Opening, Removing
    <2>6. Holding(op[h]) /\ Attached(op[h])
      BY ZenonT(30), <1>1 DEF Holding, Attached, Opening, Places
    <2>. QED BY <2>2, <2>3, <2>4, <2>5, <2>6 DEF Quiet, Moved, Calm, RegistryTypes
  <1>2. CASE op[h].rpc # "resume"
    <2>1. Onward(h, "release") /\ Unlock(h) BY <1>2, GotoMoves DEF Fail, PCs
    <2>2. Coherent(op'[h]) /\ ~Holding(op'[h]) /\ ~Attached(op'[h])
          /\ \A s \in Sessions : ~Removing(op'[h], s)
      BY Zenon, <1>0, <1>2, <2>1
         DEF Onward, Coherent, Places, Removals, Claimer, Opening, Removing, Holding, Attached
    <2>. QED BY ZenonT(30), <2>1, <2>2, UnlockKeeps DEF Quiet, Moved, Calm, Onward
  <1>. QED BY ZenonT(30), <1>1, <1>2

\* The step of a handler that goes on opening.
LEMMA OnwardCoherent ==
  ASSUME RegistryInv, NEW h \in Handlers, NEW p, Onward(h, p),
         op[h].pc \in Opening, p \in Opening \cup {"rollback"},
         p = "restore" => op[h].rpc = "resume", p = "open" => op[h].rpc = "start"
  PROVE  Coherent(op'[h]) /\ \A s \in Sessions : ~Removing(op'[h], s)
  <1>1. Coherent(op[h]) BY DEF RegistryInv, Handling
  <1>2. op'[h] \in Op BY DEF Onward
  <1>. DEFINE o == op[h]
              n == op'[h]
  <1>3. /\ n.rpc = o.rpc /\ n.s = o.s /\ n.e = o.e /\ n.removed = o.removed
        /\ n.guarded = o.guarded /\ n.todo = o.todo /\ n.pc = p
    BY DEF Onward
  <1>4. o.pc \in Opening OBVIOUS
  <1>5. n.pc \in Opening \cup {"rollback"} BY <1>3
  <1>6. (n.pc = "restore" => o.rpc = "resume") /\ (n.pc = "open" => o.rpc = "start") BY <1>3
  <1>7. Coherent(o) /\ n \in Op BY <1>1, <1>2
  <1>8. Coherent(n) /\ \A s \in Sessions : ~Removing(n, s)
    <2>. HIDE DEF o, n
    <2>. QED BY ONLY ZenonT(60), <1>3, <1>4, <1>5, <1>6, <1>7, PlaceMoves
  <1>. QED BY ZenonT(30), <1>8

\* A handler that goes on inside the guard it is in, or outside every guard.
LEMMA OnwardQuiet ==
  ASSUME RegistryInv, NEW h \in Handlers, NEW p \in PCs, Goto(h, p), guard' = guard,
         slots' = slots, reclaiming' = reclaiming, created' = created, tree' = tree,
         op[h].pc \in Opening, p \in Opening \cup {"rollback"},
         p = "restore" => op[h].rpc = "resume", p = "open" => op[h].rpc = "start",
         Holding([op[h] EXCEPT !.pc = p]) => Holding(op[h]),
         Attached([op[h] EXCEPT !.pc = p])
           => Attached(op[h]) \/ slots[op[h].s].id = op[h].e
  PROVE  Quiet(h)
  <1>. USE HandlerFacts
  <1>1. Onward(h, p) BY GotoMoves
  <1>2. Coherent(op'[h]) /\ \A s \in Sessions : ~Removing(op'[h], s)
    BY ZenonT(60), <1>1, OnwardCoherent
  <1>3. op'[h] = [op[h] EXCEPT !.pc = p] BY DEF Goto, RegistryTypes
  <1>. QED BY <1>1, <1>2, <1>3 DEF Quiet, Moved, Calm, Onward, RegistryTypes, Opening

\* The steps of a start from its claim to its confirmation.
LEMMA OpeningStep ==
  ASSUME RegistryInv, NEW h \in Handlers,
         ArmMCP(h) \/ RuntimeStart(h) \/ OpenGuard(h) \/ OpenCheck(h) \/ WriteSessionStart(h)
  PROVE  Quiet(h)
  <1>. USE HandlerFacts
  <1>0. /\ op[h].pc \in Opening
        /\ slots' = slots /\ reclaiming' = reclaiming /\ created' = created /\ tree' = tree
    BY ZenonT(60)
       DEF ArmMCP, RuntimeStart, OpenGuard, OpenCheck, WriteSessionStart, At, Opening, registryVars
  <1>1. CASE Fail(h) BY <1>0, <1>1, Failed
  <1>f. /\ op[h] \in Op /\ op[h].s \in Sessions /\ op[h].rpc \in {"start", "resume"}
        /\ \A p \in PCs : /\ [op[h] EXCEPT !.pc = p].pc = p
                          /\ [op[h] EXCEPT !.pc = p].rpc = op[h].rpc
                          /\ [op[h] EXCEPT !.pc = p].guarded = op[h].guarded
    BY <1>0 DEF Op, Opening, Places
  <1>2. CASE ArmMCP(h) /\ ~Fail(h)
    <2>1. op[h].pc = "arm" /\ Goto(h, "run") /\ guard' = guard BY ZenonT(60), <1>2 DEF ArmMCP, At
    <2>. DEFINE n == [op[h] EXCEPT !.pc = "run"]
    <2>2. n.pc = "run" /\ n.rpc = op[h].rpc /\ n.guarded = op[h].guarded BY ONLY <1>f DEF PCs
    <2>. HIDE DEF n
    <2>3. (Holding(n) => Holding(op[h])) /\ (Attached(n) => Attached(op[h]))
      BY ONLY <2>1, <2>2 DEF Holding, Attached
    <2>. QED BY ZenonT(60), <1>0, <2>1, <2>3, OnwardQuiet DEF n, PCs, Opening
  <1>3. CASE RuntimeStart(h) /\ ~Fail(h)
    <2>1. CASE op[h].rpc = "resume"
      <3>1. op[h].pc = "run" /\ Goto(h, "check") /\ guard' = guard
        BY ZenonT(30), <1>3, <2>1 DEF RuntimeStart, At
      <3>. DEFINE n == [op[h] EXCEPT !.pc = "check"]
      <3>2. n.pc = "check" /\ n.rpc = op[h].rpc /\ n.guarded = op[h].guarded BY ONLY <1>f DEF PCs
      <3>. HIDE DEF n
      <3>3. (Holding(n) => Holding(op[h])) /\ (Attached(n) => Attached(op[h]))
        BY ONLY <2>1, <3>1, <3>2 DEF Holding, Attached
      <3>. QED BY ZenonT(60), <1>0, <3>1, <3>3, OnwardQuiet DEF n, PCs, Opening
    <2>2. CASE op[h].rpc = "start"
      <3>1. op[h].pc = "run" /\ Goto(h, "open") /\ guard' = guard
        BY ZenonT(30), <1>3, <2>2 DEF RuntimeStart, At
      <3>. DEFINE n == [op[h] EXCEPT !.pc = "open"]
      <3>2. n.pc = "open" /\ n.rpc = op[h].rpc /\ n.guarded = op[h].guarded BY ONLY <1>f DEF PCs
      <3>. HIDE DEF n
      <3>3. (Holding(n) => Holding(op[h])) /\ (Attached(n) => Attached(op[h]))
        BY ONLY <2>2, <3>1, <3>2 DEF Holding, Attached
      <3>. QED BY ZenonT(60), <1>0, <2>2, <3>1, <3>3, OnwardQuiet DEF n, PCs, Opening
    <2>. QED BY <1>f, <2>1, <2>2
  <1>4. CASE OpenGuard(h) /\ ~Fail(h)
    <2>1. /\ guard[op[h].s] = NoHandler /\ guard' = [guard EXCEPT ![op[h].s] = h]
          /\ op[h].pc = "open" /\ op[h].rpc = "start" /\ Onward(h, "check")
      BY Zenon, <1>4, GotoMoves DEF OpenGuard, At, PCs, Places
    <2>2. Coherent(op'[h]) /\ ~Attached(op'[h]) /\ \A s \in Sessions : ~Removing(op'[h], s)
      <3>1. ~Attached(op'[h]) BY ZenonT(60), <2>1 DEF Onward, Attached
      <3>2. Coherent(op'[h]) /\ \A s \in Sessions : ~Removing(op'[h], s)
        BY ZenonT(60), <1>0, <2>1, OnwardCoherent DEF Opening
      <3>. QED BY ZenonT(30), <3>1, <3>2
    <2>. QED BY ZenonT(60), <1>0, <1>f, <2>1, <2>2, GuardTaken DEF Quiet, Moved, Calm, Onward
  <1>5. CASE OpenCheck(h) /\ HoldsClaimEntry(h)
    BY ZenonT(30), <1>0, <1>5, <1>f, OnwardQuiet
       DEF OpenCheck, HoldsClaimEntry, At, PCs, Opening, Holding, Attached
  <1>6. CASE OpenCheck(h) /\ ~HoldsClaimEntry(h)
    <2>1. CASE op[h].rpc = "resume"
      BY ZenonT(30), <1>0, <1>6, <1>f, <2>1, OnwardQuiet
         DEF OpenCheck, Refuse, At, PCs, Opening, Holding, Attached
    <2>2. CASE op[h].rpc = "start"
      <3>1. Onward(h, "rollback") /\ Unlock(h) /\ op[h].pc = "check"
        BY ZenonT(60), <1>6, <2>2, GotoMoves DEF OpenCheck, Refuse, PCs, At
      <3>2. Coherent(op'[h]) /\ ~Holding(op'[h]) /\ ~Attached(op'[h])
            /\ \A s \in Sessions : ~Removing(op'[h], s)
        BY Zenon, <2>2, <3>1
           DEF Onward, Coherent, Places, Removals, Claimer, Opening, Removing, Attached, Holding
      <3>. QED BY ZenonT(60), <1>0, <3>1, <3>2, UnlockKeeps DEF Quiet, Moved, Calm, Onward
    <2>. QED BY <1>f, <2>1, <2>2
  <1>7. CASE WriteSessionStart(h) /\ ~Fail(h)
    BY ZenonT(30), <1>0, <1>7, <1>f, OnwardQuiet
       DEF WriteSessionStart, At, PCs, Opening, Holding, Attached
  <1>. QED BY ZenonT(60), <1>1, <1>2, <1>3, <1>4, <1>5, <1>6, <1>7

\* Entries that the resolve returns.
LEMMA ResolvedEntry ==
  ASSUME RegistryInv, NEW s \in Sessions, NEW t \in Tokens \cup {NoTok},
         s \notin reclaiming, Registered(s) \/ created # MaxEntry, NEW b \in BOOLEAN, NEW d \in BOOLEAN
  PROVE  /\ Resolved(s, t) \in Entry
         /\ [Resolved(s, t) EXCEPT !.bound = b] \in Entry
         /\ [Resolved(s, t) EXCEPT !.bound = b, !.started = d] \in Entry
         /\ [Resolved(s, t) EXCEPT !.bound = b].id = Resolved(s, t).id
         /\ [Resolved(s, t) EXCEPT !.bound = b, !.started = d].id = Resolved(s, t).id
         /\ IF Registered(s) THEN Resolved(s, t).id = slots[s].id
            ELSE Resolved(s, t).id = created + 1
         /\ Resolved(s, t).id \in 1 .. MaxEntry
  <1>. RegistryTypes BY DEF RegistryInv
  <1>1. Resolved(s, t) \in Entry
    <2>1. CASE Registered(s)
      BY <2>1 DEF Resolved, RegistryTypes, Registered
    <2>2. CASE ~Registered(s)
      <3>1. created + 1 \in Entries BY <2>2, SlotConstants DEF RegistryTypes, Entries
      <3>2. Resolved(s, t) = [id |-> created + 1, tok |-> t, bound |-> FALSE, started |-> FALSE]
        BY ZenonT(60), <2>2 DEF Resolved, NoEntry
      <3>. QED BY <3>1, <3>2 DEF Entry
    <2>. QED BY <2>1, <2>2
  <1>2. [Resolved(s, t) EXCEPT !.bound = b] \in Entry BY <1>1 DEF Entry
  <1>3. [Resolved(s, t) EXCEPT !.bound = b, !.started = d] \in Entry
    BY ONLY Zenon, <1>1, b \in BOOLEAN, d \in BOOLEAN DEF Entry
  <1>4. IF Registered(s) THEN Resolved(s, t).id = slots[s].id ELSE Resolved(s, t).id = created + 1
    BY DEF Resolved, NoEntry
  <1>5. /\ [Resolved(s, t) EXCEPT !.bound = b].id = Resolved(s, t).id
        /\ [Resolved(s, t) EXCEPT !.bound = b, !.started = d].id = Resolved(s, t).id
    BY <1>1 DEF Entry
  <1>6. Resolved(s, t).id \in 1 .. MaxEntry BY <1>1 DEF Entry, Entries
  <1>. QED BY <1>1, <1>2, <1>3, <1>4, <1>5, <1>6

\* The bind RPCs up to the write of the tree.
LEMMA BindStep ==
  ASSUME RegistryInv, NEW h \in Handlers, TakeGuard(h) \/ ResolveBind(h) \/ BindWork(h)
  PROVE  RegistryInv'
  <1>. USE HandlerFacts
  <1>1. CASE TakeGuard(h)
    <2>1. op[h].pc = "guard" /\ op[h].s \in Sessions /\ Onward(h, "resolve")
      BY Zenon, <1>1, GotoMoves DEF TakeGuard, At, PCs
    <2>2. Coherent(op'[h]) /\ ~Attached(op'[h]) /\ \A s \in Sessions : ~Removing(op'[h], s)
      BY ZenonT(60), <2>1
         DEF Onward, Coherent, Places, Removals, Claimer, Opening, Removing, Attached
    <2>3. Quiet(h)
      BY ZenonT(60), <1>1, <2>1, <2>2, GuardTaken
         DEF TakeGuard, registryVars, Quiet, Moved, Calm, Onward
    <2>. QED BY <2>3, QuietKeeps
  <1>2. CASE ResolveBind(h)
    <2>. DEFINE s == op[h].s
                t == op[h].tok
                mid == t = NoTok
                entry == Resolved(s, t)
    <2>0. s \in Sessions /\ t \in Tokens \cup {NoTok} /\ op[h].pc = "resolve"
      BY <1>2 DEF ResolveBind, At, Op
    <2>1. CASE Refused(s, t, ~mid, mid)
      <3>1. Quiet(h) BY <1>2, <2>1, ReturnedQuiet DEF ResolveBind, registryVars
      <3>. QED BY <3>1, QuietKeeps
    <2>2. CASE ~Refused(s, t, ~mid, mid)
      <3>1. s \notin reclaiming /\ (Registered(s) \/ created # MaxEntry)
        BY ZenonT(60), <2>2 DEF Refused
      <3>2. /\ entry \in Entry /\ entry.id \in 1 .. MaxEntry
            /\ IF Registered(s) THEN entry.id = slots[s].id ELSE entry.id = created + 1
        BY ZenonT(60), <2>0, <3>1, ResolvedEntry
      <3>3. Registers(s, entry) BY <1>2, <2>0, <2>2, <3>1, <3>2 DEF ResolveBind, Registers
      <3>4. /\ op' = [op EXCEPT ![h] = [op[h] EXCEPT !.pc = "work", !.e = entry.id]]
            /\ guard' = guard
        BY ZenonT(60), <1>2, <2>2 DEF ResolveBind
      <3>. HIDE DEF entry
      <3>. DEFINE o == [op[h] EXCEPT !.pc = "work", !.e = entry.id]
      <3>5. op[h] \in Op /\ "work" \in PCs /\ entry.id \in 0 .. MaxEntry
        <4>1. op[h] \in Op BY Zenon
        <4>2. "work" \in PCs BY Zenon DEF PCs
        <4>3. entry.id \in 0 .. MaxEntry BY ONLY <3>2, SlotConstants
        <4>. QED BY Zenon, <4>1, <4>2, <4>3
      <3>6. o \in Op BY ONLY Zenon, <3>5 DEF Op
      <3>7. /\ o.pc = "work" /\ o.rpc = op[h].rpc /\ o.s = s /\ o.e = entry.id
            /\ o.todo = op[h].todo /\ o.guarded = op[h].guarded /\ o.removed = op[h].removed
        BY <3>5 DEF Op
      <3>. HIDE DEF o
      <3>8. op' \in [Handlers -> Op] /\ op'[h] = o /\ \A k \in Handlers \ {h} : op'[k] = op[k]
        BY ZenonT(60), <3>4, <3>6, StateReplaced DEF o
      <3>9. Coherent(o) /\ Holding(op[h]) /\ \A x \in Sessions : ~Removing(o, x)
        <4>0. Removals(op[h]) BY Zenon
        <4>1. ~o.removed /\ ~o.guarded /\ o.todo = {} /\ o.e # 0
          <5>1. entry.id # 0 BY ONLY <3>2, SlotConstants
          <5>2. ~op[h].removed /\ ~op[h].guarded /\ op[h].todo = {}
            BY ONLY ZenonT(30), <2>0, <4>0 DEF Removals
          <5>. QED BY ONLY Zenon, <3>7, <5>1, <5>2
        <4>2. Places(o) BY ONLY <2>0, <3>7 DEF Places, Opening
        <4>3. Removals(o) BY ONLY <3>7, <4>1 DEF Removals
        <4>4. Holding(op[h]) BY ONLY <2>0 DEF Holding
        <4>5. \A x \in Sessions : ~Removing(o, x) BY ONLY <4>1 DEF Removing
        <4>. QED BY ONLY <3>6, <4>2, <4>3, <4>4, <4>5 DEF Coherent
      <3>10. Relies(h, s, entry)
        BY <3>4, <3>7, <3>8, <3>9 DEF Relies, Moved, RegistryTypes
      <3>. QED BY ZenonT(60), <3>3, <3>10, RegistersKeeps
    <2>. QED BY ZenonT(60), <2>1, <2>2
  <1>3. CASE BindWork(h)
    <2>1. PICK t \in {op[h].e, tree[op[h].s]} : tree' = [tree EXCEPT ![op[h].s] = t]
      BY ZenonT(60), <1>3 DEF BindWork
    <2>2. op[h].pc = "work" /\ op[h].s \in Sessions BY ZenonT(30), <1>3 DEF BindWork, At
    <2>3. t \in 0 .. MaxEntry BY <2>1, <2>2 DEF RegistryTypes
    <2>4. Holding(op[h]) /\ Attached(op[h]) BY <2>2 DEF Holding, Attached
    <2>5. Moved(h) /\ Calm(h) /\ op'[h].pc = "idle" BY Zenon, <1>3, Returned, IdleFacts DEF BindWork
    <2>6. op[h].s \notin reclaiming => slots[op[h].s].id = op[h].e
      BY Zenon, <2>4 DEF RegistryInv, Kept
    <2>7. WritesTree(h, t)
      BY ZenonT(60), <1>3, <2>1, <2>2, <2>3, <2>4, <2>5, <2>6 DEF WritesTree, BindWork, registryVars
    <2>. QED BY <2>7, WritesTreeKeeps
  <1>. QED BY <1>1, <1>2, <1>3

\* AssignCredentials.
LEMMA AssignStep ==
  ASSUME RegistryInv, NEW s \in Sessions, NEW t \in Tokens, AssignCredentials(s, t)
  PROVE  RegistryInv'
  <1>. DEFINE entry == [Resolved(s, t) EXCEPT !.bound = TRUE]
  <1>1. s \notin reclaiming /\ (Registered(s) \/ created # MaxEntry)
    BY DEF AssignCredentials, Refused
  <1>2. /\ entry \in Entry
        /\ IF Registered(s) THEN entry.id = slots[s].id ELSE entry.id = created + 1
    BY ZenonT(60), <1>1, ResolvedEntry
  <1>3. Registers(s, entry) BY <1>1, <1>2 DEF Registers, AssignCredentials
  <1>4. op' = op /\ guard' = guard BY DEF AssignCredentials
  <1>. QED BY <1>3, <1>4, RegistersKeeps

\* The claim of a start or of a resume, which the resume makes inside its guard.
LEMMA ClaimStep ==
  ASSUME RegistryInv, NEW h \in Handlers, NEW s \in Sessions, NEW t \in Tokens \cup {NoTok},
         NEW rpc \in {"start", "resume"}, Claim(h, rpc, s, t), guard' = guard,
         ~Refused(s, t, TRUE, FALSE), rpc = "resume" => guard[s] = h
  PROVE  RegistryInv'
  <1>. USE HandlerFacts
  <1>. DEFINE entry == [Resolved(s, t) EXCEPT !.bound = TRUE, !.started = TRUE]
              p == IF rpc = "resume" THEN "restore" ELSE IF TakesMCP(s) THEN "arm" ELSE "run"
              c == Call(rpc, p, s, t)
              o == [c EXCEPT !.e = Resolved(s, t).id, !.arm = TakesMCP(s)]
  <1>1. s \notin reclaiming /\ (Registered(s) \/ created # MaxEntry) BY ZenonT(30) DEF Refused
  <1>2. /\ entry \in Entry /\ entry.id = Resolved(s, t).id /\ Resolved(s, t).id \in 1 .. MaxEntry
        /\ IF Registered(s) THEN entry.id = slots[s].id ELSE entry.id = created + 1
    BY ZenonT(60), <1>1, ResolvedEntry
  <1>3. Registers(s, entry) BY <1>1, <1>2 DEF Registers, Claim
  <1>4. op' = [op EXCEPT ![h] = o] BY DEF Claim
  <1>6. TakesMCP(s) \in BOOLEAN /\ Resolved(s, t).id \in 0 .. MaxEntry
    BY <1>2 DEF TakesMCP
  <1>7. /\ p \in {"restore", "arm", "run"} /\ (p = "restore" => rpc = "resume")
        /\ p \in {"arm", "run"} => rpc = "start"
        /\ rpc \in RPCs /\ p \in PCs
    BY ZenonT(30) DEF RPCs, PCs
  <1>. HIDE DEF p
  <1>5. c \in Op /\ c.pc = p /\ c.rpc = rpc /\ c.s = s /\ ~c.removed /\ ~c.guarded /\ c.todo = {}
    <2>1. c \in Op BY Zenon, <1>7, IdleFacts DEF Call, Op, Coherent
    <2>. QED BY <2>1 DEF Call, Idle
  <1>. HIDE DEF c
  <1>8. o \in Op BY ONLY Zenon, <1>5, <1>6 DEF Op
  <1>9. /\ o.pc = p /\ o.rpc = rpc /\ o.s = s /\ ~o.removed /\ ~o.guarded /\ o.todo = {}
        /\ o.e = Resolved(s, t).id
    BY <1>5 DEF Op
  <1>. HIDE DEF o
  <1>10. op' \in [Handlers -> Op] /\ op'[h] = o /\ \A k \in Handlers \ {h} : op'[k] = op[k]
    BY ZenonT(60), <1>4, <1>8, StateReplaced
  <1>11. Coherent(o) /\ \A x \in Sessions : ~Removing(o, x)
    BY <1>2, <1>7, <1>8, <1>9 DEF Coherent, Places, Removals, Claimer, Opening, Removing
  <1>12. Holding(o) => guard[s] = h BY ZenonT(30), <1>7, <1>9 DEF Holding
  <1>13. Relies(h, s, entry)
    BY <1>2, <1>7, <1>9, <1>10, <1>11, <1>12 DEF Relies, Moved, RegistryTypes
  <1>. QED BY <1>3, <1>13, RegistersKeeps

\* StartSession, and what Resume does up to the restored tree.
LEMMA StartStep ==
  ASSUME RegistryInv, NEW h \in Handlers,
         (\E s \in Sessions : StartSession(h, s)) \/ ResumeClaim(h) \/ Restore(h)
  PROVE  RegistryInv'
  <1>. USE HandlerFacts
  <1>1. ASSUME NEW s \in Sessions, StartSession(h, s) PROVE RegistryInv'
    BY ZenonT(60), <1>1, ClaimStep DEF StartSession
  <1>2. CASE ResumeClaim(h)
    <2>. DEFINE s == op[h].s
                t == op[h].tok
    <2>0. s \in Sessions /\ t \in Tokens \cup {NoTok} /\ op[h].pc = "resolve"
      BY Zenon, <1>2 DEF ResumeClaim, At, Op
    <2>1. CASE Refused(s, t, TRUE, FALSE)
      <3>1. Quiet(h) BY ZenonT(60), <1>2, <2>1, ReturnedQuiet DEF ResumeClaim, registryVars
      <3>. QED BY <3>1, QuietKeeps
    <2>2. CASE ~Refused(s, t, TRUE, FALSE)
      <3>1. guard[s] = h BY <2>0 DEF Holding
      <3>2. Claim(h, "resume", s, t) /\ guard' = guard BY Zenon, <1>2, <2>2 DEF ResumeClaim
      <3>. QED BY ZenonT(60), <2>0, <2>2, <3>1, <3>2, ClaimStep
    <2>. QED BY ZenonT(60), <2>1, <2>2
  <1>3. CASE Restore(h)
    <2>1. op[h].pc = "restore" /\ op[h].s \in Sessions /\ op[h].rpc = "resume"
      BY ZenonT(30), <1>3 DEF Restore, At, Places
    <2>2. CASE Fail(h) /\ tree' = tree
      <3>1. Quiet(h) BY ZenonT(60), <1>3, <2>1, <2>2, Failed DEF Restore, registryVars, Opening
      <3>. QED BY <3>1, QuietKeeps
    <2>3. CASE ~(Fail(h) /\ tree' = tree)
      <3>1. PICK t \in {op[h].e, tree[op[h].s]} : tree' = [tree EXCEPT ![op[h].s] = t]
        BY Zenon, <1>3, <2>3 DEF Restore
      <3>2. PICK p \in {"arm", "run"} : Goto(h, p) /\ guard' = guard
        BY Zenon, <1>3, <2>3 DEF Restore
      <3>3. Onward(h, p) BY ZenonT(30), <3>2, GotoMoves DEF PCs
      <3>4. Coherent(op'[h]) /\ \A x \in Sessions : ~Removing(op'[h], x)
        BY ZenonT(60), <2>1, <3>2, <3>3, OnwardCoherent DEF Opening
      <3>5. Holding(op[h]) /\ Attached(op[h]) BY ZenonT(60), <2>1 DEF Holding, Attached
      <3>6. Moved(h) /\ Calm(h) /\ op'[h].pc # "finish"
        BY ZenonT(30), <3>2, <3>3, <3>4, <3>5 DEF Moved, Calm, Onward, RegistryTypes
      <3>7. t \in 0 .. MaxEntry BY <2>1, <3>1 DEF RegistryTypes
      <3>8. op[h].s \notin reclaiming => slots[op[h].s].id = op[h].e
        BY ZenonT(60), <3>5 DEF RegistryInv, Kept
      <3>9. WritesTree(h, t)
        BY ZenonT(60), <1>3, <2>1, <3>1, <3>5, <3>6, <3>7, <3>8
           DEF WritesTree, Restore, registryVars
      <3>. QED BY ZenonT(60), <3>9, WritesTreeKeeps
    <2>. QED BY <2>2, <2>3
  <1>. QED BY <1>1, <1>2, <1>3

\* The end of a start, before its release.
LEMMA ConfirmStep ==
  ASSUME RegistryInv, NEW h \in Handlers,
         ConfirmStart(h) \/ RefuseStart(h) \/ StartUnacknowledged(h) \/ RollbackStart(h)
  PROVE  Quiet(h)
  <1>. USE HandlerFacts
  <1>0. slots' = slots /\ reclaiming' = reclaiming /\ created' = created /\ tree' = tree
    BY ZenonT(60) DEF ConfirmStart, RefuseStart, StartUnacknowledged, RollbackStart, registryVars
  <1>1. CASE ConfirmStart(h) \/ RollbackStart(h)
    BY ZenonT(60), <1>0, <1>1, ReturnedQuiet DEF ConfirmStart, RollbackStart
  <1>2. CASE StartUnacknowledged(h)
    BY ZenonT(60), <1>0, <1>2, Failed DEF StartUnacknowledged, At, Opening
  <1>3. CASE RefuseStart(h)
    <2>1. /\ op[h].pc = "confirm" /\ Onward(h, "rollback")
          /\ IF op[h].rpc = "resume" THEN guard' = guard ELSE Unlock(h)
      BY ZenonT(60), <1>3, GotoMoves DEF RefuseStart, Refuse, At, PCs
    <2>2. Coherent(op'[h]) /\ ~Attached(op'[h]) /\ \A x \in Sessions : ~Removing(op'[h], x)
      BY ZenonT(60), <2>1
         DEF Onward, Coherent, Places, Removals, Claimer, Opening, Removing, Attached
    <2>3. Holding(op'[h]) => op[h].rpc = "resume"
      BY ZenonT(60), <2>1 DEF Onward, Holding, Removals
    <2>4. Holding(op[h]) BY Zenon, <2>1 DEF Holding
    <2>. QED BY ZenonT(30), <1>0, <2>1, <2>2, <2>3, <2>4, UnlockKeeps
             DEF Quiet, Moved, Calm, Onward, RegistryTypes
  <1>. QED BY ZenonT(60), <1>1, <1>2, <1>3

-----------------------------------------------------------------------------
(* Taking sessions out.                                                      *)

\* Every set of identifiers has a first member, which is the one that NextMember takes.
HaveFirst ==
  \A T \in SUBSET Sessions : T # {} => (CHOOSE m \in T : \A n \in T : m <= n) \in T

\* The teardown of the next member of T is about T and nothing else.
LEMMA NextFacts ==
  ASSUME HaveFirst, NEW h \in Handlers, NEW T \in SUBSET Sessions
  PROVE  /\ Coherent(NextMember(h, T))
         /\ ~Holding(NextMember(h, T)) /\ ~Attached(NextMember(h, T)) /\ ~Claimer(NextMember(h, T))
         /\ \A x \in Sessions : Removing(NextMember(h, T), x) <=> x \in T
         /\ NextMember(h, T).pc \in {"idle", "release"} /\ NextMember(h, T).e = 0
  <1>1. CASE T = {} BY <1>1, IdleFacts DEF NextMember
  <1>2. CASE T # {}
    <2>. DEFINE s == CHOOSE m \in T : \A n \in T : m <= n
                o == [Idle EXCEPT !.rpc = "timeout", !.pc = "release", !.s = s,
                                  !.removed = TRUE, !.todo = T \ {s}]
    <2>1. s \in T /\ s \in Sessions BY Zenon, <1>2 DEF HaveFirst
    <2>. HIDE DEF s
    <2>2. NextMember(h, T) = o BY <1>2 DEF NextMember, s
    <2>3. s \in Sessions \cup {NoSession} /\ T \ {s} \in SUBSET Sessions BY <2>1
    <2>4. o \in Op BY Zenon, <2>3, IdleFacts DEF Op, Coherent, RPCs, PCs
    <2>5. /\ o.rpc = "timeout" /\ o.pc = "release" /\ o.s = s /\ o.removed /\ o.todo = T \ {s}
          /\ ~o.guarded /\ o.e = 0
      BY DEF Idle
    <2>. HIDE DEF o
    <2>6. Coherent(o) /\ ~Holding(o) /\ ~Attached(o) /\ ~Claimer(o)
      BY <2>1, <2>4, <2>5
         DEF Coherent, Places, Removals, Claimer, Opening, Holding, Attached
    <2>7. \A x \in Sessions : Removing(o, x) <=> x \in T BY <2>1, <2>5 DEF Removing
    <2>. QED BY ZenonT(30), <2>2, <2>5, <2>6, <2>7
  <1>. QED BY <1>1, <1>2

\* A releaser takes the guard or goes on without it.
LEMMA ReleaseGuardStep ==
  ASSUME RegistryInv, NEW h \in Handlers, ReleaseGuard(h)
  PROVE  Quiet(h)
  <1>. USE HandlerFacts
  <1>. DEFINE free == guard[op[h].s] = NoHandler
              p == IF op[h].rpc = "timeout" THEN "close" ELSE "reclaim"
              o == [op[h] EXCEPT !.guarded = free, !.pc = p]
  <1>1. /\ op[h].pc = "release" /\ op[h].s \in Sessions
        /\ op[h].rpc \in {"start", "shutdown", "timeout"}
    BY DEF ReleaseGuard, At, Places
  <1>2. /\ op' = [op EXCEPT ![h] = o]
        /\ guard' = IF free THEN [guard EXCEPT ![op[h].s] = h] ELSE guard
    BY ZenonT(60) DEF ReleaseGuard
  <1>3. op[h] \in Op /\ p \in PCs /\ free \in BOOLEAN BY DEF PCs
  <1>4. /\ op[h].rpc = "timeout" => p = "close"
        /\ op[h].rpc # "timeout" => p = "reclaim"
    OBVIOUS
  <1>. HIDE DEF p, free
  <1>5. o \in Op BY ONLY Zenon, <1>3 DEF Op, o
  <1>6. /\ o.pc = p /\ o.guarded = free /\ o.rpc = op[h].rpc /\ o.s = op[h].s /\ o.e = op[h].e
        /\ o.removed = op[h].removed /\ o.todo = op[h].todo
    BY <1>3 DEF Op
  <1>. HIDE DEF o
  <1>7. op' \in [Handlers -> Op] /\ op'[h] = o /\ \A k \in Handlers \ {h} : op'[k] = op[k]
    BY ZenonT(60), <1>2, <1>5, StateReplaced
  <1>8. Coherent(o)
    BY ZenonT(60), <1>1, <1>4, <1>5, <1>6 DEF Coherent, Places, Removals, Claimer, Opening
  <1>9. ~Attached(o) /\ (Holding(o) => free) /\ \A x \in Sessions : Removing(o, x) => Removing(op[h], x)
    BY ZenonT(60), <1>1, <1>4, <1>6 DEF Attached, Holding, Removing
  <1>10. /\ guard' \in [Sessions -> Handlers \cup {NoHandler}]
         /\ free => guard'[op[h].s] = h
         /\ \A x \in Sessions, k \in Handlers \ {h} : guard[x] = k => guard'[x] = k
    <2>1. CASE free
      <3>1. guard[op[h].s] = NoHandler /\ guard' = [guard EXCEPT ![op[h].s] = h]
        BY ZenonT(30), <1>2, <2>1 DEF free
      <3>. QED BY ZenonT(30), <1>1, <3>1, GuardTaken
    <2>2. CASE ~free BY ZenonT(30), <1>2, <2>2 DEF RegistryTypes
    <2>. QED BY ZenonT(30), <2>1, <2>2
  <1>11. o.pc # "finish" BY <1>1, <1>4, <1>6
  <1>. QED BY <1>6, <1>7, <1>8, <1>9, <1>10, <1>11
           DEF Quiet, Moved, Calm, ReleaseGuard, registryVars

\* A handler at a cleanup step goes on to another.
LEMMA CleanupMoves ==
  ASSUME RegistryInv, NEW h \in Handlers, NEW o \in Op, op' = [op EXCEPT ![h] = o],
         guard' = guard, op[h].s \in Sessions,
         o.pc \in {"close", "tree", "finish", "record"}, o.pc = "close" => op[h].pc = "reclaim",
         o.rpc = op[h].rpc, o.s = op[h].s, o.guarded = op[h].guarded, o.todo = op[h].todo,
         o.pc \in {"close", "tree"} => o.removed, o.pc = "record" => o.todo = {}
  PROVE  /\ Moved(h) /\ op'[h] = o /\ ~Attached(op'[h])
         /\ \A k \in Handlers \ {h} : op'[k] = op[k]
  <1>. USE HandlerFacts
  <1>1. op' \in [Handlers -> Op] /\ op'[h] = o /\ \A k \in Handlers \ {h} : op'[k] = op[k]
    BY ZenonT(60), StateReplaced
  <1>2. Coherent(o)
    BY ZenonT(60) DEF Coherent, Places, Removals, Claimer, Opening
  <1>3. ~Attached(o) /\ (Holding(o) => Holding(op[h]))
    BY ZenonT(60) DEF Attached, Holding
  <1>. QED BY ZenonT(60), <1>1, <1>2, <1>3 DEF Moved, RegistryTypes

\* The release of a failed start or resume deregisters its entry, or finds it gone.
LEMMA ReleaseClaimStep ==
  ASSUME RegistryInv, NEW h \in Handlers, ReleaseClaim(h)
  PROVE  RegistryInv'
  <1>. USE HandlerFacts
  <1>0. /\ op[h].pc = "reclaim" /\ op[h].s \in Sessions /\ op[h].rpc \in {"start", "resume"}
        /\ op[h].todo = {} /\ ~op[h].removed
        /\ guard' = guard /\ tree' = tree
    BY DEF ReleaseClaim, At, Removals
  <1>1. CASE Registered(op[h].s) /\ Owned(h)
    <2>. DEFINE o == [op[h] EXCEPT !.pc = "tree", !.removed = TRUE]
    <2>0. op[h] \in Op /\ "tree" \in PCs BY DEF PCs
    <2>1. o \in Op BY ONLY Zenon, <2>0 DEF Op
    <2>2. /\ o.pc = "tree" /\ o.removed /\ o.rpc = op[h].rpc /\ o.s = op[h].s
          /\ o.guarded = op[h].guarded /\ o.todo = op[h].todo
      BY DEF Op
    <2>3. op' = [op EXCEPT ![h] = o] /\ ReclaimSlots({op[h].s}) BY ZenonT(60), <1>1 DEF ReleaseClaim
    <2>. HIDE DEF o
    <2>4. Moved(h) /\ op'[h] = o /\ ~Attached(op'[h])
      BY ZenonT(60), <1>0, <2>1, <2>2, <2>3, CleanupMoves
    <2>5. \A x \in Sessions : Removing(o, x) => x \in {op[h].s}
      BY ZenonT(60), <1>0, <2>2 DEF Removing
    <2>6. slots[op[h].s].id # 0 BY ZenonT(60), <1>0, <1>1, EntryFacts
    <2>7. TakesOut(h, {op[h].s}) BY ZenonT(60), <1>0, <2>2, <2>3, <2>4, <2>5, <2>6 DEF TakesOut
    <2>. QED BY <2>7, TakesOutKeeps
  <1>2. CASE ~(Registered(op[h].s) /\ Owned(h))
    <2>. DEFINE o == [op[h] EXCEPT !.pc = "finish"]
    <2>1. /\ o \in Op /\ o.pc = "finish" /\ o.rpc = op[h].rpc /\ o.s = op[h].s
          /\ o.guarded = op[h].guarded /\ o.todo = op[h].todo /\ o.removed = op[h].removed
      BY DEF Op, PCs
    <2>2. op' = [op EXCEPT ![h] = o] BY <1>2 DEF ReleaseClaim, Goto
    <2>. HIDE DEF o
    <2>3. Moved(h) /\ op'[h] = o /\ ~Attached(op'[h]) BY ZenonT(60), <1>0, <2>1, <2>2, CleanupMoves
    <2>4. \A x \in Sessions : ~Removing(o, x) BY ZenonT(60), <1>0, <2>1 DEF Removing
    <2>5. ~Completed(h)' BY ZenonT(30), <1>0, <2>1, <2>3 DEF Completed
    <2>6. Quiet(h)
      BY <1>0, <1>2, <2>3, <2>4, <2>5 DEF Quiet, Calm, ReleaseClaim, registryVars
    <2>. QED BY ZenonT(60), <2>6, QuietKeeps
  <1>. QED BY <1>1, <1>2

\* The close of the runtime and the removal of the tree, each of which may fail.
LEMMA CleanupStep ==
  ASSUME RegistryInv, NEW h \in Handlers, CloseRuntime(h) \/ RemoveTree(h)
  PROVE  RegistryInv'
  <1>. USE HandlerFacts
  <1>0. /\ op[h].pc \in {"close", "tree"} /\ op[h].s \in Sessions /\ op[h].removed
        /\ guard' = guard /\ slots' = slots /\ reclaiming' = reclaiming /\ created' = created
    BY ZenonT(60) DEF CloseRuntime, RemoveTree, At, Removals, registryVars
  <1>1. CASE CloseRuntime(h)
    <2>1. PICK err \in BOOLEAN :
            op' = [op EXCEPT ![h] = [op[h] EXCEPT !.pc = "tree", !.failed = err, !.closeErr = err]]
      BY ZenonT(60), <1>1 DEF CloseRuntime
    <2>. DEFINE o == [op[h] EXCEPT !.pc = "tree", !.failed = err, !.closeErr = err]
    <2>2. op[h] \in Op /\ "tree" \in PCs /\ err \in BOOLEAN BY DEF PCs
    <2>3. o \in Op BY ONLY Zenon, <2>2 DEF Op
    <2>4. /\ o.pc = "tree" /\ o.removed = op[h].removed /\ o.rpc = op[h].rpc /\ o.s = op[h].s
          /\ o.guarded = op[h].guarded /\ o.todo = op[h].todo
      BY DEF Op
    <2>. HIDE DEF o
    <2>5. op' = [op EXCEPT ![h] = o] BY <2>1 DEF o
    <2>6. Moved(h) /\ op'[h] = o /\ ~Attached(op'[h])
      BY ZenonT(60), <1>0, <2>3, <2>4, <2>5, CleanupMoves
    <2>7. \A x \in Sessions : Removing(o, x) => Removing(op[h], x)
      BY ZenonT(60), <1>0, <2>4 DEF Removing
    <2>8. Quiet(h) BY ZenonT(60), <1>0, <1>1, <2>4, <2>6, <2>7 DEF Quiet, Calm, CloseRuntime
    <2>. QED BY <2>8, QuietKeeps
  <1>2. CASE RemoveTree(h) /\ tree' = [tree EXCEPT ![op[h].s] = 0] /\ Goto(h, "finish")
    <2>. DEFINE o == [op[h] EXCEPT !.pc = "finish"]
    <2>1. /\ o \in Op /\ o.pc = "finish" /\ o.rpc = op[h].rpc /\ o.s = op[h].s
          /\ o.guarded = op[h].guarded /\ o.todo = op[h].todo /\ o.removed = op[h].removed
      BY DEF Op, PCs
    <2>2. op' = [op EXCEPT ![h] = o] BY <1>2 DEF Goto
    <2>. HIDE DEF o
    <2>3. Moved(h) /\ op'[h] = o /\ ~Attached(op'[h]) BY ZenonT(60), <1>0, <2>1, <2>2, CleanupMoves
    <2>4. \A x \in Sessions : Removing(o, x) => Removing(op[h], x)
      BY ZenonT(60), <1>0, <2>1 DEF Removing
    <2>5. Removing(op[h], op[h].s) BY <1>0 DEF Removing
    <2>6. op[h].s \in reclaiming BY ZenonT(30), <1>0, <2>5 DEF RegistryInv, Held
    <2>7. 0 \in 0 .. MaxEntry BY SlotConstants
    <2>8. WritesTree(h, 0)
      BY ZenonT(60), <1>0, <1>2, <2>1, <2>3, <2>4, <2>6, <2>7 DEF WritesTree, Calm
    <2>. QED BY ZenonT(30), <2>8, WritesTreeKeeps
  <1>3. CASE RemoveTree(h) /\ ~(tree' = [tree EXCEPT ![op[h].s] = 0] /\ Goto(h, "finish"))
    <2>. DEFINE o == [op[h] EXCEPT !.pc = "finish", !.failed = TRUE]
    <2>0. op[h] \in Op /\ "finish" \in PCs BY DEF PCs
    <2>1. o \in Op BY ONLY Zenon, <2>0 DEF Op
    <2>2. /\ o.pc = "finish" /\ o.failed /\ o.removed = op[h].removed /\ o.rpc = op[h].rpc
          /\ o.s = op[h].s /\ o.guarded = op[h].guarded /\ o.todo = op[h].todo
      BY DEF Op
    <2>3. op' = [op EXCEPT ![h] = o] /\ tree' = tree BY ZenonT(60), <1>3 DEF RemoveTree
    <2>. HIDE DEF o
    <2>4. Moved(h) /\ op'[h] = o /\ ~Attached(op'[h])
      BY ZenonT(60), <1>0, <2>1, <2>2, <2>3, CleanupMoves
    <2>5. \A x \in Sessions : Removing(o, x) => Removing(op[h], x)
      BY ZenonT(30), <1>0, <2>2 DEF Removing
    <2>6. ~Completed(h)' BY ZenonT(30), <2>2, <2>4 DEF Completed
    <2>7. Quiet(h) BY ZenonT(30), <1>0, <2>3, <2>4, <2>5, <2>6 DEF Quiet, Calm
    <2>. QED BY <2>7, QuietKeeps
  <1>. QED BY <1>1, <1>2, <1>3

\* The end of a cleanup: of a failed start, of a Shutdown, of a member of a hold
\* timeout's set.
LEMMA FinishStep ==
  ASSUME HaveFirst, RegistryInv, NEW h \in Handlers,
         FinishRelease(h) \/ FinishShutdown(h) \/ FinishMember(h)
  PROVE  RegistryInv'
  <1>. USE HandlerFacts
  <1>0. op[h].pc = "finish" /\ op[h].s \in Sessions /\ EndHold(h) /\ tree' = tree
    BY ZenonT(30) DEF FinishRelease, FinishShutdown, FinishMember, At
  <1>. SUFFICES EndsHold(h) BY ZenonT(30), EndsHoldKeeps
  <1>1. CASE FinishRelease(h)
    BY ZenonT(60), <1>0, <1>1, Returned, IdleFacts DEF FinishRelease, EndsHold
  <1>2. CASE FinishShutdown(h)
    <2>. DEFINE o == [op[h] EXCEPT !.pc = "record"]
    <2>1. /\ o \in Op /\ o.pc = "record" /\ o.rpc = op[h].rpc /\ o.s = op[h].s
          /\ o.guarded = op[h].guarded /\ o.todo = op[h].todo /\ o.removed = op[h].removed
      BY DEF Op, PCs
    <2>2. op' = [op EXCEPT ![h] = o] /\ guard' = guard /\ op[h].rpc = "shutdown"
      BY <1>2 DEF FinishShutdown, Goto
    <2>3. op[h].todo = {} BY <2>2 DEF Removals
    <2>. HIDE DEF o
    <2>4. Moved(h) /\ op'[h] = o /\ ~Attached(op'[h])
      BY ZenonT(60), <1>0, <2>1, <2>2, <2>3, CleanupMoves
    <2>5. \A x \in Sessions : ~Removing(o, x) BY ZenonT(30), <2>1, <2>3 DEF Removing
    <2>. QED BY ZenonT(30), <1>0, <2>1, <2>4, <2>5 DEF EndsHold
  <1>3. CASE FinishMember(h)
    <2>. DEFINE o == NextMember(h, op[h].todo)
    <2>1. op[h].todo \in SUBSET Sessions /\ op[h].s \notin op[h].todo BY ZenonT(60) DEF Op, Removals
    <2>2. /\ Coherent(o) /\ ~Holding(o) /\ ~Attached(o) /\ o.pc \in {"idle", "release"}
          /\ \A x \in Sessions : Removing(o, x) <=> x \in op[h].todo
      BY ZenonT(60), <2>1, NextFacts
    <2>3. op' = [op EXCEPT ![h] = o] /\ Unlock(h) BY ZenonT(30), <1>3 DEF FinishMember
    <2>. HIDE DEF o
    <2>4. op' \in [Handlers -> Op] /\ op'[h] = o /\ \A k \in Handlers \ {h} : op'[k] = op[k]
      BY ZenonT(60), <2>2, <2>3, StateReplaced DEF Coherent
    <2>5. Moved(h) BY ZenonT(30), <2>2, <2>3, <2>4, UnlockKeeps DEF Moved
    <2>6. \A x \in Sessions : Removing(o, x) => x # op[h].s /\ Removing(op[h], x)
      BY ZenonT(30), <2>1, <2>2 DEF Removing
    <2>. QED BY ZenonT(60), <1>0, <2>2, <2>4, <2>5, <2>6 DEF EndsHold
  <1>. QED BY ZenonT(30), <1>1, <1>2, <1>3

\* The two decisions of a Shutdown, and its answer.
LEMMA ShutdownStep ==
  ASSUME RegistryInv, NEW h \in Handlers,
         ShutdownDecide(h) \/ ShutdownReclaim(h) \/ AnswerShutdown(h)
  PROVE  RegistryInv'
  <1>. USE HandlerFacts
  <1>1. CASE ShutdownDecide(h) /\ Removes(op[h].s, op[h].tok)
    <2>1. op[h].pc = "decide" /\ op[h].s \in Sessions /\ Onward(h, "release")
      BY ZenonT(30), <1>1, GotoMoves DEF ShutdownDecide, At, PCs
    <2>2. Coherent(op'[h]) /\ ~Holding(op'[h]) /\ ~Attached(op'[h])
          /\ \A x \in Sessions : ~Removing(op'[h], x)
      BY ZenonT(60), <2>1
         DEF Onward, Coherent, Places, Removals, Claimer, Opening, Removing, Attached, Holding
    <2>3. Quiet(h)
      BY ZenonT(30), <1>1, <2>1, <2>2
         DEF ShutdownDecide, Quiet, Moved, Calm, Onward, RegistryTypes, registryVars
    <2>. QED BY <2>3, QuietKeeps
  <1>2. CASE ShutdownDecide(h) /\ ~Removes(op[h].s, op[h].tok)
    BY ZenonT(60), <1>2, ReturnedQuiet, QuietKeeps DEF ShutdownDecide, registryVars
  <1>3. CASE AnswerShutdown(h)
    BY ZenonT(30), <1>3, ReturnedQuiet, QuietKeeps DEF AnswerShutdown, registryVars
  <1>4. CASE ShutdownReclaim(h) /\ ~Removes(op[h].s, op[h].tok)
    BY <1>4, ReturnedQuiet, QuietKeeps DEF ShutdownReclaim, registryVars
  <1>5. CASE ShutdownReclaim(h) /\ Removes(op[h].s, op[h].tok)
    <2>. DEFINE s == op[h].s
                p == IF slots[s].started THEN "close" ELSE "tree"
                l == s \in runtimeLive
                o == [op[h] EXCEPT !.pc = p, !.e = slots[s].id, !.removed = TRUE, !.live = l]
    <2>1. op[h].pc = "reclaim" /\ s \in Sessions /\ op[h].rpc = "shutdown"
      BY Zenon, <1>5 DEF ShutdownReclaim, At
    <2>2. op' = [op EXCEPT ![h] = o] /\ ReclaimSlots({s}) /\ guard' = guard /\ tree' = tree
      BY ZenonT(60), <1>5 DEF ShutdownReclaim
    <2>3. slots[s].id \in 0 .. MaxEntry /\ slots[s].id # 0
      <3>1. Registered(s) BY ZenonT(30), <1>5 DEF Removes
      <3>. HIDE DEF s
      <3>2. slots[s].id \in Nat /\ slots[s].id <= MaxEntry /\ slots[s].id # 0
        BY ZenonT(60), <2>1, <3>1, EntryFacts
      <3>. QED BY ONLY <3>2, SlotConstants
    <2>4. op[h] \in Op /\ p \in PCs /\ l \in BOOLEAN /\ p \in {"close", "tree"}
      <3>1. op[h] \in Op BY Zenon
      <3>2. p \in {"close", "tree"} BY ONLY Zenon DEF p
      <3>4. l \in BOOLEAN BY ONLY DEF l
      <3>. HIDE DEF p, l
      <3>3. p \in PCs BY ONLY Zenon, <3>2 DEF PCs
      <3>. QED BY Zenon, <3>1, <3>2, <3>3, <3>4
    <2>. HIDE DEF p, l
    <2>5. o \in Op BY ONLY Zenon, <2>3, <2>4 DEF Op
    <2>6. /\ o.pc = p /\ o.removed /\ o.rpc = op[h].rpc /\ o.s = s
          /\ o.guarded = op[h].guarded /\ o.todo = op[h].todo
      BY DEF Op
    <2>. HIDE DEF o
    <2>7. op[h].todo = {} BY ZenonT(30), <2>1 DEF Removals
    <2>8. Moved(h) /\ op'[h] = o /\ ~Attached(op'[h])
      BY ZenonT(60), <2>1, <2>2, <2>4, <2>5, <2>6, CleanupMoves
    <2>9. \A x \in Sessions : Removing(o, x) => x \in {s} BY ZenonT(60), <2>6, <2>7 DEF Removing
    <2>10. TakesOut(h, {s}) BY ZenonT(60), <2>1, <2>2, <2>3, <2>4, <2>6, <2>8, <2>9 DEF TakesOut
    <2>. QED BY ZenonT(30), <2>10, TakesOutKeeps
  <1>. QED BY ZenonT(30), <1>1, <1>2, <1>3, <1>4, <1>5

\* The first pass of a hold timeout takes every started entry out.
LEMMA DeregisterStep ==
  ASSUME HaveFirst, RegistryInv, NEW h \in Handlers, DeregisterStarted(h)
  PROVE  RegistryInv'
  <1>. USE HandlerFacts
  <1>. DEFINE members == {s \in Sessions : slots[s].started}
              o == NextMember(h, members)
  <1>1. members \in SUBSET Sessions BY ZenonT(60)
  <1>2. /\ Coherent(o) /\ ~Holding(o) /\ ~Attached(o) /\ o.pc \in {"idle", "release"}
        /\ \A x \in Sessions : Removing(o, x) <=> x \in members
    BY ZenonT(60), <1>1, NextFacts
  <1>3. op' = [op EXCEPT ![h] = o] /\ ReclaimSlots(members) /\ guard' = guard /\ tree' = tree
    BY ZenonT(60) DEF DeregisterStarted
  <1>4. \A s \in members : slots[s].id # 0 BY ZenonT(30), EntryFacts
  <1>. HIDE DEF members, o
  <1>5. op' \in [Handlers -> Op] /\ op'[h] = o /\ \A k \in Handlers \ {h} : op'[k] = op[k]
    BY ZenonT(60), <1>2, <1>3, StateReplaced DEF Coherent
  <1>6. Moved(h) BY ZenonT(30), <1>2, <1>3, <1>5 DEF Moved, RegistryTypes
  <1>7. TakesOut(h, members) BY ZenonT(60), <1>1, <1>2, <1>3, <1>4, <1>5, <1>6 DEF TakesOut
  <1>. QED BY <1>7, TakesOutKeeps

-----------------------------------------------------------------------------
(* Every step keeps the registry's invariant.                               *)

\* A pod with an empty registry satisfies the invariant.
LEMMA RegistryInit == SlotInit => RegistryInv
  <1>. SUFFICES ASSUME SlotInit PROVE RegistryInv OBVIOUS
  <1>. USE DEF SlotInit
  <1>1. \A h \in Handlers : op[h] = Idle OBVIOUS
  <1>2. Idle \in Op BY ZenonT(60), IdleFacts DEF Coherent
  <1>3. RegistryTypes BY <1>2, SlotConstants DEF RegistryTypes
  <1>4. Handling BY ZenonT(60), <1>1, IdleFacts DEF Handling
  <1>5. Held BY ZenonT(60), <1>1, IdleFacts DEF Held
  <1>6. Kept BY ZenonT(60), <1>1, IdleFacts DEF Kept
  <1>7. Emptied BY ZenonT(60), <1>1, IdleFacts DEF Emptied
  <1>8. TreeMatchesRegistry BY DEF TreeMatchesRegistry, NoEntry
  <1>. QED BY <1>3, <1>4, <1>5, <1>6, <1>7, <1>8 DEF RegistryInv

\* Every step of every handler, and every stuttering step, keeps it.
LEMMA RegistryNext == HaveFirst /\ RegistryInv /\ [SlotNext]_vars => RegistryInv'
  <1>. SUFFICES ASSUME HaveFirst, RegistryInv, [SlotNext]_vars PROVE RegistryInv' OBVIOUS
  <1>1. ASSUME NEW h \in Handlers, NEW s \in Sessions,
               \/ \E t \in Tokens \cup {NoTok} : Admit(h, "bind", s, t) \/ Shutdown(h, s, t)
               \/ \E t \in Tokens : Admit(h, "resume", s, t)
               \/ StartSession(h, s) \/ CoordinatorFence(h, s)
        PROVE  RegistryInv'
    <2>1. CASE StartSession(h, s) BY <2>1, StartStep
    <2>2. CASE ~StartSession(h, s) BY <1>1, <2>2, CallStep, QuietKeeps
    <2>. QED BY <2>1, <2>2
  <1>2. ASSUME NEW s \in Sessions, NEW t \in Tokens, AssignCredentials(s, t) PROVE RegistryInv'
    BY <1>2, AssignStep
  <1>3. ASSUME NEW h \in Handlers, BindSteps(h) PROVE RegistryInv'
    BY <1>3, BindStep, CallStep, QuietKeeps DEF BindSteps
  <1>4. ASSUME NEW h \in Handlers, StartSteps(h) PROVE RegistryInv'
    BY <1>4, StartStep, OpeningStep, ConfirmStep, ReleaseClaimStep, FinishStep, QuietKeeps
       DEF StartSteps
  <1>5. ASSUME NEW h \in Handlers, ReleaseSteps(h) PROVE RegistryInv'
    BY <1>5, ReleaseGuardStep, CleanupStep, QuietKeeps DEF ReleaseSteps
  <1>6. ASSUME NEW h \in Handlers, ShutdownSteps(h) PROVE RegistryInv'
    BY <1>6, ShutdownStep, FinishStep DEF ShutdownSteps
  <1>7. ASSUME NEW h \in Handlers, HoldSteps(h) \/ HoldTimeout(h) PROVE RegistryInv'
    BY <1>7, CallStep, HoldStep, DeregisterStep, FinishStep, QuietKeeps DEF HoldSteps
  <1>8. CASE ControlStreamClosed \/ UNCHANGED vars
    <2>1. /\ slots' = slots /\ reclaiming' = reclaiming /\ created' = created
          /\ guard' = guard /\ tree' = tree /\ op' = op
      BY <1>8 DEF ControlStreamClosed, vars, registryVars
    <2>. QED
      BY ZenonT(30), <2>1 DEF RegistryInv, RegistryTypes, Handling, Held, Kept, Emptied, Completed,
                         TreeMatchesRegistry
  <1>9. CASE SlotNext
    <2>1. ASSUME NEW h \in Handlers, HandlerSteps(h) PROVE RegistryInv'
      BY <1>3, <1>4, <1>5, <1>6, <1>7, <2>1 DEF HandlerSteps
    <2>. QED BY <1>1, <1>2, <1>7, <1>8, <1>9, <2>1 DEF SlotNext
  <1>. QED BY <1>8, <1>9

-----------------------------------------------------------------------------
(* Counting.                                                                *)

\* T has n members: they can be numbered from 1 to n.
HasSize(T, n) ==
  \E f \in [1 .. n -> T] : /\ \A i, j \in 1 .. n : f[i] = f[j] => i = j
                           /\ \A x \in T : \E i \in 1 .. n : f[i] = x

\* A set has no members exactly when its size is zero.
LEMMA SizeZero ==
  ASSUME NEW T
  PROVE  HasSize(T, 0) <=> T = {}
  <1>1. ASSUME HasSize(T, 0) PROVE T = {} BY <1>1 DEF HasSize
  <1>2. ASSUME T = {} PROVE HasSize(T, 0)
    <2>1. [i \in 1 .. 0 |-> i] \in [1 .. 0 -> T] BY <1>2
    <2>. QED BY Zenon, <1>2, <2>1 DEF HasSize
  <1>. QED BY <1>1, <1>2

\* One more member makes a set one larger.
LEMMA SizeMore ==
  ASSUME NEW T, NEW n \in Nat, HasSize(T, n), NEW x, x \notin T
  PROVE  HasSize(T \cup {x}, n + 1)
  <1>1. PICK f \in [1 .. n -> T] : /\ \A i, j \in 1 .. n : f[i] = f[j] => i = j
                                  /\ \A y \in T : \E i \in 1 .. n : f[i] = y
    BY DEF HasSize
  <1>. DEFINE g == [i \in 1 .. n + 1 |-> IF i = n + 1 THEN x ELSE f[i]]
  <1>2. \A i \in 1 .. n + 1 : i = n + 1 \/ (i \in 1 .. n /\ i # n + 1) OBVIOUS
  <1>3. g[n + 1] = x /\ \A i \in 1 .. n : g[i] = f[i] /\ f[i] \in T OBVIOUS
  <1>4. g \in [1 .. n + 1 -> T \cup {x}] OBVIOUS
  <1>. HIDE DEF g
  <1>5. \A i, j \in 1 .. n + 1 : g[i] = g[j] => i = j BY <1>1, <1>2, <1>3
  <1>6. \A y \in T \cup {x} : \E i \in 1 .. n + 1 : g[i] = y BY <1>1, <1>3
  <1>. QED BY Zenon, <1>4, <1>5, <1>6 DEF HasSize

\* One less makes it one smaller, and there was one to lose.
LEMMA SizeLess ==
  ASSUME NEW T, NEW n \in Nat, HasSize(T, n), NEW x \in T
  PROVE  n - 1 \in Nat /\ HasSize(T \ {x}, n - 1)
  <1>1. PICK f \in [1 .. n -> T] : /\ \A i, j \in 1 .. n : f[i] = f[j] => i = j
                                  /\ \A y \in T : \E i \in 1 .. n : f[i] = y
    BY DEF HasSize
  <1>2. PICK k \in 1 .. n : f[k] = x BY <1>1
  <1>3. n - 1 \in Nat /\ n \in 1 .. n OBVIOUS
  <1>. DEFINE g == [i \in 1 .. n - 1 |-> IF i = k THEN f[n] ELSE f[i]]
  <1>4. \A i \in 1 .. n - 1 : i \in 1 .. n /\ i # n BY <1>3
  <1>5. \A i \in 1 .. n - 1 : g[i] = (IF i = k THEN f[n] ELSE f[i]) OBVIOUS
  <1>6. \A i \in 1 .. n - 1 : g[i] \in T \ {x} BY <1>1, <1>2, <1>3, <1>4, <1>5
  <1>7. g \in [1 .. n - 1 -> T \ {x}] BY <1>6
  <1>. HIDE DEF g
  <1>8. \A i, j \in 1 .. n - 1 : g[i] = g[j] => i = j BY <1>1, <1>3, <1>4, <1>5
  <1>9. ASSUME NEW y \in T \ {x} PROVE \E i \in 1 .. n - 1 : g[i] = y
    <2>1. PICK i \in 1 .. n : f[i] = y BY <1>1
    <2>2. i # k BY <1>2, <2>1
    <2>3. CASE i = n
      <3>1. k \in 1 .. n - 1 BY <2>2, <2>3
      <3>. QED BY <1>5, <2>1, <2>3, <3>1
    <2>4. CASE i # n
      <3>1. i \in 1 .. n - 1 BY <2>4
      <3>. QED BY <1>5, <2>1, <2>2, <3>1
    <2>. QED BY <2>3, <2>4
  <1>. QED BY Zenon, <1>3, <1>7, <1>8, <1>9 DEF HasSize

-----------------------------------------------------------------------------
(* What a handler still owes, read from the state o it carries.             *)

\* It has taken s out of the registry and has not closed its runtime session.
Ending(o, s) == s \in o.todo \/ (o.s = s /\ o.removed /\ o.pc \in {"release", "close"})

\* It has taken s out for a Shutdown and has not answered.
Tears(o, s) == o.rpc = "shutdown" /\ o.removed /\ o.s = s

\* It has taken an entry out for a Shutdown and has not filed a report.
Reporting(o) == o.rpc = "shutdown" /\ o.removed /\ o.pc # "record"

\* It closes a runtime session or answers a Shutdown only after it took the entry out.
Through(o) ==
  /\ o.pc = "close" => o.rpc \in {"shutdown", "timeout"}
  /\ o.pc = "finish" /\ o.rpc = "shutdown" => o.removed
  /\ o.pc = "record" => o.rpc = "shutdown" /\ o.removed

\* Before it returns it confirms its start or looks at the pod's MCP surface.
Ends(o) == Claimer(o) \/ o.pc \in {"rollback", "finish"} \/ (o.removed /\ o.pc # "record")

\* It has taken the pod's MCP start and has not armed the server.
Arming(o) == o.pc = "arm" \/ (o.pc = "restore" /\ o.arm)

-----------------------------------------------------------------------------
(* The runtime's inductive invariant, on top of the registry's.             *)

RunTypes ==
  /\ runtimeLive \subseteq Sessions
  /\ opened \in [Sessions -> 0 .. MaxEntry]
  /\ ended \in BOOLEAN
  /\ ran \subseteq Entries
  /\ mcpSession \in Sessions \cup {NoSession}
  /\ surface \in 0 .. MaxEntry
  /\ hold \in BOOLEAN
  /\ inFlight \in [Sessions -> Nat]
  /\ unclean \subseteq Sessions
  /\ reports \in [Entries -> Nat]

\* Every handler has taken out what it closes and answers for.
Tidy == \A h \in Handlers : Through(op[h])

\* Entries are numbered as they are created, and each is of one session.
Numbers ==
  /\ \A s \in Sessions : slots[s].id <= created
  /\ \A h \in Handlers : op[h].e <= created
  /\ \A e \in ran : e <= created
  /\ surface <= created
  /\ \A e \in Entries : e > created => reports[e] = 0
  /\ \A s, t \in Sessions : slots[s].id = slots[t].id /\ slots[s].id # 0 => s = t
  /\ \A h \in Handlers, s \in Sessions :
       slots[s].id = op[h].e /\ op[h].e # 0 => s = op[h].s

\* A registered entry that runs was claimed and is open on the runtime; what the
\* runtime holds besides is being closed, and an ended runtime holds nothing that
\* the first pass of a hold timeout is not about to collect.
Runs ==
  /\ \A s \in Sessions : slots[s].id \in ran => slots[s].started /\ opened[s] = slots[s].id
  /\ \A s \in runtimeLive : slots[s].id \in ran \/ \E h \in Handlers : Ending(op[h], s)
  /\ \A s \in Sessions :
       ended /\ slots[s].id \in ran => \E h \in Handlers : op[h].pc = "pass1"

\* One handler claims an entry, and until it confirms the start the entry does not
\* run; one that is about to confirm it has it open.
Claims ==
  /\ \A h \in Handlers :
       Claimer(op[h]) => /\ op[h].e \notin ran
                         /\ slots[op[h].s].id = op[h].e => slots[op[h].s].started
  /\ \A h, k \in Handlers :
       Claimer(op[h]) /\ Claimer(op[k]) /\ op[h].e = op[k].e => h = k
  /\ \A h \in Handlers :
       op[h].pc = "confirm" /\ slots[op[h].s].id = op[h].e =>
         /\ opened[op[h].s] = op[h].e
         /\ ended => \E k \in Handlers : op[k].pc = "pass1"

\* One handler tears an entry down for a Shutdown, and only it reports it.
Files ==
  /\ \A e \in Entries : reports[e] <= 1 /\ (reports[e] = 1 => e \in ran)
  /\ \A s \in Sessions : slots[s].id # 0 => reports[slots[s].id] = 0
  /\ \A h \in Handlers :
       Reporting(op[h]) => /\ op[h].e # 0 /\ \A s \in Sessions : slots[s].id # op[h].e
                           /\ op[h].live => op[h].e \in ran /\ reports[op[h].e] = 0
  /\ \A h, k \in Handlers :
       Reporting(op[h]) /\ Reporting(op[k]) /\ op[h].e = op[k].e => h = k

\* While the pod has an MCP surface, it has an entry or a handler that will look at
\* it; the server and the claim of a registered entry are of the session that took
\* the start.
Served ==
  /\ surface # 0 \/ mcpSession # NoSession =>
       (\E s \in Sessions : slots[s].id # 0) \/ \E h \in Handlers : Ends(op[h])
  /\ \A s \in Sessions : slots[s].id # 0 /\ surface = slots[s].id => mcpSession = s
  /\ \A h \in Handlers :
       Arming(op[h]) /\ slots[op[h].s].id = op[h].e => mcpSession = op[h].s

\* shutdownInFlight counts the Shutdowns that have not answered.
Tearing(s) == {h \in Handlers : Tears(op[h], s)}
Counted ==
  \A s \in Sessions : HasSize(Tearing(s), inFlight[s])

RunInv == RunTypes /\ Tidy /\ Numbers /\ Runs /\ Claims /\ Files /\ Served /\ Counted

-----------------------------------------------------------------------------
(* Steps that leave the registry's entries alone.                           *)

\* The others stay where they are.
Others(h) == \A k \in Handlers \ {h} : op'[k] = op[k]

\* A handler that was at o and is at n claims, arms and reports nothing new, and a
\* hold timeout that is at its first pass stays there.
Mild(o, n) ==
  /\ n.e = 0 \/ (n.e = o.e /\ n.s = o.s)
  /\ Claimer(n) => Claimer(o) /\ n.e = o.e /\ n.s = o.s
  /\ Arming(n) => Arming(o) /\ n.e = o.e /\ n.s = o.s
  /\ Reporting(n) => Reporting(o) /\ n.e = o.e /\ n.live = o.live
  /\ o.pc = "pass1" => n.pc = "pass1"
  /\ Through(n)

\* It goes on closing what it was closing.
Closing(o, n) == \A s \in Sessions : Ending(o, s) => Ending(n, s)

\* It goes on and leaves the entries as they are.
Same(h) == Others(h) /\ slots' = slots /\ created' = created /\ Mild(op[h], op'[h])

\* The surface is as it was and the handler still looks at it, or it just did.
Looks(h) ==
  \/ mcpSession' = mcpSession /\ surface' = surface /\ (Ends(op[h]) => Ends(op'[h]))
  \/ CancelPodMCPIfRuntimeIdle /\ Closing(op[h], op'[h])

\* What the handlers have taken out.
LEMMA TidySame ==
  ASSUME Tidy, NEW h \in Handlers, Same(h)
  PROVE  Tidy'
  BY Zenon DEF Tidy, Same, Others, Mild

\* The numbers of the entries.
LEMMA NumbersSame ==
  ASSUME RegistryTypes, RunTypes, Numbers, NEW h \in Handlers, Same(h),
         \A e \in ran' : e \in ran \/ e = op[h].e,
         surface' \in {0, surface, op[h].e},
         \A e \in Entries : reports'[e] = reports[e] \/ e = op[h].e
  PROVE  Numbers'
  <1>. USE DEF Same
  <1>0. created \in Nat /\ op[h].e \in Nat /\ 0 <= created
    <2>1. op[h].e \in 0 .. MaxEntry /\ created \in 0 .. MaxEntry BY Zenon DEF RegistryTypes, Op
    <2>. QED BY ONLY <2>1, SlotConstants
  <1>1. op[h].e <= created BY Zenon DEF Numbers
  <1>2. \A k \in Handlers : op'[k].e <= created
    BY ZenonT(30), <1>0, <1>1 DEF Others, Mild, Numbers
  <1>3. \A e \in ran' : e <= created BY ZenonT(30), <1>1 DEF Numbers
  <1>4. surface' <= created BY ZenonT(30), <1>0, <1>1 DEF Numbers
  <1>5. \A e \in Entries : e > created => reports'[e] = 0
    <2>1. \A e \in Entries : e > created => reports[e] = 0 BY Zenon DEF Numbers
    <2>. QED BY ONLY <1>0, <1>1, <2>1, SlotConstants,
                     \A e \in Entries : reports'[e] = reports[e] \/ e = op[h].e
             DEF Entries
  <1>6. \A k \in Handlers, s \in Sessions :
          slots[s].id = op'[k].e /\ op'[k].e # 0 => s = op'[k].s
    <2>1. \A k \in Handlers, s \in Sessions : slots[s].id = op[k].e /\ op[k].e # 0 => s = op[k].s
      BY Zenon DEF Numbers
    <2>2. op'[h].e = 0 \/ (op'[h].e = op[h].e /\ op'[h].s = op[h].s) BY Zenon DEF Mild
    <2>3. \A k \in Handlers \ {h} : op'[k] = op[k] BY Zenon DEF Others
    <2>. QED BY ONLY ZenonT(30), <2>1, <2>2, <2>3
  <1>7. /\ \A s \in Sessions : slots'[s].id <= created'
        /\ \A s, t \in Sessions : slots'[s].id = slots'[t].id /\ slots'[s].id # 0 => s = t
    BY Zenon DEF Numbers
  <1>. QED BY Zenon, <1>2, <1>3, <1>4, <1>5, <1>6, <1>7 DEF Numbers

\* What runs: a session that is closed leaves the runtime's record, no running entry's
\* session_start is written or ended, and a transport that ends has its first pass ahead.
LEMMA RunsMove ==
  ASSUME Runs, NEW h \in Handlers, Same(h), RunTypes, ran' = ran,
         \A s \in runtimeLive' :
           s \in runtimeLive /\ (Ending(op[h], s) => Ending(op'[h], s)),
         \A s \in Sessions : slots[s].id \in ran => opened'[s] = opened[s],
         ended' = ended \/ op'[h].pc = "pass1"
  PROVE  Runs'
  <1>. USE DEF Same
  <1>1. \A s \in runtimeLive', k \in Handlers : Ending(op[k], s) => Ending(op'[k], s)
    BY Zenon DEF Others
  <1>2. \A k \in Handlers : op[k].pc = "pass1" => op'[k].pc = "pass1"
    BY Zenon DEF Others, Mild
  <1>3. \A s \in runtimeLive' : slots'[s].id \in ran' \/ \E k \in Handlers : Ending(op'[k], s)
    BY Zenon, <1>1 DEF Runs
  <1>4. \A s \in Sessions :
          ended' /\ slots'[s].id \in ran' => \E k \in Handlers : op'[k].pc = "pass1"
    BY Zenon, <1>2 DEF Runs
  <1>5. \A s \in Sessions :
          slots'[s].id \in ran' => slots'[s].started /\ opened'[s] = slots'[s].id
    BY Zenon DEF Runs
  <1>. QED BY Zenon, <1>3, <1>4, <1>5 DEF Runs

\* What runs, when the step does not touch the runtime.
LEMMA RunsSame ==
  ASSUME Runs, NEW h \in Handlers, Same(h), Closing(op[h], op'[h]), RunTypes,
         runtimeLive' = runtimeLive, opened' = opened, ended' = ended, ran' = ran
  PROVE  Runs'
  <1>1. \A s \in runtimeLive' :
          s \in runtimeLive /\ (Ending(op[h], s) => Ending(op'[h], s))
    BY Zenon DEF Closing, RunTypes
  <1>. QED BY Zenon, <1>1, RunsMove

\* Who claims what: a handler that comes to its confirmation has opened its session on a
\* transport that has not ended, and those that are there keep theirs open.
LEMMA ClaimsMove ==
  ASSUME Claims, NEW h \in Handlers, Same(h), Handling', ran' = ran,
         ended' = ended \/ op'[h].pc = "pass1",
         op'[h].pc = "confirm" =>
           op[h].pc = "confirm" \/ (opened'[op'[h].s] = op'[h].e /\ ~ended'),
         \A k \in Handlers :
           op[k].pc = "confirm" /\ op'[k].pc = "confirm" /\ slots[op[k].s].id = op[k].e
             => opened'[op[k].s] = opened[op[k].s]
  PROVE  Claims'
  <1>. USE DEF Same
  <1>1. \A k \in Handlers : Claimer(op'[k]) =>
          Claimer(op[k]) /\ op'[k].e = op[k].e /\ op'[k].s = op[k].s
    BY Zenon DEF Others, Mild
  <1>2. \A k \in Handlers : op'[k].pc = "confirm" =>
          /\ op'[k].e = op[k].e /\ op'[k].s = op[k].s
          /\ op[k].pc = "confirm" \/ (opened'[op'[k].s] = op'[k].e /\ ~ended')
    <2>1. \A k \in Handlers : op'[k].pc = "confirm" =>
            op[k].pc = "confirm" \/ (opened'[op'[k].s] = op'[k].e /\ ~ended')
      BY Zenon DEF Others
    <2>2. \A k \in Handlers : op'[k].pc = "confirm" => Claimer(op'[k])
      BY ZenonT(30) DEF Handling, Coherent, Places, Claimer, Opening
    <2>. QED BY Zenon, <1>1, <2>1, <2>2
  <1>3. \A k \in Handlers : op[k].pc = "pass1" => op'[k].pc = "pass1"
    BY Zenon DEF Others, Mild
  <1>4. \A k \in Handlers :
          Claimer(op'[k]) => /\ op'[k].e \notin ran'
                             /\ slots'[op'[k].s].id = op'[k].e => slots'[op'[k].s].started
    BY Zenon, <1>1 DEF Claims
  <1>5. \A j, k \in Handlers :
          Claimer(op'[j]) /\ Claimer(op'[k]) /\ op'[j].e = op'[k].e => j = k
    BY Zenon, <1>1 DEF Claims
  <1>6. ASSUME NEW k \in Handlers, op'[k].pc = "confirm", slots'[op'[k].s].id = op'[k].e
        PROVE  /\ opened'[op'[k].s] = op'[k].e
               /\ ended' => \E j \in Handlers : op'[j].pc = "pass1"
    <2>1. CASE op[k].pc = "confirm"
      <3>1. op'[k].e = op[k].e /\ op'[k].s = op[k].s /\ slots[op[k].s].id = op[k].e
        BY Zenon, <1>2, <1>6
      <3>2. /\ opened[op[k].s] = op[k].e
            /\ ended => \E j \in Handlers : op[j].pc = "pass1"
        BY Zenon, <2>1, <3>1 DEF Claims
      <3>3. opened'[op[k].s] = opened[op[k].s] BY Zenon, <1>6, <2>1, <3>1
      <3>4. ended' => \E j \in Handlers : op'[j].pc = "pass1"
        <4>1. CASE op'[h].pc = "pass1" BY Zenon, <4>1
        <4>2. CASE ended' = ended BY Zenon, <1>3, <3>2, <4>2
        <4>. QED BY Zenon, <4>1, <4>2
      <3>. QED BY Zenon, <3>1, <3>2, <3>3, <3>4
    <2>2. CASE op[k].pc # "confirm" BY Zenon, <1>2, <1>6, <2>2
    <2>. QED BY ZenonT(30), <2>1, <2>2
  <1>. QED BY Zenon, <1>4, <1>5, <1>6 DEF Claims

\* Who claims what, when the step does not touch the runtime.
LEMMA ClaimsSame ==
  ASSUME Claims, NEW h \in Handlers, Same(h), Handling',
         op'[h].pc = "confirm" => op[h].pc = "confirm",
         opened' = opened, ended' = ended, ran' = ran
  PROVE  Claims'
  BY Zenon, ClaimsMove

\* Who reports what.
LEMMA FilesSame ==
  ASSUME Files, NEW h \in Handlers, Same(h), ran \subseteq ran', reports' = reports
  PROVE  Files'
  <1>. USE DEF Same
  <1>0. slots' = slots OBVIOUS
  <1>1. \A k \in Handlers : Reporting(op'[k]) =>
          Reporting(op[k]) /\ op'[k].e = op[k].e /\ op'[k].live = op[k].live
    BY Zenon DEF Others, Mild
  <1>2. \A e \in Entries : reports'[e] <= 1 /\ (reports'[e] = 1 => e \in ran')
    BY Zenon DEF Files
  <1>3. \A s \in Sessions : slots'[s].id # 0 => reports'[slots'[s].id] = 0 BY Zenon DEF Files
  <1>4. \A k \in Handlers :
          Reporting(op'[k]) =>
            /\ op'[k].e # 0 /\ \A s \in Sessions : slots'[s].id # op'[k].e
            /\ op'[k].live => op'[k].e \in ran' /\ reports'[op'[k].e] = 0
    <2>1. \A k \in Handlers :
            Reporting(op[k]) =>
              /\ op[k].e # 0 /\ \A s \in Sessions : slots[s].id # op[k].e
              /\ op[k].live => op[k].e \in ran /\ reports[op[k].e] = 0
      BY Zenon DEF Files
    <2>. QED BY ONLY SMT, <1>0, <1>1, <2>1, reports' = reports, ran \subseteq ran'
  <1>5. \A j, k \in Handlers :
          Reporting(op'[j]) /\ Reporting(op'[k]) /\ op'[j].e = op'[k].e => j = k
    BY Zenon, <1>1 DEF Files
  <1>. QED BY Zenon, <1>2, <1>3, <1>4, <1>5 DEF Files

\* A handler that has something to close will look at the surface.
LEMMA EndingLooks ==
  ASSUME NEW o, Coherent(o), NEW s \in Sessions, Ending(o, s)
  PROVE  Ends(o)
  BY ZenonT(30) DEF Ending, Ends, Coherent, Places, Removals

\* What serves the pod.
LEMMA ServedSame ==
  ASSUME RegistryTypes, RunTypes, Runs, Served, Handling', NEW h \in Handlers, Same(h),
         \/ Looks(h)
         \/ mcpSession' = mcpSession /\ surface' = surface /\ \E s \in Sessions : slots[s].id # 0
  PROVE  Served'
  <1>. USE DEF Same
  <1>1. \A k \in Handlers : Arming(op'[k]) =>
          Arming(op[k]) /\ op'[k].e = op[k].e /\ op'[k].s = op[k].s
    BY Zenon DEF Others, Mild
  <1>2. \A k \in Handlers : Arming(op'[k]) => op'[k].s \in Sessions /\ op'[k].e # 0
    BY ZenonT(30) DEF Handling, Coherent, Places, Removals, Arming, Claimer, Opening
  <1>3. CASE /\ mcpSession' = mcpSession /\ surface' = surface
             /\ (Ends(op[h]) => Ends(op'[h])) \/ \E s \in Sessions : slots[s].id # 0
    <2>1. (\A k \in Handlers : Ends(op[k]) => Ends(op'[k])) \/ \E s \in Sessions : slots[s].id # 0
      BY Zenon, <1>3 DEF Others
    <2>2. surface' # 0 \/ mcpSession' # NoSession =>
            (\E s \in Sessions : slots'[s].id # 0) \/ \E k \in Handlers : Ends(op'[k])
      BY Zenon, <1>3, <2>1 DEF Served
    <2>3. \A s \in Sessions : slots'[s].id # 0 /\ surface' = slots'[s].id => mcpSession' = s
      BY Zenon, <1>3 DEF Served
    <2>4. \A k \in Handlers :
            Arming(op'[k]) /\ slots'[op'[k].s].id = op'[k].e => mcpSession' = op'[k].s
      BY Zenon, <1>1, <1>3 DEF Served
    <2>. QED BY Zenon, <2>2, <2>3, <2>4 DEF Served
  <1>4. CASE /\ CancelPodMCPIfRuntimeIdle /\ Closing(op[h], op'[h])
             /\ (runtimeLive # {} \/ ArmingHeld)
    <2>1. mcpSession' = mcpSession /\ surface' = surface
      BY <1>4 DEF CancelPodMCPIfRuntimeIdle, surfaceVars
    <2>2. (\E s \in Sessions : slots'[s].id # 0) \/ \E k \in Handlers : Ends(op'[k])
      <3>1. CASE ArmingHeld
        <4>1. mcpSession \in Sessions /\ Registered(mcpSession)
          BY Zenon, <3>1 DEF ArmingHeld, RunTypes
        <4>. QED BY Zenon, <4>1, EntryFacts
      <3>2. ASSUME NEW s \in runtimeLive
            PROVE  (\E x \in Sessions : slots'[x].id # 0) \/ \E k \in Handlers : Ends(op'[k])
        <4>1. s \in Sessions BY ZenonT(30) DEF RunTypes
        <4>2. CASE slots[s].id \in ran
          <5>1. slots[s].id # 0 BY <4>2 DEF RunTypes, Entries
          <5>. QED BY Zenon, <4>1, <5>1
        <4>3. CASE \E k \in Handlers : Ending(op[k], s)
          <5>1. PICK k \in Handlers : Ending(op'[k], s)
            BY Zenon, <1>4, <4>1, <4>3 DEF Closing, Others
          <5>2. Ends(op'[k]) BY Zenon, <4>1, <5>1, EndingLooks DEF Handling
          <5>. QED BY Zenon, <5>2
        <4>. QED BY Zenon, <4>2, <4>3 DEF Runs
      <3>. QED BY ZenonT(30), <1>4, <3>1, <3>2
    <2>3. \A s \in Sessions : slots'[s].id # 0 /\ surface' = slots'[s].id => mcpSession' = s
      BY Zenon, <2>1 DEF Served
    <2>4. \A k \in Handlers :
            Arming(op'[k]) /\ slots'[op'[k].s].id = op'[k].e => mcpSession' = op'[k].s
      BY Zenon, <1>1, <2>1 DEF Served
    <2>. QED BY Zenon, <2>2, <2>3, <2>4 DEF Served
  <1>5. CASE CancelPodMCPIfRuntimeIdle /\ ~(runtimeLive # {} \/ ArmingHeld)
    <2>1. mcpSession' = NoSession /\ surface' = 0
      BY <1>5 DEF CancelPodMCPIfRuntimeIdle
    <2>2. ASSUME NEW k \in Handlers, Arming(op'[k]), slots'[op'[k].s].id = op'[k].e
          PROVE  FALSE
      <3>1. op'[k].s \in Sessions /\ slots[op'[k].s].id # 0 BY Zenon, <1>2, <2>2
      <3>2. Registered(op'[k].s) BY Zenon, <3>1, EntryFacts
      <3>3. mcpSession = op'[k].s BY Zenon, <1>1, <2>2 DEF Served
      <3>4. mcpSession # NoSession BY ZenonT(30), <3>1, <3>3, SlotConstants
      <3>. QED BY Zenon, <1>5, <3>2, <3>3, <3>4 DEF ArmingHeld
    <2>3. \A s \in Sessions : slots'[s].id # 0 /\ surface' = slots'[s].id => mcpSession' = s
      BY Zenon, <2>1
    <2>. QED BY ZenonT(30), <2>1, <2>2, <2>3 DEF Served
  <1>. QED BY Zenon, <1>3, <1>4, <1>5 DEF Looks

\* How many Shutdowns have not answered.
LEMMA CountedSame ==
  ASSUME Counted, NEW h, Others(h), inFlight' = inFlight,
         h \in Handlers => \A s \in Sessions : Tears(op'[h], s) <=> Tears(op[h], s)
  PROVE  Counted'
  <1>1. \A s \in Sessions : Tearing(s)' = Tearing(s)
    <2>1. \A k \in Handlers, s \in Sessions : Tears(op'[k], s) <=> Tears(op[k], s)
      BY Zenon DEF Others
    <2>. HIDE DEF Tears
    <2>. QED BY <2>1 DEF Tearing
  <1>. QED BY Zenon, <1>1 DEF Counted

\* A step that touches neither the registry nor the runtime nor an answer.
QuietRun(h) ==
  /\ Same(h) /\ Closing(op[h], op'[h]) /\ Looks(h)
  /\ op'[h].pc = "confirm" => op[h].pc = "confirm"
  /\ \A s \in Sessions : Tears(op'[h], s) <=> Tears(op[h], s)
  /\ runtimeLive' = runtimeLive /\ opened' = opened /\ ended' = ended /\ ran' = ran
  /\ inFlight' = inFlight /\ unclean' = unclean /\ reports' = reports /\ hold' \in BOOLEAN

\* It keeps the invariant.
LEMMA QuietRunKeeps ==
  ASSUME RegistryInv, RegistryInv', RunInv, NEW h \in Handlers, QuietRun(h)
  PROVE  RunInv'
  <1>. USE DEF QuietRun
  <1>0. /\ RegistryTypes /\ Handling' /\ RunTypes /\ Tidy /\ Numbers /\ Runs /\ Claims /\ Files
        /\ Served /\ Counted
    BY Zenon DEF RegistryInv, RunInv
  <1>1. mcpSession' \in {NoSession, mcpSession} /\ surface' \in {0, surface}
    BY ZenonT(30) DEF Looks, CancelPodMCPIfRuntimeIdle, surfaceVars
  <1>2. RunTypes'
    <2>1. 0 \in 0 .. MaxEntry BY ONLY SlotConstants
    <2>. QED BY ZenonT(30), <1>0, <1>1, <2>1 DEF RunTypes
  <1>3. Numbers' BY ZenonT(30), <1>0, <1>1, NumbersSame
  <1>4. Runs' BY Zenon, <1>0, RunsSame
  <1>5. Claims' BY Zenon, <1>0, ClaimsSame
  <1>6. Files' BY ZenonT(30), <1>0, FilesSame
  <1>7. Served' BY Zenon, <1>0, ServedSame
  <1>8. Counted' BY Zenon, <1>0, CountedSame DEF Same
  <1>9. Tidy' BY Zenon, <1>0, TidySame
  <1>. QED BY Zenon, <1>2, <1>3, <1>4, <1>5, <1>6, <1>7, <1>8, <1>9 DEF RunInv

-----------------------------------------------------------------------------
(* How the actions move a handler, as far as the runtime is concerned.      *)

\* It carries what it carried.
Bears(o, n) ==
  /\ n.rpc = o.rpc /\ n.s = o.s /\ n.e = o.e /\ n.arm = o.arm
  /\ n.removed = o.removed /\ n.live = o.live /\ n.todo = o.todo

\* A handler that goes on carries what it carried.
LEMMA GotoBears ==
  ASSUME RegistryTypes, NEW h \in Handlers, NEW p \in PCs, Goto(h, p)
  PROVE  Others(h) /\ Bears(op[h], op'[h]) /\ op'[h].pc = p
  <1>1. op[h] \in Op BY DEF RegistryTypes
  <1>2. op'[h] = [op[h] EXCEPT !.pc = p] /\ Others(h) BY DEF Goto, RegistryTypes, Others
  <1>. QED BY <1>1, <1>2 DEF Op, Bears

\* So does one whose start failed.
LEMMA FailBears ==
  ASSUME RegistryTypes, NEW h \in Handlers, Fail(h)
  PROVE  Others(h) /\ Bears(op[h], op'[h]) /\ op'[h].pc \in {"release", "reclaim"}
  <1>1. op[h] \in Op BY DEF RegistryTypes
  <1>2. CASE op[h].rpc = "resume"
    <2>1. op'[h] = [op[h] EXCEPT !.pc = "reclaim", !.guarded = TRUE] /\ Others(h)
      BY ZenonT(30), <1>2 DEF Fail, RegistryTypes, Others
    <2>. QED BY <1>1, <2>1 DEF Op, Bears
  <1>3. CASE op[h].rpc # "resume"
    <2>1. Goto(h, "release") /\ "release" \in PCs BY <1>3 DEF Fail, PCs
    <2>. QED BY Zenon, <2>1, GotoBears
  <1>. QED BY ZenonT(30), <1>2, <1>3

\* One that returns is idle and the others stay.
LEMMA ReturnMoves ==
  ASSUME RegistryTypes, NEW h \in Handlers, Return(h)
  PROVE  Others(h) /\ op'[h] = Idle
  BY DEF Return, RegistryTypes, Others

\* It has claimed nothing and taken nothing out.
Dull(o) ==
  \/ o.pc \in {"idle", "guard", "resolve", "work", "decide", "fence", "end"}
  \/ o.rpc = "shutdown" /\ o.pc \in {"release", "reclaim"}

\* It owes the runtime nothing.
LEMMA DullFacts ==
  ASSUME NEW o, Coherent(o), Dull(o)
  PROVE  /\ ~Claimer(o) /\ ~Arming(o) /\ ~Reporting(o) /\ ~Ends(o) /\ ~o.removed
         /\ Through(o)
         /\ o.pc # "pass1" /\ o.pc # "confirm"
         /\ \A s \in Sessions : ~Ending(o, s) /\ ~Tears(o, s)
  <1>1. ~o.removed /\ o.todo = {} BY DEF Coherent, Removals, Dull
  <1>2. ~Claimer(o) BY DEF Dull, Claimer, Opening
  <1>3. ~Arming(o) /\ o.pc \notin {"pass1", "confirm", "rollback", "finish", "close", "record"}
    BY DEF Dull, Arming
  <1>. QED BY Zenon, <1>1, <1>2, <1>3 DEF Reporting, Ends, Ending, Tears, Through

\* A step from one such state to another changes nothing that it owes.
LEMMA DullMoves ==
  ASSUME NEW o, NEW n, Coherent(o), Coherent(n), Dull(o), Dull(n),
         n.e = 0 \/ (n.e = o.e /\ n.s = o.s)
  PROVE  /\ Mild(o, n) /\ Closing(o, n) /\ (Ends(o) => Ends(n)) /\ n.pc # "confirm"
         /\ \A s \in Sessions : Tears(n, s) <=> Tears(o, s)
  <1>1. /\ ~Ends(o) /\ o.pc # "pass1" /\ \A s \in Sessions : ~Ending(o, s) /\ ~Tears(o, s)
    BY Zenon, DullFacts
  <1>2. /\ ~Claimer(n) /\ ~Arming(n) /\ ~Reporting(n) /\ n.pc # "confirm" /\ Through(n)
        /\ \A s \in Sessions : ~Tears(n, s)
    BY Zenon, DullFacts
  <1>. QED BY Zenon, <1>1, <1>2 DEF Mild, Closing

\* It goes on with its claim or gives it up.
LEMMA ClaimerMoves ==
  ASSUME NEW o, NEW n, Coherent(o), Coherent(n), Claimer(o), Bears(o, n),
         n.pc \in {"arm", "run", "open", "check", "write", "confirm", "rollback", "release", "reclaim",
                   "finish"},
         n.pc = "arm" => Arming(o)
  PROVE  /\ Mild(o, n) /\ Ends(n) /\ Closing(o, n)
         /\ \A s \in Sessions : Tears(n, s) <=> Tears(o, s)
  <1>1. /\ o.rpc \in {"start", "resume"} /\ o.todo = {} /\ ~o.removed /\ o.pc # "pass1"
    BY ZenonT(30) DEF Coherent, Claimer, Removals, Opening
  <1>2. n.rpc = o.rpc /\ n.todo = {} /\ ~n.removed /\ n.e = o.e /\ n.s = o.s BY <1>1 DEF Bears
  <1>3. Ends(n) BY <1>1, <1>2 DEF Ends, Claimer, Opening
  <1>4. Arming(n) => Arming(o) BY DEF Arming
  <1>. QED BY ZenonT(30), <1>1, <1>2, <1>3, <1>4 DEF Mild, Closing, Reporting, Ending, Tears, Through

\* It goes on with a cleanup.
LEMMA CleanerMoves ==
  ASSUME NEW o, NEW n, Coherent(o), Coherent(n), o.removed, Bears(o, n),
         o.pc \in {"release", "close", "tree"}, n.pc \in {"close", "tree", "finish"},
         n.pc = "close" => o.pc = "release"
  PROVE  /\ Mild(o, n) /\ Ends(n) /\ n.pc # "confirm"
         /\ \A s \in Sessions : Tears(n, s) <=> Tears(o, s)
         /\ \A s \in Sessions : Ending(o, s) =>
              Ending(n, s) \/ (s = o.s /\ n.pc # "close" /\ o.pc # "tree")
  <1>1. Ends(n) BY DEF Ends, Bears
  <1>2. ~Claimer(n) /\ ~Arming(n) /\ n.pc # "confirm" BY DEF Claimer, Opening, Arming
  <1>3. Through(n) BY ZenonT(30) DEF Through, Bears, Coherent, Removals
  <1>. QED BY ZenonT(30), <1>1, <1>2, <1>3 DEF Mild, Bears, Reporting, Ending, Tears

\* What the invariants say of one handler, before and after a step.
LEMMA RunFacts ==
  ASSUME RegistryInv, RegistryInv', NEW h \in Handlers
  PROVE  RegistryTypes /\ Coherent(op[h]) /\ Coherent(op'[h]) /\ op[h] \in Op
  BY Zenon DEF RegistryInv, Handling, Coherent

\* Calls, their refusals, and the steps that leave a claim or a session alone.
LEMMA DullStep ==
  ASSUME RegistryInv, RegistryInv', RunInv, NEW h \in Handlers, Others(h), Dull(op[h]), Dull(op'[h]),
         op'[h].e = 0 \/ (op'[h].e = op[h].e /\ op'[h].s = op[h].s),
         slots' = slots, created' = created, UNCHANGED <<runtimeVars, surfaceVars, answerVars>>,
         hold' \in BOOLEAN
  PROVE  RunInv'
  <1>1. /\ Mild(op[h], op'[h]) /\ Closing(op[h], op'[h]) /\ (Ends(op[h]) => Ends(op'[h]))
        /\ op'[h].pc # "confirm"
        /\ \A s \in Sessions : Tears(op'[h], s) <=> Tears(op[h], s)
    BY Zenon, RunFacts, DullMoves
  <1>2. QuietRun(h)
    BY Zenon, <1>1 DEF QuietRun, Same, Looks, runtimeVars, surfaceVars, answerVars
  <1>. QED BY Zenon, <1>2, QuietRunKeeps

\* A call comes in.
LEMMA CallRun ==
  ASSUME RegistryInv, RegistryInv', RunInv, NEW h \in Handlers,
         \/ \E s \in Sessions, t \in Tokens \cup {NoTok} :
              Admit(h, "bind", s, t) \/ Admit(h, "resume", s, t) \/ Shutdown(h, s, t)
         \/ \E s \in Sessions : CoordinatorFence(h, s)
         \/ HoldTimeout(h)
  PROVE  RunInv'
  <1>. RegistryTypes BY Zenon, RunFacts
  <1>. hold \in BOOLEAN BY Zenon DEF RunInv, RunTypes
  <1>0. /\ op[h].pc = "idle" /\ slots' = slots /\ created' = created
        /\ UNCHANGED <<runtimeVars, surfaceVars, answerVars>> /\ hold' \in BOOLEAN
    BY Zenon DEF Admit, Shutdown, CoordinatorFence, HoldTimeout, At, registryVars
  <1>1. /\ Others(h) /\ op'[h].e = 0 /\ op'[h].pc \in {"guard", "decide", "fence", "end"}
    <2>1. ASSUME NEW rpc, NEW p, NEW s, NEW t, op' = [op EXCEPT ![h] = Call(rpc, p, s, t)]
          PROVE  Others(h) /\ op'[h].e = 0 /\ op'[h].pc = p
      BY <2>1 DEF Others, RegistryTypes, Call, Idle
    <2>2. CASE HoldTimeout(h) BY <2>2 DEF HoldTimeout, Others, RegistryTypes, Idle
    <2>. DEFINE Goal == /\ Others(h) /\ op'[h].e = 0
                        /\ op'[h].pc \in {"guard", "decide", "fence", "end"}
    <2>3. ASSUME NEW s, NEW t, Admit(h, "bind", s, t) PROVE Goal
      BY Zenon, <2>1, <2>3 DEF Admit
    <2>4. ASSUME NEW s, NEW t, Admit(h, "resume", s, t) PROVE Goal
      BY Zenon, <2>1, <2>4 DEF Admit
    <2>5. ASSUME NEW s, NEW t, Shutdown(h, s, t) PROVE Goal
      BY Zenon, <2>1, <2>5 DEF Shutdown
    <2>6. ASSUME NEW s, CoordinatorFence(h, s) PROVE Goal
      BY Zenon, <2>1, <2>6 DEF CoordinatorFence
    <2>. QED BY Zenon, <2>2, <2>3, <2>4, <2>5, <2>6
  <1>2. Dull(op[h]) /\ Dull(op'[h]) BY Zenon, <1>0, <1>1 DEF Dull
  <1>. QED BY Zenon, <1>0, <1>1, <1>2, DullStep

\* A handler that has claimed nothing goes on or returns.
LEMMA BindRun ==
  ASSUME RegistryInv, RegistryInv', RunInv, NEW h \in Handlers,
         \/ TakeGuard(h) \/ GuardTimeout(h) \/ BindWork(h) \/ ShutdownDecide(h)
         \/ FenceExitsHold(h)
         \/ /\ ResolveBind(h) \/ ResumeClaim(h) \/ ShutdownReclaim(h)
            /\ Return(h) /\ slots' = slots /\ created' = created /\ inFlight' = inFlight
            /\ UNCHANGED surfaceVars
  PROVE  RunInv'
  <1>. RegistryTypes /\ Coherent(op[h]) BY Zenon, RunFacts
  <1>. hold \in BOOLEAN BY Zenon DEF RunInv, RunTypes
  <1>0. /\ slots' = slots /\ created' = created
        /\ UNCHANGED <<runtimeVars, surfaceVars, answerVars>> /\ hold' \in BOOLEAN
    BY Zenon DEF TakeGuard, GuardTimeout, BindWork, ShutdownDecide, FenceExitsHold, ResolveBind,
                 ResumeClaim, ShutdownReclaim, registryVars, answerVars
  <1>1. Dull(op[h])
    BY Zenon DEF TakeGuard, GuardTimeout, BindWork, ShutdownDecide, FenceExitsHold, ResolveBind,
                 ResumeClaim, ShutdownReclaim, At, Dull
  <1>2. Return(h) \/ Goto(h, "resolve") \/ (Goto(h, "release") /\ op[h].pc = "decide")
    BY Zenon DEF TakeGuard, GuardTimeout, BindWork, ShutdownDecide, FenceExitsHold, At
  <1>3. CASE Return(h)
    <2>1. Others(h) /\ op'[h].e = 0 /\ op'[h].pc = "idle" BY Zenon, <1>3, ReturnMoves, IdleFacts
    <2>2. Dull(op'[h]) BY Zenon, <2>1 DEF Dull
    <2>. QED BY Zenon, <1>0, <1>1, <2>1, <2>2, DullStep
  <1>4. CASE Goto(h, "resolve")
    <2>1. Others(h) /\ Bears(op[h], op'[h]) /\ op'[h].pc = "resolve"
      BY Zenon, <1>4, GotoBears DEF PCs
    <2>2. Dull(op'[h]) BY Zenon, <2>1 DEF Dull
    <2>. QED BY Zenon, <1>0, <1>1, <2>1, <2>2, DullStep DEF Bears
  <1>5. CASE Goto(h, "release") /\ op[h].pc = "decide"
    <2>1. Others(h) /\ Bears(op[h], op'[h]) /\ op'[h].pc = "release"
      BY Zenon, <1>5, GotoBears DEF PCs
    <2>2. op[h].rpc = "shutdown" BY Zenon, <1>5 DEF Coherent, Places
    <2>3. Dull(op'[h]) BY Zenon, <2>1, <2>2 DEF Dull, Bears
    <2>. QED BY Zenon, <1>0, <1>1, <2>1, <2>3, DullStep DEF Bears
  <1>. QED BY Zenon, <1>2, <1>3, <1>4, <1>5

\* A claimer that touches neither the surface nor the runtime.
LEMMA ClaimerStep ==
  ASSUME RegistryInv, RegistryInv', RunInv, NEW h \in Handlers, Others(h), Claimer(op[h]),
         Bears(op[h], op'[h]),
         op'[h].pc \in {"arm", "run", "open", "check", "write", "rollback", "release", "reclaim",
                        "finish"},
         op'[h].pc = "arm" => Arming(op[h]),
         slots' = slots, created' = created, UNCHANGED <<runtimeVars, surfaceVars, answerVars, hold>>
  PROVE  RunInv'
  <1>1. /\ Mild(op[h], op'[h]) /\ Closing(op[h], op'[h]) /\ (Ends(op[h]) => Ends(op'[h]))
        /\ op'[h].pc # "confirm"
        /\ \A s \in Sessions : Tears(op'[h], s) <=> Tears(op[h], s)
    BY ZenonT(30), RunFacts, ClaimerMoves
  <1>2. QuietRun(h)
    BY Zenon, <1>1 DEF QuietRun, Same, Looks, runtimeVars, surfaceVars, answerVars, RunInv, RunTypes
  <1>. QED BY Zenon, <1>2, QuietRunKeeps

\* The steps of a start or a resume up to the write of its session_start, its
\* failures, and its release when the entry is gone.
LEMMA OpeningRun ==
  ASSUME RegistryInv, RegistryInv', RunInv, NEW h \in Handlers,
         \/ Restore(h) \/ RuntimeStart(h) \/ OpenGuard(h) \/ OpenCheck(h)
         \/ (ArmMCP(h) \/ WriteSessionStart(h)) /\ Fail(h) /\ UNCHANGED <<surface, opened>>
         \/ ReleaseClaim(h) /\ Goto(h, "finish") /\ UNCHANGED registryVars
  PROVE  RunInv'
  <1>. RegistryTypes /\ Coherent(op[h]) BY Zenon, RunFacts
  <1>0. /\ slots' = slots /\ created' = created
        /\ UNCHANGED <<runtimeVars, surfaceVars, answerVars, hold>>
    BY Zenon DEF Restore, RuntimeStart, OpenGuard, OpenCheck, ArmMCP, WriteSessionStart,
                 ReleaseClaim, registryVars, runtimeVars, surfaceVars
  <1>1. Claimer(op[h])
    <2>1. op[h].pc \in Opening \/ (op[h].pc = "reclaim" /\ op[h].rpc \in {"start", "resume"})
      BY Zenon DEF Restore, RuntimeStart, OpenGuard, OpenCheck, ArmMCP, WriteSessionStart,
                   ReleaseClaim, At, Opening
    <2>. QED BY Zenon, <2>1 DEF Coherent, Places, Claimer
  <1>2. \/ Fail(h)
        \/ \E p \in {"run", "open", "check", "write", "rollback", "finish"} : Goto(h, p)
        \/ Goto(h, "arm") /\ op[h].pc = "restore" /\ op[h].arm
    BY ZenonT(30) DEF Restore, RuntimeStart, OpenGuard, OpenCheck, At, Refuse
  <1>3. CASE Fail(h)
    <2>1. Others(h) /\ Bears(op[h], op'[h]) /\ op'[h].pc \in {"release", "reclaim"}
      BY Zenon, <1>3, FailBears
    <2>. QED BY ZenonT(30), <1>0, <1>1, <2>1, ClaimerStep
  <1>4. ASSUME NEW p \in {"run", "open", "check", "write", "rollback", "finish"}, Goto(h, p)
        PROVE  RunInv'
    <2>1. p \in PCs BY <1>4 DEF PCs
    <2>2. Others(h) /\ Bears(op[h], op'[h]) /\ op'[h].pc = p BY Zenon, <1>4, <2>1, GotoBears
    <2>. QED BY ZenonT(30), <1>0, <1>1, <2>2, ClaimerStep
  <1>5. CASE Goto(h, "arm") /\ op[h].pc = "restore" /\ op[h].arm
    <2>1. Others(h) /\ Bears(op[h], op'[h]) /\ op'[h].pc = "arm"
      BY Zenon, <1>5, GotoBears DEF PCs
    <2>2. Arming(op[h]) BY Zenon, <1>5 DEF Arming
    <2>. QED BY ZenonT(30), <1>0, <1>1, <2>1, <2>2, ClaimerStep
  <1>. QED BY Zenon, <1>2, <1>3, <1>4, <1>5

\* The guard of a release, and the removal of a tree.
LEMMA CleanupRun ==
  ASSUME RegistryInv, RegistryInv', RunInv, NEW h \in Handlers, ReleaseGuard(h) \/ RemoveTree(h)
  PROVE  RunInv'
  <1>. RegistryTypes /\ Coherent(op[h]) /\ Coherent(op'[h]) /\ op[h] \in Op BY Zenon, RunFacts
  <1>0. /\ slots' = slots /\ created' = created
        /\ UNCHANGED <<runtimeVars, surfaceVars, answerVars, hold>>
    BY Zenon DEF ReleaseGuard, RemoveTree, registryVars
  <1>h. hold' \in BOOLEAN BY Zenon, <1>0 DEF RunInv, RunTypes
  <1>1. CASE ReleaseGuard(h)
    <2>. DEFINE p == IF op[h].rpc = "timeout" THEN "close" ELSE "reclaim"
                g == guard[op[h].s] = NoHandler
    <2>1. /\ op[h].pc = "release" /\ Others(h)
          /\ op'[h] = [op[h] EXCEPT !.guarded = g, !.pc = p]
      BY <1>1 DEF ReleaseGuard, At, Others, RegistryTypes
    <2>2. /\ op[h].rpc = "timeout" => p = "close"
          /\ op[h].rpc # "timeout" => p = "reclaim"
      OBVIOUS
    <2>. HIDE DEF p, g
    <2>3. Bears(op[h], op'[h]) /\ op'[h].pc = p BY <2>1 DEF Op, Bears
    <2>4. CASE op[h].rpc = "timeout"
      <3>1. op[h].removed /\ op'[h].pc = "close"
        BY Zenon, <2>1, <2>2, <2>3, <2>4 DEF Coherent, Removals
      <3>2. /\ Mild(op[h], op'[h]) /\ Closing(op[h], op'[h]) /\ Ends(op'[h]) /\ op'[h].pc # "confirm"
            /\ \A s \in Sessions : Tears(op'[h], s) <=> Tears(op[h], s)
        BY ZenonT(30), <2>1, <2>3, <3>1, CleanerMoves DEF Closing
      <3>3. QuietRun(h)
        BY Zenon, <1>0, <1>h, <2>1, <3>2
           DEF QuietRun, Same, Looks, runtimeVars, surfaceVars, answerVars
      <3>. QED BY Zenon, <3>3, QuietRunKeeps
    <2>5. CASE op[h].rpc = "shutdown"
      <3>1. Dull(op[h]) /\ Dull(op'[h]) BY <2>1, <2>2, <2>3, <2>5 DEF Dull, Bears
      <3>. QED BY Zenon, <1>0, <1>h, <2>1, <2>3, <3>1, DullStep DEF Bears
    <2>6. CASE op[h].rpc = "start"
      <3>1. Claimer(op[h]) BY Zenon, <2>1, <2>6 DEF Claimer
      <3>2. op'[h].pc = "reclaim" BY ZenonT(30), <2>2, <2>3, <2>6
      <3>. QED BY ZenonT(30), <1>0, <2>1, <2>3, <3>1, <3>2, ClaimerStep
    <2>. QED BY Zenon, <2>1, <2>4, <2>5, <2>6 DEF Coherent, Places
  <1>2. CASE RemoveTree(h)
    <2>1. /\ op[h].pc = "tree" /\ Others(h)
          /\ \/ op'[h] = [op[h] EXCEPT !.pc = "finish"]
             \/ op'[h] = [op[h] EXCEPT !.pc = "finish", !.failed = TRUE]
      BY <1>2 DEF RemoveTree, Goto, At, Others, RegistryTypes
    <2>2. Bears(op[h], op'[h]) /\ op'[h].pc = "finish" BY ZenonT(30), <2>1 DEF Op, Bears
    <2>3. op[h].removed BY Zenon, <2>1 DEF Coherent, Removals
    <2>4. /\ Mild(op[h], op'[h]) /\ Closing(op[h], op'[h]) /\ Ends(op'[h]) /\ op'[h].pc # "confirm"
          /\ \A s \in Sessions : Tears(op'[h], s) <=> Tears(op[h], s)
      BY <2>1, <2>2, <2>3, CleanerMoves DEF Closing
    <2>5. QuietRun(h)
      BY Zenon, <1>0, <1>h, <2>1, <2>4
         DEF QuietRun, Same, Looks, runtimeVars, surfaceVars, answerVars
    <2>. QED BY Zenon, <2>5, QuietRunKeeps
  <1>. QED BY <1>1, <1>2

-----------------------------------------------------------------------------
(* The steps that look at the pod's surface.                                *)

\* A handler that returns, or goes on with the next member of its set.
LEMMA LeaveMoves ==
  ASSUME NEW o, NEW n, Coherent(n), ~Claimer(n), n.e = 0, n.pc \in {"idle", "release"},
         o.pc # "pass1"
  PROVE  Mild(o, n) /\ n.pc # "confirm" /\ \A s \in Sessions : ~Tears(n, s)
  <1>1. ~Arming(n) /\ Through(n) BY DEF Arming, Through
  <1>2. n.removed => n.rpc = "timeout" BY ZenonT(30) DEF Coherent, Removals
  <1>. QED BY <1>1, <1>2 DEF Mild, Reporting, Tears

\* A rollback, and the end of a release or of a member of a hold timeout's set.
LEMMA LookRun ==
  ASSUME HaveFirst, RegistryInv, RegistryInv', RunInv, NEW h \in Handlers,
         RollbackStart(h) \/ FinishRelease(h) \/ FinishMember(h)
  PROVE  RunInv'
  <1>. RegistryTypes /\ Coherent(op[h]) /\ Coherent(op'[h]) /\ op[h] \in Op BY Zenon, RunFacts
  <1>0. /\ slots' = slots /\ created' = created /\ CancelPodMCPIfRuntimeIdle
        /\ UNCHANGED <<runtimeVars, answerVars, hold>>
    BY Zenon DEF RollbackStart, FinishRelease, FinishMember, registryVars, EndHold
  <1>1. op[h].pc \in {"rollback", "finish"} /\ op[h].rpc # "shutdown"
    BY Zenon DEF RollbackStart, FinishRelease, FinishMember, At, Coherent, Places
  <1>2. Others(h) /\ ~Claimer(op'[h]) /\ op'[h].e = 0 /\ op'[h].pc \in {"idle", "release"}
        /\ \A s \in op[h].todo : Ending(op'[h], s)
    <2>1. CASE RollbackStart(h) \/ FinishRelease(h)
      <3>1. op[h].todo = {}
        BY ZenonT(30), <2>1 DEF RollbackStart, FinishRelease, At, Coherent, Removals
      <3>2. Return(h) BY Zenon, <2>1 DEF RollbackStart, FinishRelease
      <3>. QED BY Zenon, <3>1, <3>2, ReturnMoves, IdleFacts
    <2>2. CASE FinishMember(h)
      <3>. DEFINE T == op[h].todo
                  n == NextMember(h, T)
      <3>1. T \in SUBSET Sessions BY Zenon DEF Op
      <3>2. op'[h] = n /\ Others(h) BY <2>2 DEF FinishMember, Others, RegistryTypes
      <3>. HIDE DEF n
      <3>3. /\ ~Claimer(n) /\ n.e = 0 /\ n.pc \in {"idle", "release"} /\ Coherent(n)
            /\ \A s \in Sessions : Removing(n, s) <=> s \in T
        BY ZenonT(60), <3>1, NextFacts DEF n
      <3>4. n.removed => n.pc = "release" BY ZenonT(30), <3>3 DEF Coherent, Removals
      <3>5. \A s \in T : Ending(n, s) BY Zenon, <3>1, <3>3, <3>4 DEF Removing, Ending
      <3>. QED BY Zenon, <3>2, <3>3, <3>5
    <2>. QED BY Zenon, <2>1, <2>2
  <1>3. Mild(op[h], op'[h]) /\ op'[h].pc # "confirm" /\ \A s \in Sessions : ~Tears(op'[h], s)
    BY Zenon, <1>1, <1>2, LeaveMoves
  <1>4. Closing(op[h], op'[h]) /\ \A s \in Sessions : ~Tears(op[h], s)
    BY Zenon, <1>1, <1>2 DEF Closing, Ending, Tears
  <1>5. QuietRun(h)
    BY Zenon, <1>0, <1>2, <1>3, <1>4
       DEF QuietRun, Same, Looks, runtimeVars, answerVars, RunInv, RunTypes
  <1>. QED BY Zenon, <1>5, QuietRunKeeps

\* The end of a Shutdown's teardown, with its report.
LEMMA FinishShutdownRun ==
  ASSUME RegistryInv, RegistryInv', RunInv, NEW h \in Handlers, FinishShutdown(h)
  PROVE  RunInv'
  <1>. RegistryTypes /\ Coherent(op[h]) /\ Coherent(op'[h]) /\ op[h] \in Op BY Zenon, RunFacts
  <1>i. /\ Handling' /\ RunTypes /\ Tidy /\ Numbers /\ Runs /\ Claims /\ Files /\ Served /\ Counted
    BY Zenon DEF RegistryInv, RunInv
  <1>0. /\ slots' = slots /\ created' = created /\ CancelPodMCPIfRuntimeIdle
        /\ runtimeLive' = runtimeLive /\ opened' = opened /\ ended' = ended /\ ran' = ran
        /\ hold' = hold /\ inFlight' = inFlight /\ unclean' = unclean
        /\ op[h].pc = "finish" /\ op[h].rpc = "shutdown"
        /\ reports' = IF op[h].live THEN [reports EXCEPT ![op[h].e] = @ + 1] ELSE reports
    BY ZenonT(30) DEF FinishShutdown, EndHold, At, runtimeVars
  <1>1. Others(h) /\ Bears(op[h], op'[h]) /\ op'[h].pc = "record"
    BY Zenon, GotoBears DEF FinishShutdown, PCs
  <1>2. op[h].removed /\ op[h].todo = {}
    BY Zenon, <1>0, <1>i DEF Tidy, Through, Coherent, Removals
  <1>3. /\ Reporting(op[h]) /\ ~Reporting(op'[h]) /\ Mild(op[h], op'[h])
        /\ Closing(op[h], op'[h]) /\ \A s \in Sessions : Tears(op'[h], s) <=> Tears(op[h], s)
    BY ZenonT(30), <1>0, <1>1, <1>2
       DEF Bears, Reporting, Mild, Claimer, Opening, Arming, Through, Closing, Ending, Tears
  <1>4. Same(h) BY Zenon, <1>0, <1>1, <1>3 DEF Same
  <1>5. /\ op[h].e # 0 /\ \A s \in Sessions : slots[s].id # op[h].e
        /\ op[h].live => op[h].e \in ran /\ reports[op[h].e] = 0
    BY Zenon, <1>3, <1>i DEF Files
  <1>6. op[h].e \in Entries
    <2>1. op[h].e \in 0 .. MaxEntry BY Zenon DEF Op
    <2>2. op[h].e # 0 BY Zenon, <1>5
    <2>. QED BY ONLY <2>1, <2>2, SlotConstants DEF Entries
  <1>7. /\ reports' \in [Entries -> Nat]
        /\ \A e \in Entries : e # op[h].e => reports'[e] = reports[e]
        /\ op[h].live => reports'[op[h].e] = 1
        /\ ~op[h].live => reports' = reports
    <2>1. reports \in [Entries -> Nat] BY Zenon, <1>i DEF RunTypes
    <2>2. CASE op[h].live
      <3>1. reports' = [reports EXCEPT ![op[h].e] = reports[op[h].e] + 1] /\ reports[op[h].e] = 0
        BY Zenon, <1>0, <1>5, <2>2
      <3>. QED BY ONLY <1>6, <2>1, <2>2, <3>1
    <2>3. CASE ~op[h].live
      <3>1. reports' = reports BY Zenon, <1>0, <2>3
      <3>. QED BY ONLY Zenon, <2>1, <2>3, <3>1
    <2>. QED BY ONLY Zenon, <2>2, <2>3
  <1>8. mcpSession' \in {NoSession, mcpSession} /\ surface' \in {0, surface}
    BY ZenonT(30), <1>0 DEF CancelPodMCPIfRuntimeIdle, surfaceVars
  <1>9. RunTypes'
    <2>1. RunTypes /\ reports' \in [Entries -> Nat] BY Zenon, <1>i, <1>7
    <2>. QED BY ONLY <1>0, <1>8, <2>1, SlotConstants DEF RunTypes
  <1>10. Tidy' BY Zenon, <1>i, <1>4, TidySame
  <1>11. Numbers'
    <2>1. /\ \A e \in ran' : e \in ran \/ e = op[h].e
          /\ surface' \in {0, surface, op[h].e}
          /\ \A e \in Entries : reports'[e] = reports[e] \/ e = op[h].e
      BY ZenonT(30), <1>0, <1>7, <1>8
    <2>. QED BY Zenon, <1>i, <1>4, <2>1, NumbersSame
  <1>12. Runs' BY Zenon, <1>i, <1>0, <1>3, <1>4, RunsSame
  <1>13. Claims' BY ZenonT(30), <1>i, <1>0, <1>1, <1>4, ClaimsSame
  <1>14. Files'
    <2>1. \A e \in Entries : reports'[e] <= 1 /\ (reports'[e] = 1 => e \in ran')
      <3>1. \A e \in Entries : reports[e] <= 1 /\ (reports[e] = 1 => e \in ran)
        BY Zenon, <1>i DEF Files
      <3>2. ran' = ran /\ op[h].live \in BOOLEAN BY Zenon, <1>0 DEF Op
      <3>. QED BY ONLY <1>5, <1>7, <3>1, <3>2
    <2>2. \A s \in Sessions : slots'[s].id # 0 => reports'[slots'[s].id] = 0
      <3>1. \A s \in Sessions : slots[s].id # 0 => slots[s].id \in Entries
        BY EntryFacts, SlotConstants DEF Entries
      <3>. QED BY ZenonT(30), <1>0, <1>5, <1>7, <1>i, <3>1 DEF Files
    <2>3. \A k \in Handlers : Reporting(op'[k]) => k # h /\ op'[k] = op[k] /\ Reporting(op[k])
      BY Zenon, <1>1, <1>3 DEF Others
    <2>4. ASSUME NEW k \in Handlers, Reporting(op'[k])
          PROVE  /\ op'[k].e # 0 /\ \A s \in Sessions : slots'[s].id # op'[k].e
                 /\ op'[k].live => op'[k].e \in ran' /\ reports'[op'[k].e] = 0
      <3>1. k # h /\ op'[k] = op[k] /\ Reporting(op[k]) BY Zenon, <2>3, <2>4
      <3>2. op[k].e # op[h].e BY Zenon, <1>3, <1>i, <3>1 DEF Files
      <3>3. /\ op[k].e # 0 /\ \A s \in Sessions : slots[s].id # op[k].e
            /\ op[k].live => op[k].e \in ran /\ reports[op[k].e] = 0
        BY Zenon, <3>1, <1>i DEF Files
      <3>4. op[k].e \in ran => reports'[op[k].e] = reports[op[k].e]
        BY ZenonT(30), <1>7, <1>i, <3>2 DEF RunTypes
      <3>. QED BY Zenon, <1>0, <3>1, <3>3, <3>4
    <2>5. \A j, k \in Handlers :
            Reporting(op'[j]) /\ Reporting(op'[k]) /\ op'[j].e = op'[k].e => j = k
      BY Zenon, <1>i, <2>3 DEF Files
    <2>. QED BY Zenon, <2>1, <2>2, <2>4, <2>5 DEF Files
  <1>15. Served' BY Zenon, <1>i, <1>0, <1>3, <1>4, ServedSame DEF Looks
  <1>16. Counted' BY Zenon, <1>i, <1>0, <1>1, <1>3, CountedSame
  <1>. QED BY Zenon, <1>9, <1>10, <1>11, <1>12, <1>13, <1>14, <1>15, <1>16 DEF RunInv

\* The answer of a Shutdown.
LEMMA AnswerRun ==
  ASSUME RegistryInv, RegistryInv', RunInv, NEW h \in Handlers, AnswerShutdown(h)
  PROVE  RunInv'
  <1>. RegistryTypes /\ Coherent(op[h]) /\ Coherent(op'[h]) /\ op[h] \in Op BY Zenon, RunFacts
  <1>i. /\ Handling' /\ RunTypes /\ Tidy /\ Numbers /\ Runs /\ Claims /\ Files /\ Served /\ Counted
    BY Zenon DEF RegistryInv, RunInv
  <1>0. /\ slots' = slots /\ created' = created /\ mcpSession' = mcpSession /\ surface' = surface
        /\ runtimeLive' = runtimeLive /\ opened' = opened /\ ended' = ended /\ ran' = ran
        /\ hold' = hold /\ reports' = reports /\ op[h].pc = "record"
        /\ inFlight' = [inFlight EXCEPT ![op[h].s] = @ - 1]
        /\ unclean' \in {unclean \ {op[h].s}, unclean \cup {op[h].s}}
    BY ZenonT(30) DEF AnswerShutdown, At, runtimeVars, surfaceVars, registryVars
  <1>1. Others(h) /\ op'[h] = Idle BY Zenon, ReturnMoves DEF AnswerShutdown
  <1>2. /\ ~Claimer(op'[h]) /\ op'[h].e = 0 /\ op'[h].pc = "idle"
    BY Zenon, <1>1, IdleFacts
  <1>3. /\ op[h].rpc = "shutdown" /\ op[h].removed /\ op[h].todo = {} /\ op[h].s \in Sessions
        /\ ~Ends(op[h])
    BY Zenon, <1>0, <1>i DEF Tidy, Through, Coherent, Removals, Places, Ends, Claimer, Opening
  <1>4. Mild(op[h], op'[h]) /\ \A s \in Sessions : ~Tears(op'[h], s)
    BY ZenonT(30), <1>0, <1>2, LeaveMoves
  <1>5. Same(h) /\ Closing(op[h], op'[h])
    BY Zenon, <1>0, <1>1, <1>3, <1>4 DEF Same, Closing, Ending
  <1>6. /\ \A s \in Sessions : Tearing(s)' = Tearing(s) \ {h}
        /\ h \in Tearing(op[h].s) /\ \A s \in Sessions \ {op[h].s} : h \notin Tearing(s)
    <2>1. \A s \in Sessions, k \in Handlers : Tears(op'[k], s) <=> Tears(op[k], s) /\ k # h
      BY Zenon, <1>1, <1>4 DEF Others
    <2>2. Tears(op[h], op[h].s) /\ \A s \in Sessions \ {op[h].s} : ~Tears(op[h], s)
      BY ZenonT(30), <1>3 DEF Tears
    <2>. HIDE DEF Tears
    <2>. QED BY ZenonT(30), <2>1, <2>2 DEF Tearing
  <1>7. ASSUME NEW s \in Sessions
        PROVE  HasSize(Tearing(s)', inFlight'[s]) /\ inFlight'[s] \in Nat
    <2>1. HasSize(Tearing(s), inFlight[s]) /\ inFlight[s] \in Nat
      BY Zenon, <1>i DEF Counted, RunTypes
    <2>2. CASE s = op[h].s
      <3>1. h \in Tearing(s) /\ Tearing(s)' = Tearing(s) \ {h} BY Zenon, <1>6, <2>2
      <3>2. inFlight[s] - 1 \in Nat /\ HasSize(Tearing(s) \ {h}, inFlight[s] - 1)
        BY ONLY Zenon, <2>1, <3>1, SizeLess
      <3>3. inFlight'[s] = inFlight[s] - 1 BY ZenonT(30), <1>0, <2>2, <1>i DEF RunTypes
      <3>. QED BY ONLY Zenon, <3>1, <3>2, <3>3
    <2>3. CASE s # op[h].s
      <3>1. Tearing(s)' = Tearing(s)
        <4>1. h \notin Tearing(s) /\ Tearing(s)' = Tearing(s) \ {h} BY Zenon, <1>6, <2>3
        <4>. QED BY ONLY <4>1
      <3>2. inFlight'[s] = inFlight[s] /\ inFlight[s] \in Nat BY ZenonT(30), <1>0, <2>3, <1>i DEF RunTypes
      <3>. QED BY Zenon, <2>1, <3>1, <3>2
    <2>. QED BY ZenonT(30), <2>2, <2>3
  <1>8. Counted' BY Zenon, <1>7 DEF Counted
  <1>9. RunTypes'
    <2>1. inFlight' \in [Sessions -> Nat]
      <3>1. DOMAIN inFlight' = Sessions /\ inFlight' = [s \in Sessions |-> inFlight'[s]]
        BY ZenonT(30), <1>0, <1>i DEF RunTypes
      <3>. QED BY <1>7, <3>1
    <2>. QED BY ZenonT(30), <1>0, <1>3, <1>i, <2>1 DEF RunTypes
  <1>10. Tidy' BY Zenon, <1>i, <1>5, TidySame
  <1>11. Numbers' BY ZenonT(30), <1>i, <1>0, <1>5, NumbersSame
  <1>12. Runs' BY Zenon, <1>i, <1>0, <1>5, RunsSame
  <1>13. Claims' BY ZenonT(30), <1>i, <1>0, <1>2, <1>5, ClaimsSame
  <1>14. Files' BY ZenonT(30), <1>i, <1>0, <1>5, FilesSame
  <1>15. Served' BY Zenon, <1>i, <1>0, <1>3, <1>5, ServedSame DEF Looks
  <1>. QED BY Zenon, <1>8, <1>9, <1>10, <1>11, <1>12, <1>13, <1>14, <1>15 DEF RunInv

-----------------------------------------------------------------------------
(* The steps that open, confirm and close a session on the runtime.         *)

\* A start is confirmed.
LEMMA ConfirmRun ==
  ASSUME RegistryInv, RegistryInv', RunInv, NEW h \in Handlers, ConfirmStart(h)
  PROVE  RunInv'
  <1>. RegistryTypes /\ Coherent(op[h]) /\ Coherent(op'[h]) /\ op[h] \in Op BY Zenon, RunFacts
  <1>i. /\ Handling' /\ RunTypes /\ Tidy /\ Numbers /\ Runs /\ Claims /\ Files /\ Served /\ Counted
    BY Zenon DEF RegistryInv, RunInv
  <1>0. /\ slots' = slots /\ created' = created /\ mcpSession' = mcpSession /\ surface' = surface
        /\ opened' = opened /\ ended' = ended /\ hold' = hold
        /\ inFlight' = inFlight /\ unclean' = unclean /\ reports' = reports
        /\ op[h].pc = "confirm" /\ slots[op[h].s].id = op[h].e
        /\ runtimeLive' = runtimeLive \cup {op[h].s} /\ ran' = ran \cup {op[h].e}
    BY ZenonT(30) DEF ConfirmStart, At, HoldsClaimEntry, surfaceVars, registryVars, answerVars
  <1>1. Others(h) /\ op'[h] = Idle BY Zenon, ReturnMoves DEF ConfirmStart
  <1>2. /\ ~Claimer(op'[h]) /\ op'[h].e = 0 /\ op'[h].pc = "idle" BY Zenon, <1>1, IdleFacts
  <1>3. /\ Claimer(op[h]) /\ op[h].e # 0 /\ op[h].s \in Sessions /\ ~op[h].removed
        /\ op[h].todo = {} /\ op[h].pc # "pass1"
    BY ZenonT(30), <1>0 DEF Coherent, Places, Removals, Claimer, Opening
  <1>4. Mild(op[h], op'[h]) /\ \A s \in Sessions : ~Tears(op'[h], s)
    BY Zenon, <1>2, <1>3, LeaveMoves
  <1>5. Same(h) /\ Closing(op[h], op'[h]) /\ \A s \in Sessions : ~Tears(op[h], s)
    BY Zenon, <1>0, <1>1, <1>3, <1>4 DEF Same, Closing, Ending, Tears
  <1>6. op[h].e \in Entries
    <2>1. op[h].e \in 0 .. MaxEntry BY Zenon DEF Op
    <2>2. op[h].e # 0 BY Zenon, <1>3
    <2>. QED BY ONLY <2>1, <2>2, SlotConstants DEF Entries
  <1>7. RunTypes' BY ZenonT(30), <1>0, <1>3, <1>6, <1>i DEF RunTypes
  <1>8. Tidy' BY Zenon, <1>i, <1>5, TidySame
  <1>9. Numbers'
    <2>1. /\ \A e \in ran' : e \in ran \/ e = op[h].e
          /\ surface' \in {0, surface, op[h].e}
          /\ \A e \in Entries : reports'[e] = reports[e] \/ e = op[h].e
      BY ZenonT(30), <1>0
    <2>. QED BY Zenon, <1>i, <1>5, <2>1, NumbersSame
  <1>10. \A s \in Sessions : slots[s].id = op[h].e => s = op[h].s BY Zenon, <1>3, <1>i DEF Numbers
  <1>11. /\ op[h].e \notin ran /\ slots[op[h].s].started /\ opened[op[h].s] = op[h].e
         /\ ended => \E k \in Handlers : op[k].pc = "pass1"
    BY Zenon, <1>0, <1>3, <1>i DEF Claims
  <1>12. \A k \in Handlers : op[k].pc = "pass1" => op'[k].pc = "pass1"
    BY Zenon, <1>1, <1>4 DEF Others, Mild
  <1>13. Runs'
    <2>1. \A s \in Sessions :
            slots'[s].id \in ran' => slots'[s].started /\ opened'[s] = slots'[s].id
      BY ZenonT(30), <1>0, <1>10, <1>11, <1>i DEF Runs
    <2>2. \A s \in runtimeLive' : slots'[s].id \in ran' \/ \E k \in Handlers : Ending(op'[k], s)
      <3>1. \A s \in runtimeLive, k \in Handlers : Ending(op[k], s) => Ending(op'[k], s)
        BY Zenon, <1>1, <1>5, <1>i DEF Others, Closing, RunTypes
      <3>2. \A s \in runtimeLive : slots'[s].id \in ran' \/ \E k \in Handlers : Ending(op'[k], s)
        BY Zenon, <1>0, <1>i, <3>1 DEF Runs
      <3>. QED BY Zenon, <1>0, <3>2
    <2>3. \A s \in Sessions :
            ended' /\ slots'[s].id \in ran' => \E k \in Handlers : op'[k].pc = "pass1"
      BY Zenon, <1>0, <1>10, <1>11, <1>12, <1>i DEF Runs
    <2>. QED BY Zenon, <2>1, <2>2, <2>3 DEF Runs
  <1>14. Claims'
    <2>1. \A k \in Handlers : Claimer(op'[k]) =>
            k # h /\ op'[k] = op[k] /\ Claimer(op[k]) /\ op[k].e # op[h].e
      BY Zenon, <1>1, <1>2, <1>3, <1>i DEF Others, Claims
    <2>2. \A k \in Handlers : op'[k].pc = "confirm" => op'[k] = op[k]
      BY <1>1, <1>2 DEF Others
    <2>3. \A k \in Handlers :
            Claimer(op'[k]) => /\ op'[k].e \notin ran'
                               /\ slots'[op'[k].s].id = op'[k].e => slots'[op'[k].s].started
      BY ZenonT(30), <1>0, <1>i, <2>1 DEF Claims
    <2>4. \A j, k \in Handlers :
            Claimer(op'[j]) /\ Claimer(op'[k]) /\ op'[j].e = op'[k].e => j = k
      BY Zenon, <1>i, <2>1 DEF Claims
    <2>5. \A k \in Handlers :
            op'[k].pc = "confirm" /\ slots'[op'[k].s].id = op'[k].e =>
              opened'[op'[k].s] = op'[k].e
      BY Zenon, <1>0, <1>i, <2>2 DEF Claims
    <2>6. ended' => \E j \in Handlers : op'[j].pc = "pass1" BY Zenon, <1>0, <1>11, <1>12
    <2>. QED BY Zenon, <2>3, <2>4, <2>5, <2>6 DEF Claims
  <1>15. Files'
    <2>1. ran \subseteq ran' BY ZenonT(30), <1>0
    <2>. QED BY Zenon, <1>0, <1>i, <1>5, <2>1, FilesSame
  <1>16. Served' BY Zenon, <1>0, <1>3, <1>5, <1>i, ServedSame
  <1>17. Counted' BY Zenon, <1>0, <1>1, <1>4, <1>5, <1>i, CountedSame
  <1>. QED BY Zenon, <1>7, <1>8, <1>9, <1>13, <1>14, <1>15, <1>16, <1>17 DEF RunInv

\* A session_start is written, or ended because its start was refused or not
\* acknowledged: inside the guard no running entry of the slot is touched.
LEMMA OpenedRun ==
  ASSUME RegistryInv, RegistryInv', RunInv, NEW h \in Handlers, Others(h),
         op[h].pc \in {"write", "confirm"}, Bears(op[h], op'[h]),
         op'[h].pc \in {"confirm", "rollback", "release", "reclaim"},
         NEW v \in 0 .. MaxEntry, opened' = [opened EXCEPT ![op[h].s] = v],
         op'[h].pc = "confirm" => v = op[h].e /\ ~ended,
         slots' = slots, created' = created, runtimeLive' = runtimeLive, ended' = ended,
         ran' = ran, UNCHANGED <<surfaceVars, answerVars, hold>>
  PROVE  RunInv'
  <1>. RegistryTypes /\ Coherent(op[h]) /\ Coherent(op'[h]) /\ op[h] \in Op BY Zenon, RunFacts
  <1>i. /\ Handling /\ Held /\ Kept /\ Handling' /\ RunTypes /\ Tidy /\ Numbers /\ Runs /\ Claims
        /\ Files /\ Served /\ Counted
    BY Zenon DEF RegistryInv, RunInv
  <1>0. /\ mcpSession' = mcpSession /\ surface' = surface /\ hold' = hold
        /\ inFlight' = inFlight /\ unclean' = unclean /\ reports' = reports
    BY ZenonT(30) DEF surfaceVars, answerVars
  <1>1. Claimer(op[h]) /\ op[h].s \in Sessions /\ Attached(op[h]) /\ Holding(op[h])
    BY ZenonT(30) DEF Coherent, Places, Claimer, Opening, Attached, Holding
  <1>2. /\ Mild(op[h], op'[h]) /\ Ends(op'[h]) /\ Closing(op[h], op'[h])
        /\ \A s \in Sessions : Tears(op'[h], s) <=> Tears(op[h], s)
    BY ZenonT(30), <1>1, ClaimerMoves
  <1>3. Same(h) BY Zenon, <1>2 DEF Same
  <1>4. slots[op[h].s].id \notin ran
    <2>1. op[h].e \notin ran /\ ran \subseteq Entries BY Zenon, <1>1, <1>i DEF Claims, RunTypes
    <2>2. 0 \notin ran BY ONLY <2>1, SlotConstants DEF Entries
    <2>. QED BY Zenon, <1>1, <1>i, <2>1, <2>2 DEF Kept, Held
  <1>5. opened' \in [Sessions -> 0 .. MaxEntry] /\ opened'[op[h].s] = v
        /\ \A s \in Sessions \ {op[h].s} : opened'[s] = opened[s]
    BY ZenonT(30), <1>1, <1>i DEF RunTypes
  <1>6. RunTypes' BY ZenonT(30), <1>0, <1>5, <1>i DEF RunTypes
  <1>7. Tidy' BY Zenon, <1>i, <1>3, TidySame
  <1>8. Numbers' BY ZenonT(30), <1>i, <1>0, <1>3, NumbersSame
  <1>9. Runs'
    <2>1. \A s \in runtimeLive' : s \in runtimeLive /\ (Ending(op[h], s) => Ending(op'[h], s))
      BY Zenon, <1>2, <1>i DEF Closing, RunTypes
    <2>2. \A s \in Sessions : slots[s].id \in ran => opened'[s] = opened[s] BY Zenon, <1>4, <1>5
    <2>. QED BY Zenon, <1>i, <1>3, <2>1, <2>2, RunsMove
  <1>10. Claims'
    <2>1. ASSUME NEW k \in Handlers, op[k].pc = "confirm", op'[k].pc = "confirm",
                 slots[op[k].s].id = op[k].e
          PROVE  opened'[op[k].s] = opened[op[k].s]
      <3>1. CASE k = h
        <4>1. opened[op[h].s] = op[h].e BY Zenon, <1>i, <2>1, <3>1 DEF Claims
        <4>. QED BY Zenon, <1>5, <2>1, <3>1, <4>1
      <3>2. CASE k # h
        <4>1. Holding(op[k]) BY Zenon, <2>1 DEF Holding
        <4>2. op[k].s \in Sessions /\ guard[op[k].s] = k BY Zenon, <1>i, <4>1, InGuard
        <4>3. guard[op[h].s] = h BY Zenon, <1>1, <1>i, InGuard
        <4>. QED BY Zenon, <1>5, <3>2, <4>2, <4>3
      <3>. QED BY ZenonT(30), <3>1, <3>2
    <2>2. op'[h].pc = "confirm" => opened'[op'[h].s] = op'[h].e /\ ~ended'
      BY Zenon, <1>5 DEF Bears
    <2>. QED BY Zenon, <1>i, <1>3, <2>1, <2>2, ClaimsMove
  <1>11. Files' BY ZenonT(30), <1>0, <1>i, <1>3, FilesSame
  <1>12. Served' BY Zenon, <1>0, <1>2, <1>3, <1>i, ServedSame DEF Looks
  <1>13. Counted' BY Zenon, <1>0, <1>2, <1>i, CountedSame
  <1>. QED BY Zenon, <1>6, <1>7, <1>8, <1>9, <1>10, <1>11, <1>12, <1>13 DEF RunInv

\* The write of a session_start, and the two ways its confirmation fails.
LEMMA WriteRun ==
  ASSUME RegistryInv, RegistryInv', RunInv, NEW h \in Handlers,
         \/ WriteSessionStart(h) /\ ~(Fail(h) /\ UNCHANGED opened)
         \/ RefuseStart(h) \/ StartUnacknowledged(h)
  PROVE  RunInv'
  <1>. RegistryTypes /\ Coherent(op[h]) /\ op[h] \in Op BY Zenon, RunFacts
  <1>0. /\ slots' = slots /\ created' = created /\ runtimeLive' = runtimeLive /\ ended' = ended
        /\ ran' = ran /\ UNCHANGED <<surfaceVars, answerVars, hold>>
        /\ op[h].pc \in {"write", "confirm"}
    BY Zenon DEF WriteSessionStart, RefuseStart, StartUnacknowledged, registryVars, At
  <1>e. op[h].e \in 0 .. MaxEntry /\ 0 \in 0 .. MaxEntry
    <2>1. op[h].e \in 0 .. MaxEntry BY Zenon DEF Op
    <2>. QED BY ONLY <2>1, SlotConstants
  <1>1. CASE WriteSessionStart(h) /\ ~(Fail(h) /\ UNCHANGED opened)
    <2>1. ~ended /\ opened' = [opened EXCEPT ![op[h].s] = op[h].e] /\ Goto(h, "confirm")
      BY Zenon, <1>1 DEF WriteSessionStart
    <2>2. Others(h) /\ Bears(op[h], op'[h]) /\ op'[h].pc = "confirm"
      BY Zenon, <2>1, GotoBears DEF PCs
    <2>. QED BY ZenonT(30), <1>0, <1>e, <2>1, <2>2, OpenedRun
  <1>2. CASE RefuseStart(h)
    <2>1. opened' = [opened EXCEPT ![op[h].s] = 0] /\ Goto(h, "rollback")
      BY Zenon, <1>2 DEF RefuseStart, SessionEnd, Refuse
    <2>2. Others(h) /\ Bears(op[h], op'[h]) /\ op'[h].pc = "rollback"
      BY Zenon, <2>1, GotoBears DEF PCs
    <2>. QED BY ZenonT(30), <1>0, <1>e, <2>1, <2>2, OpenedRun
  <1>3. CASE StartUnacknowledged(h)
    <2>1. opened' = [opened EXCEPT ![op[h].s] = 0] /\ Fail(h)
      BY Zenon, <1>3 DEF StartUnacknowledged, SessionEnd
    <2>2. Others(h) /\ Bears(op[h], op'[h]) /\ op'[h].pc \in {"release", "reclaim"}
      BY Zenon, <2>1, FailBears
    <2>. QED BY ZenonT(30), <1>0, <1>e, <2>1, <2>2, OpenedRun
  <1>. QED BY Zenon, <1>1, <1>2, <1>3

\* A session's runtime is closed, for an identifier that has no entry.
LEMMA CloseRun ==
  ASSUME RegistryInv, RegistryInv', RunInv, NEW h \in Handlers, CloseRuntime(h)
  PROVE  RunInv'
  <1>. RegistryTypes /\ Coherent(op[h]) /\ Coherent(op'[h]) /\ op[h] \in Op BY Zenon, RunFacts
  <1>i. /\ Handling /\ Held /\ Handling' /\ RunTypes /\ Tidy /\ Numbers /\ Runs /\ Claims
        /\ Files /\ Served /\ Counted
    BY Zenon DEF RegistryInv, RunInv
  <1>0. /\ slots' = slots /\ created' = created /\ mcpSession' = mcpSession /\ surface' = surface
        /\ ended' = ended /\ ran' = ran /\ hold' = hold
        /\ inFlight' = inFlight /\ unclean' = unclean /\ reports' = reports
        /\ op[h].pc = "close" /\ runtimeLive' = runtimeLive \ {op[h].s}
        /\ opened' = opened \/ opened' = [opened EXCEPT ![op[h].s] = 0]
    BY DEF CloseRuntime, At, SessionEnd, surfaceVars, registryVars, answerVars
  <1>1. /\ Others(h)
        /\ \E err \in BOOLEAN :
             op'[h] = [op[h] EXCEPT !.pc = "tree", !.failed = err, !.closeErr = err]
    BY ZenonT(30) DEF CloseRuntime, Others, RegistryTypes
  <1>2. Bears(op[h], op'[h]) /\ op'[h].pc = "tree" BY <1>1 DEF Op, Bears
  <1>3. op[h].removed /\ op[h].s \in Sessions BY ZenonT(30), <1>0 DEF Coherent, Removals, Places
  <1>4. /\ Mild(op[h], op'[h]) /\ Ends(op'[h]) /\ op'[h].pc # "confirm"
        /\ \A s \in Sessions : Tears(op'[h], s) <=> Tears(op[h], s)
        /\ \A s \in Sessions : Ending(op[h], s) => Ending(op'[h], s) \/ s = op[h].s
    BY ZenonT(30), <1>0, <1>2, <1>3, CleanerMoves
  <1>5. Same(h) BY Zenon, <1>0, <1>1, <1>4 DEF Same
  <1>6. slots[op[h].s].id = 0
    <2>1. Removing(op[h], op[h].s) BY ZenonT(30), <1>0, <1>3 DEF Removing
    <2>. QED BY Zenon, <1>3, <1>i, <2>1 DEF Held
  <1>7. /\ opened' \in [Sessions -> 0 .. MaxEntry]
        /\ \A s \in Sessions \ {op[h].s} : opened'[s] = opened[s]
    <2>1. opened \in [Sessions -> 0 .. MaxEntry] BY Zenon, <1>i DEF RunTypes
    <2>2. opened' = opened \/ opened' = [opened EXCEPT ![op[h].s] = 0] BY Zenon, <1>0
    <2>. QED BY ONLY <1>3, <2>1, <2>2, SlotConstants
  <1>8. RunTypes' BY ZenonT(30), <1>0, <1>7, <1>i DEF RunTypes
  <1>9. Tidy' BY Zenon, <1>i, <1>5, TidySame
  <1>10. Numbers' BY ZenonT(30), <1>i, <1>0, <1>5, NumbersSame
  <1>11. Runs'
    <2>1. \A s \in runtimeLive' : s \in runtimeLive /\ (Ending(op[h], s) => Ending(op'[h], s))
      BY ZenonT(30), <1>0, <1>4, <1>i DEF RunTypes
    <2>2. \A s \in Sessions : slots[s].id \in ran => opened'[s] = opened[s]
      <3>1. 0 \notin ran BY <1>i DEF RunTypes, Entries
      <3>. QED BY Zenon, <1>6, <1>7, <3>1
    <2>. QED BY Zenon, <1>i, <1>0, <1>5, <2>1, <2>2, RunsMove
  <1>12. Claims'
    <2>1. ASSUME NEW k \in Handlers, op[k].pc = "confirm", slots[op[k].s].id = op[k].e
          PROVE  opened'[op[k].s] = opened[op[k].s]
      <3>1. Coherent(op[k]) BY Zenon, <1>i DEF Handling
      <3>2. op[k].s \in Sessions /\ op[k].e # 0
        BY ZenonT(30), <2>1, <3>1 DEF Coherent, Places, Removals, Claimer, Opening
      <3>. QED BY Zenon, <1>6, <1>7, <2>1, <3>2
    <2>. QED BY Zenon, <1>i, <1>0, <1>4, <1>5, <2>1, ClaimsMove
  <1>13. Files' BY ZenonT(30), <1>0, <1>i, <1>5, FilesSame
  <1>14. Served' BY Zenon, <1>0, <1>4, <1>5, <1>i, ServedSame DEF Looks
  <1>15. Counted' BY Zenon, <1>0, <1>1, <1>4, <1>i, CountedSame
  <1>. QED BY Zenon, <1>8, <1>9, <1>10, <1>11, <1>12, <1>13, <1>14, <1>15 DEF RunInv

\* The transport ends; the first pass of the hold timeout follows.
LEMMA EndRun ==
  ASSUME RegistryInv, RegistryInv', RunInv, NEW h \in Handlers, EndRuntime(h)
  PROVE  RunInv'
  <1>. RegistryTypes /\ Coherent(op[h]) /\ Coherent(op'[h]) /\ op[h] \in Op BY Zenon, RunFacts
  <1>i. /\ Handling' /\ RunTypes /\ Tidy /\ Numbers /\ Runs /\ Claims /\ Files /\ Served /\ Counted
    BY Zenon DEF RegistryInv, RunInv
  <1>0. /\ slots' = slots /\ created' = created /\ mcpSession' = mcpSession /\ surface' = surface
        /\ ran' = ran /\ hold' = hold /\ inFlight' = inFlight /\ unclean' = unclean
        /\ reports' = reports /\ op[h].pc = "end" /\ runtimeLive' = runtimeLive
        /\ opened' = opened /\ ended' = TRUE
    BY ZenonT(30) DEF EndRuntime, At, surfaceVars, registryVars, answerVars
  <1>1. Others(h) /\ Bears(op[h], op'[h]) /\ op'[h].pc = "pass1"
    BY Zenon, GotoBears DEF EndRuntime, PCs
  <1>2. Dull(op[h]) BY Zenon, <1>0 DEF Dull
  <1>3. /\ ~Ends(op[h]) /\ ~op[h].removed /\ \A s \in Sessions : ~Ending(op[h], s) /\ ~Tears(op[h], s)
    BY Zenon, <1>2, DullFacts
  <1>4. /\ Mild(op[h], op'[h]) /\ \A s \in Sessions : ~Tears(op'[h], s)
    BY ZenonT(30), <1>0, <1>1, <1>3
       DEF Mild, Bears, Claimer, Opening, Arming, Reporting, Tears, Through
  <1>5. Same(h) BY Zenon, <1>0, <1>1, <1>4 DEF Same
  <1>6. RunTypes' BY ZenonT(30), <1>0, <1>i DEF RunTypes
  <1>7. Tidy' BY Zenon, <1>i, <1>5, TidySame
  <1>8. Numbers' BY ZenonT(30), <1>i, <1>0, <1>5, NumbersSame
  <1>9. Runs'
    <2>1. \A s \in runtimeLive' : s \in runtimeLive /\ (Ending(op[h], s) => Ending(op'[h], s))
      BY Zenon, <1>0, <1>3, <1>i DEF RunTypes
    <2>. QED BY Zenon, <1>i, <1>0, <1>1, <1>5, <2>1, RunsMove
  <1>10. Claims'
    <2>1. op'[h].pc # "confirm" BY <1>1
    <2>. QED BY Zenon, <1>i, <1>0, <1>1, <1>5, <2>1, ClaimsMove
  <1>11. Files' BY ZenonT(30), <1>0, <1>i, <1>5, FilesSame
  <1>12. Served' BY Zenon, <1>0, <1>3, <1>5, <1>i, ServedSame DEF Looks
  <1>13. Counted' BY Zenon, <1>0, <1>1, <1>3, <1>4, <1>i, CountedSame
  <1>. QED BY Zenon, <1>6, <1>7, <1>8, <1>9, <1>10, <1>11, <1>12, <1>13 DEF RunInv

\* The platform MCP server is armed for the claim that took the start.
LEMMA ArmRun ==
  ASSUME RegistryInv, RegistryInv', RunInv, NEW h \in Handlers, ArmMCP(h),
         ~(Fail(h) /\ UNCHANGED surface)
  PROVE  RunInv'
  <1>. RegistryTypes /\ Coherent(op[h]) /\ Coherent(op'[h]) /\ op[h] \in Op BY Zenon, RunFacts
  <1>i. /\ Handling' /\ RunTypes /\ Tidy /\ Numbers /\ Runs /\ Claims /\ Files /\ Served /\ Counted
    BY Zenon DEF RegistryInv, RunInv
  <1>0. /\ slots' = slots /\ created' = created /\ mcpSession' = mcpSession /\ surface' = op[h].e
        /\ ran' = ran /\ hold' = hold /\ inFlight' = inFlight /\ unclean' = unclean
        /\ reports' = reports /\ op[h].pc = "arm" /\ runtimeLive' = runtimeLive
        /\ opened' = opened /\ ended' = ended /\ Goto(h, "run")
    BY ZenonT(30) DEF ArmMCP, At, registryVars, runtimeVars, answerVars
  <1>1. Others(h) /\ Bears(op[h], op'[h]) /\ op'[h].pc = "run" BY Zenon, <1>0, GotoBears DEF PCs
  <1>2. Claimer(op[h]) /\ op[h].s \in Sessions /\ op[h].e # 0 /\ Arming(op[h])
    BY ZenonT(30), <1>0 DEF Coherent, Places, Removals, Claimer, Opening, Arming
  <1>3. /\ Mild(op[h], op'[h]) /\ Ends(op'[h]) /\ Closing(op[h], op'[h])
        /\ \A s \in Sessions : Tears(op'[h], s) <=> Tears(op[h], s)
    BY ZenonT(30), <1>1, <1>2, ClaimerMoves
  <1>4. Same(h) BY Zenon, <1>0, <1>1, <1>3 DEF Same
  <1>5. op[h].e \in 0 .. MaxEntry BY Zenon DEF Op
  <1>6. RunTypes' BY ZenonT(30), <1>0, <1>5, <1>i DEF RunTypes
  <1>7. Tidy' BY Zenon, <1>i, <1>4, TidySame
  <1>8. Numbers' BY ZenonT(30), <1>i, <1>0, <1>4, NumbersSame
  <1>9. Runs' BY Zenon, <1>i, <1>0, <1>3, <1>4, RunsSame
  <1>10. Claims' BY ZenonT(30), <1>i, <1>0, <1>1, <1>4, ClaimsSame
  <1>11. Files' BY ZenonT(30), <1>0, <1>i, <1>4, FilesSame
  <1>12. Served'
    <2>1. \A s \in Sessions : slots'[s].id # 0 /\ surface' = slots'[s].id => mcpSession' = s
      BY Zenon, <1>0, <1>2, <1>i DEF Numbers, Served
    <2>2. \A k \in Handlers :
            Arming(op'[k]) => Arming(op[k]) /\ op'[k].e = op[k].e /\ op'[k].s = op[k].s
      BY Zenon, <1>1, <1>3 DEF Others, Mild
    <2>3. \A k \in Handlers :
            Arming(op'[k]) /\ slots'[op'[k].s].id = op'[k].e => mcpSession' = op'[k].s
      BY Zenon, <1>0, <1>i, <2>2 DEF Served
    <2>. QED BY Zenon, <1>3, <2>1, <2>3 DEF Served
  <1>13. Counted' BY Zenon, <1>0, <1>1, <1>3, <1>i, CountedSame
  <1>. QED BY Zenon, <1>6, <1>7, <1>8, <1>9, <1>10, <1>11, <1>12, <1>13 DEF RunInv
=============================================================================
