---------------------------- MODULE SlotRegistry ----------------------------
(***************************************************************************)
(* The pod adapter's slot registry (pkg/adapter): which session holds      *)
(* which slot of the pod, and how the RPC handlers that bind, start,       *)
(* resume and tear down a session, and the coordinator hold timeout, share *)
(* it.  A handler's critical section under Server.mu is one step; between  *)
(* two of its sections any other handler may run.  Three things keep them  *)
(* apart: the per-slot guard (a capacity-one channel), the reclaim hold    *)
(* that refuses a slot identifier while its tree is being destroyed, and   *)
(* the identity of the registry entry a claim was admitted against.        *)
(* The slot identifier is the session identifier.                          *)
(***************************************************************************)
EXTENDS Naturals, FiniteSets

CONSTANTS
    Sessions,   \* session identifiers: numbers, the order sort.Strings gives
    Handlers,   \* RPC handlers and fired hold timers that may be in flight
    Tokens,     \* bind attempt tokens
    MaxEntry,   \* bound on the registry entries ever created
    NoSession, NoHandler, NoTok

ASSUME SlotConstants ==
    /\ Sessions \subseteq Nat
    /\ MaxEntry \in Nat
    /\ NoTok \notin Tokens
    /\ NoHandler \notin Handlers
    /\ NoSession \notin Sessions

NoEntry == [id |-> 0, tok |-> NoTok, bound |-> FALSE, started |-> FALSE]

VARIABLES
    slots,        \* Server.slots: the entry of each session, or NoEntry
    reclaiming,   \* Server.reclaiming: identifiers under a reclaim hold
    guard,        \* Server.slotGuards: the handler inside each slot's guard
    tree,         \* the slot's tree on disk: the entry it was written for, or 0
    runtimeLive,  \* Server.runtimeLive: sessions the runtime process holds
    mcpSession,   \* Server.mcpSession: the session that took the MCP start
    surface,      \* the entry whose claim armed the platform MCP server, or 0
    hold,         \* holdState.active
    ended,        \* SocketRuntimeProcess.ended
    inFlight,     \* Server.shutdownInFlight
    unclean,      \* Server.shutdownUnclean
    op,           \* the handler's own state: its RPC, its place, its claim
    created,      \* entries created so far: an entry's identity is its number
    opened,       \* runtime: the entry whose session_start is not yet ended
    ran,          \* history: entries whose start was confirmed
    reports       \* history: scrub reports filed for each entry

registryVars == <<slots, reclaiming, created>>
runtimeVars == <<runtimeLive, opened, ended, ran>>
surfaceVars == <<mcpSession, surface>>
answerVars == <<inFlight, unclean, reports>>
vars == <<registryVars, guard, tree, runtimeVars, surfaceVars, hold,
          answerVars, op>>

Entries == 1..MaxEntry
Entry == [id : Entries, tok : Tokens \cup {NoTok}, bound : BOOLEAN,
          started : BOOLEAN]

RPCs == {"none", "bind", "start", "resume", "shutdown", "timeout", "fence"}

PCs == {"idle", "guard", "resolve", "work", "restore", "arm", "run", "open",
        "check", "write", "confirm", "rollback", "release", "reclaim",
        "decide", "close", "tree", "finish", "record", "end", "pass1", "fence"}

Op == [rpc : RPCs, pc : PCs, s : Sessions \cup {NoSession},
       tok : Tokens \cup {NoTok}, e : 0..MaxEntry, arm : BOOLEAN, removed : BOOLEAN,
       guarded : BOOLEAN, live : BOOLEAN, failed : BOOLEAN, closeErr : BOOLEAN,
       todo : SUBSET Sessions]

Idle ==
    [rpc |-> "none", pc |-> "idle", s |-> NoSession, tok |-> NoTok, e |-> 0,
     arm |-> FALSE, removed |-> FALSE, guarded |-> FALSE, live |-> FALSE, failed |-> FALSE,
     closeErr |-> FALSE, todo |-> {}]

Call(rpc, pc, s, t) ==
    [Idle EXCEPT !.rpc = rpc, !.pc = pc, !.s = s, !.tok = t]

-----------------------------------------------------------------------------
(* Moving a handler, and the guard it may hold.                             *)

Goto(h, pc) == op' = [op EXCEPT ![h].pc = pc]

Return(h) == op' = [op EXCEPT ![h] = Idle]

Unlock(h) == guard' = [s \in Sessions |->
                         IF guard[s] = h THEN NoHandler ELSE guard[s]]

At(h, pc) == op[h].pc = pc

Registered(s) == slots[s] # NoEntry

(* The entry a handler's claim was admitted against is still registered:    *)
(* pointer identity, never the token alone.                                 *)
HoldsClaimEntry(h) == slots[op[h].s].id = op[h].e

(* A start that fails after its claim: StartSession takes the fenced,       *)
(* guarded release; Resume already holds the guard and takes the release    *)
(* that removes whatever entry the identifier names.                        *)
Fail(h) ==
    IF op[h].rpc = "resume"
    THEN /\ op' = [op EXCEPT ![h].pc = "reclaim", ![h].guarded = TRUE]
         /\ UNCHANGED guard
    ELSE Goto(h, "release") /\ Unlock(h)

-----------------------------------------------------------------------------
(* The resolve every admission takes under Server.mu.                       *)

Refused(s, t, create, allowStarted) ==
    \/ s \in reclaiming
    \/ ~Registered(s) /\ (~create \/ created = MaxEntry)
    \/ /\ Registered(s)
       /\ \/ t # NoTok /\ slots[s].tok # NoTok /\ slots[s].tok # t
          \/ slots[s].started /\ ~allowStarted

Resolved(s, t) ==
    IF Registered(s) THEN slots[s]
    ELSE [NoEntry EXCEPT !.id = created + 1, !.tok = t]

(* Registers the entry the resolve returned, with its tree when the resolve *)
(* created it.                                                              *)
Register(s, entry) ==
    /\ slots' = [slots EXCEPT ![s] = entry]
    /\ created' = IF Registered(s) THEN created ELSE entry.id
    /\ tree' = IF Registered(s) THEN tree ELSE [tree EXCEPT ![s] = entry.id]
    /\ UNCHANGED reclaiming

-----------------------------------------------------------------------------
(* The workspace RPCs of a bind, PrepareWorkspace, FinalizeWorkspace and    *)
(* RunSetup, and Resume: the hold-state interceptor, the first reclaim-hold *)
(* test, then the wait for the slot's guard.                                *)

Admit(h, rpc, s, t) ==
    /\ At(h, "idle") /\ ~hold
    /\ s \notin reclaiming
    /\ op' = [op EXCEPT ![h] = Call(rpc, "guard", s, t)]
    /\ UNCHANGED <<registryVars, guard, tree, runtimeVars, surfaceVars, hold,
                   answerVars>>

TakeGuard(h) ==
    /\ At(h, "guard") /\ guard[op[h].s] = NoHandler
    /\ guard' = [guard EXCEPT ![op[h].s] = h]
    /\ Goto(h, "resolve")
    /\ UNCHANGED <<registryVars, tree, runtimeVars, surfaceVars, hold,
                   answerVars>>

(* The request's context ends while the guard is contended.                 *)
GuardTimeout(h) ==
    /\ At(h, "guard") /\ guard[op[h].s] # NoHandler
    /\ Return(h)
    /\ UNCHANGED <<registryVars, guard, tree, runtimeVars, surfaceVars, hold,
                   answerVars>>

(* A mid-session upload carries no token, creates no entry and is admitted  *)
(* on a started one.                                                        *)
ResolveBind(h) ==
    /\ At(h, "resolve") /\ op[h].rpc = "bind"
    /\ LET s == op[h].s
           t == op[h].tok
           mid == t = NoTok
       IN IF Refused(s, t, ~mid, mid)
          THEN /\ Return(h) /\ Unlock(h)
               /\ UNCHANGED <<registryVars, tree>>
          ELSE /\ Register(s, Resolved(s, t))
               /\ op' = [op EXCEPT ![h].pc = "work", ![h].e = Resolved(s, t).id]
               /\ UNCHANGED guard
    /\ UNCHANGED <<runtimeVars, surfaceVars, hold, answerVars>>

(* The uploads, the materialization or the setup commands write the slot's  *)
(* tree outside Server.mu; they re-create a tree removed under them, or     *)
(* fail and leave it as it is.                                              *)
BindWork(h) ==
    /\ At(h, "work")
    /\ \E t \in {op[h].e, tree[op[h].s]} : tree' = [tree EXCEPT ![op[h].s] = t]
    /\ Return(h) /\ Unlock(h)
    /\ UNCHANGED <<registryVars, runtimeVars, surfaceVars, hold, answerVars>>

(* AssignCredentials resolves, binds the entry and writes its credential    *)
(* file in one critical section.                                            *)
AssignCredentials(s, t) ==
    /\ ~hold /\ ~Refused(s, t, TRUE, FALSE)
    /\ Register(s, [Resolved(s, t) EXCEPT !.bound = TRUE])
    /\ UNCHANGED <<guard, runtimeVars, surfaceVars, hold, answerVars, op>>

-----------------------------------------------------------------------------
(* The claim and the start sequence of StartSession and Resume.             *)

(* A claim takes the once-per-pod MCP start when the registry holds no      *)
(* entry but the claimant's and the session has not taken it already; a     *)
(* surface a departed session left is cancelled.                            *)
TakesMCP(s) ==
    /\ \A o \in Sessions \ {s} : ~Registered(o)
    /\ mcpSession # s

Claim(h, rpc, s, t) ==
    /\ Register(s, [Resolved(s, t) EXCEPT !.bound = TRUE, !.started = TRUE])
    /\ mcpSession' = IF TakesMCP(s) THEN s ELSE mcpSession
    /\ surface' = IF TakesMCP(s) THEN 0 ELSE surface
    /\ op' = [op EXCEPT ![h] =
                [Call(rpc, IF rpc = "resume" THEN "restore"
                           ELSE IF TakesMCP(s) THEN "arm" ELSE "run", s, t)
                   EXCEPT !.e = Resolved(s, t).id, !.arm = TakesMCP(s)]]

(* StartSession claims without the guard and without a token.               *)
StartSession(h, s) ==
    /\ At(h, "idle") /\ ~hold
    /\ ~Refused(s, NoTok, TRUE, FALSE)
    /\ Claim(h, "start", s, NoTok)
    /\ UNCHANGED <<guard, runtimeVars, hold, answerVars>>

(* Resume claims under the guard it took ahead of the claim.                *)
ResumeClaim(h) ==
    /\ At(h, "resolve") /\ op[h].rpc = "resume"
    /\ LET s == op[h].s
           t == op[h].tok
       IN IF Refused(s, t, TRUE, FALSE)
          THEN /\ Return(h) /\ Unlock(h)
               /\ UNCHANGED <<registryVars, tree, surfaceVars>>
          ELSE /\ Claim(h, "resume", s, t)
               /\ UNCHANGED guard
    /\ UNCHANGED <<runtimeVars, hold, answerVars>>

-----------------------------------------------------------------------------
(* Resume restores the checkpoint's chunks into the slot's tree.            *)
Restore(h) ==
    /\ At(h, "restore")
    /\ \/ /\ \E t \in {op[h].e, tree[op[h].s]} :
               tree' = [tree EXCEPT ![op[h].s] = t]
          /\ Goto(h, IF op[h].arm THEN "arm" ELSE "run")
          /\ UNCHANGED guard
       \/ Fail(h) /\ UNCHANGED tree
    /\ UNCHANGED <<registryVars, runtimeVars, surfaceVars, hold, answerVars>>

(* The manifest write and the pod's one platform MCP server: the socket is  *)
(* bound only while no other server has it.                                 *)
ArmMCP(h) ==
    /\ At(h, "arm")
    /\ \/ /\ surface = 0 /\ surface' = op[h].e
          /\ Goto(h, "run") /\ UNCHANGED guard
       \/ Fail(h) /\ UNCHANGED surface
    /\ UNCHANGED <<registryVars, tree, runtimeVars, mcpSession, hold, answerVars>>

(* Runtime.Start; it fails at once on an ended transport.                   *)
RuntimeStart(h) ==
    /\ At(h, "run")
    /\ \/ /\ ~ended
          /\ Goto(h, IF op[h].rpc = "resume" THEN "check" ELSE "open")
          /\ UNCHANGED guard
       \/ Fail(h)
    /\ UNCHANGED <<registryVars, tree, runtimeVars, surfaceVars, hold, answerVars>>

\* Mutant: the open sequence goes on without the guard.
OpenUnguarded(h) ==
    /\ At(h, "open")
    /\ Goto(h, "check")
    /\ UNCHANGED <<registryVars, guard, tree, runtimeVars, surfaceVars, hold,
                   answerVars>>

(* The open sequence runs under the guard; a start whose context ends ahead *)
(* of it closes the runtime session and fails.                              *)
OpenGuard(h) ==
    /\ At(h, "open")
    /\ IF guard[op[h].s] = NoHandler
       THEN guard' = [guard EXCEPT ![op[h].s] = h] /\ Goto(h, "check")
       ELSE Fail(h)
    /\ UNCHANGED <<registryVars, tree, runtimeVars, surfaceVars, hold, answerVars>>

(* A refused confirmation: StartSession's open sequence has returned its    *)
(* guard, Resume keeps it until the handler returns.                        *)
Refuse(h) ==
    /\ Goto(h, "rollback")
    /\ IF op[h].rpc = "resume" THEN UNCHANGED guard ELSE Unlock(h)

OpenCheck(h) ==
    /\ At(h, "check")
    /\ IF HoldsClaimEntry(h) THEN Goto(h, "write") /\ UNCHANGED guard
       ELSE Refuse(h)
    /\ UNCHANGED <<registryVars, tree, runtimeVars, surfaceVars, hold, answerVars>>

WriteSessionStart(h) ==
    /\ At(h, "write")
    /\ \/ /\ ~ended
          /\ opened' = [opened EXCEPT ![op[h].s] = op[h].e]
          /\ Goto(h, "confirm") /\ UNCHANGED guard
       \/ Fail(h) /\ UNCHANGED opened
    /\ UNCHANGED <<registryVars, tree, runtimeLive, ended, ran, surfaceVars,
                   hold, answerVars>>

SessionEnd(s) == opened' = [opened EXCEPT ![s] = 0]

\* Mutant: the record is made without comparing the registered entry.
ConfirmAnyEntry(h) ==
    /\ At(h, "confirm")
    /\ runtimeLive' = runtimeLive \cup {op[h].s}
    /\ ran' = ran \cup {op[h].e}
    /\ Return(h) /\ Unlock(h)
    /\ UNCHANGED <<registryVars, tree, opened, ended, surfaceVars, hold,
                   answerVars>>

(* The record that takes the session onto the runtime, in one critical      *)
(* section with the comparison of the entry.                                *)
ConfirmStart(h) ==
    /\ At(h, "confirm") /\ HoldsClaimEntry(h)
    /\ runtimeLive' = runtimeLive \cup {op[h].s}
    /\ ran' = ran \cup {op[h].e}
    /\ Return(h) /\ Unlock(h)
    /\ UNCHANGED <<registryVars, tree, opened, ended, surfaceVars, hold,
                   answerVars>>

RefuseStart(h) ==
    /\ At(h, "confirm") /\ ~HoldsClaimEntry(h)
    /\ SessionEnd(op[h].s)
    /\ Refuse(h)
    /\ UNCHANGED <<registryVars, tree, runtimeLive, ended, ran, surfaceVars,
                   hold, answerVars>>

(* The runtime does not acknowledge the session_start in time.              *)
StartUnacknowledged(h) ==
    /\ At(h, "confirm")
    /\ SessionEnd(op[h].s)
    /\ Fail(h)
    /\ UNCHANGED <<registryVars, tree, runtimeLive, ended, ran, surfaceVars,
                   hold, answerVars>>

\* Mutant: an idle runtime alone decides that the surface is stopped.
ArmingNeverHeld == FALSE

(* The pod's MCP surface is stopped when the runtime serves no session and  *)
(* the session that took the start holds no slot.                           *)
ArmingHeld == mcpSession # NoSession /\ Registered(mcpSession)
CancelPodMCPIfRuntimeIdle ==
    IF runtimeLive # {} \/ ArmingHeld
    THEN UNCHANGED surfaceVars
    ELSE mcpSession' = NoSession /\ surface' = 0

\* Mutant: the rollback of a refused start leaves the surface to the release.
RollbackKeepsSurface(h) ==
    /\ At(h, "rollback")
    /\ Return(h) /\ Unlock(h)
    /\ UNCHANGED <<registryVars, tree, runtimeVars, surfaceVars, hold, answerVars>>

RollbackStart(h) ==
    /\ At(h, "rollback")
    /\ CancelPodMCPIfRuntimeIdle
    /\ Return(h) /\ Unlock(h)
    /\ UNCHANGED <<registryVars, tree, runtimeVars, hold, answerVars>>

-----------------------------------------------------------------------------
(* Releases.  A releaser waits for the guard, and goes on without it when   *)
(* its context ends first.                                                  *)

(* Deregistering an entry and opening its identifier's hold is one critical *)
(* section.                                                                 *)
ReclaimSlots(S) ==
    /\ slots' = [s \in Sessions |-> IF s \in S THEN NoEntry ELSE slots[s]]
    /\ reclaiming' = reclaiming \cup S
    /\ UNCHANGED created

ReleaseGuard(h) ==
    /\ At(h, "release")
    /\ LET free == guard[op[h].s] = NoHandler
       IN /\ guard' = IF free THEN [guard EXCEPT ![op[h].s] = h] ELSE guard
          /\ op' = [op EXCEPT ![h].guarded = free,
                              ![h].pc = IF op[h].rpc = "timeout" THEN "close"
                                        ELSE "reclaim"]
    /\ UNCHANGED <<registryVars, tree, runtimeVars, surfaceVars, hold, answerVars>>

\* Mutant: StartSession's release takes whatever entry the identifier names.
OwnedByName(h) == TRUE

(* StartSession's release is fenced on its own entry, Resume's is not.      *)
Owned(h) == op[h].rpc = "start" => HoldsClaimEntry(h)

ReleaseClaim(h) ==
    /\ At(h, "reclaim") /\ op[h].rpc \in {"start", "resume"}
    /\ IF Registered(op[h].s) /\ Owned(h)
       THEN /\ ReclaimSlots({op[h].s})
            /\ op' = [op EXCEPT ![h].pc = "tree", ![h].removed = TRUE]
       ELSE /\ Goto(h, "finish") /\ UNCHANGED registryVars
    /\ UNCHANGED <<guard, tree, runtimeVars, surfaceVars, hold, answerVars>>

(* The removal of the slot's tree, by path; it may fail.                    *)
RemoveTree(h) ==
    /\ At(h, "tree")
    /\ \/ tree' = [tree EXCEPT ![op[h].s] = 0] /\ Goto(h, "finish")
       \/ op' = [op EXCEPT ![h].pc = "finish", ![h].failed = TRUE] /\ UNCHANGED tree
    /\ UNCHANGED <<registryVars, guard, runtimeVars, surfaceVars, hold, answerVars>>

\* Mutant: a cleanup that went on without the guard also ends the hold.
CompletedUnguarded(h) == op[h].removed /\ ~op[h].failed

(* The hold ends only with a cleanup that ran under the guard and failed    *)
(* nowhere; otherwise the identifier stays held for the life of the pod.    *)
Completed(h) == op[h].removed /\ op[h].guarded /\ ~op[h].failed
EndHold(h) ==
    /\ reclaiming' = IF Completed(h) THEN reclaiming \ {op[h].s} ELSE reclaiming
    /\ UNCHANGED <<slots, created>>

FinishRelease(h) ==
    /\ At(h, "finish") /\ op[h].rpc \in {"start", "resume"}
    /\ CancelPodMCPIfRuntimeIdle
    /\ EndHold(h)
    /\ Return(h) /\ Unlock(h)
    /\ UNCHANGED <<tree, runtimeVars, hold, answerVars>>

-----------------------------------------------------------------------------
(* Shutdown, by attempt token or unconditional (NoTok).                     *)

Shutdown(h, s, t) ==
    /\ At(h, "idle") /\ ~hold
    /\ op' = [op EXCEPT ![h] = Call("shutdown", "decide", s, t)]
    /\ UNCHANGED <<registryVars, guard, tree, runtimeVars, surfaceVars, hold,
                   answerVars>>

Removes(s, t) == Registered(s) /\ (t = NoTok \/ slots[s].tok = t)

\* Mutant: an absent answer reads the last record only.
ExitCleanByRecord(s) == Registered(s) \/ s \notin unclean

(* The exit an answer that removes nothing reports: an absent answer is     *)
(* unclean while another Shutdown tears the session down, or when the last  *)
(* one that removed its entry reported it so.                               *)
NonRemovingExitClean(s) ==
    Registered(s) \/ (inFlight[s] = 0 /\ s \notin unclean)

(* The first decision, under Server.mu alone.                               *)
ShutdownDecide(h) ==
    /\ At(h, "decide")
    /\ IF Removes(op[h].s, op[h].tok) THEN Goto(h, "release")
       ELSE Return(h)
    /\ UNCHANGED <<registryVars, guard, tree, runtimeVars, surfaceVars, hold,
                   answerVars>>

\* Mutant: the teardown is not counted in shutdownInFlight when it begins.
ShutdownReclaimUncounted(h) ==
    /\ At(h, "reclaim") /\ op[h].rpc = "shutdown"
    /\ LET s == op[h].s
       IN IF Removes(s, op[h].tok)
          THEN /\ ReclaimSlots({s})
               /\ op' = [op EXCEPT ![h].pc = IF slots[s].started THEN "close"
                                             ELSE "tree",
                                   ![h].e = slots[s].id,
                                   ![h].removed = TRUE,
                                   ![h].live = s \in runtimeLive]
               /\ UNCHANGED guard
          ELSE /\ Return(h) /\ Unlock(h)
               /\ UNCHANGED registryVars
    /\ UNCHANGED <<tree, runtimeVars, surfaceVars, hold, answerVars>>

(* The second decision, the one the deregistration is atomic with.          *)
ShutdownReclaim(h) ==
    /\ At(h, "reclaim") /\ op[h].rpc = "shutdown"
    /\ LET s == op[h].s
       IN IF Removes(s, op[h].tok)
          THEN /\ ReclaimSlots({s})
               /\ inFlight' = [inFlight EXCEPT ![s] = @ + 1]
               /\ op' = [op EXCEPT ![h].pc = IF slots[s].started THEN "close"
                                             ELSE "tree",
                                   ![h].e = slots[s].id,
                                   ![h].removed = TRUE,
                                   ![h].live = s \in runtimeLive]
               /\ UNCHANGED guard
          ELSE /\ Return(h) /\ Unlock(h)
               /\ UNCHANGED <<registryVars, inFlight>>
    /\ UNCHANGED <<tree, runtimeVars, surfaceVars, hold, unclean, reports>>

(* session_end for a session that reached running, Runtime.Close, and the   *)
(* session leaves the runtime's record whether or not the close succeeded.  *)
CloseRuntime(h) ==
    /\ At(h, "close")
    /\ IF op[h].live THEN SessionEnd(op[h].s) ELSE UNCHANGED opened
    /\ runtimeLive' = runtimeLive \ {op[h].s}
    /\ \E err \in BOOLEAN :
         op' = [op EXCEPT ![h].pc = "tree", ![h].failed = err, ![h].closeErr = err]
    /\ UNCHANGED <<registryVars, guard, tree, ended, ran, surfaceVars, hold,
                   answerVars>>

\* Mutant: every teardown files a report, a session that never ran included.
FinishShutdownReports(h) ==
    /\ At(h, "finish") /\ op[h].rpc = "shutdown"
    /\ CancelPodMCPIfRuntimeIdle
    /\ reports' = [reports EXCEPT ![op[h].e] = @ + 1]
    /\ EndHold(h)
    /\ Goto(h, "record")
    /\ UNCHANGED <<guard, tree, runtimeVars, hold, inFlight, unclean>>

(* A session that reached running files one scrub report.                   *)
FinishShutdown(h) ==
    /\ At(h, "finish") /\ op[h].rpc = "shutdown"
    /\ CancelPodMCPIfRuntimeIdle
    /\ reports' = IF op[h].live THEN [reports EXCEPT ![op[h].e] = @ + 1]
                  ELSE reports
    /\ EndHold(h)
    /\ Goto(h, "record")
    /\ UNCHANGED <<guard, tree, runtimeVars, hold, inFlight, unclean>>

(* A slot that reached running answers on the runtime close alone.          *)
ExitedCleanly(h) ==
    ~op[h].closeErr /\ (op[h].live \/ (op[h].guarded /\ ~op[h].failed))

(* The deferred record of the answer, then of the guard.                    *)
AnswerShutdown(h) ==
    /\ At(h, "record")
    /\ LET s == op[h].s
       IN /\ inFlight' = [inFlight EXCEPT ![s] = @ - 1]
          /\ unclean' = IF ExitedCleanly(h) THEN unclean \ {s}
                        ELSE unclean \cup {s}
    /\ Return(h) /\ Unlock(h)
    /\ UNCHANGED <<registryVars, tree, runtimeVars, surfaceVars, hold, reports>>

-----------------------------------------------------------------------------
(* The coordinator hold: armed when the control stream closes on a pod that *)
(* has started a session, ended by a fence or by its timeout.               *)

ControlStreamClosed ==
    /\ \E s \in Sessions : slots[s].started
    /\ hold' = TRUE
    /\ UNCHANGED <<registryVars, guard, tree, runtimeVars, surfaceVars,
                   answerVars, op>>

(* CoordinatorFence resolves the bound entry, then fences it and ends the   *)
(* hold; the two are separate critical sections.                            *)
CoordinatorFence(h, s) ==
    /\ At(h, "idle") /\ slots[s].bound
    /\ op' = [op EXCEPT ![h] = Call("fence", "fence", s, NoTok)]
    /\ UNCHANGED <<registryVars, guard, tree, runtimeVars, surfaceVars, hold,
                   answerVars>>

FenceExitsHold(h) ==
    /\ At(h, "fence")
    /\ hold' = FALSE
    /\ Return(h)
    /\ UNCHANGED <<registryVars, guard, tree, runtimeVars, surfaceVars,
                   answerVars>>

HoldTimeout(h) ==
    /\ At(h, "idle") /\ hold
    /\ hold' = FALSE
    /\ op' = [op EXCEPT ![h] = [Idle EXCEPT !.rpc = "timeout", !.pc = "end"]]
    /\ UNCHANGED <<registryVars, guard, tree, runtimeVars, surfaceVars,
                   answerVars>>

(* The pod-scope teardown ends the transport before the registry is read.   *)
EndRuntime(h) ==
    /\ At(h, "end")
    /\ ended' = TRUE
    /\ Goto(h, "pass1")
    /\ UNCHANGED <<registryVars, guard, tree, runtimeLive, opened, ran,
                   surfaceVars, hold, answerVars>>

(* The next member of the set, in the order of the identifiers.             *)
NextMember(h, todo) ==
    IF todo = {} THEN Idle
    ELSE LET s == CHOOSE m \in todo : \A n \in todo : m <= n
         IN [Idle EXCEPT !.rpc = "timeout", !.pc = "release", !.s = s,
                                 !.removed = TRUE, !.todo = todo \ {s}]

\* Mutant: pass 1 collects only the sessions on the runtime's record.
DeregisterLive(h) ==
    /\ At(h, "pass1")
    /\ LET members == {s \in Sessions : slots[s].started /\ s \in runtimeLive}
       IN /\ ReclaimSlots(members)
          /\ op' = [op EXCEPT ![h] = NextMember(h, members)]
    /\ UNCHANGED <<guard, tree, runtimeVars, surfaceVars, hold, answerVars>>

(* Pass 1 takes every started entry out in one critical section.            *)
DeregisterStarted(h) ==
    /\ At(h, "pass1")
    /\ LET members == {s \in Sessions : slots[s].started}
       IN /\ ReclaimSlots(members)
          /\ op' = [op EXCEPT ![h] = NextMember(h, members)]
    /\ UNCHANGED <<guard, tree, runtimeVars, surfaceVars, hold, answerVars>>

(* The end of one member's termination; its close and its tree's removal    *)
(* are CloseRuntime and RemoveTree.                                         *)
FinishMember(h) ==
    /\ At(h, "finish") /\ op[h].rpc = "timeout"
    /\ CancelPodMCPIfRuntimeIdle
    /\ EndHold(h)
    /\ op' = [op EXCEPT ![h] = NextMember(h, op[h].todo)]
    /\ Unlock(h)
    /\ UNCHANGED <<tree, runtimeVars, hold, answerVars>>

-----------------------------------------------------------------------------
SlotInit ==
    /\ slots = [s \in Sessions |-> NoEntry]
    /\ reclaiming = {} /\ created = 0
    /\ guard = [s \in Sessions |-> NoHandler]
    /\ tree = [s \in Sessions |-> 0]
    /\ runtimeLive = {} /\ ended = FALSE /\ ran = {}
    /\ opened = [s \in Sessions |-> 0]
    /\ mcpSession = NoSession /\ surface = 0
    /\ hold = FALSE
    /\ inFlight = [s \in Sessions |-> 0] /\ unclean = {}
    /\ reports = [e \in Entries |-> 0]
    /\ op = [h \in Handlers |-> Idle]

BindSteps(h) ==
    \/ TakeGuard(h) \/ GuardTimeout(h) \/ ResolveBind(h) \/ BindWork(h)
StartSteps(h) ==
    \/ ResumeClaim(h) \/ Restore(h) \/ ArmMCP(h) \/ RuntimeStart(h)
    \/ OpenGuard(h) \/ OpenCheck(h) \/ WriteSessionStart(h)
    \/ ConfirmStart(h) \/ RefuseStart(h) \/ StartUnacknowledged(h)
    \/ RollbackStart(h) \/ ReleaseClaim(h) \/ FinishRelease(h)
ReleaseSteps(h) == ReleaseGuard(h) \/ CloseRuntime(h) \/ RemoveTree(h)
ShutdownSteps(h) ==
    \/ ShutdownDecide(h) \/ ShutdownReclaim(h) \/ FinishShutdown(h)
    \/ AnswerShutdown(h)
HoldSteps(h) ==
    \/ FenceExitsHold(h) \/ EndRuntime(h) \/ DeregisterStarted(h)
    \/ FinishMember(h)
HandlerSteps(h) ==
    \/ BindSteps(h) \/ StartSteps(h) \/ ReleaseSteps(h) \/ ShutdownSteps(h)
    \/ HoldSteps(h)

SlotNext ==
    \/ \E h \in Handlers, s \in Sessions :
         \/ \E t \in Tokens \cup {NoTok} : Admit(h, "bind", s, t) \/ Shutdown(h, s, t)
         \/ \E t \in Tokens : Admit(h, "resume", s, t)
         \/ StartSession(h, s) \/ CoordinatorFence(h, s)
    \/ \E s \in Sessions, t \in Tokens : AssignCredentials(s, t)
    \/ \E h \in Handlers : HandlerSteps(h) \/ HoldTimeout(h)
    \/ ControlStreamClosed

SlotSpec == SlotInit /\ [][SlotNext]_vars

-----------------------------------------------------------------------------
(* Properties.                                                              *)

(* Every field of Server and every handler stays in its range; the counts   *)
(* of teardowns in flight and of reports never go below zero                *)
(* (shutdownInFlight).                                                      *)
SlotTypeOK ==
    /\ slots \in [Sessions -> Entry \cup {NoEntry}]
    /\ reclaiming \subseteq Sessions
    /\ created \in 0..MaxEntry
    /\ guard \in [Sessions -> Handlers \cup {NoHandler}]
    /\ tree \in [Sessions -> 0..MaxEntry]
    /\ runtimeLive \subseteq Sessions
    /\ opened \in [Sessions -> 0..MaxEntry]
    /\ ended \in BOOLEAN
    /\ ran \subseteq Entries
    /\ mcpSession \in Sessions \cup {NoSession}
    /\ surface \in 0..MaxEntry
    /\ hold \in BOOLEAN
    /\ inFlight \in [Sessions -> Nat]
    /\ unclean \subseteq Sessions
    /\ reports \in [Entries -> Nat]
    /\ op \in [Handlers -> Op]

-----------------------------------------------------------------------------
(* An identifier that is not held has exactly the tree of its registered    *)
(* entry: no bind is admitted onto the residue of an earlier attempt, and   *)
(* no release or upload of an earlier attempt touches the tree of a later   *)
(* one, even when it goes on without the guard (reclaimSlotLocked,          *)
(* finishSlotRelease, tearDownReclaimedSlot, acquireSlotGuardForResolve).   *)
TreeMatchesRegistry ==
    \A s \in Sessions \ reclaiming : tree[s] = slots[s].id

(* h has taken s out of the registry and has not yet closed its runtime.    *)
Terminates(h, s) ==
    \/ s \in op[h].todo
    \/ op[h].s = s /\ op[h].removed /\ op[h].pc \in {"release", "close"}

(* A session on the runtime's record is the running entry the registry      *)
(* holds, or one whose teardown is about to take it off: a start that lost  *)
(* its entry leaves no record behind (confirmRuntimeStart), so a later      *)
(* attempt's Shutdown never finds an earlier one's record.                  *)
LiveIsRunning ==
    \A s \in runtimeLive :
      slots[s].id \in ran \/ \E h \in Handlers : Terminates(h, s)

(* The session of a running entry is open on the runtime: no session_end of *)
(* an earlier attempt arrives after its session_start (openRuntimeSession,  *)
(* writeSessionEnd).                                                        *)
RunningIsOpened ==
    \A s \in Sessions : slots[s].id \in ran => opened[s] = slots[s].id

(* An entry files at most one scrub report, and only when its start was     *)
(* confirmed (tearDownReclaimedSlot: the gateway counts every report).      *)
OneReportPerRun ==
    \A e \in Entries : reports[e] <= 1 /\ (reports[e] = 1 => e \in ran)

(* After the coordinator hold times out no session runs on: a start that    *)
(* the first pass did not collect finds the transport ended (onHoldTimeout).*)
NoSessionOutlivesHold ==
    \A s \in Sessions :
      ended /\ slots[s].id \in ran => \E h \in Handlers : op[h].pc = "pass1"

(* When the last handler has returned and the registry is empty, no MCP     *)
(* server is left serving a departed session's nonce                        *)
(* (cancelPodMCPIfRuntimeIdle).                                             *)
EmptyPodHasNoSurface ==
    (\A h \in Handlers : At(h, "idle")) /\ (\A s \in Sessions : ~Registered(s))
      => surface = 0 /\ mcpSession = NoSession

(* A pod with a running session has had its MCP start taken: "a claim on a  *)
(* co-tenanted pod finds the surface already accounted for"                 *)
(* (claimPodMCPStartLocked).                                                *)
RunningHasSurface ==
    \A s \in Sessions : slots[s].id \in ran => mcpSession # NoSession

(* The MCP server a claim armed stays while the claim's entry does: no      *)
(* departing session's release, and no later claim, cancels it              *)
(* (claimPodMCPStartLocked, mcpArmingHeldLocked).                           *)
SurfaceStaysWithEntry ==
    [][\A s \in Sessions :
         Registered(s) /\ slots'[s].id = slots[s].id /\ surface = slots[s].id
           => surface' = surface]_vars

(* A rollback removes only the entry of its own claim, Resume's unfenced    *)
(* one included: under its guard the entry may be removed, never replaced.  *)
RollbackRemovesOwnEntry ==
    [][\A h \in Handlers :
         At(h, "reclaim") /\ op'[h].pc = "tree" /\ op[h].rpc \in {"start", "resume"}
           => HoldsClaimEntry(h)]_vars

(* A Shutdown that finds no entry reports a clean exit only when the        *)
(* runtime no longer holds the session, or when the hold timeout, which     *)
(* sets no record, is ending it (nonRemovingExitCleanLocked): the gateway   *)
(* frees the slot on that answer.                                           *)
CleanAbsentIsClosed ==
    [][\A h \in Handlers :
         LET s == op[h].s
         IN op[h].rpc = "shutdown" /\ op[h].pc \in {"decide", "reclaim"}
              /\ op'[h].pc = "idle" /\ ~Registered(s) /\ NonRemovingExitClean(s)
            => s \notin runtimeLive
               \/ \E k \in Handlers : op[k].rpc = "timeout" /\ Terminates(k, s)]_vars
=============================================================================
