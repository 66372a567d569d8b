------------------------- MODULE SlotRegistryProofs --------------------------
(***************************************************************************)
(* The steps that register entries and take them out keep the second       *)
(* invariant of SlotSteps too; and the theorems.                           *)
(***************************************************************************)
EXTENDS SlotSteps

-----------------------------------------------------------------------------
(* The steps that register an entry.                                        *)

\* A resolve that was not refused registers an entry, and the handler that made it, if
\* there is one, goes on with the entry; a claim is of an entry that nobody started, and
\* the pod's MCP start is taken only by a claim on a pod with no other entry.
Joins(h, s, entry) ==
  /\ Dull(op[h]) /\ op'[h].s = s /\ op'[h].e = entry.id
  /\ ~op'[h].removed /\ op'[h].todo = {}
  /\ op'[h].pc \notin {"close", "finish", "record", "confirm"}
  /\ Claimer(op'[h]) => entry.started /\ ~slots[s].started
  /\ Arming(op'[h]) => mcpSession' = s

\* The entry that is registered does not run, and nobody else carries it.
LEMMA RegistersRun ==
  ASSUME RegistryInv, RegistryInv', RunInv, NEW s, NEW entry, Registers(s, entry),
         slots[s].started => entry.started,
         NEW h, Others(h), h \in Handlers => Joins(h, s, entry),
         \/ mcpSession' = mcpSession /\ surface' = surface
         \/ TakesMCP(s) /\ mcpSession' = s /\ surface' = 0,
         UNCHANGED <<runtimeVars, answerVars, hold>>
  PROVE  RunInv'
  <1>. RegistryTypes /\ Handling BY Zenon DEF RegistryInv
  <1>i. /\ RunTypes /\ Tidy /\ Numbers /\ Runs /\ Claims /\ Files /\ Served /\ Counted
    BY Zenon DEF RunInv
  <1>0. /\ hold' = hold /\ inFlight' = inFlight /\ unclean' = unclean /\ reports' = reports
        /\ runtimeLive' = runtimeLive /\ opened' = opened /\ ended' = ended /\ ran' = ran
    BY DEF runtimeVars, answerVars
  <1>s. s \in Sessions BY DEF Registers
  <1>1. /\ slots'[s] = entry /\ \A x \in Sessions \ {s} : slots'[x] = slots[x]
    BY <1>s DEF Registers, Register, RegistryTypes
  <1>2. entry.id \in Entries /\ entry.id \in Nat /\ entry.id # 0 /\ created \in Nat
    BY SlotConstants DEF Registers, Entry, Entries, RegistryTypes
  <1>3. /\ slots[s].id # 0 => entry.id = slots[s].id /\ created' = created
        /\ slots[s].id = 0 => entry.id = created + 1 /\ created' = entry.id
    BY <1>s, EntryFacts DEF Registers, Register
  <1>4. slots[s].id \in Nat /\ slots[s].id <= created BY Zenon, <1>s, <1>i, EntryFacts DEF Numbers
  <1>5. created' \in Nat /\ created <= created' /\ entry.id <= created' BY <1>2, <1>3, <1>4
  <1>6. \A e \in Nat : e <= created /\ e = entry.id => slots[s].id = e BY <1>2, <1>3
  <1>7. /\ \A k \in Handlers : op[k].e \in Nat /\ op[k].e <= created
        /\ \A e \in ran : e \in Nat /\ e <= created
        /\ surface \in Nat /\ surface <= created
    BY <1>i, SlotConstants DEF RegistryTypes, Op, Numbers, RunTypes, Entries
  <1>8. \A k \in Handlers : k # h => op'[k] = op[k] BY Zenon DEF Others
  <1>9. h \in Handlers =>
          /\ Dull(op[h]) /\ op'[h].s = s /\ op'[h].e = entry.id
          /\ Claimer(op'[h]) => entry.started /\ ~slots[s].started
          /\ Arming(op'[h]) => mcpSession' = s
          /\ op'[h].pc # "confirm" /\ Through(op'[h]) /\ ~Reporting(op'[h])
          /\ \A x \in Sessions : ~Tears(op'[h], x)
    BY Zenon DEF Joins, Through, Reporting, Tears
  <1>10. h \in Handlers =>
           /\ op[h].pc # "pass1" /\ \A x \in Sessions : ~Ending(op[h], x) /\ ~Tears(op[h], x)
    BY Zenon, <1>9, DullFacts DEF Handling
  <1>. HIDE DEF Joins, Registers
  <1>11. RunTypes'
    <2>1. mcpSession' \in Sessions \cup {NoSession} /\ surface' \in 0 .. MaxEntry
      BY <1>s, <1>i, SlotConstants DEF RunTypes
    <2>. QED BY <1>0, <1>i, <2>1 DEF RunTypes
  <1>12. Tidy' BY Zenon, <1>8, <1>9, <1>i DEF Tidy
  <1>13. Counted' BY Zenon, <1>0, <1>9, <1>10, <1>i, CountedSame
  <1>14. \A x, y \in Sessions : slots'[x].id = slots'[y].id /\ slots'[x].id # 0 => x = y
    <2>1. ASSUME NEW x \in Sessions \ {s}, slots'[x].id = entry.id PROVE FALSE
      <3>1. slots[x].id = entry.id /\ slots[x].id <= created BY Zenon, <1>1, <1>i, <2>1 DEF Numbers
      <3>2. slots[s].id = slots[x].id BY Zenon, <1>2, <1>6, <3>1
      <3>. QED BY Zenon, <1>2, <1>i, <1>s, <2>1, <3>1, <3>2 DEF Numbers
    <2>2. \A x, y \in Sessions : slots[x].id = slots[y].id /\ slots[x].id # 0 => x = y
      BY Zenon, <1>i DEF Numbers
    <2>3. \A x \in Sessions : x = s \/ slots'[x] = slots[x] BY Zenon, <1>1
    <2>4. \A x \in Sessions : x = s \/ slots'[x].id # entry.id BY Zenon, <2>1
    <2>. QED BY ONLY <1>1, <2>2, <2>3, <2>4
  <1>15. \A k \in Handlers, x \in Sessions :
           k # h /\ slots'[x].id = op[k].e /\ op[k].e # 0 => slots[x].id = op[k].e /\ x = op[k].s
    <2>. SUFFICES ASSUME NEW k \in Handlers, NEW x \in Sessions, slots'[x].id = op[k].e,
                         op[k].e # 0
                  PROVE  slots[x].id = op[k].e /\ x = op[k].s
      OBVIOUS
    <2>1. slots[x].id = op[k].e
      <3>1. CASE x = s BY Zenon, <1>1, <1>6, <1>7, <3>1
      <3>2. CASE x # s BY Zenon, <1>1, <3>2
      <3>. QED BY <3>1, <3>2
    <2>. QED BY Zenon, <2>1, <1>i DEF Numbers
  <1>16. Numbers'
    <2>1. \A x \in Sessions : slots'[x].id <= created'
      <3>1. \A x \in Sessions \ {s} : slots[x].id \in Nat /\ slots[x].id <= created
        BY Zenon, <1>i, EntryFacts DEF Numbers
      <3>. QED BY <1>1, <1>2, <1>5, <3>1
    <2>2. \A k \in Handlers : op'[k].e <= created'
      <3>1. \A k \in Handlers : op'[k].e = op[k].e \/ op'[k].e = entry.id BY Zenon, <1>8, <1>9
      <3>. QED BY <1>2, <1>5, <1>7, <3>1
    <2>3. \A e \in ran' : e <= created' BY <1>0, <1>2, <1>5, <1>7
    <2>4. surface' <= created' BY <1>2, <1>5, <1>7
    <2>5. \A e \in Entries : e > created' => reports'[e] = 0
      BY <1>0, <1>2, <1>5, <1>i DEF Numbers, Entries
    <2>6. \A k \in Handlers, x \in Sessions :
            slots'[x].id = op'[k].e /\ op'[k].e # 0 => x = op'[k].s
      <3>. SUFFICES ASSUME NEW k \in Handlers, NEW x \in Sessions, slots'[x].id = op'[k].e,
                           op'[k].e # 0
                    PROVE  x = op'[k].s
        OBVIOUS
      <3>1. CASE k = h
        <4>1. op'[k].s = s /\ slots'[s].id = slots'[x].id BY Zenon, <1>1, <1>9, <3>1
        <4>. QED BY Zenon, <1>14, <1>s, <4>1
      <3>2. CASE k # h
        <4>1. op'[k] = op[k] BY Zenon, <1>8, <3>2
        <4>. QED BY Zenon, <1>15, <3>2, <4>1
      <3>. QED BY <3>1, <3>2
    <2>. QED BY Zenon, <1>14, <2>1, <2>2, <2>3, <2>4, <2>5, <2>6 DEF Numbers
  <1>17. \A x \in Sessions : slots'[x].id \in ran =>
           slots[x].id \in ran /\ slots[x].id = slots'[x].id /\ (slots[x].started => slots'[x].started)
    <2>1. entry.id \in ran => slots[s].id = entry.id BY Zenon, <1>6, <1>7
    <2>. QED BY Zenon, <1>1, <2>1
  <1>18. \A k \in Handlers : op[k].pc = "pass1" => op'[k].pc = "pass1" BY Zenon, <1>8, <1>10
  <1>19. Runs'
    <2>1. \A x \in Sessions :
            slots'[x].id \in ran' => slots'[x].started /\ opened'[x] = slots'[x].id
      BY Zenon, <1>0, <1>17, <1>i DEF Runs
    <2>2. \A x \in runtimeLive' : slots'[x].id \in ran' \/ \E k \in Handlers : Ending(op'[k], x)
      <3>1. 0 \notin ran BY <1>i DEF RunTypes, Entries
      <3>2. \A x \in Sessions : slots[x].id \in ran => slots'[x].id = slots[x].id
        BY Zenon, <1>1, <1>3, <3>1
      <3>3. \A x \in Sessions, k \in Handlers : Ending(op[k], x) => Ending(op'[k], x)
        BY Zenon, <1>8, <1>10
      <3>4. \A x \in runtimeLive : x \in Sessions BY Zenon, <1>i DEF RunTypes
      <3>. QED BY Zenon, <1>0, <1>i, <3>2, <3>3, <3>4 DEF Runs
    <2>3. \A x \in Sessions :
            ended' /\ slots'[x].id \in ran' => \E k \in Handlers : op'[k].pc = "pass1"
      BY Zenon, <1>0, <1>17, <1>18, <1>i DEF Runs
    <2>. QED BY Zenon, <2>1, <2>2, <2>3 DEF Runs
  <1>20. \A k \in Handlers : Claimer(op[k]) \/ Arming(op[k]) \/ op[k].pc = "confirm" =>
           op[k].s \in Sessions /\ op[k].e # 0
    BY ZenonT(30) DEF Handling, Coherent, Places, Removals, Arming, Claimer, Opening
  <1>21. Claims'
    <2>1. ASSUME NEW k \in Handlers, Claimer(op'[k])
          PROVE  /\ op'[k].e \notin ran'
                 /\ slots'[op'[k].s].id = op'[k].e => slots'[op'[k].s].started
      <3>1. CASE k = h
        <4>1. entry.started /\ ~slots[s].started /\ op'[k].s = s /\ op'[k].e = entry.id
          BY Zenon, <1>9, <2>1, <3>1
        <4>2. entry.id \notin ran BY Zenon, <1>1, <1>17, <1>i, <1>s, <4>1 DEF Runs
        <4>. QED BY Zenon, <1>0, <1>1, <4>1, <4>2
      <3>2. CASE k # h
        <4>1. op'[k] = op[k] /\ Claimer(op[k]) /\ op[k].s \in Sessions /\ op[k].e # 0
          BY Zenon, <1>8, <1>20, <2>1, <3>2
        <4>2. slots'[op[k].s].id = op[k].e => slots[op[k].s].id = op[k].e
          BY Zenon, <1>15, <3>2, <4>1
        <4>3. slots[op[k].s].started => slots'[op[k].s].started BY Zenon, <1>1, <4>1
        <4>. QED BY Zenon, <1>0, <1>i, <4>1, <4>2, <4>3 DEF Claims
      <3>. QED BY ZenonT(30), <3>1, <3>2
    <2>2. ASSUME NEW k \in Handlers \ {h}, h \in Handlers, Claimer(op'[h]), Claimer(op'[k]),
                 op'[h].e = op'[k].e
          PROVE  FALSE
      <3>1. op'[k] = op[k] /\ Claimer(op[k]) /\ op[k].s \in Sessions /\ op[k].e # 0
        BY Zenon, <1>8, <1>20, <2>2
      <3>2. ~slots[s].started /\ op[k].e = entry.id BY Zenon, <1>9, <2>2, <3>1
      <3>3. slots[s].id = op[k].e /\ s = op[k].s BY Zenon, <1>1, <1>15, <1>s, <2>2, <3>1, <3>2
      <3>. QED BY Zenon, <1>i, <3>1, <3>2, <3>3 DEF Claims
    <2>3. \A j, k \in Handlers :
            Claimer(op'[j]) /\ Claimer(op'[k]) /\ op'[j].e = op'[k].e => j = k
      BY <1>8, <1>i, <2>2 DEF Claims
    <2>4. ASSUME NEW k \in Handlers, op'[k].pc = "confirm", slots'[op'[k].s].id = op'[k].e
          PROVE  /\ opened'[op'[k].s] = op'[k].e
                 /\ ended' => \E j \in Handlers : op'[j].pc = "pass1"
      <3>1. k # h /\ op'[k] = op[k] BY Zenon, <1>8, <1>9, <2>4
      <3>2. op[k].s \in Sessions /\ op[k].e # 0 BY Zenon, <1>20, <2>4, <3>1
      <3>3. slots[op[k].s].id = op[k].e BY Zenon, <1>15, <2>4, <3>1, <3>2
      <3>. QED BY Zenon, <1>0, <1>18, <1>i, <2>4, <3>1, <3>3 DEF Claims
    <2>. QED BY Zenon, <2>1, <2>3, <2>4 DEF Claims
  <1>22. Files'
    <2>1. \A k \in Handlers : Reporting(op'[k]) => k # h /\ op'[k] = op[k]
      BY Zenon, <1>8, <1>9
    <2>2. \A x \in Sessions : slots'[x].id # 0 => reports'[slots'[x].id] = 0
      <3>1. reports[entry.id] = 0
        <4>1. CASE slots[s].id # 0 BY Zenon, <1>3, <1>i, <1>s, <4>1 DEF Files
        <4>2. CASE slots[s].id = 0
          <5>1. entry.id > created BY <1>2, <1>3, <4>2
          <5>. QED BY Zenon, <1>2, <1>i, <5>1 DEF Numbers
        <4>. QED BY ZenonT(30), <4>1, <4>2
      <3>. QED BY Zenon, <1>0, <1>1, <1>i, <3>1 DEF Files
    <2>3. ASSUME NEW k \in Handlers, Reporting(op'[k])
          PROVE  /\ op'[k].e # 0 /\ \A x \in Sessions : slots'[x].id # op'[k].e
                 /\ op'[k].live => op'[k].e \in ran' /\ reports'[op'[k].e] = 0
      <3>1. k # h /\ op'[k] = op[k] BY Zenon, <2>1, <2>3
      <3>2. Reporting(op[k]) BY Zenon, <2>3, <3>1
      <3>3. /\ op[k].e # 0 /\ \A x \in Sessions : slots[x].id # op[k].e
            /\ op[k].live => op[k].e \in ran /\ reports[op[k].e] = 0
        BY Zenon, <1>i, <3>2 DEF Files
      <3>. QED BY ONLY Zenon, <1>0, <1>15, <3>1, <3>3
    <2>4. \A j, k \in Handlers :
            Reporting(op'[j]) /\ Reporting(op'[k]) /\ op'[j].e = op'[k].e => j = k
      BY Zenon, <1>i, <2>1 DEF Files
    <2>. QED BY Zenon, <1>0, <1>i, <2>2, <2>3, <2>4 DEF Files
  <1>23. Served'
    <2>1. \E x \in Sessions : slots'[x].id # 0 BY Zenon, <1>1, <1>2, <1>s
    <2>2. ASSUME NEW x \in Sessions, slots'[x].id # 0, surface' = slots'[x].id
          PROVE  mcpSession' = x
      <3>1. mcpSession' = mcpSession /\ surface' = surface BY Zenon, <2>2
      <3>2. slots[x].id = surface
        <4>1. CASE x = s BY Zenon, <1>1, <1>6, <1>7, <2>2, <3>1, <4>1
        <4>2. CASE x # s BY Zenon, <1>1, <2>2, <3>1, <4>2
        <4>. QED BY <4>1, <4>2
      <3>. QED BY Zenon, <1>i, <2>2, <3>1, <3>2 DEF Served
    <2>3. ASSUME NEW k \in Handlers, Arming(op'[k]), slots'[op'[k].s].id = op'[k].e
          PROVE  mcpSession' = op'[k].s
      <3>1. CASE k = h BY Zenon, <1>9, <2>3, <3>1
      <3>2. CASE k # h
        <4>1. op'[k] = op[k] /\ op[k].s \in Sessions /\ op[k].e # 0
          BY Zenon, <1>8, <1>20, <2>3, <3>2
        <4>2. slots[op[k].s].id = op[k].e BY Zenon, <1>15, <2>3, <3>2, <4>1
        <4>3. mcpSession = op[k].s BY Zenon, <1>i, <2>3, <4>1, <4>2 DEF Served
        <4>4. TakesMCP(s) => op[k].s = s BY <4>1, <4>2, EntryFacts DEF TakesMCP
        <4>. QED BY Zenon, <4>1, <4>3, <4>4
      <3>. QED BY <3>1, <3>2
    <2>. QED BY Zenon, <2>1, <2>2, <2>3 DEF Served
  <1>. QED BY Zenon, <1>11, <1>12, <1>13, <1>16, <1>19, <1>21, <1>22, <1>23 DEF RunInv

\* A bind or an AssignCredentials that resolves its entry.
LEMMA BindRegisters ==
  ASSUME RegistryInv, RegistryInv', RunInv,
         \/ \E h \in Handlers : ResolveBind(h) /\ ~(Return(h) /\ UNCHANGED registryVars)
         \/ \E s \in Sessions, t \in Tokens : AssignCredentials(s, t)
  PROVE  RunInv'
  <1>. RegistryTypes BY Zenon DEF RegistryInv
  <1>1. ASSUME NEW s \in Sessions, NEW t \in Tokens \cup {NoTok}, s \notin reclaiming,
               Registered(s) \/ created # MaxEntry
        PROVE  /\ slots[s].started => Resolved(s, t).started
               /\ slots[s].started => [Resolved(s, t) EXCEPT !.bound = TRUE].started
    <2>1. slots[s].started => Resolved(s, t) = slots[s] BY <1>1, EntryFacts DEF Resolved
    <2>2. Resolved(s, t) \in Entry BY ZenonT(30), <1>1, ResolvedEntry
    <2>. QED BY ONLY <2>1, <2>2 DEF Entry
  <1>2. ASSUME NEW h \in Handlers, ResolveBind(h), ~(Return(h) /\ UNCHANGED registryVars)
        PROVE  RunInv'
    <2>. DEFINE s == op[h].s
                t == op[h].tok
                mid == t = NoTok
                entry == Resolved(s, t)
    <2>. USE HandlerFacts
    <2>0. s \in Sessions /\ t \in Tokens \cup {NoTok} /\ op[h].pc = "resolve"
      BY <1>2 DEF ResolveBind, At, Op
    <2>2. ~Refused(s, t, ~mid, mid) BY Zenon, <1>2 DEF ResolveBind
    <2>3. s \notin reclaiming /\ (Registered(s) \/ created # MaxEntry) BY Zenon, <2>2 DEF Refused
    <2>4. /\ entry \in Entry /\ entry.id \in 1 .. MaxEntry
          /\ IF Registered(s) THEN entry.id = slots[s].id ELSE entry.id = created + 1
      BY Zenon, <2>0, <2>3, ResolvedEntry
    <2>5. Registers(s, entry) BY <1>2, <2>0, <2>2, <2>3, <2>4 DEF ResolveBind, Registers
    <2>6. /\ op' = [op EXCEPT ![h] = [op[h] EXCEPT !.pc = "work", !.e = entry.id]]
          /\ UNCHANGED <<runtimeVars, surfaceVars, hold, answerVars>>
      BY Zenon, <1>2, <2>2 DEF ResolveBind
    <2>7. slots[s].started => entry.started BY Zenon, <1>1, <2>0, <2>3
    <2>. HIDE DEF entry
    <2>8. Others(h) /\ op'[h] = [op[h] EXCEPT !.pc = "work", !.e = entry.id]
      BY <2>6 DEF Others, RegistryTypes
    <2>9. /\ op'[h].pc = "work" /\ op'[h].s = s /\ op'[h].e = entry.id
          /\ op'[h].removed = op[h].removed /\ op'[h].todo = op[h].todo
      BY <2>8 DEF Op
    <2>10. Dull(op[h]) /\ ~op[h].removed /\ op[h].todo = {} BY ZenonT(30), <2>0 DEF Dull, Removals
    <2>11. Joins(h, s, entry)
      BY ZenonT(30), <2>9, <2>10 DEF Joins, Claimer, Opening, Arming
    <2>12. mcpSession' = mcpSession /\ surface' = surface BY <2>6 DEF surfaceVars
    <2>. QED BY Zenon, <2>5, <2>6, <2>7, <2>8, <2>11, <2>12, RegistersRun
  <1>3. ASSUME NEW s \in Sessions, NEW t \in Tokens, AssignCredentials(s, t) PROVE RunInv'
    <2>. DEFINE entry == [Resolved(s, t) EXCEPT !.bound = TRUE]
    <2>1. s \notin reclaiming /\ (Registered(s) \/ created # MaxEntry)
      BY Zenon, <1>3 DEF AssignCredentials, Refused
    <2>2. /\ entry \in Entry
          /\ IF Registered(s) THEN entry.id = slots[s].id ELSE entry.id = created + 1
      BY Zenon, <2>1, ResolvedEntry
    <2>3. Registers(s, entry) BY <1>3, <2>1, <2>2 DEF Registers, AssignCredentials
    <2>4. slots[s].started => entry.started BY Zenon, <1>1, <2>1
    <2>5. Others(NoHandler) /\ NoHandler \notin Handlers
      BY <1>3, SlotConstants DEF AssignCredentials, Others
    <2>6. UNCHANGED <<runtimeVars, answerVars, hold>> /\ mcpSession' = mcpSession /\ surface' = surface
      BY <1>3 DEF AssignCredentials, surfaceVars
    <2>. HIDE DEF entry
    <2>. QED BY Zenon, <2>3, <2>4, <2>5, <2>6, RegistersRun
  <1>. QED BY Zenon, <1>2, <1>3

\* The claim of a start or of a resume.
LEMMA ClaimRun ==
  ASSUME RegistryInv, RegistryInv', RunInv, NEW h \in Handlers, NEW s \in Sessions,
         NEW t \in Tokens \cup {NoTok}, NEW rpc \in {"start", "resume"}, Claim(h, rpc, s, t),
         ~Refused(s, t, TRUE, FALSE), Dull(op[h]), UNCHANGED <<runtimeVars, answerVars, hold>>
  PROVE  RunInv'
  <1>. RegistryTypes BY Zenon DEF RegistryInv
  <1>. DEFINE entry == [Resolved(s, t) EXCEPT !.bound = TRUE, !.started = TRUE]
              p == IF rpc = "resume" THEN "restore" ELSE IF TakesMCP(s) THEN "arm" ELSE "run"
              m == TakesMCP(s)
              o == [Call(rpc, p, s, t) EXCEPT !.e = Resolved(s, t).id, !.arm = m]
  <1>1. s \notin reclaiming /\ (Registered(s) \/ created # MaxEntry) /\ ~slots[s].started
    BY ZenonT(30), EntryFacts DEF Refused
  <1>2. /\ entry \in Entry /\ entry.id = Resolved(s, t).id
        /\ IF Registered(s) THEN entry.id = slots[s].id ELSE entry.id = created + 1
    BY Zenon, <1>1, ResolvedEntry
  <1>3. Registers(s, entry) BY <1>1, <1>2 DEF Registers, Claim
  <1>4. op' = [op EXCEPT ![h] = o] /\ mcpSession' = (IF m THEN s ELSE mcpSession)
        /\ surface' = IF m THEN 0 ELSE surface
    BY Zenon DEF Claim
  <1>5. p \in {"restore", "arm", "run"} /\ (p = "arm" => m) BY ONLY DEF p, m
  <1>6. entry.started
    <2>1. Resolved(s, t) \in Entry BY Zenon, <1>1, ResolvedEntry
    <2>. QED BY ONLY <2>1 DEF Entry, entry
  <1>. HIDE DEF entry, p, m
  <1>7. /\ o.pc = p /\ o.s = s /\ o.removed = FALSE /\ o.todo = {}
        /\ o.e = Resolved(s, t).id /\ o.arm = m
    BY DEF Call, Idle
  <1>. HIDE DEF o
  <1>8. Others(h) /\ op'[h] = o BY <1>4 DEF Others, RegistryTypes
  <1>9. Joins(h, s, entry)
    <2>1. Arming(o) => m BY ZenonT(30), <1>5, <1>7 DEF Arming
    <2>. QED BY ZenonT(30), <1>1, <1>2, <1>4, <1>5, <1>6, <1>7, <1>8, <2>1 DEF Joins
  <1>10. \/ mcpSession' = mcpSession /\ surface' = surface
         \/ TakesMCP(s) /\ mcpSession' = s /\ surface' = 0
    BY <1>4 DEF m
  <1>. QED BY Zenon, <1>3, <1>6, <1>8, <1>9, <1>10, RegistersRun

\* StartSession, and a resume that claims.
LEMMA StartRun ==
  ASSUME RegistryInv, RegistryInv', RunInv, NEW h \in Handlers,
         \/ \E s \in Sessions : StartSession(h, s)
         \/ ResumeClaim(h) /\ ~(Return(h) /\ UNCHANGED <<registryVars, surfaceVars>>)
  PROVE  RunInv'
  <1>1. ASSUME NEW s \in Sessions, StartSession(h, s) PROVE RunInv'
    <2>1. Dull(op[h]) BY Zenon, <1>1 DEF StartSession, At, Dull
    <2>2. /\ ~Refused(s, NoTok, TRUE, FALSE) /\ Claim(h, "start", s, NoTok)
          /\ UNCHANGED <<runtimeVars, answerVars, hold>>
      BY Zenon, <1>1 DEF StartSession
    <2>. QED BY Zenon, <2>1, <2>2, ClaimRun
  <1>2. ASSUME ResumeClaim(h), ~(Return(h) /\ UNCHANGED <<registryVars, surfaceVars>>)
        PROVE  RunInv'
    <2>1. Dull(op[h]) /\ op[h].pc = "resolve" BY Zenon, <1>2 DEF ResumeClaim, At, Dull
    <2>2. op[h].s \in Sessions /\ op[h].tok \in Tokens \cup {NoTok}
      BY ZenonT(30), <2>1, HandlerFacts DEF Op
    <2>3. /\ ~Refused(op[h].s, op[h].tok, TRUE, FALSE) /\ Claim(h, "resume", op[h].s, op[h].tok)
          /\ UNCHANGED <<runtimeVars, answerVars, hold>>
      BY Zenon, <1>2 DEF ResumeClaim
    <2>. QED BY Zenon, <2>1, <2>2, <2>3, ClaimRun
  <1>. QED BY Zenon, <1>1, <1>2

-----------------------------------------------------------------------------
(* The steps that take entries out.                                         *)

\* h takes the entries of S out: it goes on to close every one that runs, reports one
\* at most, and will look at the surface; a first pass takes out every started one.
Leaves(h, S) ==
  /\ S \subseteq Sessions /\ ReclaimSlots(S) /\ \A x \in S : slots[x].id # 0
  /\ Others(h) /\ Closing(op[h], op'[h]) /\ Through(op'[h])
  /\ \/ op'[h].e = 0
     \/ op'[h].e = op[h].e /\ op'[h].s = op[h].s
     \/ op'[h].s \in S /\ op'[h].e = slots[op'[h].s].id
  /\ \A x \in S : slots[x].id \in ran => Ending(op'[h], x)
  /\ op[h].pc = "pass1" => \A x \in Sessions : slots[x].started => x \in S
  /\ ~Claimer(op'[h]) /\ ~Arming(op'[h]) /\ op'[h].pc # "confirm"
  /\ Reporting(op'[h]) => /\ op'[h].s \in S /\ op'[h].e = slots[op'[h].s].id
                          /\ op'[h].live => op'[h].s \in runtimeLive
  /\ Ends(op[h]) \/ S # {} => Ends(op'[h])

\* What is taken out stays with the handler that took it.
LEMMA LeavesRun ==
  ASSUME RegistryInv, RegistryInv', RunInv, NEW h \in Handlers, NEW S, Leaves(h, S),
         UNCHANGED <<runtimeVars, surfaceVars, hold, unclean, reports>>,
         inFlight' \in [Sessions -> Nat], Counted'
  PROVE  RunInv'
  <1>. RegistryTypes /\ Handling /\ Held BY Zenon DEF RegistryInv
  <1>i. /\ RunTypes /\ Tidy /\ Numbers /\ Runs /\ Claims /\ Files /\ Served
    BY Zenon DEF RunInv
  <1>0. /\ hold' = hold /\ unclean' = unclean /\ reports' = reports
        /\ runtimeLive' = runtimeLive /\ opened' = opened /\ ended' = ended /\ ran' = ran
        /\ mcpSession' = mcpSession /\ surface' = surface
    BY DEF runtimeVars, surfaceVars
  <1>1. /\ \A x \in S : slots'[x].id = 0
        /\ \A x \in Sessions : x \notin S => slots'[x] = slots[x]
        /\ created' = created /\ S \subseteq Sessions
    BY ZenonT(30) DEF Leaves, ReclaimSlots, NoEntry
  <1>2. \A x \in Sessions : slots'[x].id # 0 => x \notin S /\ slots'[x] = slots[x] BY Zenon, <1>1
  <1>3. \A k \in Handlers : k # h => op'[k] = op[k] BY Zenon DEF Leaves, Others
  <1>4. /\ ~Claimer(op'[h]) /\ ~Arming(op'[h]) /\ op'[h].pc # "confirm" /\ Through(op'[h])
        /\ Ends(op[h]) \/ S # {} => Ends(op'[h])
        /\ \A x \in S : slots[x].id # 0 /\ (slots[x].id \in ran => Ending(op'[h], x))
        /\ op[h].pc = "pass1" => \A x \in Sessions : slots[x].started => x \in S
        /\ Reporting(op'[h]) => /\ op'[h].s \in S /\ op'[h].e = slots[op'[h].s].id
                                /\ op'[h].live => op'[h].s \in runtimeLive
        /\ \A x \in Sessions : Ending(op[h], x) => Ending(op'[h], x)
    BY Zenon DEF Leaves, Closing
  <1>5. \/ op'[h].e = 0
        \/ op'[h].e = op[h].e /\ op'[h].s = op[h].s
        \/ op'[h].s \in S /\ op'[h].e = slots[op'[h].s].id
    BY Zenon DEF Leaves
  <1>. HIDE DEF Leaves
  <1>6. 0 \notin ran /\ created \in Nat BY <1>i, SlotConstants DEF RunTypes, Entries, RegistryTypes
  <1>7. RunTypes' BY <1>0, <1>i DEF RunTypes
  <1>8. Tidy' BY Zenon, <1>3, <1>4, <1>i DEF Tidy
  <1>9. Numbers'
    <2>1. \A x \in Sessions : slots'[x].id <= created'
      <3>1. \A x \in Sessions : slots[x].id <= created BY Zenon, <1>i DEF Numbers
      <3>. QED BY <1>1, <1>6, <3>1
    <2>2. \A k \in Handlers : op'[k].e <= created'
      <3>0. op[h].e <= created /\ \A x \in Sessions : slots[x].id <= created
        BY Zenon, <1>i DEF Numbers
      <3>1. op'[h].e <= created BY ONLY <1>1, <1>5, <1>6, <3>0
      <3>. QED BY Zenon, <1>1, <1>3, <1>i, <3>1 DEF Numbers
    <2>3. \A x, y \in Sessions : slots'[x].id = slots'[y].id /\ slots'[x].id # 0 => x = y
      <3>1. \A x, y \in Sessions : slots[x].id = slots[y].id /\ slots[x].id # 0 => x = y
        BY Zenon, <1>i DEF Numbers
      <3>2. \A x \in Sessions : slots'[x].id = 0 \/ slots'[x].id = slots[x].id BY Zenon, <1>2
      <3>. QED BY ONLY ZenonT(30), <3>1, <3>2
    <2>4. ASSUME NEW k \in Handlers, NEW x \in Sessions, slots'[x].id = op'[k].e, op'[k].e # 0
          PROVE  x = op'[k].s
      <3>1. x \notin S /\ slots[x].id = op'[k].e BY Zenon, <1>2, <2>4
      <3>2. CASE k = h
        <4>1. CASE op'[h].s \in S /\ op'[h].e = slots[op'[h].s].id
          BY <1>1, <1>i, <2>4, <3>1, <3>2, <4>1 DEF Numbers
        <4>2. CASE op'[h].e = op[h].e /\ op'[h].s = op[h].s
          BY Zenon, <1>i, <2>4, <3>1, <3>2, <4>2 DEF Numbers
        <4>. QED BY Zenon, <1>5, <2>4, <3>2, <4>1, <4>2
      <3>3. CASE k # h BY Zenon, <1>3, <1>i, <2>4, <3>1, <3>3 DEF Numbers
      <3>. QED BY <3>2, <3>3
    <2>. QED BY Zenon, <1>0, <1>1, <1>i, <2>1, <2>2, <2>3, <2>4 DEF Numbers
  <1>10. \A x \in S : x \in runtimeLive => slots[x].id \in ran
    <2>. SUFFICES ASSUME NEW x \in S, x \in runtimeLive, NEW k \in Handlers, Ending(op[k], x)
                  PROVE  FALSE
      BY Zenon, <1>i DEF Runs
    <2>1. Coherent(op[k]) /\ x \in Sessions BY Zenon, <1>1 DEF Handling
    <2>2. Removing(op[k], x) BY <2>1 DEF Ending, Removing
    <2>3. slots[x].id = 0 BY Zenon, <2>1, <2>2 DEF Held
    <2>. QED BY Zenon, <1>4, <2>3
  <1>11. \A x \in Sessions : slots'[x].id # 0 /\ slots[x].started =>
           \A k \in Handlers : op[k].pc = "pass1" => op'[k].pc = "pass1"
    BY Zenon, <1>2, <1>3, <1>4
  <1>12. Runs'
    <2>1. \A x \in Sessions :
            slots'[x].id \in ran' => slots'[x].started /\ opened'[x] = slots'[x].id
      BY Zenon, <1>0, <1>2, <1>6, <1>i DEF Runs
    <2>2. \A x \in runtimeLive' : slots'[x].id \in ran' \/ \E k \in Handlers : Ending(op'[k], x)
      <3>1. \A x \in Sessions, k \in Handlers : Ending(op[k], x) => Ending(op'[k], x)
        BY Zenon, <1>3, <1>4
      <3>2. \A x \in runtimeLive : x \in Sessions BY Zenon, <1>i DEF RunTypes
      <3>3. \A x \in runtimeLive : x \in S => Ending(op'[h], x) BY Zenon, <1>4, <1>10
      <3>. QED BY Zenon, <1>0, <1>1, <1>i, <3>1, <3>2, <3>3 DEF Runs
    <2>3. ASSUME NEW x \in Sessions, ended', slots'[x].id \in ran'
          PROVE  \E k \in Handlers : op'[k].pc = "pass1"
      <3>1. slots'[x].id # 0 /\ slots[x].id \in ran BY Zenon, <1>0, <1>2, <1>6, <2>3
      <3>2. slots[x].started /\ \E k \in Handlers : op[k].pc = "pass1"
        BY Zenon, <1>0, <1>i, <2>3, <3>1 DEF Runs
      <3>. QED BY Zenon, <1>11, <3>1, <3>2
    <2>. QED BY Zenon, <2>1, <2>2, <2>3 DEF Runs
  <1>13. \A k \in Handlers : Claimer(op[k]) \/ Arming(op[k]) \/ op[k].pc = "confirm" =>
           /\ op[k].s \in Sessions /\ op[k].e # 0
           /\ op[k].pc = "confirm" => Claimer(op[k])
    BY ZenonT(30) DEF Handling, Coherent, Places, Removals, Arming, Claimer, Opening
  <1>14. \A k \in Handlers : Claimer(op'[k]) \/ Arming(op'[k]) \/ op'[k].pc = "confirm" =>
           /\ k # h /\ op'[k] = op[k] /\ op[k].s \in Sessions
           /\ slots'[op[k].s].id = op[k].e =>
                slots'[op[k].s].id # 0 /\ slots'[op[k].s] = slots[op[k].s]
    BY Zenon, <1>2, <1>3, <1>4, <1>13
  <1>15. Claims'
    <2>1. \A k \in Handlers :
            Claimer(op'[k]) => /\ op'[k].e \notin ran'
                               /\ slots'[op'[k].s].id = op'[k].e => slots'[op'[k].s].started
      BY Zenon, <1>0, <1>14, <1>i DEF Claims
    <2>2. \A j, k \in Handlers :
            Claimer(op'[j]) /\ Claimer(op'[k]) /\ op'[j].e = op'[k].e => j = k
      BY Zenon, <1>14, <1>i DEF Claims
    <2>3. ASSUME NEW k \in Handlers, op'[k].pc = "confirm", slots'[op'[k].s].id = op'[k].e
          PROVE  /\ opened'[op'[k].s] = op'[k].e
                 /\ ended' => \E j \in Handlers : op'[j].pc = "pass1"
      <3>1. /\ op'[k] = op[k] /\ op[k].s \in Sessions /\ slots'[op[k].s].id # 0
            /\ slots[op[k].s].id = op[k].e
        BY Zenon, <1>14, <2>3
      <3>2. Claimer(op[k]) /\ slots[op[k].s].started BY Zenon, <1>13, <1>i, <2>3, <3>1 DEF Claims
      <3>3. /\ opened[op[k].s] = op[k].e /\ (ended => \E j \in Handlers : op[j].pc = "pass1")
        BY Zenon, <1>i, <2>3, <3>1 DEF Claims
      <3>. QED BY Zenon, <1>0, <1>11, <3>1, <3>2, <3>3
    <2>. QED BY Zenon, <2>1, <2>2, <2>3 DEF Claims
  <1>16. Files'
    <2>1. \A x \in Sessions : slots'[x].id # 0 => reports'[slots'[x].id] = 0
      BY Zenon, <1>0, <1>2, <1>i DEF Files
    <2>2. ASSUME NEW k \in Handlers, Reporting(op'[k])
          PROVE  /\ op'[k].e # 0 /\ \A x \in Sessions : slots'[x].id # op'[k].e
                 /\ op'[k].live => op'[k].e \in ran' /\ reports'[op'[k].e] = 0
      <3>1. CASE k = h
        <4>1. /\ op'[h].s \in S /\ op'[h].s \in Sessions /\ op'[h].e = slots[op'[h].s].id
              /\ op'[h].e # 0 /\ (op'[h].live => op'[h].s \in runtimeLive)
          BY Zenon, <1>1, <1>4, <2>2, <3>1
        <4>2. \A x \in Sessions : slots'[x].id # op'[h].e
          <5>1. \A x, y \in Sessions : slots[x].id = slots[y].id /\ slots[x].id # 0 => x = y
            BY Zenon, <1>i DEF Numbers
          <5>. SUFFICES ASSUME NEW x \in Sessions, slots'[x].id = op'[h].e PROVE FALSE OBVIOUS
          <5>2. x \notin S /\ slots[x].id = op'[h].e BY Zenon, <1>2, <4>1
          <5>. QED BY Zenon, <4>1, <5>1, <5>2
        <4>3. op'[h].live => op'[h].e \in ran' /\ reports'[op'[h].e] = 0
          BY Zenon, <1>0, <1>10, <1>i, <4>1 DEF Files
        <4>. QED BY Zenon, <3>1, <4>1, <4>2, <4>3
      <3>2. CASE k # h
        <4>1. op'[k] = op[k] /\ Reporting(op[k]) BY Zenon, <1>3, <2>2, <3>2
        <4>2. /\ op[k].e # 0 /\ \A x \in Sessions : slots[x].id # op[k].e
              /\ op[k].live => op[k].e \in ran /\ reports[op[k].e] = 0
          BY Zenon, <1>i, <4>1 DEF Files
        <4>. QED BY Zenon, <1>0, <1>2, <4>1, <4>2
      <3>. QED BY ZenonT(30), <3>1, <3>2
    <2>3. ASSUME NEW k \in Handlers, k # h, Reporting(op'[h]), Reporting(op'[k]),
                 op'[h].e = op'[k].e
          PROVE  FALSE
      <3>1. op'[k] = op[k] /\ Reporting(op[k]) BY Zenon, <1>3, <2>3
      <3>2. op'[h].s \in Sessions /\ op'[h].e = slots[op'[h].s].id BY ZenonT(30), <1>1, <1>4, <2>3
      <3>. QED BY Zenon, <1>i, <2>3, <3>1, <3>2 DEF Files
    <2>4. \A j, k \in Handlers :
            Reporting(op'[j]) /\ Reporting(op'[k]) /\ op'[j].e = op'[k].e => j = k
      BY ZenonT(30), <1>3, <1>i, <2>3 DEF Files
    <2>. QED BY Zenon, <1>0, <1>i, <2>1, <2>2, <2>4 DEF Files
  <1>17. Served'
    <2>1. surface' # 0 \/ mcpSession' # NoSession =>
            (\E x \in Sessions : slots'[x].id # 0) \/ \E k \in Handlers : Ends(op'[k])
      <3>1. CASE S = {}
        <4>1. \A x \in Sessions : slots'[x] = slots[x] BY ZenonT(30), <1>1, <3>1
        <4>2. \A k \in Handlers : Ends(op[k]) => Ends(op'[k]) BY Zenon, <1>3, <1>4
        <4>. QED BY Zenon, <1>0, <1>i, <4>1, <4>2 DEF Served
      <3>2. CASE S # {} BY Zenon, <1>4, <3>2
      <3>. QED BY ZenonT(30), <3>1, <3>2
    <2>2. \A x \in Sessions : slots'[x].id # 0 /\ surface' = slots'[x].id => mcpSession' = x
      BY Zenon, <1>0, <1>2, <1>i DEF Served
    <2>3. \A k \in Handlers :
            Arming(op'[k]) /\ slots'[op'[k].s].id = op'[k].e => mcpSession' = op'[k].s
      BY ZenonT(30), <1>0, <1>14, <1>i DEF Served
    <2>. QED BY Zenon, <2>1, <2>2, <2>3 DEF Served
  <1>. QED BY Zenon, <1>7, <1>8, <1>9, <1>12, <1>15, <1>16, <1>17 DEF RunInv

\* The release of a failed start or resume takes its own entry out, which does not run.
LEMMA ReleaseClaimRun ==
  ASSUME RegistryInv, RegistryInv', RunInv, NEW h \in Handlers, ReleaseClaim(h),
         ~(Goto(h, "finish") /\ UNCHANGED registryVars)
  PROVE  RunInv'
  <1>. RegistryTypes /\ Coherent(op[h]) /\ Coherent(op'[h]) /\ op[h] \in Op BY Zenon, RunFacts
  <1>i. Held /\ Kept /\ RunTypes /\ Claims /\ Counted BY Zenon DEF RegistryInv, RunInv
  <1>. DEFINE s == op[h].s
  <1>0. /\ op[h].pc = "reclaim" /\ op[h].rpc \in {"start", "resume"} /\ Registered(s) /\ Owned(h)
        /\ ReclaimSlots({s}) /\ op' = [op EXCEPT ![h].pc = "tree", ![h].removed = TRUE]
        /\ UNCHANGED <<runtimeVars, surfaceVars, hold, answerVars>>
    BY Zenon DEF ReleaseClaim, At
  <1>1. Others(h) /\ op'[h] = [op[h] EXCEPT !.pc = "tree", !.removed = TRUE]
    BY <1>0 DEF Others, RegistryTypes
  <1>2. /\ op'[h].pc = "tree" /\ op'[h].removed /\ op'[h].rpc = op[h].rpc /\ op'[h].s = s
        /\ op'[h].e = op[h].e /\ op'[h].todo = op[h].todo
    BY <1>1 DEF Op
  <1>r. op'[h].rpc # "shutdown" BY <1>0, <1>2
  <1>3. /\ Claimer(op[h]) /\ s \in Sessions /\ ~op[h].removed /\ op[h].todo = {}
    BY <1>0 DEF Coherent, Places, Removals, Claimer
  <1>4. slots[s].id # 0 BY Zenon, <1>0, <1>3, EntryFacts
  <1>5. slots[s].id = op[h].e
    <2>1. CASE op[h].rpc = "start" BY Zenon, <1>0, <2>1 DEF Owned, HoldsClaimEntry
    <2>2. CASE op[h].rpc = "resume"
      <3>1. Attached(op[h]) BY Zenon, <1>0, <2>2 DEF Attached
      <3>. QED BY Zenon, <1>4, <1>i, <3>1 DEF Kept, Held
    <2>. QED BY <1>0, <2>1, <2>2
  <1>6. slots[s].id \notin ran BY Zenon, <1>3, <1>5, <1>i DEF Claims
  <1>7. /\ ~Claimer(op'[h]) /\ ~Arming(op'[h]) /\ ~Reporting(op'[h]) /\ Ends(op'[h])
        /\ Through(op'[h]) /\ \A x \in Sessions : ~Tears(op'[h], x)
    BY ONLY ZenonT(30), <1>2, <1>r DEF Claimer, Opening, Arming, Reporting, Ends, Through, Tears
  <1>8. \A x \in Sessions : ~Ending(op[h], x) /\ ~Tears(op[h], x)
    BY Zenon, <1>3 DEF Ending, Tears
  <1>9. Leaves(h, {s})
    <2>1. {s} \subseteq Sessions /\ \A x \in {s} : x = s BY ZenonT(30), <1>3
    <2>2. op[h].pc # "pass1" /\ op'[h].pc # "confirm" BY <1>0, <1>2
    <2>. QED BY Zenon, <1>0, <1>1, <1>2, <1>4, <1>6, <1>7, <1>8, <2>1, <2>2 DEF Leaves, Closing
  <1>10. /\ UNCHANGED <<runtimeVars, surfaceVars, hold, unclean, reports>> /\ inFlight' = inFlight
    BY <1>0 DEF answerVars
  <1>11. Counted' BY Zenon, <1>1, <1>7, <1>8, <1>10, <1>i, CountedSame
  <1>12. inFlight' \in [Sessions -> Nat] BY Zenon, <1>10, <1>i DEF RunTypes
  <1>. QED BY Zenon, <1>9, <1>10, <1>11, <1>12, LeavesRun

\* The second decision of a Shutdown takes the entry out, to close it when it was
\* started.
LEMMA ShutdownRun ==
  ASSUME RegistryInv, RegistryInv', RunInv, NEW h \in Handlers, ShutdownReclaim(h),
         ~(Return(h) /\ UNCHANGED <<registryVars, inFlight>>)
  PROVE  RunInv'
  <1>. RegistryTypes /\ Coherent(op[h]) /\ Coherent(op'[h]) /\ op[h] \in Op BY Zenon, RunFacts
  <1>i. RunTypes /\ Runs /\ Counted BY Zenon DEF RegistryInv, RunInv
  <1>. DEFINE s == op[h].s
              p == IF slots[s].started THEN "close" ELSE "tree"
              l == s \in runtimeLive
  <1>0. /\ op[h].pc = "reclaim" /\ op[h].rpc = "shutdown" /\ Removes(s, op[h].tok)
        /\ ReclaimSlots({s}) /\ inFlight' = [inFlight EXCEPT ![s] = @ + 1]
        /\ op' = [op EXCEPT ![h] = [op[h] EXCEPT !.pc = p, !.e = slots[s].id, !.removed = TRUE,
                                                 !.live = l]]
        /\ UNCHANGED <<runtimeVars, surfaceVars, hold, unclean, reports>>
    BY Zenon DEF ShutdownReclaim, At
  <1>1. p \in {"close", "tree"} /\ (slots[s].started => p = "close") BY ONLY DEF p
  <1>. HIDE DEF p, l
  <1>2. /\ Others(h)
        /\ op'[h] = [op[h] EXCEPT !.pc = p, !.e = slots[s].id, !.removed = TRUE, !.live = l]
    BY <1>0 DEF Others, RegistryTypes
  <1>3. /\ op'[h].pc = p /\ op'[h].removed /\ op'[h].rpc = "shutdown" /\ op'[h].s = s
        /\ op'[h].e = slots[s].id /\ op'[h].todo = op[h].todo /\ op'[h].live = l
    <2>1. op[h] \in Op /\ op[h].rpc = "shutdown" BY <1>0
    <2>. QED BY ONLY <1>2, <2>1 DEF Op
  <1>4. s \in Sessions /\ Dull(op[h]) BY <1>0 DEF Coherent, Places, Dull
  <1>5. slots[s].id # 0 BY Zenon, <1>0, <1>4, EntryFacts DEF Removes
  <1>6. /\ ~Ends(op[h]) /\ \A x \in Sessions : ~Ending(op[h], x) /\ ~Tears(op[h], x)
    BY Zenon, <1>4, DullFacts
  <1>7. /\ ~Claimer(op'[h]) /\ ~Arming(op'[h]) /\ Ends(op'[h]) /\ Through(op'[h])
        /\ op'[h].pc # "confirm" /\ op[h].pc # "pass1"
        /\ \A x \in Sessions : Tears(op'[h], x) <=> x = s
    BY <1>0, <1>1, <1>3 DEF Claimer, Opening, Arming, Ends, Through, Tears
  <1>8. slots[s].id \in ran => Ending(op'[h], s) BY <1>1, <1>3, <1>4, <1>i DEF Runs, Ending
  <1>9. Leaves(h, {s})
    <2>1. {s} \subseteq Sessions /\ s \in {s} /\ \A x \in {s} : x = s BY <1>4
    <2>2. op'[h].live => s \in runtimeLive BY ONLY Zenon, <1>3 DEF l
    <2>. QED BY Zenon, <1>0, <1>2, <1>3, <1>5, <1>6, <1>7, <1>8, <2>1, <2>2 DEF Leaves, Closing
  <1>10. ASSUME NEW x \in Sessions
         PROVE  HasSize(Tearing(x)', inFlight'[x]) /\ inFlight'[x] \in Nat
    <2>0. HasSize(Tearing(x), inFlight[x]) /\ inFlight[x] \in Nat
      BY Zenon, <1>i DEF Counted, RunTypes
    <2>1. \A k \in Handlers : Tears(op'[k], x) <=> Tears(op[k], x) \/ (k = h /\ x = s)
      BY Zenon, <1>2, <1>6, <1>7 DEF Others
    <2>2. ~Tears(op[h], x) BY Zenon, <1>6
    <2>3. CASE x = s
      <3>1. Tearing(x)' = Tearing(x) \cup {h} /\ h \notin Tearing(x)
        <4>. HIDE DEF Tears
        <4>. QED BY <2>1, <2>2, <2>3 DEF Tearing
      <3>2. HasSize(Tearing(x) \cup {h}, inFlight[x] + 1)
        BY ONLY Zenon, <2>0, <3>1, SizeMore
      <3>3. inFlight'[x] = inFlight[x] + 1 BY <1>0, <2>3, <1>i DEF RunTypes
      <3>4. inFlight[x] + 1 \in Nat BY ONLY <2>0
      <3>. QED BY ONLY Zenon, <3>1, <3>2, <3>3, <3>4
    <2>4. CASE x # s
      <3>1. Tearing(x)' = Tearing(x)
        <4>. HIDE DEF Tears
        <4>. QED BY <2>1, <2>4 DEF Tearing
      <3>2. inFlight'[x] = inFlight[x] BY <1>0, <2>4, <1>i DEF RunTypes
      <3>. QED BY Zenon, <2>0, <3>1, <3>2
    <2>. QED BY ZenonT(30), <2>3, <2>4
  <1>11. Counted' BY Zenon, <1>10 DEF Counted
  <1>12. inFlight' \in [Sessions -> Nat]
    <2>1. inFlight \in [Sessions -> Nat] BY Zenon, <1>i DEF RunTypes
    <2>2. inFlight' = [inFlight EXCEPT ![s] = inFlight[s] + 1] BY Zenon, <1>0
    <2>3. \A x \in Sessions : inFlight'[x] \in Nat BY Zenon, <1>10
    <2>4. inFlight' = [x \in Sessions |-> inFlight'[x]] BY ONLY Zenon, <2>1, <2>2
    <2>. QED BY ONLY <2>3, <2>4
  <1>. QED BY Zenon, <1>0, <1>9, <1>11, <1>12, LeavesRun

\* The first pass of a hold timeout takes every started entry out.
LEMMA DeregisterRun ==
  ASSUME HaveFirst, RegistryInv, RegistryInv', RunInv, NEW h \in Handlers,
         DeregisterStarted(h)
  PROVE  RunInv'
  <1>. RegistryTypes /\ Coherent(op[h]) /\ Coherent(op'[h]) /\ op[h] \in Op BY Zenon, RunFacts
  <1>i. RunTypes /\ Runs /\ Counted BY Zenon DEF RegistryInv, RunInv
  <1>. DEFINE M == {s \in Sessions : slots[s].started}
              n == NextMember(h, M)
  <1>0. /\ op[h].pc = "pass1" /\ ReclaimSlots(M) /\ op' = [op EXCEPT ![h] = n]
        /\ UNCHANGED <<runtimeVars, surfaceVars, hold, answerVars>>
    BY Zenon DEF DeregisterStarted, At
  <1>1. /\ M \in SUBSET Sessions /\ \A x \in Sessions : slots[x].started => x \in M
        /\ \A x \in M : slots[x].started /\ slots[x].id # 0
    BY EntryFacts
  <1>2. /\ Coherent(n) /\ ~Claimer(n) /\ n.pc \in {"idle", "release"} /\ n.e = 0
        /\ \A x \in Sessions : Removing(n, x) <=> x \in M
    BY Zenon, <1>1, NextFacts
  <1>. HIDE DEF M, n
  <1>3. Others(h) /\ op'[h] = n BY <1>0 DEF Others, RegistryTypes
  <1>4. n.removed => n.pc = "release" /\ n.rpc = "timeout"
    BY ZenonT(30), <1>2 DEF Coherent, Removals
  <1>5. \A x \in M : Ending(n, x) BY Zenon, <1>1, <1>2, <1>4 DEF Removing, Ending
  <1>6. ~op[h].removed /\ op[h].todo = {} /\ ~Ends(op[h])
    BY ZenonT(30), <1>0 DEF Coherent, Removals, Ends, Claimer, Opening
  <1>7. \A x \in Sessions : ~Ending(op[h], x) /\ ~Tears(op[h], x) /\ ~Tears(n, x)
    BY <1>4, <1>6 DEF Ending, Tears
  <1>8. ~Arming(n) /\ ~Reporting(n) /\ Through(n) /\ n.pc # "confirm"
    BY <1>2, <1>4 DEF Arming, Reporting, Through
  <1>9. M # {} => Ends(n)
    <2>. SUFFICES ASSUME NEW x \in M PROVE Ends(n) OBVIOUS
    <2>. QED BY Zenon, <1>1, <1>2, <1>5, EndingLooks
  <1>10. M \subseteq Sessions BY <1>1
  <1>11. Leaves(h, M)
    BY Zenon, <1>0, <1>1, <1>2, <1>3, <1>5, <1>6, <1>7, <1>8, <1>9, <1>10 DEF Leaves, Closing
  <1>12. /\ UNCHANGED <<runtimeVars, surfaceVars, hold, unclean, reports>> /\ inFlight' = inFlight
    BY <1>0 DEF answerVars
  <1>13. Counted' BY Zenon, <1>3, <1>7, <1>12, <1>i, CountedSame
  <1>14. inFlight' \in [Sessions -> Nat] BY Zenon, <1>12, <1>i DEF RunTypes
  <1>. QED BY Zenon, <1>11, <1>12, <1>13, <1>14, LeavesRun

\* Every step of every handler, and every stuttering step, keeps it.
LEMMA RunNext ==
  ASSUME HaveFirst, RegistryInv, RegistryInv', RunInv, [SlotNext]_vars
  PROVE  RunInv'
  <1>1. ASSUME NEW h \in Handlers, NEW s \in Sessions,
               \/ \E t \in Tokens \cup {NoTok} : Admit(h, "bind", s, t) \/ Shutdown(h, s, t)
               \/ \E t \in Tokens : Admit(h, "resume", s, t)
               \/ StartSession(h, s) \/ CoordinatorFence(h, s)
        PROVE  RunInv'
    <2>1. CASE StartSession(h, s) BY Zenon, <2>1, StartRun
    <2>2. CASE ~StartSession(h, s) BY <1>1, <2>2, CallRun
    <2>. QED BY <2>1, <2>2
  <1>2. ASSUME NEW s \in Sessions, NEW t \in Tokens, AssignCredentials(s, t) PROVE RunInv'
    BY Zenon, <1>2, BindRegisters
  <1>3. ASSUME NEW h \in Handlers, ResolveBind(h) PROVE RunInv'
    <2>1. CASE Return(h) /\ UNCHANGED registryVars
      <3>1. /\ slots' = slots /\ created' = created /\ inFlight' = inFlight /\ UNCHANGED surfaceVars
        BY <1>3, <2>1 DEF ResolveBind, registryVars, answerVars
      <3>. QED BY Zenon, <1>3, <2>1, <3>1, BindRun
    <2>2. CASE ~(Return(h) /\ UNCHANGED registryVars) BY Zenon, <1>3, <2>2, BindRegisters
    <2>. QED BY <2>1, <2>2
  <1>4. ASSUME NEW h \in Handlers, BindSteps(h) PROVE RunInv'
    BY Zenon, <1>3, <1>4, BindRun DEF BindSteps
  <1>5. ASSUME NEW h \in Handlers, ResumeClaim(h) PROVE RunInv'
    <2>1. CASE Return(h) /\ UNCHANGED <<registryVars, surfaceVars>>
      <3>1. /\ slots' = slots /\ created' = created /\ inFlight' = inFlight /\ UNCHANGED surfaceVars
        BY ZenonT(30), <1>5, <2>1 DEF ResumeClaim, registryVars, answerVars
      <3>. QED BY Zenon, <1>5, <2>1, <3>1, BindRun
    <2>2. CASE ~(Return(h) /\ UNCHANGED <<registryVars, surfaceVars>>)
      BY Zenon, <1>5, <2>2, StartRun
    <2>. QED BY <2>1, <2>2
  <1>6. ASSUME NEW h \in Handlers, ArmMCP(h) \/ WriteSessionStart(h) PROVE RunInv'
    <2>1. CASE Fail(h) /\ UNCHANGED <<surface, opened>>
      BY Zenon, <1>6, <2>1, OpeningRun
    <2>2. CASE ~(Fail(h) /\ UNCHANGED <<surface, opened>>)
      <3>1. ArmMCP(h) => UNCHANGED opened BY DEF ArmMCP, runtimeVars
      <3>2. WriteSessionStart(h) => UNCHANGED surface BY DEF WriteSessionStart, surfaceVars
      <3>3. CASE ArmMCP(h) BY <2>2, <3>1, <3>3, ArmRun
      <3>4. CASE WriteSessionStart(h) BY <2>2, <3>2, <3>4, WriteRun
      <3>. QED BY Zenon, <1>6, <3>3, <3>4
    <2>. QED BY <2>1, <2>2
  <1>7. ASSUME NEW h \in Handlers, ReleaseClaim(h) PROVE RunInv'
    BY Zenon, <1>7, OpeningRun, ReleaseClaimRun
  <1>8. ASSUME NEW h \in Handlers, StartSteps(h) PROVE RunInv'
    BY Zenon, <1>5, <1>6, <1>7, <1>8, OpeningRun, ConfirmRun, WriteRun, LookRun DEF StartSteps
  <1>9. ASSUME NEW h \in Handlers, ReleaseSteps(h) PROVE RunInv'
    BY Zenon, <1>9, CleanupRun, CloseRun DEF ReleaseSteps
  <1>10. ASSUME NEW h \in Handlers, ShutdownReclaim(h) PROVE RunInv'
    <2>1. CASE Return(h) /\ UNCHANGED <<registryVars, inFlight>>
      <3>1. /\ slots' = slots /\ created' = created /\ inFlight' = inFlight /\ UNCHANGED surfaceVars
        BY <1>10, <2>1 DEF ShutdownReclaim, registryVars
      <3>. QED BY Zenon, <1>10, <2>1, <3>1, BindRun
    <2>2. CASE ~(Return(h) /\ UNCHANGED <<registryVars, inFlight>>)
      BY Zenon, <1>10, <2>2, ShutdownRun
    <2>. QED BY <2>1, <2>2
  <1>11. ASSUME NEW h \in Handlers, ShutdownSteps(h) PROVE RunInv'
    BY Zenon, <1>10, <1>11, BindRun, FinishShutdownRun, AnswerRun DEF ShutdownSteps
  <1>12. ASSUME NEW h \in Handlers, HoldSteps(h) \/ HoldTimeout(h) PROVE RunInv'
    BY Zenon, <1>12, BindRun, EndRun, DeregisterRun, LookRun, CallRun DEF HoldSteps
  <1>13. CASE ControlStreamClosed \/ UNCHANGED vars
    <2>1. /\ slots' = slots /\ created' = created /\ op' = op
          /\ UNCHANGED <<runtimeVars, surfaceVars, answerVars>>
          /\ hold' = TRUE \/ hold' = hold
      BY <1>13 DEF ControlStreamClosed, vars, registryVars
    <2>2. /\ runtimeLive' = runtimeLive /\ opened' = opened /\ ended' = ended /\ ran' = ran
          /\ mcpSession' = mcpSession /\ surface' = surface
          /\ inFlight' = inFlight /\ unclean' = unclean /\ reports' = reports
      BY <2>1 DEF runtimeVars, surfaceVars, answerVars
    <2>3. RunTypes'
      <3>1. RunTypes BY Zenon DEF RunInv
      <3>2. hold' \in BOOLEAN BY Zenon, <2>1, <3>1 DEF RunTypes
      <3>. QED BY Zenon, <2>2, <3>1, <3>2 DEF RunTypes
    <2>4. Tidy' /\ Numbers' BY Zenon, <2>1, <2>2 DEF RunInv, Tidy, Numbers
    <2>5. Runs' /\ Claims' BY Zenon, <2>1, <2>2 DEF RunInv, Runs, Claims
    <2>6. Files' /\ Served' BY Zenon, <2>1, <2>2 DEF RunInv, Files, Served
    <2>7. Counted'
      <3>1. \A s \in Sessions : Tearing(s)' = Tearing(s) BY <2>1 DEF Tearing
      <3>. QED BY Zenon, <2>2, <3>1 DEF RunInv, Counted
    <2>. QED BY Zenon, <2>3, <2>4, <2>5, <2>6, <2>7 DEF RunInv
  <1>14. CASE SlotNext
    <2>1. ASSUME NEW h \in Handlers, HandlerSteps(h) PROVE RunInv'
      BY Zenon, <1>4, <1>8, <1>9, <1>11, <1>12, <2>1 DEF HandlerSteps
    <2>. QED BY Zenon, <1>1, <1>2, <1>12, <1>13, <1>14, <2>1 DEF SlotNext
  <1>. QED BY Zenon, <1>13, <1>14


\* Only a release of its own takes a handler from the decision to the removal.
LEMMA ReclaimLeft ==
  ASSUME RegistryInv, SlotNext, NEW h \in Handlers, op[h].pc = "reclaim", op'[h].pc # "reclaim",
         op[h].rpc \in {"start", "resume"}
  PROVE  ReleaseClaim(h)
  <1>. op \in [Handlers -> Op] BY DEF RegistryInv, RegistryTypes
  <1>1. ASSUME NEW k \in Handlers, NEW s \in Sessions,
               \/ \E t \in Tokens \cup {NoTok} : Admit(k, "bind", s, t) \/ Shutdown(k, s, t)
               \/ \E t \in Tokens : Admit(k, "resume", s, t)
               \/ StartSession(k, s) \/ CoordinatorFence(k, s)
        PROVE  FALSE
    <2>1. op[k].pc = "idle" /\ \E o : op' = [op EXCEPT ![k] = o]
      BY ZenonT(60), <1>1 DEF Admit, Shutdown, StartSession, Claim, CoordinatorFence, At
    <2>. QED BY <2>1
  <1>2. ASSUME NEW s \in Sessions, NEW t \in Tokens, AssignCredentials(s, t) PROVE FALSE
    BY <1>2 DEF AssignCredentials
  <1>3. ASSUME NEW k \in Handlers, BindSteps(k) PROVE FALSE
    <2>1. op[k].pc # "reclaim" /\ \E o : op' = [op EXCEPT ![k] = o]
      BY <1>3 DEF BindSteps, TakeGuard, GuardTimeout, ResolveBind, BindWork, Goto, Return, At
    <2>. QED BY <2>1
  <1>4. ASSUME NEW k \in Handlers, StartSteps(k) PROVE ReleaseClaim(h)
    <2>1. CASE ReleaseClaim(k)
      <3>1. \E o : op' = [op EXCEPT ![k] = o] BY <2>1 DEF ReleaseClaim, Goto
      <3>. QED BY <2>1, <3>1
    <2>2. CASE ~ReleaseClaim(k)
      <3>1. op[k].pc # "reclaim" /\ \E o : op' = [op EXCEPT ![k] = o]
        <4>1. CASE ResumeClaim(k) BY ZenonT(60), <4>1 DEF ResumeClaim, Claim, Return, At
        <4>2. CASE ~ResumeClaim(k)
          BY <1>4, <2>2, <4>2
             DEF StartSteps, Restore, ArmMCP, RuntimeStart, OpenGuard, OpenCheck,
                 WriteSessionStart, ConfirmStart, RefuseStart, StartUnacknowledged, RollbackStart,
                 FinishRelease, Fail, Refuse, Goto, Return, At
        <4>. QED BY <4>1, <4>2
      <3>. QED BY <3>1
    <2>. QED BY <2>1, <2>2
  <1>5. ASSUME NEW k \in Handlers, ReleaseSteps(k) PROVE FALSE
    <2>1. op[k].pc # "reclaim" /\ \E o : op' = [op EXCEPT ![k] = o]
      BY ZenonT(60), <1>5 DEF ReleaseSteps, ReleaseGuard, CloseRuntime, RemoveTree, Goto, At
    <2>. QED BY <2>1
  <1>6. ASSUME NEW k \in Handlers, ShutdownSteps(k) PROVE FALSE
    <2>1. (op[k].pc = "reclaim" => op[k].rpc = "shutdown") /\ \E o : op' = [op EXCEPT ![k] = o]
      BY ZenonT(30), <1>6
         DEF ShutdownSteps, ShutdownDecide, ShutdownReclaim, FinishShutdown, AnswerShutdown,
                  Goto, Return, At
    <2>. QED BY <2>1
  <1>7. ASSUME NEW k \in Handlers, HoldSteps(k) \/ HoldTimeout(k) PROVE FALSE
    <2>1. op[k].pc # "reclaim" /\ \E o : op' = [op EXCEPT ![k] = o]
      BY <1>7 DEF HoldSteps, HoldTimeout, FenceExitsHold, EndRuntime, DeregisterStarted,
                  FinishMember, Goto, Return, At
    <2>. QED BY <2>1
  <1>8. ASSUME ControlStreamClosed PROVE FALSE BY <1>8 DEF ControlStreamClosed
  <1>. QED BY ZenonT(60), <1>1, <1>2, <1>3, <1>4, <1>5, <1>6, <1>7, <1>8 DEF SlotNext, HandlerSteps

\* A step leaves the surface as it is, arms one that was not there, stops one that it
\* finds idle, or replaces it by the claim that takes the start.
LEMMA SurfaceSteps ==
  ASSUME SlotNext
  PROVE  \/ surface' = surface \/ surface = 0 \/ CancelPodMCPIfRuntimeIdle
         \/ \E x : TakesMCP(x)
  <1>. DEFINE Fine == \/ surface' = surface \/ surface = 0 \/ CancelPodMCPIfRuntimeIdle
                      \/ \E x : TakesMCP(x)
  <1>1. ASSUME NEW h, NEW rpc, NEW s, NEW t, Claim(h, rpc, s, t) PROVE Fine
    BY Zenon, <1>1 DEF Claim
  <1>2. UNCHANGED surfaceVars => Fine BY DEF surfaceVars
  <1>. HIDE DEF Fine
  <1>3. ASSUME NEW h \in Handlers, NEW s \in Sessions,
               \/ \E t \in Tokens \cup {NoTok} : Admit(h, "bind", s, t) \/ Shutdown(h, s, t)
               \/ \E t \in Tokens : Admit(h, "resume", s, t)
               \/ StartSession(h, s) \/ CoordinatorFence(h, s)
        PROVE  Fine
    <2>1. CASE StartSession(h, s) BY Zenon, <1>1, <2>1 DEF StartSession
    <2>2. ASSUME NEW rpc, NEW t, Admit(h, rpc, s, t) PROVE Fine BY Zenon, <1>2, <2>2 DEF Admit
    <2>3. ASSUME NEW t, Shutdown(h, s, t) PROVE Fine BY Zenon, <1>2, <2>3 DEF Shutdown
    <2>4. CASE CoordinatorFence(h, s) BY Zenon, <1>2, <2>4 DEF CoordinatorFence
    <2>. QED BY Zenon, <1>3, <2>1, <2>2, <2>3, <2>4
  <1>4. ASSUME NEW s \in Sessions, NEW t \in Tokens, AssignCredentials(s, t) PROVE Fine
    BY Zenon, <1>2, <1>4 DEF AssignCredentials
  <1>5. ASSUME NEW h \in Handlers, HandlerSteps(h) PROVE Fine
    <2>1. CASE BindSteps(h)
      BY Zenon, <1>2, <2>1 DEF BindSteps, TakeGuard, GuardTimeout, ResolveBind, BindWork
    <2>2. CASE StartSteps(h)
      <3>1. CASE ResumeClaim(h) BY Zenon, <1>1, <1>2, <3>1 DEF ResumeClaim
      <3>2. CASE ArmMCP(h) BY Zenon, <3>2 DEF ArmMCP, Fine
      <3>3. CASE Restore(h) \/ RuntimeStart(h) \/ OpenGuard(h) \/ OpenCheck(h)
        BY Zenon, <1>2, <3>3 DEF Restore, RuntimeStart, OpenGuard, OpenCheck
      <3>4. CASE WriteSessionStart(h) \/ ConfirmStart(h) \/ RefuseStart(h) \/ StartUnacknowledged(h)
        BY Zenon, <1>2, <3>4 DEF WriteSessionStart, ConfirmStart, RefuseStart, StartUnacknowledged
      <3>5. CASE RollbackStart(h) \/ FinishRelease(h)
        BY Zenon, <3>5 DEF RollbackStart, FinishRelease, Fine
      <3>6. CASE ReleaseClaim(h) BY Zenon, <1>2, <3>6 DEF ReleaseClaim
      <3>. QED BY Zenon, <2>2, <3>1, <3>2, <3>3, <3>4, <3>5, <3>6 DEF StartSteps
    <2>3. CASE ReleaseSteps(h)
      BY Zenon, <1>2, <2>3 DEF ReleaseSteps, ReleaseGuard, CloseRuntime, RemoveTree
    <2>4. CASE ShutdownSteps(h)
      <3>1. CASE FinishShutdown(h) BY Zenon, <3>1 DEF FinishShutdown, Fine
      <3>2. CASE ShutdownDecide(h) \/ ShutdownReclaim(h) \/ AnswerShutdown(h)
        BY Zenon, <1>2, <3>2 DEF ShutdownDecide, ShutdownReclaim, AnswerShutdown
      <3>. QED BY Zenon, <2>4, <3>1, <3>2 DEF ShutdownSteps
    <2>5. CASE HoldSteps(h)
      <3>1. CASE FinishMember(h) BY Zenon, <3>1 DEF FinishMember, Fine
      <3>2. CASE FenceExitsHold(h) \/ EndRuntime(h) \/ DeregisterStarted(h)
        BY Zenon, <1>2, <3>2 DEF FenceExitsHold, EndRuntime, DeregisterStarted
      <3>. QED BY Zenon, <2>5, <3>1, <3>2 DEF HoldSteps
    <2>. QED BY Zenon, <1>5, <2>1, <2>2, <2>3, <2>4, <2>5 DEF HandlerSteps
  <1>6. ASSUME NEW h \in Handlers, HoldTimeout(h) PROVE Fine BY Zenon, <1>2, <1>6 DEF HoldTimeout
  <1>7. ControlStreamClosed => Fine BY Zenon, <1>2 DEF ControlStreamClosed
  <1>8. Fine BY Zenon, <1>3, <1>4, <1>5, <1>6, <1>7 DEF SlotNext
  <1>. QED BY Zenon, <1>8 DEF Fine

\* A pod with an empty registry and nothing on its runtime satisfies the invariant.
LEMMA RunInit ==
  ASSUME SlotInit
  PROVE  RunInv
  <1>0. /\ slots = [s \in Sessions |-> NoEntry] /\ created = 0 /\ op = [h \in Handlers |-> Idle]
        /\ runtimeLive = {} /\ ended = FALSE /\ ran = {} /\ opened = [s \in Sessions |-> 0]
        /\ mcpSession = NoSession /\ surface = 0 /\ hold = FALSE
        /\ inFlight = [s \in Sessions |-> 0] /\ unclean = {} /\ reports = [e \in Entries |-> 0]
    BY Zenon DEF SlotInit
  <1>1. \A h \in Handlers : op[h] = Idle BY <1>0
  <1>2. /\ Idle.pc = "idle" /\ Idle.e = 0 /\ Idle.todo = {} /\ ~Idle.removed /\ ~Claimer(Idle)
    BY Zenon, IdleFacts
  <1>3. /\ ~Reporting(Idle) /\ ~Ends(Idle) /\ ~Arming(Idle) /\ Through(Idle)
        /\ \A s \in Sessions : ~Tears(Idle, s) /\ ~Ending(Idle, s)
    BY <1>2 DEF Reporting, Ends, Arming, Through, Tears, Ending
  <1>4. \A s \in Sessions : slots[s].id = 0 BY <1>0 DEF NoEntry
  <1>5. RunTypes
    <2>1. 0 \in 0 .. MaxEntry /\ 0 \in Nat BY SlotConstants
    <2>. QED BY Zenon, <1>0, <2>1 DEF RunTypes
  <1>6. Tidy BY Zenon, <1>1, <1>3 DEF Tidy
  <1>7. Numbers
    <2>1. \A e \in Entries : reports[e] = 0 BY <1>0
    <2>. QED BY ONLY SMTT(30), <1>0, <1>1, <1>2, <1>4, <2>1 DEF Numbers
  <1>8. Runs BY Zenon, <1>0 DEF Runs
  <1>9. Claims BY <1>1, <1>2 DEF Claims
  <1>10. Files
    <2>1. \A e \in Entries : reports[e] = 0 BY <1>0
    <2>2. \A h \in Handlers : ~Reporting(op[h]) BY Zenon, <1>1, <1>3
    <2>. QED BY ONLY SMTT(30), <1>4, <2>1, <2>2 DEF Files
  <1>11. Served
    <2>1. \A h \in Handlers : ~Arming(op[h]) BY Zenon, <1>1, <1>3
    <2>. QED BY Zenon, <1>0, <1>4, <2>1 DEF Served
  <1>12. Counted
    <2>1. \A s \in Sessions, h \in Handlers : ~Tears(op[h], s) BY Zenon, <1>1, <1>3
    <2>2. \A s \in Sessions : Tearing(s) = {}
      <3>. HIDE DEF Tears
      <3>. QED BY ONLY <2>1 DEF Tearing
    <2>3. \A s \in Sessions : inFlight[s] = 0 BY ONLY <1>0
    <2>4. HasSize({}, 0) BY ONLY SizeZero
    <2>. QED BY ONLY Zenon, <2>2, <2>3, <2>4 DEF Counted
  <1>. QED BY Zenon, <1>5, <1>6, <1>7, <1>8, <1>9, <1>10, <1>11, <1>12 DEF RunInv

-----------------------------------------------------------------------------
(* What the two invariants say of the properties.                            *)

\* The record of the runtime, its sessions, the reports and the end of the transport are
\* read off the invariant.
LEMMA RunImplies ==
  ASSUME RegistryInv, RunInv
  PROVE  SlotTypeOK /\ LiveIsRunning /\ RunningIsOpened /\ OneReportPerRun /\ NoSessionOutlivesHold
  <1>1. SlotTypeOK BY Zenon DEF RegistryInv, RegistryTypes, RunInv, RunTypes, SlotTypeOK
  <1>2. LiveIsRunning
    <2>1. \A h \in Handlers, s \in Sessions : Ending(op[h], s) <=> Terminates(h, s)
      BY Zenon DEF Ending, Terminates
    <2>. QED BY Zenon, <2>1 DEF RunInv, RunTypes, Runs, LiveIsRunning
  <1>3. RunningIsOpened BY Zenon DEF RunInv, Runs, RunningIsOpened
  <1>4. OneReportPerRun BY Zenon DEF RunInv, Files, OneReportPerRun
  <1>5. NoSessionOutlivesHold BY Zenon DEF RunInv, Runs, NoSessionOutlivesHold
  <1>. QED BY <1>1, <1>2, <1>3, <1>4, <1>5

\* With nobody left who will look at it, there is no surface.
LEMMA EmptyPod ==
  ASSUME RegistryInv, RunInv, \A h \in Handlers : At(h, "idle"),
         \A s \in Sessions : ~Registered(s)
  PROVE  surface = 0 /\ mcpSession = NoSession
  <1>1. \A s \in Sessions : slots[s].id = 0 BY Zenon, EntryFacts DEF RegistryInv
  <1>2. \A h \in Handlers : Coherent(op[h]) /\ Dull(op[h])
    BY Zenon DEF At, Dull, RegistryInv, Handling
  <1>3. \A h \in Handlers : ~Ends(op[h]) BY Zenon, <1>2, DullFacts
  <1>. QED BY Zenon, <1>1, <1>3 DEF RunInv, Served

\* The entry that a rollback takes out is the one that its handler carries.
LEMMA RollbackOwn ==
  ASSUME RegistryInv, SlotNext, NEW h \in Handlers, op[h].pc = "reclaim", op'[h].pc = "tree",
         op[h].rpc \in {"start", "resume"}
  PROVE  slots[op[h].s].id = op[h].e
  <1>. USE HandlerFacts
  <1>1. ReleaseClaim(h) BY ZenonT(30), ReclaimLeft
  <1>2. Registered(op[h].s) /\ Owned(h)
    <2>1. Goto(h, "finish") => op'[h].pc = "finish" BY ZenonT(60), GotoMoves DEF Onward, PCs
    <2>. QED BY <1>1, <2>1 DEF ReleaseClaim
  <1>3. CASE op[h].rpc = "start" BY ZenonT(60), <1>2, <1>3 DEF Owned, HoldsClaimEntry
  <1>4. CASE op[h].rpc = "resume"
    <2>1. Attached(op[h]) BY ZenonT(30), <1>4 DEF Attached
    <2>2. op[h].s \notin reclaiming BY ZenonT(60), <1>2, EntryFacts DEF RegistryInv, Held
    <2>. QED BY ZenonT(30), <2>1, <2>2 DEF RegistryInv, Kept
  <1>. QED BY ZenonT(30), <1>3, <1>4

\* The session that took the start keeps the server away from every other step.
LEMMA SurfaceKept ==
  ASSUME RegistryInv, RunInv, SlotNext, NEW s \in Sessions, Registered(s), surface = slots[s].id
  PROVE  surface' = surface
  <1>1. slots[s].id # 0 BY Zenon, EntryFacts DEF RegistryInv
  <1>2. mcpSession = s BY Zenon, <1>1 DEF RunInv, Served
  <1>3. mcpSession # NoSession BY <1>2, SlotConstants
  <1>4. ASSUME NEW x, TakesMCP(x) PROVE FALSE BY <1>2, <1>4 DEF TakesMCP
  <1>5. CancelPodMCPIfRuntimeIdle => surface' = surface
    BY Zenon, <1>2, <1>3 DEF CancelPodMCPIfRuntimeIdle, ArmingHeld, surfaceVars
  <1>. QED BY Zenon, <1>1, <1>4, <1>5, SurfaceSteps

\* What is live with no Shutdown in flight is what a hold timeout closes.
LEMMA CleanClosed ==
  ASSUME RegistryInv, RunInv, NEW h \in Handlers,
         op[h].pc \in {"decide", "reclaim"}, ~Registered(op[h].s),
         NonRemovingExitClean(op[h].s), op[h].s \in runtimeLive
  PROVE  \E k \in Handlers : op[k].rpc = "timeout" /\ Terminates(k, op[h].s)
  <1>. DEFINE s == op[h].s
  <1>1. s \in Sessions BY Zenon DEF RunInv, RunTypes
  <1>2. slots[s].id = 0 BY Zenon, <1>1, EntryFacts DEF RegistryInv
  <1>3. slots[s].id \notin ran BY <1>2 DEF RunInv, RunTypes, Entries
  <1>4. PICK k \in Handlers : Ending(op[k], s) BY Zenon, <1>3 DEF RunInv, Runs
  <1>5. Tearing(s) = {}
    <2>1. inFlight[s] = 0 BY Zenon DEF NonRemovingExitClean
    <2>2. HasSize(Tearing(s), inFlight[s]) BY Zenon, <1>1 DEF RunInv, Counted
    <2>. QED BY Zenon, <2>1, <2>2, SizeZero
  <1>6. ~Tears(op[k], s) BY Zenon, <1>5 DEF Tearing
  <1>7. Coherent(op[k]) /\ Through(op[k]) BY Zenon DEF RegistryInv, Handling, RunInv, Tidy
  <1>8. op[k].rpc = "timeout"
    BY ZenonT(30), <1>4, <1>6, <1>7 DEF Ending, Tears, Coherent, Removals, Through
  <1>. QED BY Zenon, <1>4, <1>8 DEF Ending, Terminates

-----------------------------------------------------------------------------
(* A set of identifiers has a first member.                                 *)
LOCAL INSTANCE WellFoundedInduction

\* A set of identifiers has a first member, which is the one that NextMember takes.
LEMMA FirstMember ==
  ASSUME NEW T \in SUBSET Sessions, T # {}
  PROVE  (CHOOSE m \in T : \A n \in T : m <= n) \in T
  <1>1. T \in SUBSET Nat BY SlotConstants
  <1>2. PICK m \in T : \A n \in T : ~ <<n, m>> \in OpToRel(<, Nat)
    BY ZenonT(60), <1>1, NatLessThanWellFounded, WFMin
  <1>3. \A n \in T : m <= n
    <2>. TAKE n \in T
    <2>1. m \in Nat /\ n \in Nat BY <1>1
    <2>2. ~(n < m) BY ZenonT(60), <1>2, <2>1 DEF OpToRel
    <2>. QED BY <2>1, <2>2
  <1>. QED BY <1>3

\* So the first of them is always there to be taken.
LEMMA FirstOfMany == HaveFirst
  BY Zenon, FirstMember DEF HaveFirst

-----------------------------------------------------------------------------
(* The theorems.                                                            *)

\* The registry's invariant holds for any number of sessions, handlers and entries.
THEOREM RegistryCorrect == SlotSpec => []RegistryInv
  <1>1. RegistryInv /\ [SlotNext]_vars => RegistryInv' BY Zenon, FirstOfMany, RegistryNext
  <1>. QED BY <1>1, RegistryInit, PTL DEF SlotSpec

\* The runtime's invariant holds for any number of sessions, handlers and entries.
THEOREM RunCorrect == SlotSpec => []RunInv
  <1>1. SlotInit => RunInv BY Zenon, RunInit
  <1>2. RegistryInv /\ RegistryInv' /\ RunInv /\ [SlotNext]_vars => RunInv'
    BY Zenon, FirstOfMany, RunNext
  <1>. QED BY <1>1, <1>2, RegistryCorrect, PTL DEF SlotSpec

\* An identifier that is not under a reclaim hold has exactly the tree of its entry,
\* whatever uploads, restores, failed starts, Shutdowns and hold timeouts overlap on it
\* and whichever of them went on without the slot's guard (tearDownReclaimedSlot).
THEOREM TreeAlwaysMatchesRegistry == SlotSpec => []TreeMatchesRegistry
  <1>1. RegistryInv => TreeMatchesRegistry BY Zenon DEF RegistryInv
  <1>. QED BY <1>1, RegistryCorrect, PTL

\* A rollback removes the entry of its own claim and no other: StartSession's compares
\* the entry, and Resume's, which does not, is inside the guard, where the entry it
\* claimed may be removed but never replaced (releaseClaimedSlot,
\* releaseSessionSlotUnderGuard).
THEOREM RollbackIsOwn == SlotSpec => RollbackRemovesOwnEntry
  <1>. DEFINE Own == \A h \in Handlers :
         At(h, "reclaim") /\ op'[h].pc = "tree" /\ op[h].rpc \in {"start", "resume"}
           => HoldsClaimEntry(h)
  <1>1. RegistryInv /\ [SlotNext]_vars => [Own]_vars
    BY Zenon, RollbackOwn DEF At, HoldsClaimEntry
  <1>. QED BY <1>1, RegistryCorrect, PTL DEF SlotSpec, RollbackRemovesOwnEntry

\* Every field of the server and of every handler stays in its range, and the counts of
\* Shutdowns in flight never go below zero.
THEOREM SlotTypes == SlotSpec => []SlotTypeOK
  <1>1. RegistryInv /\ RunInv => SlotTypeOK BY Zenon, RunImplies
  <1>. QED BY <1>1, RegistryCorrect, RunCorrect, PTL

\* What the runtime's record holds is the running entry of the registry, or about to be
\* closed by the handler that took it out: no record of an earlier attempt is left for a
\* later one's Shutdown to find (confirmRuntimeStart).
THEOREM LiveAlwaysRunning == SlotSpec => []LiveIsRunning
  <1>1. RegistryInv /\ RunInv => LiveIsRunning BY Zenon, RunImplies
  <1>. QED BY <1>1, RegistryCorrect, RunCorrect, PTL

\* A running entry's session is open on the runtime: the session_end of an earlier
\* attempt never follows its session_start (openRuntimeSession, writeSessionEnd).
THEOREM RunningAlwaysOpened == SlotSpec => []RunningIsOpened
  <1>1. RegistryInv /\ RunInv => RunningIsOpened BY Zenon, RunImplies
  <1>. QED BY <1>1, RegistryCorrect, RunCorrect, PTL

\* An entry files one scrub report at most, and only if its start was confirmed, however
\* many Shutdowns of its session overlap (tearDownReclaimedSlot).
THEOREM ReportsOncePerRun == SlotSpec => []OneReportPerRun
  <1>1. RegistryInv /\ RunInv => OneReportPerRun BY Zenon, RunImplies
  <1>. QED BY <1>1, RegistryCorrect, RunCorrect, PTL

\* Once the transport has ended, a running entry is one that the first pass of a hold
\* timeout has yet to collect: a start that it did not see cannot be confirmed after it
\* (onHoldTimeout).
THEOREM NoneOutlivesHold == SlotSpec => []NoSessionOutlivesHold
  <1>1. RegistryInv /\ RunInv => NoSessionOutlivesHold BY Zenon, RunImplies
  <1>. QED BY <1>1, RegistryCorrect, RunCorrect, PTL

\* An empty registry with no handler in flight has no MCP surface: whoever took the last
\* entry out looks at the surface afterwards (cancelPodMCPIfRuntimeIdle).
THEOREM EmptyPodServesNone == SlotSpec => []EmptyPodHasNoSurface
  <1>1. RegistryInv /\ RunInv => EmptyPodHasNoSurface BY Zenon, EmptyPod DEF EmptyPodHasNoSurface
  <1>. QED BY <1>1, RegistryCorrect, RunCorrect, PTL

\* The MCP server that a claim armed stays up while the claim's entry is registered: no
\* release of a departing session and no later claim cancels it
\* (claimPodMCPStartLocked, mcpArmingHeldLocked).
THEOREM SurfaceStays == SlotSpec => SurfaceStaysWithEntry
  <1>. DEFINE Stays == \A s \in Sessions :
         Registered(s) /\ slots'[s].id = slots[s].id /\ surface = slots[s].id => surface' = surface
  <1>1. RegistryInv /\ RunInv /\ [SlotNext]_vars => [Stays]_vars BY Zenon, SurfaceKept
  <1>. QED BY <1>1, RegistryCorrect, RunCorrect, PTL DEF SlotSpec, SurfaceStaysWithEntry

\* A Shutdown that finds no entry and answers with a clean exit answers for a session
\* that the runtime no longer holds, or that a hold timeout is ending: one that another
\* Shutdown is tearing down is counted (nonRemovingExitCleanLocked).
THEOREM CleanAnswerIsClosed == SlotSpec => CleanAbsentIsClosed
  <1>. DEFINE Clean == \A h \in Handlers :
         LET s == op[h].s
         IN op[h].rpc = "shutdown" /\ op[h].pc \in {"decide", "reclaim"}
              /\ op'[h].pc = "idle" /\ ~Registered(s) /\ NonRemovingExitClean(s)
            => s \notin runtimeLive
               \/ \E k \in Handlers : op[k].rpc = "timeout" /\ Terminates(k, s)
  <1>1. RegistryInv /\ RunInv => Clean BY Zenon, CleanClosed
  <1>. QED BY <1>1, RegistryCorrect, RunCorrect, PTL DEF SlotSpec, CleanAbsentIsClosed
=============================================================================
