-------------------------- MODULE TaskSchedProofs --------------------------
(***************************************************************************)
(* Proofs about the process table and the scheduler, for every number of   *)
(* slots, every width of the tick counter, every set of sleep lengths and  *)
(* exit codes and every bound on pids.                                     *)
(***************************************************************************)
EXTENDS TaskSchedSteps

(* A zombie's slot is freed and its status reported, by waitpid or by the *)
(* loop that waited for it.                                                *)
LEMMA ReportStep ==
  ASSUME TaskInv, NEW z \in Slots, status[z] = "ZOMBIE",
         \A t \in Slots : t # z =>
           /\ status'[t] = status[t] /\ pid'[t] = pid[t] /\ parent'[t] = parent[t]
           /\ exitCode'[t] = exitCode[t] /\ waitPid'[t] = waitPid[t],
         status'[z] = "FREE",
         told' = [told EXCEPT ![pid[z]] = Append(@, DueReport(pid[z], exitCode[z]))],
         born' = born, died' = died, nextPid' \in Nat, nextPid' >= nextPid
  PROVE  PidsUnique' /\ WaiterHasLiveChild' /\ TableMatchesHistory' /\ ExitReportedOnce'
  <1>. USE DEF TaskInv
  <1>0. /\ pid \in [Slots -> Nat] /\ nextPid \in Nat /\ told \in [Pids -> Seq(Nat \X Int)]
    BY DEF TypeOK, TableType, SchedType, HistoryType
  <1>1. \A t \in Slots : Used(t)' <=> Used(t) /\ t # z
    BY DEF Used
  <1>2. Used(z) /\ pid[z] \in Pids
    BY DEF PidsUnique, Used
  <1>3. PidsUnique'
    <2>1. \A a, b \in Slots : Used(a)' /\ Used(b)' /\ pid'[a] = pid'[b] => a = b
      BY <1>1 DEF PidsUnique
    <2>2. \A a \in Slots : Used(a)' => /\ pid'[a] \in Pids /\ parent'[a] < pid'[a]
                                       /\ pid'[a] < nextPid'
      BY <1>0, <1>1 DEF PidsUnique
    <2>. QED  BY <2>1, <2>2 DEF PidsUnique
  <1>4. WaiterHasLiveChild'
    <2>1. \A q \in Slots : status'[q] = "WAITING" => q # z
      OBVIOUS
    <2>2. \A q \in Slots : Used(q) /\ status[q] # "ZOMBIE" => q # z
      OBVIOUS
    <2>. QED  BY <1>1, <2>1, <2>2 DEF WaiterHasLiveChild, WaitMatches
  <1>5. TableMatchesHistory'
    <2>1. \A p \in Pids : p \in Nat
      BY DEF Pids
    <2>. QED  BY <1>0, <1>1, <2>1 DEF TableMatchesHistory
  <1>6. ExitReportedOnce'
    <2>. SUFFICES ASSUME NEW p \in Pids PROVE ReportedOnce(p)'
      BY DEF ExitReportedOnce
    <2>0. ReportedOnce(p)
      BY DEF ExitReportedOnce
    <2>1. CASE p = pid[z]
      <3>1. SlotOf(p) = {z}
        BY <2>1, <1>2 DEF SlotOf, PidsUnique
      <3>2. SlotOf(p)' = {}
        BY <2>1, <3>1, <1>1 DEF SlotOf
      <3>3. died[p] # <<>>
        BY <2>1, <1>2 DEF TableMatchesHistory
      <3>4. PICK c \in ExitCodes : died[p] = <<c>> /\ told[p] = <<>> /\ exitCode[z] = c
        BY <2>0, <3>1, <3>3 DEF ReportedOnce
      <3>5. told'[p] = Append(told[p], DueReport(p, c))
        BY <2>1, <1>0, <3>4
      <3>6. told'[p] = <<DueReport(p, c)>>
        BY <3>4, <3>5
      <3>7. DueReport(p, c)' = DueReport(p, c)
        BY DEF DueReport
      <3>. QED  BY <3>2, <3>4, <3>6, <3>7 DEF ReportedOnce
    <2>2. CASE p # pid[z]
      <3>1. told'[p] = told[p]
        BY <2>2, <1>0
      <3>2. SlotOf(p)' = SlotOf(p) /\ \A t \in SlotOf(p) : t # z /\ t \in Slots
        BY <2>2, <1>1 DEF SlotOf
      <3>. QED  BY <2>0, <3>1, <3>2, ReportCarries
    <2>. QED  BY <2>1, <2>2
  <1>. QED  BY <1>3, <1>4, <1>5, <1>6

LEMMA WaitpidCollectsStep ==
  ASSUME TaskInv, NEW r \in Pids \cup {AnyChild}, WaitpidCollects(r)
  PROVE  Core'
  <1>0. /\ status \in [Slots -> Statuses] /\ pid \in [Slots -> Nat]
        /\ parent \in [Slots -> Nat] /\ exitCode \in [Slots -> Int]
        /\ waitPid \in [Slots -> Int] /\ nextPid \in Nat
    BY DEF TaskInv, TypeOK, TableType, SchedType
  <1>1. /\ active \in Slots /\ status[active] = "RUNNABLE" /\ pid[active] = current
        /\ current \in Pids /\ root # 0
    BY RunningFacts DEF WaitpidCollects
  <1>2. PICK z \in Slots :
          /\ status[z] = "ZOMBIE" /\ parent[z] = pid[active]
          /\ status' = [status EXCEPT ![z] = "FREE"]
          /\ pid' = [pid EXCEPT ![z] = 0]
          /\ parent' = [parent EXCEPT ![z] = 0]
          /\ exitCode' = [exitCode EXCEPT ![z] = 0]
          /\ waitPid' = [waitPid EXCEPT ![z] = 0]
          /\ told' = [told EXCEPT ![pid[z]] =
                        Append(@, <<pid[active], StatusWord(exitCode[z])>>)]
    BY DEF WaitpidCollects, Collectable
  <1>3. \A t \in Slots : t # z =>
          /\ status'[t] = status[t] /\ pid'[t] = pid[t] /\ parent'[t] = parent[t]
          /\ exitCode'[t] = exitCode[t] /\ waitPid'[t] = waitPid[t]
    BY <1>0, <1>2
  <1>4. DueReport(pid[z], exitCode[z]) = <<pid[active], StatusWord(exitCode[z])>>
    <2>1. born[pid[z]] = pid[active]
      BY <1>2 DEF TaskInv, TableMatchesHistory, Used
    <2>2. pid[active] # Kernel
      BY <1>1 DEF Pids, Kernel
    <2>. QED  BY <2>1, <2>2 DEF DueReport
  <1>5. /\ PidsUnique' /\ WaiterHasLiveChild' /\ TableMatchesHistory' /\ ExitReportedOnce'
    <2>1. status'[z] = "FREE" /\ born' = born /\ died' = died /\ nextPid' = nextPid
      BY <1>0, <1>2 DEF WaitpidCollects
    <2>2. told' = [told EXCEPT ![pid[z]] = Append(@, DueReport(pid[z], exitCode[z]))]
      BY <1>2, <1>4
    <2>3. nextPid' \in Nat /\ nextPid' >= nextPid
      BY <1>0, <2>1
    <2>4. status[z] = "ZOMBIE"
      BY <1>2
    <2>. QED  BY <1>3, <2>1, <2>2, <2>3, <2>4, ReportStep
  <1>6. RunningSlotIsCurrent'
    BY <1>1, <1>2, <1>3 DEF WaitpidCollects, RunningSlotIsCurrent, TaskInv, InUser
  <1>7. RootInTable'
    <2>1. PICK s \in Slots : Used(s) /\ pid[s] = root /\ parent[s] = Kernel
      BY <1>1 DEF TaskInv, RootInTable, SlotOf
    <2>2. s # z
      BY <1>1, <1>2, <2>1 DEF Kernel, Pids
    <2>. QED  BY <1>3, <2>1, <2>2 DEF WaitpidCollects, RootInTable, SlotOf, Used
  <1>. QED  BY <1>5, <1>6, <1>7 DEF Core

LEMMA FinishStep ==
  ASSUME TaskInv, Finish
  PROVE  Core'
  <1>0. pid \in [Slots -> Nat] /\ nextPid \in Nat
    BY DEF TaskInv, TypeOK, TableType, SchedType
  <1>1. PICK z \in Slots : /\ Used(z) /\ pid[z] = root /\ parent[z] = Kernel
    BY DEF Finish, InLoop, TaskInv, RootInTable, SlotOf
  <1>2. SlotOf(root) = {z}
    BY <1>1 DEF SlotOf, TaskInv, PidsUnique
  <1>3. status[z] = "ZOMBIE"
    BY <1>2 DEF Finish
  <1>4. /\ status'[z] = "FREE"
        /\ \A t \in Slots : t # z =>
             /\ status'[t] = status[t] /\ pid'[t] = pid[t] /\ parent'[t] = parent[t]
             /\ exitCode'[t] = exitCode[t] /\ waitPid'[t] = waitPid[t]
    BY <1>2 DEF Finish
  <1>5. result' = exitCode[z]
    BY <1>2 DEF Finish
  <1>6. DueReport(pid[z], exitCode[z]) = <<Kernel, result'>>
    BY <1>1, <1>5 DEF DueReport, TaskInv, TableMatchesHistory
  <1>7. /\ told' = [told EXCEPT ![pid[z]] = Append(@, DueReport(pid[z], exitCode[z]))]
        /\ born' = born /\ died' = died /\ nextPid' = nextPid + 1
    BY <1>1, <1>6 DEF Finish
  <1>8. /\ PidsUnique' /\ WaiterHasLiveChild' /\ TableMatchesHistory' /\ ExitReportedOnce'
    <2>1. nextPid' \in Nat /\ nextPid' >= nextPid
      BY <1>0, <1>7
    <2>. QED  BY <1>3, <1>4, <1>7, <2>1, ReportStep
  <1>9. RunningSlotIsCurrent' /\ RootInTable'
    BY DEF Finish, RunningSlotIsCurrent, RootInTable, InUser
  <1>. QED  BY <1>8, <1>9 DEF Core

LEMMA ExitZombieStep ==
  ASSUME TaskInv, NEW code \in ExitCodes, ExitZombie(code)
  PROVE  Core'
  <1>. USE DEF TaskInv
  <1>0. /\ status \in [Slots -> Statuses] /\ exitCode \in [Slots -> Int]
        /\ died \in [Pids -> Seq(ExitCodes)]
    BY DEF TypeOK, TableType, HistoryType
  <1>1. /\ active \in Slots /\ status[active] = "RUNNABLE" /\ Used(active)
        /\ pid[active] = current /\ current \in Pids /\ current < nextPid /\ pid' = pid
    BY RunningFacts DEF ExitZombie
  <1>2. /\ status'[active] = "ZOMBIE" /\ exitCode'[active] = code
        /\ \A t \in Slots : t # active => status'[t] = status[t] /\ exitCode'[t] = exitCode[t]
    BY <1>0, <1>1 DEF ExitZombie
  <1>3. /\ parent' = parent /\ waitPid' = waitPid /\ nextPid' = nextPid /\ root' = root
        /\ born' = born /\ told' = told
    BY DEF ExitZombie
  <1>4. \A t \in Slots : Used(t)' <=> Used(t)
    BY <1>1, <1>2 DEF Used
  <1>5. \A p : SlotOf(p)' = SlotOf(p)
    BY <1>1, <1>4 DEF SlotOf
  <1>6. died[current] = <<>>
    BY <1>1 DEF TableMatchesHistory
  <1>7. died'[current] = <<code>> /\ \A p \in Pids : p # current => died'[p] = died[p]
    BY <1>0, <1>1, <1>6 DEF ExitZombie
  <1>8. PidsUnique' /\ RunningSlotIsCurrent' /\ RootInTable'
    BY <1>1, <1>3, <1>4, <1>5
       DEF PidsUnique, RootInTable, RunningSlotIsCurrent, InUser, ExitZombie
  <1>9. WaiterHasLiveChild'
    <2>. SUFFICES ASSUME NEW q \in Slots, status'[q] = "WAITING"
                  PROVE  \E s \in Slots : /\ Used(s)' /\ status'[s] # "ZOMBIE"
                                          /\ parent[s] = pid[q]
                                          /\ WaitMatches(waitPid[q], pid[s])
      BY <1>1, <1>3 DEF WaiterHasLiveChild, WaitMatches
    <2>1. status[q] = "WAITING"
      BY <1>2
    <2>2. PICK s \in Slots : /\ Used(s) /\ status[s] # "ZOMBIE"
                             /\ parent[s] = pid[q]
                             /\ WaitMatches(waitPid[q], pid[s])
      BY <2>1 DEF WaiterHasLiveChild
    <2>3. s # active
      BY <1>1, <2>1, <2>2 DEF ExitZombie, WaitsForActive
    <2>. QED  BY <1>2, <1>4, <2>2, <2>3
  <1>10. TableMatchesHistory'
    <2>1. \A t \in Slots : Used(t) /\ t # active => pid[t] # current /\ pid[t] \in Pids
      BY <1>1 DEF PidsUnique
    <2>2. \A t \in Slots : Used(t) =>
             born[pid[t]] = parent[t] /\ (status'[t] = "ZOMBIE" <=> died'[pid[t]] # <<>>)
      BY <1>1, <1>2, <1>7, <2>1 DEF TableMatchesHistory
    <2>4. \A p \in Pids : p >= nextPid => p # current
      BY <1>1 DEF Pids, TypeOK, SchedType
    <2>3. \A p \in Pids : p >= nextPid => died'[p] = <<>>
      BY <1>7, <2>4 DEF TableMatchesHistory
    <2>. QED  BY <1>1, <1>3, <1>4, <2>2, <2>3 DEF TableMatchesHistory
  <1>11. ExitReportedOnce'
    <2>. SUFFICES ASSUME NEW p \in Pids PROVE ReportedOnce(p)'
      BY DEF ExitReportedOnce
    <2>0. ReportedOnce(p)
      BY DEF ExitReportedOnce
    <2>1. CASE p = current
      <3>1. active \in SlotOf(p)'
        BY <1>1, <1>5, <2>1 DEF SlotOf
      <3>4. died[p] = <<>>
        BY <1>6, <2>1
      <3>5. told[p] = <<>>
        BY <2>0, <3>4, NothingReported
      <3>2. told'[p] = <<>>
        BY <1>3, <3>5
      <3>3. died'[p] = <<code>>
        BY <1>7, <2>1
      <3>. QED  BY <1>2, <3>1, <3>2, <3>3 DEF ReportedOnce
    <2>2. CASE p # current
      <3>1. \A t \in SlotOf(p) : status'[t] = status[t] /\ exitCode'[t] = exitCode[t]
        BY <1>1, <1>2, <2>2 DEF SlotOf
      <3>. QED  BY <1>3, <1>5, <1>7, <2>0, <2>2, <3>1, ReportCarries
    <2>. QED  BY <2>1, <2>2
  <1>. QED  BY <1>8, <1>9, <1>10, <1>11 DEF Core

LEMMA ExitCollectedStep ==
  ASSUME TaskInv, NEW code \in ExitCodes, ExitCollected(code)
  PROVE  Core'
  <1>. USE DEF TaskInv
  <1>0. /\ status \in [Slots -> Statuses] /\ pid \in [Slots -> Nat]
        /\ parent \in [Slots -> Nat] /\ exitCode \in [Slots -> Int]
        /\ waitPid \in [Slots -> Int] /\ nextPid \in Nat
        /\ died \in [Pids -> Seq(ExitCodes)] /\ told \in [Pids -> Seq(Nat \X Int)]
    BY DEF TypeOK, TableType, SchedType, HistoryType
  <1>1. /\ active \in Slots /\ status[active] = "RUNNABLE" /\ Used(active)
        /\ pid[active] = current /\ current \in Pids /\ current < nextPid /\ root # 0
    BY RunningFacts DEF ExitCollected
  <1>2. PICK q \in Slots :
          /\ WaitsForActive(q)
          /\ status' = [status EXCEPT ![q] = "RUNNABLE", ![active] = "FREE"]
          /\ waitPid' = [waitPid EXCEPT ![q] = 0, ![active] = 0]
          /\ told' = [told EXCEPT ![current] = Append(@, <<pid[q], StatusWord(code)>>)]
    BY DEF ExitCollected
  <1>3. q # active /\ status[q] = "WAITING" /\ pid[q] = parent[active]
    BY <1>1, <1>2 DEF WaitsForActive
  <1>4. /\ status'[active] = "FREE" /\ status'[q] = "RUNNABLE"
        /\ \A t \in Slots : t # active /\ t # q => /\ status'[t] = status[t]
                                                  /\ waitPid'[t] = waitPid[t]
    BY <1>0, <1>1, <1>2, <1>3
  <1>5. \A t \in Slots : t # active => /\ pid'[t] = pid[t] /\ parent'[t] = parent[t]
                                       /\ exitCode'[t] = exitCode[t]
    BY <1>0 DEF ExitCollected
  <1>6. /\ nextPid' = nextPid /\ root' = root /\ born' = born
    BY DEF ExitCollected
  <1>7. \A t \in Slots : Used(t)' <=> Used(t) /\ t # active
    BY <1>3, <1>4 DEF Used
  <1>8. died[current] = <<>> /\ told[current] = <<>>
    BY <1>1 DEF TableMatchesHistory, ExitReportedOnce, ReportedOnce
  <1>9. died'[current] = <<code>> /\ \A p \in Pids : p # current => died'[p] = died[p]
    BY <1>0, <1>1, <1>8 DEF ExitCollected
  <1>10. told'[current] = <<DueReport(current, code)>>
    <2>1. born[current] = pid[q]
      BY <1>1, <1>3 DEF TableMatchesHistory
    <2>2. pid[q] # Kernel
      BY <1>3 DEF PidsUnique, Used, Pids, Kernel
    <2>3. told'[current] = Append(told[current], <<pid[q], StatusWord(code)>>)
      BY <1>0, <1>1, <1>2
    <2>. QED  BY <1>8, <2>1, <2>2, <2>3 DEF DueReport
  <1>11. \A p \in Pids : p # current => told'[p] = told[p]
    BY <1>0, <1>2
  <1>12. PidsUnique'
    <2>1. \A a, b \in Slots : Used(a)' /\ Used(b)' /\ pid'[a] = pid'[b] => a = b
      BY <1>5, <1>7 DEF PidsUnique
    <2>2. \A a \in Slots : Used(a)' => /\ pid'[a] \in Pids /\ parent'[a] < pid'[a]
                                       /\ pid'[a] < nextPid'
      BY <1>5, <1>6, <1>7 DEF PidsUnique
    <2>. QED  BY <2>1, <2>2 DEF PidsUnique
  <1>13. RunningSlotIsCurrent'
    BY DEF ExitCollected, RunningSlotIsCurrent, InUser
  <1>14. RootInTable'
    <2>1. PICK s \in Slots : Used(s) /\ pid[s] = root /\ parent[s] = Kernel
      BY <1>1 DEF RootInTable, SlotOf
    <2>2. s # active
      BY <1>3, <2>1 DEF PidsUnique, Used, Pids, Kernel
    <2>. QED  BY <1>5, <1>6, <1>7, <2>1, <2>2 DEF RootInTable, SlotOf
  <1>15. WaiterHasLiveChild'
    <2>. SUFFICES ASSUME NEW w \in Slots, status'[w] = "WAITING"
                  PROVE  \E s \in Slots : /\ Used(s)' /\ status'[s] # "ZOMBIE"
                                          /\ parent'[s] = pid'[w]
                                          /\ WaitMatches(waitPid'[w], pid'[s])
      BY DEF WaiterHasLiveChild, WaitMatches
    <2>1. status[w] = "WAITING" /\ w # q /\ w # active
      BY <1>4
    <2>2. PICK s \in Slots : /\ Used(s) /\ status[s] # "ZOMBIE"
                             /\ parent[s] = pid[w]
                             /\ WaitMatches(waitPid[w], pid[s])
      BY <2>1 DEF WaiterHasLiveChild
    <2>3. s # active
      <3>1. SUFFICES ASSUME s = active PROVE FALSE
        OBVIOUS
      <3>2. pid[w] = pid[q]
        BY <1>3, <2>2, <3>1
      <3>. QED  BY <1>3, <2>1, <3>2 DEF PidsUnique, Used
    <2>4. status'[s] # "ZOMBIE"
      BY <1>4, <2>2, <2>3
    <2>. QED  BY <1>4, <1>5, <1>7, <2>1, <2>2, <2>3, <2>4
  <1>16. TableMatchesHistory'
    <2>1. \A t \in Slots : Used(t) /\ t # active => pid[t] # current /\ pid[t] \in Pids
      BY <1>1 DEF PidsUnique
    <2>2. \A t \in Slots : Used(t)' =>
             born[pid'[t]] = parent'[t] /\ (status'[t] = "ZOMBIE" <=> died'[pid'[t]] # <<>>)
      BY <1>3, <1>4, <1>5, <1>7, <1>9, <2>1 DEF TableMatchesHistory, Used
    <2>4. \A p \in Pids : p >= nextPid => p # current
      BY <1>0, <1>1 DEF Pids
    <2>3. \A p \in Pids : p >= nextPid => died'[p] = <<>>
      BY <1>9, <2>4 DEF TableMatchesHistory
    <2>. QED  BY <1>6, <2>2, <2>3 DEF TableMatchesHistory
  <1>17. ExitReportedOnce'
    <2>. SUFFICES ASSUME NEW p \in Pids PROVE ReportedOnce(p)'
      BY DEF ExitReportedOnce
    <2>0. ReportedOnce(p)
      BY DEF ExitReportedOnce
    <2>1. CASE p = current
      <3>1. SlotOf(p)' = {}
        BY <1>1, <1>5, <1>7, <2>1 DEF SlotOf, PidsUnique
      <3>2. told'[p] = <<DueReport(p, code)'>> /\ died'[p] = <<code>>
        BY <1>6, <1>9, <1>10, <2>1 DEF DueReport
      <3>. QED  BY <3>1, <3>2 DEF ReportedOnce
    <2>2. CASE p # current
      <3>1. SlotOf(p)' = SlotOf(p) /\ \A t \in SlotOf(p) : t # active /\ t \in Slots
        BY <1>1, <1>5, <1>7, <2>2 DEF SlotOf
      <3>2. \A t \in SlotOf(p) : status[t] = "ZOMBIE" =>
               status'[t] = "ZOMBIE" /\ exitCode'[t] = exitCode[t]
        BY <1>3, <1>4, <1>5, <3>1
      <3>3. died'[p] = died[p] /\ told'[p] = told[p]
        BY <1>9, <1>11, <2>2
      <3>. QED  BY <1>6, <2>0, <3>1, <3>2, <3>3, ReportCarries
    <2>. QED  BY <2>1, <2>2
  <1>. QED  BY <1>12, <1>13, <1>14, <1>15, <1>16, <1>17 DEF Core

-----------------------------------------------------------------------------
(* The initial state satisfies the inductive invariant. *)
LEMMA InitInv == Init => TaskInv
  <1>. SUFFICES ASSUME Init PROVE TaskInv
    OBVIOUS
  <1>1. TypeOK
    BY TickAssumption DEF Init, TypeOK, TableType, SchedType, HistoryType, Statuses, None
  <1>2. PidsUnique /\ RunningSlotIsCurrent /\ WaiterHasLiveChild /\ RootInTable
    BY DEF Init, PidsUnique, RunningSlotIsCurrent, WaiterHasLiveChild, RootInTable, Used,
           InUser
  <1>3. TableMatchesHistory /\ ExitReportedOnce
    BY DEF Init, TableMatchesHistory, ExitReportedOnce, ReportedOnce, Used
  <1>. QED  BY <1>1, <1>2, <1>3 DEF TaskInv

(* Every step preserves the inductive invariant. *)
LEMMA StepInv == TaskInv /\ [Next]_vars => TaskInv'
  <1>. SUFFICES ASSUME TaskInv, [Next]_vars PROVE TaskInv'
    OBVIOUS
  <1>1. CASE Next
    <2>1. TypeOK'
      BY <1>1, TypeStep DEF TaskInv
    <2>2. Core'
      BY <1>1, SchedulingSteps, CreationSteps, WaitpidCollectsStep, FinishStep,
         ExitZombieStep, ExitCollectedStep DEF Next, Waitpid, Exit
    <2>. QED  BY <2>1, <2>2 DEF TaskInv, Core
  <1>2. CASE UNCHANGED vars
    <2>1. TypeOK'
      BY <1>2 DEF vars, table, history, TaskInv, TypeOK, TableType, SchedType, HistoryType
    <2>2. RunningSlotIsCurrent'
      BY <1>2 DEF vars, table, TaskInv, RunningSlotIsCurrent, InUser
    <2>3. WaiterHasLiveChild'
      BY <1>2, WaitersKeepChild DEF vars, table
    <2>4. PidsUnique' /\ RootInTable' /\ TableMatchesHistory' /\ ExitReportedOnce'
      <3>1. nextPid' \in Nat /\ nextPid' >= nextPid
        BY <1>2 DEF vars, TaskInv, TypeOK, SchedType
      <3>. QED  BY <1>2, <3>1, QuietStep DEF vars, table, history
    <2>. QED  BY <2>1, <2>2, <2>3, <2>4 DEF TaskInv
  <1>. QED  BY <1>1, <1>2

(* TaskInv is an invariant of the scheduler. *)
THEOREM SpecTaskInv == Spec => []TaskInv
  BY InitInv, StepInv, PTL DEF Spec

(* The kernel's variables keep their types, indices stay inside the table  *)
(* and tick values inside their width, however the steps interleave.       *)
THEOREM SpecTypeOK == Spec => []TypeOK
  <1>1. TaskInv => TypeOK
    BY DEF TaskInv
  <1>. QED  BY <1>1, SpecTaskInv, PTL

(* No pid names two processes and children are younger than parents. *)
THEOREM SpecPidsUnique == Spec => []PidsUnique
  <1>1. TaskInv => PidsUnique
    BY DEF TaskInv
  <1>. QED  BY <1>1, SpecTaskInv, PTL

(* active_task_slot, current_task and the cursor agree in user mode. *)
THEOREM SpecRunningSlotIsCurrent == Spec => []RunningSlotIsCurrent
  <1>1. TaskInv => RunningSlotIsCurrent
    BY DEF TaskInv
  <1>. QED  BY <1>1, SpecTaskInv, PTL

(* waitpid never sleeps through the exit it waits for. *)
THEOREM SpecWaiterHasLiveChild == Spec => []WaiterHasLiveChild
  <1>1. TaskInv => WaiterHasLiveChild
    BY DEF TaskInv
  <1>. QED  BY <1>1, SpecTaskInv, PTL

(* An exit status is kept or reported exactly once, to the right receiver. *)
THEOREM SpecExitReportedOnce == Spec => []ExitReportedOnce
  <1>1. TaskInv => ExitReportedOnce
    BY DEF TaskInv
  <1>. QED  BY <1>1, SpecTaskInv, PTL
=============================================================================
