--------------------------- MODULE TaskSchedSteps ---------------------------
(***************************************************************************)
(* The steps that schedule, block, wake and create processes keep what     *)
(* TaskInv says beyond types.                                              *)
(***************************************************************************)
EXTENDS TaskSchedTypes

-----------------------------------------------------------------------------
(* What the invariant says of the running process. *)
LEMMA RunningFacts ==
  ASSUME TaskInv, InUser
  PROVE  /\ active \in Slots /\ status[active] = "RUNNABLE" /\ Used(active)
         /\ pid[active] = current /\ current \in Pids /\ current < nextPid
         /\ root # 0 /\ SavedPid = pid
  <1>1. active \in Slots
    BY DEF TaskInv, TypeOK, SchedType, InUser
  <1>2. status[active] = "RUNNABLE" /\ Used(active) /\ pid[active] = current /\ root # 0
    BY DEF TaskInv, RunningSlotIsCurrent, Used
  <1>3. current \in Pids /\ current < nextPid
    BY <1>1, <1>2 DEF TaskInv, PidsUnique
  <1>4. SavedPid = pid
    BY <1>1, <1>2 DEF SavedPid, TaskInv, TypeOK, TableType
  <1>. QED  BY <1>1, <1>2, <1>3, <1>4

(* A process that has not exited has not been reported. *)
LEMMA NothingReported ==
  ASSUME NEW p, ReportedOnce(p), died[p] = <<>>
  PROVE  told[p] = <<>>
  <1>1. \A c : <<c>> # <<>>
    OBVIOUS
  <1>. QED  BY <1>1 DEF ReportedOnce

(* A step that does not touch process p keeps what is known of its exit. *)
LEMMA ReportCarries ==
  ASSUME NEW p \in Pids, ReportedOnce(p),
         died'[p] = died[p], told'[p] = told[p], born'[p] = born[p],
         SlotOf(p)' = SlotOf(p),
         \A t \in SlotOf(p) : status[t] = "ZOMBIE" =>
                                status'[t] = "ZOMBIE" /\ exitCode'[t] = exitCode[t]
  PROVE  ReportedOnce(p)'
  <1>1. CASE died[p] = <<>> /\ told[p] = <<>>
    BY <1>1 DEF ReportedOnce
  <1>2. ASSUME NEW c \in ExitCodes, died[p] = <<c>>, told[p] = <<>>,
               NEW t \in SlotOf(p), status[t] = "ZOMBIE", exitCode[t] = c
        PROVE  ReportedOnce(p)'
    BY <1>2 DEF ReportedOnce
  <1>3. ASSUME NEW c \in ExitCodes, died[p] = <<c>>, told[p] = <<DueReport(p, c)>>,
               SlotOf(p) = {}
        PROVE  ReportedOnce(p)'
    BY <1>3 DEF ReportedOnce, DueReport
  <1>. QED  BY <1>1, <1>2, <1>3 DEF ReportedOnce

(* A step that creates, ends and reports no process keeps what relates the *)
(* table to pids and history.                                              *)
LEMMA QuietStep ==
  ASSUME TaskInv,
         pid' = pid, parent' = parent, exitCode' = exitCode, root' = root,
         born' = born, died' = died, told' = told,
         nextPid' \in Nat, nextPid' >= nextPid,
         \A s \in Slots : /\ status'[s] = "FREE" <=> status[s] = "FREE"
                          /\ status'[s] = "ZOMBIE" <=> status[s] = "ZOMBIE"
  PROVE  PidsUnique' /\ RootInTable' /\ TableMatchesHistory' /\ ExitReportedOnce'
  <1>. USE DEF TaskInv
  <1>1. \A s \in Slots : Used(s)' <=> Used(s)
    BY DEF Used
  <1>2. \A p : SlotOf(p)' = SlotOf(p)
    BY <1>1 DEF SlotOf
  <1>3. nextPid \in Nat /\ \A s \in Slots : pid[s] \in Nat
    BY DEF TypeOK, TableType, SchedType
  <1>4. PidsUnique'
    BY <1>1, <1>3 DEF PidsUnique
  <1>5. RootInTable'
    BY <1>2 DEF RootInTable
  <1>6. TableMatchesHistory'
    <2>1. \A p \in Pids : p \in Nat
      BY DEF Pids
    <2>. QED  BY <1>1, <1>3, <2>1 DEF TableMatchesHistory
  <1>7. ExitReportedOnce'
    <2>1. \A p : \A s \in SlotOf(p) : s \in Slots
      BY DEF SlotOf
    <2>. QED  BY <1>2, <2>1, ReportCarries DEF ExitReportedOnce
  <1>. QED  BY <1>4, <1>5, <1>6, <1>7

(* Waiters keep their live child when no process starts to wait or exits. *)
LEMMA WaitersKeepChild ==
  ASSUME TaskInv, pid' = pid, parent' = parent,
         \A s \in Slots :
           /\ status'[s] = "FREE" => status[s] = "FREE"
           /\ status'[s] = "ZOMBIE" => status[s] = "ZOMBIE"
           /\ status'[s] = "WAITING" => status[s] = "WAITING" /\ waitPid'[s] = waitPid[s]
  PROVE  WaiterHasLiveChild'
  BY DEF TaskInv, WaiterHasLiveChild, Used, WaitMatches

(* The invariant without its typing part. *)
Core ==
  /\ PidsUnique /\ RunningSlotIsCurrent /\ WaiterHasLiveChild
  /\ RootInTable /\ TableMatchesHistory /\ ExitReportedOnce

(* Steps that only move statuses between RUNNABLE, SLEEPING and WAITING. *)
LEMMA SchedulingSteps ==
  ASSUME TaskInv,
         \/ RunAlongsideFails \/ Resume \/ SpawnFails
         \/ \E r \in Pids \cup {AnyChild} : WaitpidBlocks(r)
         \/ \E d \in SleepTicks : Nanosleep(d)
         \/ SleepForever \/ Yield
         \/ \E s \in Slots : WakeSlot(s)
         \/ Tick
  PROVE  Core'
  <1>0. /\ status \in [Slots -> Statuses] /\ pid \in [Slots -> Nat]
        /\ waitPid \in [Slots -> Int] /\ nextPid \in Nat /\ active \in Slots \cup {None}
    BY DEF TaskInv, TypeOK, TableType, SchedType
  <1>1. CASE RunAlongsideFails
    <2>1. PidsUnique' /\ RootInTable' /\ TableMatchesHistory' /\ ExitReportedOnce'
      BY <1>0, <1>1, QuietStep DEF RunAlongsideFails, table, history
    <2>2. WaiterHasLiveChild'
      BY <1>1, WaitersKeepChild DEF RunAlongsideFails, table
    <2>3. RunningSlotIsCurrent'
      BY <1>1 DEF RunAlongsideFails, RunningSlotIsCurrent, InUser
    <2>. QED  BY <2>1, <2>2, <2>3 DEF Core
  <1>2. CASE Resume
    <2>1. \A s \in Slots : \/ status'[s] = status[s]
                           \/ status[s] = "SLEEPING" /\ status'[s] = "RUNNABLE"
      BY <1>2 DEF Resume, WakeReady
    <2>2. PidsUnique' /\ RootInTable' /\ TableMatchesHistory' /\ ExitReportedOnce'
      BY <1>0, <1>2, <2>1, QuietStep DEF Resume, history
    <2>3. WaiterHasLiveChild'
      BY <1>2, <2>1, WaitersKeepChild DEF Resume
    <2>4. RunningSlotIsCurrent'
      BY <1>2 DEF Resume, RunningSlotIsCurrent, IsNextRunnable, InLoop
    <2>. QED  BY <2>2, <2>3, <2>4 DEF Core
  <1>3. CASE SpawnFails
    <2>1. pid' = pid /\ current' = current
      BY <1>3, RunningFacts DEF SpawnFails
    <2>2. PidsUnique' /\ RootInTable' /\ TableMatchesHistory' /\ ExitReportedOnce'
      BY <1>0, <1>3, <2>1, QuietStep DEF SpawnFails, history
    <2>3. WaiterHasLiveChild'
      BY <1>3, <2>1, WaitersKeepChild DEF SpawnFails
    <2>4. RunningSlotIsCurrent'
      BY <1>3, <2>1 DEF SpawnFails, RunningSlotIsCurrent, InUser, TaskInv
    <2>. QED  BY <2>2, <2>3, <2>4 DEF Core
  <1>4. ASSUME NEW st, st \in {"RUNNABLE", "SLEEPING", "WAITING"}, InUser, Block(st)
        PROVE  /\ PidsUnique' /\ RootInTable' /\ TableMatchesHistory' /\ ExitReportedOnce'
               /\ RunningSlotIsCurrent'
    <2>1. pid' = pid
      BY <1>4, RunningFacts DEF Block
    <2>2. \A s \in Slots : /\ status'[s] = "FREE" <=> status[s] = "FREE"
                           /\ status'[s] = "ZOMBIE" <=> status[s] = "ZOMBIE"
      BY <1>0, <1>4, RunningFacts DEF Block
    <2>3. RunningSlotIsCurrent'
      BY <1>4 DEF Block, RunningSlotIsCurrent, InUser
    <2>. QED  BY <1>0, <1>4, <2>1, <2>2, <2>3, QuietStep DEF Block, history
  <1>5. ASSUME NEW st, st \in {"RUNNABLE", "SLEEPING"}, InUser, Block(st),
               waitPid' = waitPid
        PROVE  WaiterHasLiveChild'
    <2>1. pid' = pid
      BY <1>5, RunningFacts DEF Block
    <2>. QED  BY <1>0, <1>5, <2>1, RunningFacts, WaitersKeepChild DEF Block
  <1>6. ASSUME NEW r \in Pids \cup {AnyChild}, WaitpidBlocks(r)
        PROVE  Core'
    <2>1. pid' = pid /\ parent' = parent /\ active \in Slots
      BY <1>6, RunningFacts DEF WaitpidBlocks, Block
    <2>2. PICK c \in Slots : /\ Used(c) /\ parent[c] = pid[active]
                             /\ WaitMatches(r, pid[c]) /\ status[c] # "ZOMBIE"
      BY <1>6 DEF WaitpidBlocks, Collectable
    <2>3. \A s \in Slots : s # active => status'[s] = status[s] /\ waitPid'[s] = waitPid[s]
      BY <1>0, <1>6 DEF WaitpidBlocks, Block
    <2>4. status'[active] = "WAITING" /\ waitPid'[active] = r
      BY <1>0, <1>6, <2>1 DEF WaitpidBlocks, Block
    <2>5. \A s \in Slots : Used(s) /\ status[s] # "ZOMBIE" => Used(s)' /\ status'[s] # "ZOMBIE"
      BY <2>3, <2>4 DEF Used
    <2>6. WaiterHasLiveChild'
      <3>. SUFFICES ASSUME NEW q \in Slots, status'[q] = "WAITING"
                    PROVE  \E s \in Slots : /\ Used(s)' /\ status'[s] # "ZOMBIE"
                                            /\ parent'[s] = pid'[q]
                                            /\ WaitMatches(waitPid'[q], pid'[s])
        BY DEF WaiterHasLiveChild, WaitMatches
      <3>1. CASE q = active
        BY <3>1, <2>1, <2>2, <2>4, <2>5
      <3>2. CASE q # active
        BY <3>2, <2>1, <2>3, <2>5 DEF TaskInv, WaiterHasLiveChild
      <3>. QED  BY <3>1, <3>2
    <2>. QED  BY <1>6, <1>4, <2>6 DEF WaitpidBlocks, Core
  <1>7. CASE \/ \E d \in SleepTicks : Nanosleep(d)
             \/ SleepForever \/ Yield
    BY <1>7, <1>4, <1>5 DEF Nanosleep, SleepForever, Yield, Core
  <1>8. ASSUME NEW s \in Slots, WakeSlot(s)
        PROVE  Core'
    <2>0. Used(s) /\ \A t \in Slots : t # s => status'[t] = status[t]
      BY <1>0, <1>8 DEF WakeSlot
    <2>5. status'[s] = (IF status[s] = "ZOMBIE" THEN status[s] ELSE "RUNNABLE")
      BY <1>0, <1>8 DEF WakeSlot
    <2>1. \A t \in Slots : \/ status'[t] = status[t]
                           \/ /\ status[t] # "FREE" /\ status[t] # "ZOMBIE"
                              /\ status'[t] = "RUNNABLE"
      BY <2>0, <2>5 DEF Used
    <2>6. /\ pid' = pid /\ parent' = parent /\ exitCode' = exitCode /\ waitPid' = waitPid
          /\ root' = root /\ born' = born /\ died' = died /\ told' = told
          /\ nextPid' = nextPid /\ active' = active /\ cursor' = cursor
          /\ current' = current
      BY <1>8 DEF WakeSlot, history
    <2>2. PidsUnique' /\ RootInTable' /\ TableMatchesHistory' /\ ExitReportedOnce'
      BY <1>0, <2>1, <2>6, QuietStep
    <2>3. WaiterHasLiveChild'
      BY <2>1, <2>6, WaitersKeepChild
    <2>4. RunningSlotIsCurrent'
      BY <1>8, <2>1, <2>6, RunningFacts DEF WakeSlot, RunningSlotIsCurrent, TaskInv, InUser
    <2>. QED  BY <2>2, <2>3, <2>4 DEF Core
  <1>9. CASE Tick
    <2>1. \A t \in Slots : \/ status'[t] = status[t]
                           \/ status[t] = "SLEEPING" /\ status'[t] = "RUNNABLE"
      BY <1>9 DEF Tick, WakeReady
    <2>2. pid' = pid
      BY <1>9, RunningFacts DEF Tick, Switches
    <2>3. PidsUnique' /\ RootInTable' /\ TableMatchesHistory' /\ ExitReportedOnce'
      BY <1>0, <1>9, <2>1, <2>2, QuietStep DEF Tick, history
    <2>4. WaiterHasLiveChild'
      BY <1>9, <2>1, <2>2, WaitersKeepChild DEF Tick
    <2>5. RunningSlotIsCurrent'
      <3>1. CASE ~Switches(ticks')
        BY <1>9, <3>1, <2>1, <2>2, <1>0
           DEF Tick, RunningSlotIsCurrent, TaskInv, InUser
      <3>2. CASE Switches(ticks')
        BY <1>9, <3>2, <2>2, RunningFacts
           DEF Tick, Switches, RunningSlotIsCurrent, IsNextRunnable
      <3>. QED  BY <3>1, <3>2
    <2>. QED  BY <2>3, <2>4, <2>5 DEF Core
  <1>. QED  BY <1>1, <1>2, <1>3, <1>6, <1>7, <1>8, <1>9

(* Creating a process keeps the invariant, whatever happens to the running *)
(* slot and to root, as long as root ends up on a process of the kernel.   *)
LEMMA CreateStep ==
  ASSUME TaskInv, NEW s \in Slots, NEW par \in Nat, ~Used(s),
         CreateIn(s, par, pid), par < nextPid, nextPid <= MaxPid
  PROVE  /\ PidsUnique' /\ WaiterHasLiveChild' /\ TableMatchesHistory' /\ ExitReportedOnce'
         /\ \A t \in Slots : t # s => /\ status'[t] = status[t] /\ pid'[t] = pid[t]
                                      /\ parent'[t] = parent[t]
         /\ status'[s] = "RUNNABLE" /\ pid'[s] = nextPid /\ parent'[s] = par
  <1>. USE DEF TaskInv
  <1>0. /\ status \in [Slots -> Statuses] /\ pid \in [Slots -> Nat]
        /\ parent \in [Slots -> Nat] /\ nextPid \in Nat /\ MaxPid \in Nat
        /\ born \in [Pids -> Nat]
    BY PidAssumption DEF TypeOK, TableType, SchedType, HistoryType
  <1>1. /\ \A t \in Slots : t # s => /\ status'[t] = status[t] /\ pid'[t] = pid[t]
                                     /\ parent'[t] = parent[t]
        /\ status'[s] = "RUNNABLE" /\ pid'[s] = nextPid /\ parent'[s] = par
    BY <1>0 DEF CreateIn
  <1>2. /\ waitPid' = waitPid /\ died' = died /\ told' = told /\ exitCode' = exitCode
        /\ nextPid' = nextPid + 1
    BY DEF CreateIn
  <1>3. nextPid \in Pids /\ \A p \in Pids : p # nextPid => born'[p] = born[p]
    BY <1>0 DEF CreateIn, Pids, TableMatchesHistory
  <1>4. born'[nextPid] = par
    BY <1>0, <1>3 DEF CreateIn
  <1>5. \A t \in Slots : Used(t)' <=> Used(t) \/ t = s
    BY <1>1 DEF Used
  <1>6. \A t \in Slots : Used(t) => pid[t] \in Pids /\ pid[t] < nextPid /\ parent[t] < pid[t]
    BY DEF PidsUnique
  <1>7. PidsUnique'
    BY <1>0, <1>1, <1>2, <1>3, <1>5, <1>6 DEF PidsUnique
  <1>8. WaiterHasLiveChild'
    <2>1. \A q \in Slots : status'[q] = "WAITING" => q # s /\ status[q] = "WAITING"
      BY <1>1
    <2>2. \A c \in Slots : Used(c) => c # s
      OBVIOUS
    <2>. SUFFICES ASSUME NEW q \in Slots, status'[q] = "WAITING"
                  PROVE  \E c \in Slots : /\ Used(c)' /\ status'[c] # "ZOMBIE"
                                          /\ parent'[c] = pid'[q]
                                          /\ WaitMatches(waitPid'[q], pid'[c])
      BY DEF WaiterHasLiveChild, WaitMatches
    <2>3. PICK c \in Slots : /\ Used(c) /\ status[c] # "ZOMBIE"
                             /\ parent[c] = pid[q]
                             /\ WaitMatches(waitPid[q], pid[c])
      BY <2>1 DEF WaiterHasLiveChild
    <2>4. /\ pid'[q] = pid[q] /\ waitPid'[q] = waitPid[q] /\ Used(c)'
          /\ status'[c] = status[c] /\ parent'[c] = parent[c] /\ pid'[c] = pid[c]
      BY <1>1, <1>2, <1>5, <2>1, <2>2, <2>3
    <2>. QED  BY <2>3, <2>4
  <1>9. TableMatchesHistory'
    <2>1. died[nextPid] = <<>>
      BY <1>0, <1>3 DEF TableMatchesHistory
    <2>2. \A p \in Pids : p \in Nat
      BY DEF Pids
    <2>3. \A t \in Slots : Used(t)' =>
             born'[pid'[t]] = parent'[t] /\ (status'[t] = "ZOMBIE" <=> died'[pid'[t]] # <<>>)
      <3>. SUFFICES ASSUME NEW t \in Slots, Used(t)'
                    PROVE born'[pid'[t]] = parent'[t] /\ (status'[t] = "ZOMBIE" <=> died'[pid'[t]] # <<>>)
        OBVIOUS
      <3>1. CASE t = s
        BY <3>1, <1>1, <1>2, <1>4, <2>1
      <3>2. CASE t # s
        <4>1. Used(t) /\ pid[t] # nextPid /\ pid[t] \in Pids
          BY <3>2, <1>0, <1>5, <1>6
        <4>. QED  BY <3>2, <4>1, <1>1, <1>2, <1>3 DEF TableMatchesHistory
      <3>. QED  BY <3>1, <3>2
    <2>. QED  BY <1>0, <1>2, <2>2, <2>3 DEF TableMatchesHistory
  <1>10. ExitReportedOnce'
    <2>. SUFFICES ASSUME NEW p \in Pids PROVE ReportedOnce(p)'
      BY DEF ExitReportedOnce
    <2>0. ReportedOnce(p)
      BY DEF ExitReportedOnce
    <2>1. CASE p = nextPid
      <3>1. died[p] = <<>>
        BY <2>1, <1>0 DEF TableMatchesHistory
      <3>2. told[p] = <<>>
        BY <2>0, <3>1, NothingReported
      <3>. QED  BY <1>2, <3>1, <3>2 DEF ReportedOnce
    <2>2. CASE p # nextPid
      <3>1. SlotOf(p)' = SlotOf(p) /\ \A t \in SlotOf(p) : status'[t] = status[t]
        BY <2>2, <1>1, <1>5 DEF SlotOf
      <3>. QED  BY <1>2, <1>3, <2>0, <2>2, <3>1, ReportCarries
    <2>. QED  BY <2>1, <2>2
  <1>. QED  BY <1>1, <1>7, <1>8, <1>9, <1>10

LEMMA CreationSteps ==
  ASSUME TaskInv, SpawnBackground \/ RunAlongside \/ Fork \/ Spawn
  PROVE  Core'
  <1>0. nextPid \in Nat /\ nextPid > 0 /\ current \in Nat /\ pid \in [Slots -> Nat]
    BY DEF TaskInv, TypeOK, TableType, SchedType, TableMatchesHistory
  <1>1. CASE SpawnBackground
    <2>1. PICK s \in Slots : FirstFree(s) /\ CreateIn(s, Kernel, pid)
      BY <1>1 DEF SpawnBackground
    <2>2. /\ PidsUnique' /\ WaiterHasLiveChild' /\ TableMatchesHistory' /\ ExitReportedOnce'
      BY <1>0, <1>1, <2>1, CreateStep DEF SpawnBackground, FirstFree, Kernel
    <2>3. RunningSlotIsCurrent' /\ RootInTable'
      BY <1>1 DEF SpawnBackground, InKernel, TaskInv, RunningSlotIsCurrent, RootInTable, InUser
    <2>. QED  BY <2>2, <2>3 DEF Core
  <1>2. CASE RunAlongside
    <2>1. PICK s \in Slots : FirstFree(s) /\ CreateIn(s, Kernel, pid)
      BY <1>2 DEF RunAlongside
    <2>2. /\ PidsUnique' /\ WaiterHasLiveChild' /\ TableMatchesHistory' /\ ExitReportedOnce'
          /\ status'[s] = "RUNNABLE" /\ pid'[s] = nextPid /\ parent'[s] = Kernel
      BY <1>0, <1>2, <2>1, CreateStep DEF RunAlongside, FirstFree, Kernel
    <2>3. RootInTable'
      BY <1>2, <2>2 DEF RunAlongside, RootInTable, SlotOf, Used
    <2>4. RunningSlotIsCurrent'
      BY <1>2 DEF RunAlongside, RunningSlotIsCurrent, InUser
    <2>. QED  BY <2>2, <2>3, <2>4 DEF Core
  <1>3. CASE Fork \/ Spawn
    <2>0. /\ active \in Slots /\ Used(active) /\ status[active] = "RUNNABLE"
          /\ pid[active] = current /\ current < nextPid /\ root # 0 /\ SavedPid = pid
      BY <1>3, RunningFacts DEF Fork, Spawn
    <2>1. PICK s \in Slots : FirstFree(s) /\ CreateIn(s, current, pid)
      BY <1>3, <2>0 DEF Fork, Spawn
    <2>2. /\ PidsUnique' /\ WaiterHasLiveChild' /\ TableMatchesHistory' /\ ExitReportedOnce'
          /\ \A t \in Slots : t # s => /\ status'[t] = status[t] /\ pid'[t] = pid[t]
                                       /\ parent'[t] = parent[t]
      BY <1>0, <1>3, <2>0, <2>1, CreateStep DEF Fork, Spawn, FirstFree
    <2>3. ~Used(s) /\ root' = root /\ active' = active /\ cursor' = cursor
      BY <1>3, <2>1 DEF Fork, Spawn, FirstFree
    <2>4. current' = current
      BY <1>3, <2>0, <2>2, <2>3 DEF Fork, Spawn
    <2>5. RunningSlotIsCurrent'
      BY <2>0, <2>2, <2>3, <2>4 DEF RunningSlotIsCurrent, TaskInv, InUser
    <2>6. RootInTable'
      BY <2>0, <2>2, <2>3 DEF TaskInv, RootInTable, SlotOf, Used
    <2>. QED  BY <2>2, <2>5, <2>6 DEF Core
  <1>. QED  BY <1>1, <1>2, <1>3
=============================================================================
