------------------------- MODULE TaskSchedRefines -------------------------
(***************************************************************************)
(* The process table implements ProcessLife: every step of TaskSched, seen *)
(* through the refinement mapping of TaskSched, is a step of ProcessLife   *)
(* or leaves its variables unchanged.                                      *)
(***************************************************************************)
EXTENDS TaskSchedProofs

(* The phase of a process that has a slot is read off that slot. *)
LEMMA PhaseOfSlot ==
  ASSUME TaskInv, NEW s \in Slots, Used(s)
  PROVE  PhaseOf(pid[s]) = IF status[s] = "ZOMBIE" THEN "zombie" ELSE "live"
  <1>1. SlotOf(pid[s]) = {s}
    BY DEF SlotOf, TaskInv, PidsUnique
  <1>. QED  BY <1>1 DEF PhaseOf

(* Pids that were not handed out are unborn. *)
LEMMA BornBelowNext ==
  ASSUME TaskInv, NEW p \in Pids, PhaseOf(p) # "unborn"
  PROVE  p < nextPid
  <1>0. p \in Nat /\ nextPid \in Nat
    BY DEF Pids, TaskInv, TypeOK, SchedType
  <1>1. CASE SlotOf(p) # {}
    BY <1>1 DEF SlotOf, TaskInv, PidsUnique
  <1>2. CASE SlotOf(p) = {}
    <2>1. told[p] # <<>>
      BY <1>2 DEF PhaseOf
    <2>2. died[p] # <<>>
      BY <2>1 DEF TaskInv, ExitReportedOnce, ReportedOnce
    <2>. QED  BY <1>0, <2>2 DEF TaskInv, TableMatchesHistory
  <1>. QED  BY <1>1, <1>2

(* Steps that move no process in its life. *)
LEMMA QuietPhases ==
  ASSUME TaskInv, pid' = pid, told' = told,
         \A s \in Slots : /\ status'[s] = "FREE" <=> status[s] = "FREE"
                          /\ status'[s] = "ZOMBIE" <=> status[s] = "ZOMBIE"
  PROVE  \A p : PhaseOf(p)' = PhaseOf(p)
  <1>1. \A p : SlotOf(p)' = SlotOf(p) /\ \A s \in SlotOf(p) : s \in Slots
    BY DEF SlotOf, Used
  <1>. QED  BY <1>1 DEF PhaseOf

(* Scheduling steps are stuttering steps of ProcessLife. *)
LEMMA SchedulingStutters ==
  ASSUME TaskInv,
         \/ RunAlongsideFails \/ Resume \/ SpawnFails
         \/ \E r \in Pids \cup {AnyChild} : WaitpidBlocks(r)
         \/ \E d \in SleepTicks : Nanosleep(d)
         \/ SleepForever \/ Yield
         \/ \E s \in Slots : WakeSlot(s)
         \/ Tick
  PROVE  UNCHANGED Life!lvars
  <1>0. status \in [Slots -> Statuses]
    BY DEF TaskInv, TypeOK, TableType
  <1>1. born' = born /\ died' = died /\ told' = told
    BY DEF RunAlongsideFails, Resume, SpawnFails, WaitpidBlocks, Nanosleep, SleepForever,
           Yield, WakeSlot, Tick, Block, history
  <1>2. pid' = pid
    BY RunningFacts DEF RunAlongsideFails, Resume, SpawnFails, WaitpidBlocks, Nanosleep,
           SleepForever, Yield, WakeSlot, Tick, Block, Switches, table
  <1>3. \A s \in Slots : /\ status'[s] = "FREE" <=> status[s] = "FREE"
                         /\ status'[s] = "ZOMBIE" <=> status[s] = "ZOMBIE"
    <2>1. CASE RunAlongsideFails \/ SpawnFails
      BY <2>1 DEF RunAlongsideFails, SpawnFails, table
    <2>2. CASE Resume \/ Tick
      BY <2>2 DEF Resume, Tick, WakeReady
    <2>3. CASE \E s \in Slots : WakeSlot(s)
      <3>1. PICK w \in Slots : WakeSlot(w)
        BY <2>3
      <3>2. \A s \in Slots : s # w => status'[s] = status[s]
        BY <1>0, <3>1 DEF WakeSlot
      <3>3. status[w] # "FREE"
        BY <3>1 DEF WakeSlot, Used
      <3>4. status'[w] = (IF status[w] = "ZOMBIE" THEN status[w] ELSE "RUNNABLE")
        BY <1>0, <3>1 DEF WakeSlot
      <3>. QED  BY <3>2, <3>3, <3>4
    <2>4. ASSUME InUser, NEW st, st \in {"RUNNABLE", "SLEEPING", "WAITING"}, Block(st)
          PROVE  \A s \in Slots : /\ status'[s] = "FREE" <=> status[s] = "FREE"
                                  /\ status'[s] = "ZOMBIE" <=> status[s] = "ZOMBIE"
      BY <1>0, <2>4, RunningFacts DEF Block
    <2>. QED
      BY <2>1, <2>2, <2>3, <2>4 DEF WaitpidBlocks, Nanosleep, SleepForever, Yield
  <1>4. \A p : PhaseOf(p)' = PhaseOf(p)
    BY <1>1, <1>2, <1>3, QuietPhases
  <1>. QED  BY <1>1, <1>4 DEF Life!lvars

(* fork and spawn create the next pid as a child of the caller. *)
LEMMA CreationCreates ==
  ASSUME TaskInv, SpawnBackground \/ RunAlongside \/ Fork \/ Spawn
  PROVE  \E p \in Pids, q \in Pids \cup {Kernel} : Life!Create(p, q)
  <1>0. /\ status \in [Slots -> Statuses] /\ pid \in [Slots -> Nat] /\ nextPid \in Nat
        /\ nextPid >= 2 /\ MaxPid \in Nat /\ nextPid <= MaxPid
    BY PidAssumption DEF TaskInv, TypeOK, TableType, SchedType, TableMatchesHistory,
       SpawnBackground, RunAlongside, Fork, Spawn
  <1>1. PICK n \in Pids : n = nextPid
    BY <1>0 DEF Pids
  <1>2. PICK s \in Slots, par \in Pids \cup {Kernel} :
          /\ ~Used(s) /\ CreateIn(s, par, pid)
          /\ par = Kernel \/ PhaseOf(par) = "live"
    <2>1. CASE SpawnBackground \/ RunAlongside
      BY <2>1 DEF SpawnBackground, RunAlongside, FirstFree
    <2>2. CASE Fork \/ Spawn
      <3>1. /\ active \in Slots /\ Used(active) /\ status[active] = "RUNNABLE"
            /\ pid[active] = current /\ current \in Pids /\ SavedPid = pid
        BY <2>2, RunningFacts DEF Fork, Spawn
      <3>2. PhaseOf(current) = "live"
        BY <3>1, PhaseOfSlot
      <3>. QED  BY <2>2, <3>1, <3>2 DEF Fork, Spawn, FirstFree
    <2>. QED  BY <2>1, <2>2
  <1>3. /\ \A t \in Slots : t # s => status'[t] = status[t] /\ pid'[t] = pid[t]
        /\ status'[s] = "RUNNABLE" /\ pid'[s] = n /\ told' = told /\ died' = died
        /\ born' = [born EXCEPT ![n] = par]
    BY <1>0, <1>1, <1>2 DEF CreateIn
  <1>4. \A p \in Pids : p # n => PhaseOf(p)' = PhaseOf(p)
    <2>1. \A p \in Pids : p # n =>
             SlotOf(p)' = SlotOf(p) /\ \A t \in SlotOf(p) : status'[t] = status[t]
      BY <1>2, <1>3 DEF SlotOf, Used
    <2>. QED  BY <1>3, <2>1 DEF PhaseOf
  <1>5. PhaseOf(n)' = "live"
    <2>1. \A t \in Slots : Used(t) => pid[t] # n
      BY <1>0, <1>1 DEF TaskInv, PidsUnique
    <2>2. SlotOf(n)' = {s}
      BY <1>2, <1>3, <2>1 DEF SlotOf, Used
    <2>. QED  BY <1>3, <2>2 DEF PhaseOf
  <1>6. \A r \in Pids : PhaseOf(r) # "unborn" => r < n
    BY <1>1, BornBelowNext
  <1>7. Life!Create(n, par)
    BY <1>1, <1>2, <1>3, <1>4, <1>5, <1>6 DEF Life!Create, Life!Alive, Life!Kernel, Kernel
  <1>. QED  BY <1>1, <1>2, <1>7

(* exit without a waiting parent turns the caller into a zombie. *)
LEMMA ExitZombieRefines ==
  ASSUME TaskInv, NEW code \in ExitCodes, ExitZombie(code)
  PROVE  \E p \in Pids : Life!BecomeZombie(p, code)
  <1>0. status \in [Slots -> Statuses]
    BY DEF TaskInv, TypeOK, TableType
  <1>1. /\ active \in Slots /\ status[active] = "RUNNABLE" /\ Used(active)
        /\ pid[active] = current /\ current \in Pids /\ pid' = pid
    BY RunningFacts DEF ExitZombie
  <1>2. /\ status'[active] = "ZOMBIE" /\ told' = told /\ born' = born
        /\ \A t \in Slots : t # active => status'[t] = status[t]
        /\ died' = [died EXCEPT ![current] = Append(@, code)]
    BY <1>0, <1>1 DEF ExitZombie
  <1>3. PhaseOf(current) = "live"
    BY <1>1, PhaseOfSlot
  <1>4. PICK n \in Pids : n = current
    BY <1>1
  <1>5. \A p : SlotOf(p)' = SlotOf(p)
    BY <1>1, <1>2 DEF SlotOf, Used
  <1>6. PhaseOf(n)' = "zombie"
    <2>1. active \in SlotOf(n)'
      BY <1>1, <1>4, <1>5 DEF SlotOf
    <2>. QED  BY <1>2, <2>1 DEF PhaseOf
  <1>7. \A p \in Pids : p # n => PhaseOf(p)' = PhaseOf(p)
    <2>1. \A p \in Pids : p # n => \A t \in SlotOf(p) : status'[t] = status[t]
      BY <1>1, <1>2, <1>4 DEF SlotOf
    <2>. QED  BY <1>2, <1>5, <2>1 DEF PhaseOf
  <1>8. Life!BecomeZombie(n, code)
    BY <1>2, <1>3, <1>4, <1>6, <1>7 DEF Life!BecomeZombie
  <1>. QED  BY <1>8

(* exit with the parent waiting ends the caller and reports it. *)
LEMMA ExitCollectedRefines ==
  ASSUME TaskInv, NEW code \in ExitCodes, ExitCollected(code)
  PROVE  \E p \in Pids : Life!ExitReported(p, code)
  <1>0. /\ status \in [Slots -> Statuses] /\ pid \in [Slots -> Nat]
        /\ told \in [Pids -> Seq(Nat \X Int)]
    BY DEF TaskInv, TypeOK, TableType, HistoryType
  <1>1. /\ active \in Slots /\ status[active] = "RUNNABLE" /\ Used(active)
        /\ pid[active] = current /\ current \in Pids
    BY RunningFacts DEF ExitCollected
  <1>2. PICK q \in Slots :
          /\ WaitsForActive(q)
          /\ status' = [status EXCEPT ![q] = "RUNNABLE", ![active] = "FREE"]
          /\ told' = [told EXCEPT ![current] = Append(@, <<pid[q], StatusWord(code)>>)]
    BY DEF ExitCollected
  <1>3. /\ q # active /\ status[q] = "WAITING" /\ Used(q) /\ pid[q] = parent[active]
        /\ pid[q] \in Pids
    BY <1>1, <1>2 DEF WaitsForActive, Used, TaskInv, PidsUnique
  <1>4. PICK n \in Pids : n = current
    BY <1>1
  <1>5. born[n] = pid[q] /\ PhaseOf(pid[q]) = "live" /\ PhaseOf(n) = "live"
    BY <1>1, <1>3, <1>4, PhaseOfSlot DEF TaskInv, TableMatchesHistory
  <1>6. /\ status'[active] = "FREE" /\ status'[q] = "RUNNABLE"
        /\ \A t \in Slots : t # active /\ t # q => status'[t] = status[t]
        /\ \A t \in Slots : t # active => pid'[t] = pid[t]
        /\ born' = born /\ died' = [died EXCEPT ![n] = Append(@, code)]
    BY <1>0, <1>1, <1>2, <1>3, <1>4 DEF ExitCollected
  <1>7. PhaseOf(n)' = "gone"
    <2>1. SlotOf(n)' = {}
      BY <1>1, <1>3, <1>4, <1>6 DEF SlotOf, Used, TaskInv, PidsUnique
    <2>2. told'[n] # <<>>
      BY <1>0, <1>2, <1>4
    <2>. QED  BY <2>1, <2>2 DEF PhaseOf
  <1>8. \A p \in Pids : p # n => PhaseOf(p)' = PhaseOf(p)
    <2>1. \A p \in Pids : p # n =>
            /\ SlotOf(p)' = SlotOf(p)
            /\ \A t \in SlotOf(p) : status'[t] = "ZOMBIE" <=> status[t] = "ZOMBIE"
      BY <1>1, <1>3, <1>4, <1>6 DEF SlotOf, Used
    <2>2. \A p \in Pids : p # n => told'[p] = told[p]
      BY <1>0, <1>2, <1>4
    <2>. QED  BY <2>1, <2>2 DEF PhaseOf
  <1>9. told' = [told EXCEPT ![n] = Append(@, <<born[n], StatusWord(code)>>)]
    BY <1>2, <1>4, <1>5
  <1>10. Life!ExitReported(n, code)
    BY <1>3, <1>5, <1>6, <1>7, <1>8, <1>9 DEF Life!ExitReported, Life!Alive
  <1>. QED  BY <1>10

(* Freeing a zombie's slot and reporting it, seen by pid. *)
LEMMA ReportPhases ==
  ASSUME TaskInv, NEW z \in Slots, status[z] = "ZOMBIE",
         \A t \in Slots : t # z => status'[t] = status[t] /\ pid'[t] = pid[t],
         status'[z] = "FREE", NEW n \in Pids, n = pid[z], NEW x,
         told' = [told EXCEPT ![n] = Append(@, x)]
  PROVE  /\ PhaseOf(n) = "zombie" /\ PhaseOf(n)' = "gone"
         /\ \A p \in Pids : p # n => PhaseOf(p)' = PhaseOf(p)
         /\ died[n][1] = exitCode[z]
  <1>0. told \in [Pids -> Seq(Nat \X Int)] /\ Used(z)
    BY DEF TaskInv, TypeOK, HistoryType, Used
  <1>1. PhaseOf(n) = "zombie"
    BY <1>0, PhaseOfSlot
  <1>2. SlotOf(n) = {z}
    BY <1>0 DEF SlotOf, TaskInv, PidsUnique
  <1>3. died[n] # <<>>
    BY <1>0 DEF TaskInv, TableMatchesHistory
  <1>4. PICK c \in ExitCodes : died[n] = <<c>> /\ told[n] = <<>> /\ exitCode[z] = c
    BY <1>2, <1>3 DEF TaskInv, ExitReportedOnce, ReportedOnce
  <1>5. PhaseOf(n)' = "gone"
    <2>1. SlotOf(n)' = {}
      BY <1>2 DEF SlotOf, Used
    <2>2. told'[n] = Append(<<>>, x)
      BY <1>0, <1>4
    <2>3. told'[n] # <<>>
      BY <2>2
    <2>. QED  BY <2>1, <2>3 DEF PhaseOf
  <1>6. \A p \in Pids : p # n => PhaseOf(p)' = PhaseOf(p)
    <2>1. \A p \in Pids : p # n =>
            SlotOf(p)' = SlotOf(p) /\ \A t \in SlotOf(p) : status'[t] = status[t]
      BY <1>0 DEF SlotOf, Used
    <2>2. \A p \in Pids : p # n => told'[p] = told[p]
      BY <1>0
    <2>. QED  BY <2>1, <2>2 DEF PhaseOf
  <1>. QED  BY <1>1, <1>4, <1>5, <1>6

LEMMA WaitpidCollectsRefines ==
  ASSUME TaskInv, NEW r \in Pids \cup {AnyChild}, WaitpidCollects(r)
  PROVE  \E p \in Pids : Life!Report(p)
  <1>0. status \in [Slots -> Statuses] /\ pid \in [Slots -> Nat]
    BY DEF TaskInv, TypeOK, TableType
  <1>1. /\ active \in Slots /\ status[active] = "RUNNABLE" /\ Used(active)
        /\ pid[active] = current /\ current \in Pids
    BY RunningFacts DEF WaitpidCollects
  <1>2. PICK z \in Slots :
          /\ status[z] = "ZOMBIE" /\ parent[z] = pid[active]
          /\ status' = [status EXCEPT ![z] = "FREE"]
          /\ pid' = [pid EXCEPT ![z] = 0]
          /\ told' = [told EXCEPT ![pid[z]] =
                        Append(@, <<pid[active], StatusWord(exitCode[z])>>)]
    BY DEF WaitpidCollects, Collectable
  <1>3. PICK n \in Pids : n = pid[z]
    BY <1>2 DEF TaskInv, PidsUnique, Used
  <1>4. born[n] = current /\ PhaseOf(current) = "live"
    BY <1>1, <1>2, <1>3, PhaseOfSlot DEF TaskInv, TableMatchesHistory, Used
  <1>5. /\ \A t \in Slots : t # z => status'[t] = status[t] /\ pid'[t] = pid[t]
        /\ status'[z] = "FREE" /\ born' = born /\ died' = died
    BY <1>0, <1>2 DEF WaitpidCollects
  <1>6. told' = [told EXCEPT ![n] = Append(@, <<born[n], StatusWord(exitCode[z])>>)]
    BY <1>1, <1>2, <1>3, <1>4
  <1>7. /\ PhaseOf(n) = "zombie" /\ PhaseOf(n)' = "gone"
        /\ \A p \in Pids : p # n => PhaseOf(p)' = PhaseOf(p)
        /\ died[n][1] = exitCode[z]
    <2>1. status[z] = "ZOMBIE"
      BY <1>2
    <2>. QED  BY <2>1, <1>3, <1>5, <1>6, ReportPhases
  <1>8. Life!Report(n)
    BY <1>1, <1>4, <1>5, <1>6, <1>7 DEF Life!Report, Life!Alive
  <1>. QED  BY <1>8

LEMMA FinishRefines ==
  ASSUME TaskInv, Finish
  PROVE  \E p \in Pids : Life!ReportToKernel(p)
  <1>1. PICK z \in Slots : /\ Used(z) /\ pid[z] = root /\ parent[z] = Kernel
    BY DEF Finish, InLoop, TaskInv, RootInTable, SlotOf
  <1>2. SlotOf(root) = {z}
    BY <1>1 DEF SlotOf, TaskInv, PidsUnique
  <1>3. status[z] = "ZOMBIE"
    BY <1>2 DEF Finish
  <1>4. /\ status'[z] = "FREE"
        /\ \A t \in Slots : t # z => status'[t] = status[t] /\ pid'[t] = pid[t]
    BY <1>2 DEF Finish
  <1>5. result' = exitCode[z]
    BY <1>2 DEF Finish
  <1>6. PICK n \in Pids : n = pid[z]
    BY <1>1 DEF TaskInv, PidsUnique
  <1>7. /\ told' = [told EXCEPT ![n] = Append(@, <<Kernel, exitCode[z]>>)]
        /\ born' = born /\ died' = died
    BY <1>1, <1>5, <1>6 DEF Finish
  <1>8. born[n] = Kernel
    BY <1>1, <1>6 DEF TaskInv, TableMatchesHistory
  <1>9. /\ PhaseOf(n) = "zombie" /\ PhaseOf(n)' = "gone"
        /\ \A p \in Pids : p # n => PhaseOf(p)' = PhaseOf(p)
        /\ died[n][1] = exitCode[z]
    BY <1>3, <1>4, <1>6, <1>7, ReportPhases
  <1>10. Life!ReportToKernel(n)
    BY <1>7, <1>8, <1>9 DEF Life!ReportToKernel, Life!Kernel, Kernel
  <1>. QED  BY <1>10

LEMMA InitRefines == Init => Life!LifeInit
  BY DEF Init, Life!LifeInit, PhaseOf, SlotOf, Used

(* Every step of the table is a step of ProcessLife or a stutter. *)
LEMMA StepRefines ==
  ASSUME TaskInv, [Next]_vars
  PROVE  [Life!LifeNext]_(Life!lvars)
  <1>1. CASE Next
    BY <1>1, SchedulingStutters, CreationCreates, ExitZombieRefines, ExitCollectedRefines,
       WaitpidCollectsRefines, FinishRefines
       DEF Next, Waitpid, Exit, Life!LifeNext, Life!Kernel, Kernel
  <1>2. CASE UNCHANGED vars
    BY <1>2 DEF vars, table, history, Life!lvars, PhaseOf, SlotOf, Used
  <1>. QED  BY <1>1, <1>2

(* The kernel's process table implements the life cycle that programs rely *)
(* on: one process per pid, one exit each, one report to its creator.      *)
THEOREM SpecImplementsProcessLife == Spec => ImplementsProcessLife
  <1>1. TaskInv /\ [Next]_vars => [Life!LifeNext]_(Life!lvars)
    BY StepRefines
  <1>. QED
    BY InitRefines, <1>1, SpecTaskInv, PTL DEF Spec, ImplementsProcessLife, Life!LifeSpec
=============================================================================
