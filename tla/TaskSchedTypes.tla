--------------------------- MODULE TaskSchedTypes ---------------------------
(***************************************************************************)
(* Type correctness of the process table and the scheduler: every step of  *)
(* TaskSched keeps every variable in its type.                             *)
(***************************************************************************)
EXTENDS TaskSched, TLAPS

(* A remainder lies below its divisor: tick arithmetic stays in range. *)
LEMMA ModRange ==
  ASSUME NEW a \in Int, NEW b \in Nat, b > 0
  PROVE  a % b \in 0 .. b - 1
  OBVIOUS

(* The wait status of an integer exit code is an integer. *)
LEMMA StatusWordType == \A c \in Int : StatusWord(c) \in Int
  BY DEF StatusWord

(* Adding to a tick, as pit_irq and sys_nanosleep do, gives a tick. *)
LEMMA TickType ==
  ASSUME NEW d \in Nat, NEW t \in 0 .. TickMod - 1
  PROVE  (t + d) % TickMod \in 0 .. TickMod - 1
  <1>1. t + d \in Int /\ TickMod \in Nat /\ TickMod > 0
    BY TickAssumption
  <1>. QED  BY <1>1, ModRange

(* Appending to one of a family of sequences keeps the family's type. *)
LEMMA AppendAt ==
  ASSUME NEW S, NEW T, NEW f \in [S -> Seq(T)], NEW p, NEW x \in T
  PROVE  [f EXCEPT ![p] = Append(@, x)] \in [S -> Seq(T)]
  <1>1. \A q \in S : Append(f[q], x) \in Seq(T)
    OBVIOUS
  <1>. QED  BY <1>1, Zenon

(* The pass over the sleepers keeps statuses and deadlines well typed. *)
LEMMA WakeReadyType ==
  ASSUME TableType, NEW now
  PROVE  /\ WakeReady(now) \in [Slots -> Statuses]
         /\ WakeReadyTicks(now) \in [Slots -> 0 .. TickMod - 1]
  BY TickAssumption DEF TableType, WakeReady, WakeReadyTicks, Statuses

(* Saving current_task into the active slot keeps the pids well typed. *)
LEMMA SavedPidType == TypeOK => SavedPid \in [Slots -> Nat]
  BY DEF TypeOK, TableType, SchedType, SavedPid

(* The slots stay well typed. *)
LEMMA TableTypeStep == TypeOK /\ Next => TableType'
  <1>. SUFFICES ASSUME TypeOK, Next PROVE TableType'
    OBVIOUS
  <1>. USE TickAssumption DEF TypeOK, TableType, Statuses
  <1>1. ASSUME NEW s \in Slots, NEW par \in Nat, NEW saved \in [Slots -> Nat],
               CreateIn(s, par, saved)
        PROVE  TableType'
    BY <1>1 DEF CreateIn, SchedType
  <1>2. SavedPid \in [Slots -> Nat]
    BY SavedPidType
  <1>3. CASE SpawnBackground
    BY <1>3, <1>1 DEF SpawnBackground, Kernel
  <1>4. CASE RunAlongside
    BY <1>4, <1>1 DEF RunAlongside, Kernel
  <1>5. CASE RunAlongsideFails
    BY <1>5 DEF RunAlongsideFails, table
  <1>6. CASE Resume
    BY <1>6, WakeReadyType DEF Resume
  <1>7. CASE Finish
    <2>1. status' \in [Slots -> Statuses]
      BY <1>7 DEF Finish
    <2>2. pid' \in [Slots -> Nat] /\ parent' \in [Slots -> Nat]
      BY <1>7 DEF Finish
    <2>3. exitCode' \in [Slots -> Int] /\ waitPid' \in [Slots -> Int]
      BY <1>7 DEF Finish
    <2>4. wakeTick' \in [Slots -> 0 .. TickMod - 1]
      BY <1>7 DEF Finish
    <2>. QED  BY <2>1, <2>2, <2>3, <2>4
  <1>8. CASE Fork
    BY <1>8, <1>1 DEF Fork, SchedType
  <1>9. CASE Spawn
    BY <1>9, <1>1, <1>2 DEF Spawn, SchedType
  <1>10. CASE SpawnFails
    BY <1>10, <1>2 DEF SpawnFails
  <1>11. ASSUME NEW r \in Pids \cup {AnyChild}, WaitpidCollects(r)
         PROVE  TableType'
    BY <1>11 DEF WaitpidCollects, Collectable
  <1>12. ASSUME NEW r \in Pids \cup {AnyChild}, WaitpidBlocks(r)
         PROVE  TableType'
    <2>1. r \in Int
      BY PidAssumption DEF Pids, AnyChild
    <2>. QED  BY <1>12, <1>2, <2>1 DEF WaitpidBlocks, Block
  <1>13. ASSUME NEW d \in SleepTicks, Nanosleep(d)
         PROVE  TableType'
    <2>1. (ticks + d) % TickMod \in 0 .. TickMod - 1
      BY TickType, SleepAssumption DEF SchedType
    <2>. QED  BY <1>13, <1>2, <2>1 DEF Nanosleep, Block
  <1>14. CASE SleepForever
    <2>1. Forever \in 0 .. TickMod - 1
      BY DEF Forever
    <2>. QED  BY <1>14, <1>2, <2>1 DEF SleepForever, Block
  <1>15. CASE Yield
    BY <1>15, <1>2 DEF Yield, Block
  <1>16. ASSUME NEW s \in Slots, WakeSlot(s)
         PROVE  TableType'
    BY <1>16 DEF WakeSlot
  <1>17. ASSUME NEW c \in ExitCodes, ExitZombie(c)
         PROVE  TableType'
    <2>1. c \in Int
      BY CodeAssumption
    <2>. QED  BY <1>17, <1>2, <2>1 DEF ExitZombie
  <1>18. ASSUME NEW c \in ExitCodes, ExitCollected(c)
         PROVE  TableType'
    <2>1. status' \in [Slots -> Statuses]
      BY <1>18 DEF ExitCollected
    <2>2. pid' \in [Slots -> Nat] /\ parent' \in [Slots -> Nat]
      BY <1>18 DEF ExitCollected
    <2>5. PICK q \in Slots : waitPid' = [waitPid EXCEPT ![q] = 0, ![active] = 0]
      BY <1>18 DEF ExitCollected
    <2>6. /\ exitCode' = [exitCode EXCEPT ![active] = 0]
          /\ wakeTick' = [wakeTick EXCEPT ![active] = 0]
      BY <1>18 DEF ExitCollected
    <2>7. active \in Slots
      BY <1>18 DEF ExitCollected, InUser, SchedType
    <2>3. exitCode' \in [Slots -> Int] /\ waitPid' \in [Slots -> Int]
      BY <2>5, <2>6, <2>7
    <2>4. wakeTick' \in [Slots -> 0 .. TickMod - 1]
      BY <2>6, <2>7
    <2>. QED  BY <2>1, <2>2, <2>3, <2>4
  <1>19. CASE Tick
    <2>1. pid' \in [Slots -> Nat]
      BY <1>19, <1>2 DEF Tick
    <2>. QED  BY <1>19, <2>1, WakeReadyType DEF Tick
  <1>. QED
    BY <1>3, <1>4, <1>5, <1>6, <1>7, <1>8, <1>9, <1>10, <1>11, <1>12, <1>13, <1>14, <1>15,
       <1>16, <1>17, <1>18, <1>19 DEF Next, Waitpid, Exit

(* The scheduler's variables stay well typed. *)
LEMMA SchedTypeStep == TypeOK /\ Next => SchedType'
  <1>. SUFFICES ASSUME TypeOK, Next PROVE SchedType'
    OBVIOUS
  <1>. USE DEF TypeOK, SchedType
  <1>1. pid \in [Slots -> Nat] /\ exitCode \in [Slots -> Int]
    BY DEF TableType
  <1>2. SavedPid \in [Slots -> Nat]
    BY SavedPidType
  <1>3. CASE SpawnBackground \/ RunAlongside \/ RunAlongsideFails \/ Fork
    BY <1>3 DEF SpawnBackground, RunAlongside, RunAlongsideFails, Fork, CreateIn
  <1>4. CASE Resume
    BY <1>4, <1>1 DEF Resume
  <1>5. CASE Finish
    <2>1. result' \in Int
      BY <1>5, <1>1 DEF Finish, SlotOf
    <2>. QED  BY <1>5, <2>1 DEF Finish
  <1>6. CASE Spawn
    <2>1. active \in Slots /\ pid' \in [Slots -> Nat]
      BY <1>6, <1>2 DEF Spawn, InUser, CreateIn
    <2>. QED  BY <1>6, <2>1 DEF Spawn, CreateIn
  <1>7. CASE SpawnFails
    <2>1. active \in Slots /\ pid' \in [Slots -> Nat]
      BY <1>7, <1>2 DEF SpawnFails, InUser
    <2>. QED  BY <1>7, <2>1 DEF SpawnFails
  <1>8. CASE Waitpid
    BY <1>8 DEF Waitpid, WaitpidCollects, WaitpidBlocks, Block
  <1>9. CASE (\E d \in SleepTicks : Nanosleep(d)) \/ SleepForever \/ Yield
    BY <1>9 DEF Nanosleep, SleepForever, Yield, Block
  <1>10. CASE \E s \in Slots : WakeSlot(s)
    BY <1>10 DEF WakeSlot
  <1>11. CASE Exit
    BY <1>11 DEF Exit, ExitZombie, ExitCollected
  <1>12. CASE Tick
    <2>1. ticks' \in 0 .. TickMod - 1
      BY <1>12, TickType DEF Tick
    <2>2. pid' \in [Slots -> Nat]
      BY <1>12, <1>1, <1>2 DEF Tick
    <2>. QED  BY <1>12, <2>1, <2>2 DEF Tick
  <1>. QED
    BY <1>3, <1>4, <1>5, <1>6, <1>7, <1>8, <1>9, <1>10, <1>11, <1>12 DEF Next

(* The history stays well typed. *)
LEMMA HistoryTypeStep == TypeOK /\ Next => HistoryType'
  <1>. SUFFICES ASSUME TypeOK, Next PROVE HistoryType'
    OBVIOUS
  <1>. USE DEF TypeOK, HistoryType
  <1>1. pid \in [Slots -> Nat] /\ exitCode \in [Slots -> Int] /\ current \in Nat
    BY DEF TableType, SchedType
  <1>2. CASE SpawnBackground \/ RunAlongside \/ Fork \/ Spawn
    <2>1. PICK s \in Slots, par \in Nat, saved \in {pid, SavedPid} : CreateIn(s, par, saved)
      BY <1>2, <1>1 DEF SpawnBackground, RunAlongside, Fork, Spawn, Kernel
    <2>. QED  BY <2>1 DEF CreateIn
  <1>3. CASE RunAlongsideFails \/ Resume \/ SpawnFails
    BY <1>3 DEF RunAlongsideFails, Resume, SpawnFails, history
  <1>4. CASE Finish
    <2>1. SchedType'
      BY SchedTypeStep
    <2>2. <<Kernel, result'>> \in Nat \X Int
      BY <2>1 DEF SchedType, Kernel
    <2>3. told' = [told EXCEPT ![root] = Append(@, <<Kernel, result'>>)]
      BY <1>4 DEF Finish
    <2>4. told' \in [Pids -> Seq(Nat \X Int)]
      BY <2>2, <2>3, AppendAt
    <2>. QED  BY <1>4, <2>4 DEF Finish
  <1>5. ASSUME NEW r \in Pids \cup {AnyChild}, WaitpidCollects(r)
        PROVE  HistoryType'
    <2>1. PICK s \in Slots :
             told' = [told EXCEPT ![pid[s]] =
                        Append(@, <<pid[active], StatusWord(exitCode[s])>>)]
      BY <1>5 DEF WaitpidCollects, Collectable
    <2>2. active \in Slots
      BY <1>5 DEF WaitpidCollects, InUser, SchedType
    <2>. DEFINE x == <<pid[active], StatusWord(exitCode[s])>>
    <2>3. x \in Nat \X Int
      BY <2>2, <1>1, StatusWordType
    <2>5. told' = [told EXCEPT ![pid[s]] = Append(@, x)]
      BY <2>1
    <2>. HIDE DEF x
    <2>4. told' \in [Pids -> Seq(Nat \X Int)]
      BY <2>5, <2>3, AppendAt
    <2>. QED  BY <1>5, <2>4 DEF WaitpidCollects
  <1>6. CASE \E r \in Pids \cup {AnyChild} : WaitpidBlocks(r)
    BY <1>6 DEF WaitpidBlocks, Block, history
  <1>7. CASE \E d \in SleepTicks : Nanosleep(d)
    BY <1>7, SleepAssumption DEF Nanosleep, Block, history
  <1>8. CASE SleepForever \/ Yield
    BY <1>8 DEF SleepForever, Yield, Block, history
  <1>9. CASE \E s \in Slots : WakeSlot(s)
    BY <1>9 DEF WakeSlot, history
  <1>10. ASSUME NEW c \in ExitCodes, ExitZombie(c) \/ ExitCollected(c)
         PROVE  died' \in [Pids -> Seq(ExitCodes)]
    <2>1. died' = [died EXCEPT ![current] = Append(@, c)]
      BY <1>10 DEF ExitZombie, ExitCollected
    <2>. QED  BY <2>1, AppendAt
  <1>11. ASSUME NEW c \in ExitCodes, ExitZombie(c)
         PROVE  HistoryType'
    BY <1>10, <1>11 DEF ExitZombie
  <1>12. ASSUME NEW c \in ExitCodes, ExitCollected(c)
         PROVE  HistoryType'
    <2>1. PICK q \in Slots :
             told' = [told EXCEPT ![current] = Append(@, <<pid[q], StatusWord(c)>>)]
      BY <1>12 DEF ExitCollected
    <2>. DEFINE x == <<pid[q], StatusWord(c)>>
    <2>2. x \in Nat \X Int
      BY <1>1, StatusWordType, CodeAssumption
    <2>4. told' = [told EXCEPT ![current] = Append(@, x)]
      BY <2>1
    <2>. HIDE DEF x
    <2>3. told' \in [Pids -> Seq(Nat \X Int)]
      BY <2>4, <2>2, AppendAt
    <2>. QED  BY <1>10, <1>12, <2>3 DEF ExitCollected
  <1>13. CASE Tick
    <2>1. \A s \in Slots : left[s] \in Nat \cup {-1}
      BY DEF None
    <2>2. \A s \in Slots :
            (IF left[s] > 0 THEN left[s] - 1 ELSE left[s]) \in Nat \cup {-1}
      BY <2>1
    <2>3. left' \in [Slots -> Nat \cup {None}]
      BY <1>13, <2>2 DEF Tick, Elapsed, None
    <2>. QED  BY <1>13, <2>3 DEF Tick, history
  <1>. QED
    BY <1>2, <1>3, <1>4, <1>5, <1>6, <1>7, <1>8, <1>9, <1>11, <1>12, <1>13
       DEF Next, Waitpid, Exit

LEMMA TypeStep == TypeOK /\ Next => TypeOK'
  BY TableTypeStep, SchedTypeStep, HistoryTypeStep DEF TypeOK
=============================================================================
