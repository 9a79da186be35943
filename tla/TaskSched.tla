----------------------------- MODULE TaskSched -----------------------------
(***************************************************************************)
(* The process table and the scheduler of the kernel (src/task.c): slot    *)
(* allocation, fork, spawn, exit, abort, waitpid, sleeping, yielding, the  *)
(* timer tick that preempts user code, and the loop that runs processes    *)
(* until the one the kernel started has exited.                            *)
(*                                                                         *)
(* System calls enter through an interrupt gate and the kernel is never    *)
(* preempted (a tick that interrupts kernel code only wakes sleepers), so  *)
(* each system call is one action.  The timer interleaves with all of them *)
(* and with the scheduler loop, which runs with interrupts on.             *)
(*                                                                         *)
(* A slot that is not in use has status FREE and zero in its other fields: *)
(* task_alloc_slot and task_free_slot clear it.                            *)
(***************************************************************************)
EXTENDS Integers, Sequences

CONSTANTS
  NumSlots,    \* TASK_MAX_SLOTS (include/task.h)
  TickMod,     \* 2^32 in the kernel: pit_ticks() and wake_tick are u32
  SleepTicks,  \* the sleep lengths, in ticks, that programs ask for
  ExitCodes,   \* arguments of exit, and 128 + trap number
  MaxPid       \* bound on the process identifiers handed out to processes

ASSUME SlotsAssumption == NumSlots \in Nat \ {0}
ASSUME TickAssumption == TickMod \in Nat /\ TickMod > 1
ASSUME SleepAssumption == SleepTicks \subseteq Nat
ASSUME CodeAssumption == ExitCodes \subseteq Int
ASSUME PidAssumption == MaxPid \in Nat \ {0}

Slots == 0 .. NumSlots - 1
None == -1                    \* "no slot" in active_task_slot and scheduler_rr_cursor
Forever == TickMod - 1        \* TASK_SLEEP_FOREVER, in band in wake_tick
Half == TickMod \div 2
Statuses == {"FREE", "RUNNABLE", "SLEEPING", "WAITING", "ZOMBIE"}
AnyChild == -1
Kernel == 0                   \* parent_pid of what the kernel itself starts
Pids == 1 .. MaxPid

VARIABLES
  status,    \* task_slots[s].status
  pid,       \* task_slots[s].state.pid
  parent,    \* task_slots[s].parent_pid
  exitCode,  \* task_slots[s].exit_code
  waitPid,   \* task_slots[s].wait_pid: 0 not waiting, -1 any child
  wakeTick,  \* task_slots[s].wake_tick
  active,    \* active_task_slot
  cursor,    \* scheduler_rr_cursor
  current,   \* current_task.pid
  nextPid,   \* next_pid
  ticks,     \* ticks_since_boot
  root,      \* the pid task_run_until_pid_exits waits for, 0 outside the loop
  result,    \* what the last task_run_argv_alongside returned
  left,      \* history: ticks a sleeper still has to sleep, None if no deadline
  born,      \* history: the parent each pid was created with
  died,      \* history: the code each pid exited with, as a sequence
  told       \* history: the <<receiver, value>> pairs reported for each pid

table == <<status, pid, parent, exitCode, waitPid, wakeTick>>
history == <<born, died, told>>
vars == <<table, active, cursor, current, nextPid, ticks, root, result, left, history>>

InKernel == root = 0                    \* outside any scheduler loop
InLoop == root # 0 /\ active = None     \* in the loop, no process resumed
InUser == active # None                 \* user code, or a system call it made

Used(s) == status[s] # "FREE"
SlotOf(p) == {s \in Slots : Used(s) /\ pid[s] = p}      \* task_slot_for_pid

Init ==
  /\ status = [s \in Slots |-> "FREE"]
  /\ pid = [s \in Slots |-> 0]
  /\ parent = [s \in Slots |-> 0]
  /\ exitCode = [s \in Slots |-> 0]
  /\ waitPid = [s \in Slots |-> 0]
  /\ wakeTick = [s \in Slots |-> 0]
  /\ active = None /\ cursor = None
  /\ current = 1 /\ nextPid = 2          \* task_init takes pid 1 for the kernel
  /\ ticks = 0 /\ root = 0 /\ result = 0
  /\ left = [s \in Slots |-> None]
  /\ born = [p \in Pids |-> 0]
  /\ died = [p \in Pids |-> <<>>]
  /\ told = [p \in Pids |-> <<>>]

-----------------------------------------------------------------------------
(* Helpers of task.c. *)

(* task_alloc_slot: the lowest slot that is not in use. *)
FirstFree(s) ==
  /\ ~Used(s)
  /\ \A t \in Slots : ~Used(t) => s <= t

TableFull == \A s \in Slots : Used(s)


(* (i32)(now - wake_tick) >= 0, for a deadline that is not the sentinel. *)
DeadlineReached(s, now) ==
  wakeTick[s] # Forever /\ (now - wakeTick[s]) % TickMod < Half

(* task_wake_ready_slots: the status of every slot after the pass at `now'. *)
WakeReady(now) ==
  [s \in Slots |-> IF status[s] = "SLEEPING" /\ DeadlineReached(s, now)
                   THEN "RUNNABLE" ELSE status[s]]

(* ... and the deadlines, cleared for the slots the pass wakes. *)
WakeReadyTicks(now) ==
  [s \in Slots |-> IF status[s] = "SLEEPING" /\ DeadlineReached(s, now)
                   THEN 0 ELSE wakeTick[s]]


Distance(from, s) == (s - from - 1) % NumSlots

IsNextRunnable(st, from, s) ==
  /\ st[s] = "RUNNABLE"
  /\ \A t \in Slots : st[t] = "RUNNABLE" => Distance(from, s) <= Distance(from, t)

(* task_slot_save_state copies current_task, its pid included, to the slot. *)
SavedPid == [pid EXCEPT ![active] = current]

(* task_wait_matches *)
WaitMatches(requested, child) ==
  requested # 0 /\ (requested < 0 \/ child = requested)

(* The word a parent reads: (exit_code & 0xff) << 8. *)
StatusWord(code) == (code % 256) * 256

(* Every deadline moves one tick closer; 0 stays 0. *)
Elapsed == [s \in Slots |-> IF left[s] > 0 THEN left[s] - 1 ELSE left[s]]

-----------------------------------------------------------------------------
(* Mutant: next_pid is not advanced. *)
CreateSamePid(s, par, saved) ==
  /\ status' = [status EXCEPT ![s] = "RUNNABLE"]
  /\ pid' = [saved EXCEPT ![s] = nextPid]
  /\ parent' = [parent EXCEPT ![s] = par]
  /\ nextPid' = nextPid
  /\ born' = [born EXCEPT ![nextPid] = par]
  /\ UNCHANGED <<exitCode, waitPid, wakeTick, left, died, told>>

(* A new process takes slot s and the next pid. *)
CreateIn(s, par, saved) ==
  /\ status' = [status EXCEPT ![s] = "RUNNABLE"]
  /\ pid' = [saved EXCEPT ![s] = nextPid]
  /\ parent' = [parent EXCEPT ![s] = par]
  /\ nextPid' = nextPid + 1
  /\ born' = [born EXCEPT ![nextPid] = par]
  /\ UNCHANGED <<exitCode, waitPid, wakeTick, left, died, told>>

(* The kernel starts the compositor at boot (kernel.c) and does not run it  *)
(* yet; task_seed_slot leaves current_task holding the new process.         *)
SpawnBackground ==
  /\ InKernel /\ nextPid = 2 /\ nextPid <= MaxPid
  /\ \E s \in Slots : FirstFree(s) /\ CreateIn(s, Kernel, pid)
  /\ current' = nextPid
  /\ UNCHANGED <<active, cursor, ticks, root, result>>

(* task_run_argv_alongside: spawn the program and enter the loop. *)
RunAlongside ==
  /\ InKernel /\ nextPid <= MaxPid
  /\ \E s \in Slots : FirstFree(s) /\ CreateIn(s, Kernel, pid)
  /\ active' = None /\ cursor' = None
  /\ current' = nextPid /\ root' = nextPid
  /\ UNCHANGED <<ticks, result>>

(* The spawn fails after task_seed_slot took a pid and overwrote           *)
(* current_task (no memory for the TLS page, the stack or the FPU buffer). *)
(* The slot is freed; the caller returns without restoring current_task.   *)
RunAlongsideFails ==
  /\ InKernel /\ nextPid <= MaxPid /\ ~TableFull
  /\ current' = nextPid /\ nextPid' = nextPid + 1
  /\ active' = None /\ cursor' = None
  /\ UNCHANGED <<table, ticks, root, result, left, history>>

(* One pass of task_run_until_pid_exits that finds a process to resume.    *)
(* When nothing is runnable the loop halts until the next interrupt.       *)
Resume ==
  /\ InLoop
  /\ \E s \in SlotOf(root) : status[s] # "ZOMBIE"
  /\ status' = WakeReady(ticks)
  /\ wakeTick' = WakeReadyTicks(ticks)
  /\ \E s \in Slots :
       /\ IsNextRunnable(status', cursor, s)
       /\ active' = s /\ cursor' = s /\ current' = pid[s]
  /\ UNCHANGED <<pid, parent, exitCode, waitPid, nextPid, ticks, root, result,
                 left, history>>

(* Mutant: the processes that still run are cleared with it. *)
FinishClearsOthers ==
  /\ InLoop
  /\ \A s \in SlotOf(root) : status[s] = "ZOMBIE"
  /\ LET freed == SlotOf(root) \cup {s \in Slots : status[s] # "ZOMBIE"}
         Clear(f) == [s \in Slots |-> IF s \in freed THEN 0 ELSE f[s]]
     IN  /\ status' = [s \in Slots |-> IF s \in freed THEN "FREE" ELSE status[s]]
         /\ pid' = Clear(pid) /\ parent' = Clear(parent)
         /\ exitCode' = Clear(exitCode) /\ waitPid' = Clear(waitPid)
         /\ wakeTick' = Clear(wakeTick)
         /\ result' = IF SlotOf(root) = {} THEN -1 ELSE exitCode[CHOOSE s \in SlotOf(root) : TRUE]
  /\ told' = [told EXCEPT ![root] = Append(@, <<Kernel, result'>>)]
  /\ active' = None /\ cursor' = None /\ root' = 0
  /\ current' = nextPid /\ nextPid' = nextPid + 1
  /\ UNCHANGED <<ticks, left, born, died>>

(* The loop ends when its process is gone or a zombie; its slot is freed    *)
(* and task_restore_kernel_context takes a fresh pid for the kernel.        *)
Finish ==
  /\ InLoop
  /\ \A s \in SlotOf(root) : status[s] = "ZOMBIE"
  /\ LET freed == SlotOf(root)
         Clear(f) == [s \in Slots |-> IF s \in freed THEN 0 ELSE f[s]]
     IN  /\ status' = [s \in Slots |-> IF s \in freed THEN "FREE" ELSE status[s]]
         /\ pid' = Clear(pid) /\ parent' = Clear(parent)
         /\ exitCode' = Clear(exitCode) /\ waitPid' = Clear(waitPid)
         /\ wakeTick' = Clear(wakeTick)
         /\ result' = IF freed = {} THEN -1 ELSE exitCode[CHOOSE s \in freed : TRUE]
  /\ told' = [told EXCEPT ![root] = Append(@, <<Kernel, result'>>)]
  /\ active' = None /\ cursor' = None /\ root' = 0
  /\ current' = nextPid /\ nextPid' = nextPid + 1
  /\ UNCHANGED <<ticks, left, born, died>>

-----------------------------------------------------------------------------
(* System calls of the running process. *)

(* Blocking: the slot is saved and the loop takes over. *)
Block(st) ==
  /\ status' = [status EXCEPT ![active] = st]
  /\ pid' = SavedPid
  /\ active' = None
  /\ UNCHANGED <<parent, exitCode, cursor, current, nextPid, ticks, root, result,
                 history>>

Fork ==
  /\ InUser /\ nextPid <= MaxPid
  /\ \E s \in Slots : FirstFree(s) /\ CreateIn(s, current, pid)
  /\ UNCHANGED <<active, cursor, current, ticks, root, result>>

(* Mutant: the parent is not activated again. *)
SpawnKeepsChild ==
  /\ InUser /\ nextPid <= MaxPid
  /\ \E s \in Slots : FirstFree(s) /\ CreateIn(s, current, SavedPid)
  /\ current' = nextPid
  /\ UNCHANGED <<active, cursor, ticks, root, result>>

(* task_spawn_from_user: the parent is saved, task_spawn_kernel overwrites  *)
(* current_task, and task_slot_activate(parent) puts the saved copy back.   *)
Spawn ==
  /\ InUser /\ nextPid <= MaxPid
  /\ \E s \in Slots : FirstFree(s) /\ CreateIn(s, current, SavedPid)
  /\ current' = pid'[active]
  /\ UNCHANGED <<active, cursor, ticks, root, result>>

SpawnFails ==
  /\ InUser /\ nextPid <= MaxPid /\ ~TableFull
  /\ pid' = SavedPid
  /\ nextPid' = nextPid + 1
  /\ current' = pid'[active]
  /\ UNCHANGED <<status, parent, exitCode, waitPid, wakeTick, active, cursor, ticks,
                 root, result, left, history>>

(* Zombies that waitpid(requested) of the running process may collect. *)
Collectable(requested) ==
  {s \in Slots : /\ status[s] = "ZOMBIE" /\ parent[s] = pid[active]
                 /\ WaitMatches(requested, pid[s])}

(* task_reap_matching_child: the lowest matching zombie. *)
WaitpidCollects(requested) ==
  /\ InUser
  /\ \E s \in Collectable(requested) :
       /\ \A t \in Collectable(requested) : s <= t
       /\ status' = [status EXCEPT ![s] = "FREE"]
       /\ pid' = [pid EXCEPT ![s] = 0]
       /\ parent' = [parent EXCEPT ![s] = 0]
       /\ exitCode' = [exitCode EXCEPT ![s] = 0]
       /\ waitPid' = [waitPid EXCEPT ![s] = 0]
       /\ wakeTick' = [wakeTick EXCEPT ![s] = 0]
       /\ told' = [told EXCEPT ![pid[s]] =
                     Append(@, <<pid[active], StatusWord(exitCode[s])>>)]
  /\ UNCHANGED <<active, cursor, current, nextPid, ticks, root, result, left, born, died>>

(* Mutant: waitpid blocks without looking for zombies first. *)
WaitpidBlocksAlways(requested) ==
  /\ InUser
  /\ \E s \in Slots : /\ Used(s) /\ parent[s] = pid[active]
                      /\ WaitMatches(requested, pid[s])
  /\ waitPid' = [waitPid EXCEPT ![active] = requested]
  /\ Block("WAITING")
  /\ UNCHANGED <<wakeTick, left>>

(* No zombie to collect, but a matching child: block until it exits.  With  *)
(* no matching child at all the call fails (ECHILD) and changes nothing.    *)
WaitpidBlocks(requested) ==
  /\ InUser
  /\ Collectable(requested) = {}
  /\ \E s \in Slots : /\ Used(s) /\ parent[s] = pid[active]
                      /\ WaitMatches(requested, pid[s])
  /\ waitPid' = [waitPid EXCEPT ![active] = requested]
  /\ Block("WAITING")
  /\ UNCHANGED <<wakeTick, left>>

(* Mutant: the deadline is not truncated to the width of wake_tick. *)
NanosleepNoWrap(d) ==
  /\ InUser
  /\ wakeTick' = [wakeTick EXCEPT ![active] = ticks + d]
  /\ left' = [left EXCEPT ![active] = d]
  /\ Block("SLEEPING")
  /\ UNCHANGED waitPid

(* sys_nanosleep: sleep until pit_ticks() + d, in u32 arithmetic. *)
Nanosleep(d) ==
  /\ InUser
  /\ wakeTick' = [wakeTick EXCEPT ![active] = (ticks + d) % TickMod]
  /\ left' = [left EXCEPT ![active] = d]
  /\ Block("SLEEPING")
  /\ UNCHANGED waitPid

(* sys_recv and sys_accept on an empty socket sleep with no deadline ... *)
SleepForever ==
  /\ InUser
  /\ wakeTick' = [wakeTick EXCEPT ![active] = Forever]
  /\ left' = [left EXCEPT ![active] = None]
  /\ Block("SLEEPING")
  /\ UNCHANGED waitPid

(* ... and task_wake_slot ends that sleep from the peer's system call.  The *)
(* kernel remembers the sleeper by slot number only, and the call wakes     *)
(* whatever that slot holds by then, unless it is a zombie.                 *)
WakeSlot(s) ==
  /\ InUser /\ Used(s)
  /\ status' = [status EXCEPT ![s] = IF @ = "ZOMBIE" THEN @ ELSE "RUNNABLE"]
  /\ wakeTick' = [wakeTick EXCEPT ![s] = 0]
  /\ left' = [left EXCEPT ![s] = None]
  /\ UNCHANGED <<pid, parent, exitCode, waitPid, active, cursor, current, nextPid, ticks,
                 root, result, history>>

Yield ==
  /\ InUser
  /\ Block("RUNNABLE")
  /\ UNCHANGED <<waitPid, wakeTick, left>>

(* task_wake_waiting_parents: the slot that exit hands its status to. *)
WaitsForActive(q) ==
  /\ status[q] = "WAITING"
  /\ pid[q] = parent[active]
  /\ WaitMatches(waitPid[q], current)

(* exit with no parent waiting: the slot stays behind as a zombie. *)
ExitZombie(code) ==
  /\ InUser
  /\ \A q \in Slots : ~WaitsForActive(q)
  /\ exitCode' = [exitCode EXCEPT ![active] = code]
  /\ status' = [status EXCEPT ![active] = "ZOMBIE"]
  /\ pid' = SavedPid
  /\ active' = None
  /\ died' = [died EXCEPT ![current] = Append(@, code)]
  /\ UNCHANGED <<parent, waitPid, wakeTick, cursor, current, nextPid, ticks, root,
                 result, left, born, told>>

(* Mutant: the parent is told but the slot is not freed. *)
ExitToldNotFreed(code) ==
  /\ InUser
  /\ \E q \in Slots :
       /\ WaitsForActive(q)
       /\ status' = [status EXCEPT ![q] = "RUNNABLE", ![active] = "ZOMBIE"]
       /\ waitPid' = [waitPid EXCEPT ![q] = 0]
       /\ told' = [told EXCEPT ![current] = Append(@, <<pid[q], StatusWord(code)>>)]
  /\ exitCode' = [exitCode EXCEPT ![active] = code]
  /\ active' = None
  /\ died' = [died EXCEPT ![current] = Append(@, code)]
  /\ UNCHANGED <<pid, parent, wakeTick, cursor, current, nextPid, ticks, root, result,
                 left, born>>

(* exit with the parent waiting: the parent gets pid and status and becomes *)
(* runnable, and the slot is freed at once.                                 *)
ExitCollected(code) ==
  /\ InUser
  /\ \E q \in Slots :
       /\ WaitsForActive(q)
       /\ \A r \in Slots : WaitsForActive(r) => q <= r
       /\ status' = [status EXCEPT ![q] = "RUNNABLE", ![active] = "FREE"]
       /\ waitPid' = [waitPid EXCEPT ![q] = 0, ![active] = 0]
       /\ told' = [told EXCEPT ![current] =
                     Append(@, <<pid[q], StatusWord(code)>>)]
  /\ pid' = [pid EXCEPT ![active] = 0]
  /\ parent' = [parent EXCEPT ![active] = 0]
  /\ exitCode' = [exitCode EXCEPT ![active] = 0]
  /\ wakeTick' = [wakeTick EXCEPT ![active] = 0]
  /\ active' = None
  /\ died' = [died EXCEPT ![current] = Append(@, code)]
  /\ UNCHANGED <<cursor, current, nextPid, ticks, root, result, left, born>>

-----------------------------------------------------------------------------
(* pit_irq and task_timer_tick.  The tick always counts and wakes sleepers; *)
(* on even ticks, when it interrupted user code and another slot is         *)
(* runnable, it saves the running slot and switches.                        *)
Switches(now) ==
  InUser /\ now % 2 = 0

Tick ==
  /\ ticks' = (ticks + 1) % TickMod
  /\ status' = WakeReady(ticks')
  /\ wakeTick' = WakeReadyTicks(ticks')
  /\ left' = Elapsed
  /\ \/ /\ ~Switches(ticks')
        /\ UNCHANGED <<pid, active, cursor, current>>
     \/ /\ Switches(ticks')
        /\ \E s \in Slots :
             /\ IsNextRunnable(status', active, s)
             /\ cursor' = s
             /\ active' = s
             /\ pid' = IF s = active THEN pid ELSE SavedPid
             /\ current' = IF s = active THEN current ELSE pid'[s]
  /\ UNCHANGED <<parent, exitCode, waitPid, nextPid, root, result, history>>

-----------------------------------------------------------------------------
Waitpid ==
  \E requested \in Pids \cup {AnyChild} :
    WaitpidCollects(requested) \/ WaitpidBlocks(requested)

Exit == \E code \in ExitCodes : ExitZombie(code) \/ ExitCollected(code)

Next ==
  \/ SpawnBackground \/ RunAlongside \/ RunAlongsideFails
  \/ Resume \/ Finish
  \/ Fork \/ Spawn \/ SpawnFails
  \/ Waitpid
  \/ \E d \in SleepTicks : Nanosleep(d)
  \/ SleepForever \/ Yield
  \/ \E s \in Slots : WakeSlot(s)
  \/ Exit
  \/ Tick

Spec == Init /\ [][Next]_vars

(* The PIT keeps interrupting and the loop keeps turning; nothing is        *)
(* assumed of the processes, which may compute forever.                     *)
FairSpec == Spec /\ WF_vars(Tick) /\ WF_vars(Resume) /\ WF_vars(Finish)

-----------------------------------------------------------------------------
(* Type correctness: the fields of the slots, ... *)
TableType ==
  /\ status \in [Slots -> Statuses]
  /\ pid \in [Slots -> Nat] /\ parent \in [Slots -> Nat]
  /\ exitCode \in [Slots -> Int] /\ waitPid \in [Slots -> Int]
  /\ wakeTick \in [Slots -> 0 .. TickMod - 1]

(* ... the scheduler's variables ... *)
SchedType ==
  /\ active \in Slots \cup {None} /\ cursor \in Slots \cup {None}
  /\ current \in Nat /\ nextPid \in Nat /\ root \in Nat
  /\ ticks \in 0 .. TickMod - 1
  /\ result \in Int

(* ... and the history. *)
HistoryType ==
  /\ left \in [Slots -> Nat \cup {None}]
  /\ born \in [Pids -> Nat]
  /\ died \in [Pids -> Seq(ExitCodes)]
  /\ told \in [Pids -> Seq(Nat \X Int)]

(* Every variable of the table and the scheduler keeps its C type: indices  *)
(* stay inside task_slots and ticks and deadlines inside u32.               *)
TypeOK == TableType /\ SchedType /\ HistoryType

(* No two slots in use carry the same pid, every pid was handed out by      *)
(* next_pid, and a child is younger than its parent: fork, spawn and the    *)
(* copies that save and restore current_task never duplicate an identity.   *)
PidsUnique ==
  /\ \A s, t \in Slots : Used(s) /\ Used(t) /\ pid[s] = pid[t] => s = t
  /\ \A s \in Slots : Used(s) => pid[s] \in Pids /\ parent[s] < pid[s] /\ pid[s] < nextPid

(* While user code or a system call runs, active_task_slot names a slot     *)
(* that is runnable, whose saved pid is that of current_task, and the       *)
(* round-robin cursor stands on it (task_timer_tick, the scheduler loop).   *)
RunningSlotIsCurrent ==
  InUser => /\ root # 0
            /\ status[active] = "RUNNABLE"
            /\ pid[active] = current
            /\ cursor = active

(* No lost wake-up in waitpid: a process that is blocked in waitpid has a   *)
(* matching child that has not exited yet, so its wake-up is still to come  *)
(* (task_waitpid_from_user, task_wake_waiting_parents).                     *)
WaiterHasLiveChild ==
  \A q \in Slots : status[q] = "WAITING" =>
    \E s \in Slots : /\ Used(s) /\ status[s] # "ZOMBIE"
                     /\ parent[s] = pid[q]
                     /\ WaitMatches(waitPid[q], pid[s])

(* The value that must reach whoever started process p when it exits with   *)
(* code c: the wait status for a parent process, the code for the kernel.   *)
DueReport(p, c) == <<born[p], IF born[p] = Kernel THEN c ELSE StatusWord(c)>>

(* Process p has not exited and nothing was reported; or it is a zombie     *)
(* that holds its code; or its code was reported once and its slot is free. *)
ReportedOnce(p) ==
  \/ died[p] = <<>> /\ told[p] = <<>>
  \/ \E c \in ExitCodes :
       /\ died[p] = <<c>>
       /\ \/ told[p] = <<>> /\ \E s \in SlotOf(p) : status[s] = "ZOMBIE" /\ exitCode[s] = c
          \/ told[p] = <<DueReport(p, c)>> /\ SlotOf(p) = {}

(* Exit statuses are neither lost nor duplicated nor misdirected: a process *)
(* that exited is either a zombie that holds its code, or was reported      *)
(* exactly once, to its creator, with the right value; and nothing is       *)
(* reported of a process that has not exited.                               *)
ExitReportedOnce == \A p \in Pids : ReportedOnce(p)

(* The process the loop was started for keeps its slot until the loop frees *)
(* it: nobody else can collect a process whose parent is the kernel, so     *)
(* task_run_argv_alongside always finds the exit code it returns.           *)
RootInTable ==
  root # 0 => \E s \in SlotOf(root) : parent[s] = Kernel

(* The table agrees with the history: a slot in use holds a process that    *)
(* was created with the parent the slot names, it is a zombie exactly when  *)
(* that process has exited, and pids not handed out yet have no history.    *)
TableMatchesHistory ==
  /\ nextPid >= 2
  /\ \A s \in Slots : Used(s) =>
       /\ born[pid[s]] = parent[s]
       /\ status[s] = "ZOMBIE" <=> died[pid[s]] # <<>>
  /\ \A p \in Pids : p >= nextPid => died[p] = <<>>

(* The inductive invariant: what every step of the kernel preserves. *)
TaskInv ==
  /\ TypeOK /\ PidsUnique /\ RunningSlotIsCurrent /\ WaiterHasLiveChild
  /\ RootInTable /\ TableMatchesHistory /\ ExitReportedOnce



(* Every nanosleep ends: the sleeper becomes runnable again.                *)
NanosleepEnds ==
  \A s \in Slots :
    (status[s] = "SLEEPING" /\ left[s] # None) ~> status[s] # "SLEEPING"

(* The table implements the life of a process as programs see it. *)
PhaseOf(p) ==
  IF SlotOf(p) # {}
  THEN IF \E s \in SlotOf(p) : status[s] = "ZOMBIE" THEN "zombie" ELSE "live"
  ELSE IF told[p] # <<>> THEN "gone" ELSE "unborn"

Life == INSTANCE ProcessLife WITH
          phase <- [p \in Pids |-> PhaseOf(p)],
          creator <- born, codes <- died, reports <- told,
          Word <- StatusWord

(* Seen by pid, every step of the table is a step of ProcessLife or leaves  *)
(* it unchanged: slots, the scheduler and time are invisible to waitpid.    *)
ImplementsProcessLife == Life!LifeSpec
=============================================================================
