------------------------------ MODULE TaskFpu ------------------------------
(***************************************************************************)
(* The lazily switched FPU (src/task.c): CR0.TS, fpu_owner_slot, the copy  *)
(* of the FPU state in every slot, and the copy inside current_task that   *)
(* task_slot_save_state and task_slot_activate move along with everything  *)
(* else.  Every step of TaskSched is composed with what it does to them,   *)
(* and two steps of user code are added: the instruction that finds TS set *)
(* and traps, and the one that finds it clear and executes.                *)
(*                                                                         *)
(* The content of the FPU is the pid of the process that wrote it, 0 after *)
(* fninit.                                                                 *)
(***************************************************************************)
EXTENDS TaskSched

VARIABLES
  fpuMem,    \* task_slots[s].state.fpu_state
  fpuUsed,   \* task_slots[s].state.fpu_used
  curFpu,    \* current_task.fpu_state
  curUsed,   \* current_task.fpu_used
  fpu, ts,   \* FPU registers and CR0.TS
  owner,     \* fpu_owner_slot
  wantFpu    \* history: what the program of a slot last put in the FPU

fpuVars == <<fpuMem, fpuUsed, curFpu, curUsed, fpu, ts, owner, wantFpu>>
allVars == <<vars, fpuVars>>

FpuInit ==
  /\ Init
  /\ fpuMem = [s \in Slots |-> 0] /\ fpuUsed = [s \in Slots |-> FALSE]
  /\ curFpu = 0 /\ curUsed = FALSE
  /\ fpu = 0 /\ ts = FALSE /\ owner = None
  /\ wantFpu = [s \in Slots |-> 0]

NewSlot == CHOOSE s \in Slots : FirstFree(s)

(* Slot s takes the FPU fields of current_task. *)
SaveTo(s) ==
  /\ fpuMem' = [fpuMem EXCEPT ![s] = curFpu]
  /\ fpuUsed' = [fpuUsed EXCEPT ![s] = curUsed]

(* task_slot_activate(s), after SaveTo or alone. *)
Activate(s) == curFpu' = fpuMem'[s] /\ curUsed' = fpuUsed'[s]

(* Slots in the set are cleared by memset; fpu_owner_slot is not.           *)
Clear(slots) ==
  /\ fpuMem' = [s \in Slots |-> IF s \in slots THEN 0 ELSE fpuMem[s]]
  /\ fpuUsed' = [s \in Slots |-> s \notin slots /\ fpuUsed[s]]
  /\ wantFpu' = [s \in Slots |-> IF s \in slots THEN 0 ELSE wantFpu[s]]

-----------------------------------------------------------------------------
(* task_seed_slot clears current_task and copies it to the new slot. *)
FpuStartFromKernel ==
  /\ SpawnBackground \/ RunAlongside \/ RunAlongsideFails
  /\ curFpu' = 0 /\ curUsed' = FALSE
  /\ UNCHANGED <<fpuMem, fpuUsed, fpu, ts, owner, wantFpu>>

FpuResume ==
  /\ Resume
  /\ UNCHANGED <<fpuMem, fpuUsed, fpu, owner, wantFpu>>
  /\ Activate(active')
  /\ ts' = TRUE

(* task_free_slot and task_restore_kernel_context. *)
FpuFinish ==
  /\ Finish
  /\ Clear(SlotOf(root))
  /\ curFpu' = 0 /\ curUsed' = FALSE
  /\ UNCHANGED <<fpu, ts, owner>>

(* The child of fork takes a copy of current_task. *)
FpuFork ==
  /\ Fork
  /\ SaveTo(NewSlot)
  /\ wantFpu' = [wantFpu EXCEPT ![NewSlot] = wantFpu[active]]
  /\ UNCHANGED <<curFpu, curUsed, fpu, ts, owner>>

(* The caller of spawn is saved and activated again, whether the new       *)
(* program could be loaded or not.                                         *)
FpuSpawn ==
  /\ Spawn \/ SpawnFails
  /\ SaveTo(active) /\ Activate(active)
  /\ UNCHANGED <<fpu, ts, owner, wantFpu>>

FpuBlock ==
  /\ \/ \E requested \in Pids \cup {AnyChild} : WaitpidBlocks(requested)
     \/ \E d \in SleepTicks : Nanosleep(d)
     \/ SleepForever \/ Yield
  /\ SaveTo(active)
  /\ UNCHANGED <<curFpu, curUsed, fpu, ts, owner, wantFpu>>

FpuWaitpidCollects ==
  /\ \E requested \in Pids \cup {AnyChild} : WaitpidCollects(requested)
  /\ Clear({s \in Slots : Used(s) /\ status'[s] = "FREE"})
  /\ UNCHANGED <<curFpu, curUsed, fpu, ts, owner>>

FpuWake ==
  /\ \E s \in Slots : WakeSlot(s)
  /\ UNCHANGED fpuVars

(* exit clears CR0.TS; a fault that ends the process does not. *)
FpuExit ==
  /\ \/ /\ \E code \in ExitCodes : ExitZombie(code)
        /\ SaveTo(active) /\ UNCHANGED wantFpu
     \/ /\ \E code \in ExitCodes : ExitCollected(code)
        /\ Clear({active})
  /\ ts' \in {FALSE, ts}
  /\ UNCHANGED <<curFpu, curUsed, fpu, owner>>

FpuTick ==
  /\ Tick
  /\ \/ active' = active /\ UNCHANGED fpuVars
     \/ /\ active' # active
        /\ SaveTo(active) /\ Activate(active')
        /\ ts' = TRUE
        /\ UNCHANGED <<fpu, owner, wantFpu>>

-----------------------------------------------------------------------------

(* fpu_nm_handler: save the FPU to the slot that owned it, then restore or *)
(* initialise it for the running slot.                                     *)
NmHandler ==
  /\ ts' = FALSE
  /\ LET saved == IF owner # None /\ Used(owner)
                  THEN [fpuMem EXCEPT ![owner] = fpu] ELSE fpuMem
     IN  /\ fpuMem' = saved
         /\ fpuUsed' = [fpuUsed EXCEPT ![active] = TRUE]
         /\ fpu' = IF fpuUsed[active] THEN saved[active] ELSE 0
  /\ owner' = active

(* An FPU instruction that finds CR0.TS set traps first ... *)
FpuTrap ==
  /\ InUser /\ ts
  /\ NmHandler
  /\ UNCHANGED <<vars, curFpu, curUsed, wantFpu>>

(* ... and executes when it is clear. *)
FpuWrite ==
  /\ InUser /\ ~ts
  /\ fpu' = current
  /\ wantFpu' = [wantFpu EXCEPT ![active] = current]
  /\ UNCHANGED <<vars, fpuMem, fpuUsed, curFpu, curUsed, ts, owner>>

FpuNext ==
  \/ FpuStartFromKernel \/ FpuResume \/ FpuFinish
  \/ FpuFork \/ FpuSpawn \/ FpuBlock \/ FpuWaitpidCollects \/ FpuWake
  \/ FpuExit \/ FpuTick \/ FpuTrap \/ FpuWrite

FpuSpec == FpuInit /\ [][FpuNext]_allVars

-----------------------------------------------------------------------------

(* The FPU state of a process survives context switches: when its program  *)
(* can use the FPU again, the FPU holds what it last put there.            *)
FpuPreserved ==
  InUser /\ ~ts => fpu = wantFpu[active]
=============================================================================
