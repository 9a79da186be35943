------------------------------- MODULE Socket -------------------------------
(***************************************************************************)
(* Unix domain stream sockets (src/socket.c) and the system calls on them  *)
(* (src/syscall.c): the table of endpoints, binding, listening, the ring   *)
(* of pending connections, connect and accept, the receive buffer, the     *)
(* direct hand-off to a blocked reader, shutdown, poll and release.        *)
(*                                                                         *)
(* Processes are what the sockets need of them: at most one runs, the      *)
(* others are ready, asleep in a call, or gone.  The reference count of an *)
(* endpoint is abstracted to "leaked": task_slot_save_state counts every   *)
(* socket of a process again each time it is switched out, and from then   *)
(* on closing it cannot bring the count to zero.                           *)
(*                                                                         *)
(* Bytes of a stream are numbered from 1.  There is one path to bind to.   *)
(***************************************************************************)
EXTENDS Integers, Sequences, FiniteSets, FiniteSetsExt

CONSTANTS
  Procs,         \* slots of the task table
  MaxSockets,    \* SOCKET_MAX_OBJECTS
  MaxFds,        \* descriptors of a process
  RingSize,      \* SOCKET_BACKLOG, the size of the ring of pending connections
  Backlogs,      \* what programs pass to listen
  Capacity,      \* SOCKET_BUFFER_SIZE - 1
  SendLengths, RecvLengths,   \* lengths programs pass to send and recv
  Handoffs,      \* may the copy into the buffer of a blocked reader fail?
  MaxBytes,      \* bound: bytes sent on a stream
  Calls          \* which of the calls named below programs make

ASSUME RingAssumption == RingSize \in Nat \ {0} /\ Backlogs \subseteq Nat
ASSUME HandoffAssumption == Handoffs \subseteq BOOLEAN /\ TRUE \in Handoffs
ASSUME CallsAssumption == Calls \subseteq {"relisten", "shutdown", "poll", "fork", "exit"}
ASSUME LengthAssumption == SendLengths \cup RecvLengths \subseteq Nat \ {0}

None == 0           \* no socket
Nobody == "nobody"  \* no process
Sockets == 1 .. MaxSockets
Garbage == 0     \* a byte of the reader's buffer that was never written

VARIABLES
  sock,      \* socket_endpoints
  running,   \* the process that executes, or Nobody
  st, on,    \* what a process does, and the socket it sleeps on
  holds      \* the sockets a process has descriptors for

vars == <<sock, running, st, on, holds>>
procVars == <<running, st, on, holds>>

(* An endpoint after memset.  waiting_for_read is left out: it is set with *)
(* read_waiter and only looked at beside it.  The last three fields are    *)
(* history: the connections made to a listener and not yet accepted, the   *)
(* number of bytes that send reported as sent to this endpoint, and the    *)
(* bytes that its reader was given.                                        *)
Blank ==
  [used |-> FALSE, bound |-> FALSE, listening |-> FALSE, backlog |-> 0,
   pending |-> [i \in 0 .. RingSize - 1 |-> None], pendingHead |-> 0, pendingTail |-> 0,
   acceptWaiter |-> Nobody, readWaiter |-> Nobody, readLength |-> 0,
   peer |-> None, peerClosed |-> FALSE, data |-> <<>>, leaked |-> FALSE,
   queued |-> <<>>, sent |-> 0, taken |-> <<>>]

Init ==
  /\ sock = [s \in Sockets |-> Blank]
  /\ running = Nobody
  /\ st \in IF "fork" \in Calls THEN [Procs -> {"ready", "free"}] ELSE {[p \in Procs |-> "ready"]}
  /\ on = [p \in Procs |-> None]
  /\ holds = [p \in Procs |-> {}]

-----------------------------------------------------------------------------
(* Helpers.  The endpoint table is passed along as k where a step changes  *)
(* it more than once.                                                      *)
Smaller(m, n) == IF m <= n THEN m ELSE n

(* socket_alloc takes the first unused endpoint. *)
FirstUnused(k, s) == ~k[s].used /\ \A t \in Sockets : t < s => k[t].used

Allocated(k, s) == [k EXCEPT ![s] = [Blank EXCEPT !.used = TRUE]]

(* socket_find_listener_by_path *)
IsListener(s) == sock[s].used /\ sock[s].listening /\ sock[s].bound
FirstListener(s) == IsListener(s) /\ \A t \in Sockets : t < s => ~IsListener(t)


(* socket_pending_count *)
PendingCount(r) ==
  IF r.pendingTail >= r.pendingHead THEN r.pendingTail - r.pendingHead
  ELSE RingSize - r.pendingHead + r.pendingTail

(* socket_dequeue_pending; what is outside head .. tail is never read. *)
PendingFirst(r) == r.pending[r.pendingHead]
Dequeued(r) ==
  [r EXCEPT !.pending[r.pendingHead] = None, !.pendingHead = (@ + 1) % RingSize,
            !.queued = Tail(@)]

(* Mutant: the tail does not wrap. *)
EnqueuedNoWrap(r, s) ==
  [r EXCEPT !.pending[r.pendingTail] = s, !.pendingTail = @ + 1, !.queued = Append(@, s)]

(* socket_enqueue_pending *)
Enqueued(r, s) ==
  [r EXCEPT !.pending[r.pendingTail] = s, !.pendingTail = (@ + 1) % RingSize,
            !.queued = Append(@, s)]

(* Mutant: the peer keeps its pointer. *)
FreedAlone(k, s) == [k EXCEPT ![s] = Blank]

(* The end of socket_release: the peer forgets the endpoint. *)
Freed(k, s) ==
  LET t == k[s].peer
  IN  [u \in Sockets |->
         CASE u = s -> Blank
           [] u = t /\ u # s /\ k[u].peer = s -> [k[u] EXCEPT !.peer = None]
           [] OTHER -> k[u]]

(* socket_release of a descriptor, held being what is left of them. *)
Released(k, s, held) ==
  IF k[s].leaked \/ \E q \in Procs : s \in held[q] THEN k ELSE Freed(k, s)

(* task_slot_save_state counts the sockets of the process it switches out. *)
Counted(k, p) ==
  [s \in Sockets |-> IF s \in holds[p] THEN [k[s] EXCEPT !.leaked = TRUE] ELSE k[s]]

(* task_sleep_current *)
Sleep(call, s) ==
  /\ st' = [st EXCEPT ![running] = call]
  /\ on' = [on EXCEPT ![running] = s]
  /\ running' = Nobody

(* task_wake_slot, for a reader or an acceptor *)
Wake(p) ==
  /\ st' = [st EXCEPT ![p] = "ready"]
  /\ on' = [on EXCEPT ![p] = None]

-----------------------------------------------------------------------------
(* Scheduling: a switch, by a tick or by sched_yield, and a resumption. *)
Resume(p) ==
  /\ running = Nobody /\ st[p] = "ready"
  /\ running' = p
  /\ UNCHANGED <<sock, st, on, holds>>

SwitchOut ==
  /\ running # Nobody
  /\ sock' = Counted(sock, running)
  /\ running' = Nobody
  /\ UNCHANGED <<st, on, holds>>

-----------------------------------------------------------------------------
(* task_get_socket: the running process calls with a descriptor of s. *)
Calling(s) == running # Nobody /\ s \in holds[running]

(* sys_socket; without a free descriptor the endpoint is left behind. *)
Create ==
  /\ running # Nobody
  /\ \E s \in Sockets :
       /\ FirstUnused(sock, s)
       /\ \/ /\ Cardinality(holds[running]) < MaxFds
             /\ holds' = [holds EXCEPT ![running] = @ \cup {s}]
             /\ sock' = Allocated(sock, s)
          \/ /\ Cardinality(holds[running]) = MaxFds
             /\ sock' = [Allocated(sock, s) EXCEPT ![s].leaked = TRUE]
             /\ UNCHANGED holds
  /\ UNCHANGED <<running, st, on>>

(* socket_bind *)
Bind(s) ==
  /\ Calling(s)
  /\ ~sock[s].bound /\ ~\E t \in Sockets : IsListener(t)
  /\ sock' = [sock EXCEPT ![s].bound = TRUE]
  /\ UNCHANGED procVars

(* socket_listen; called again, it forgets the connections that are        *)
(* pending and the acceptor that waits.                                    *)
Listen(s, backlog) ==
  /\ Calling(s)
  /\ sock[s].bound /\ (sock[s].listening => "relisten" \in Calls)
  /\ sock' = [sock EXCEPT ![s].listening = TRUE, ![s].acceptWaiter = Nobody,
                ![s].pendingHead = 0, ![s].pendingTail = 0, ![s].queued = <<>>,
                ![s].backlog = Smaller(IF backlog < 1 THEN 1 ELSE backlog, RingSize)]
  /\ UNCHANGED procVars

(* sys_accept with a connection pending: it goes to the caller, or is      *)
(* released when the caller has no descriptor left or the peer's name      *)
(* cannot be reported.                                                     *)
Accept(s) ==
  /\ Calling(s)
  /\ sock[s].listening /\ PendingCount(sock[s]) > 0
  /\ LET t == PendingFirst(sock[s])
         k == [sock EXCEPT ![s] = Dequeued(@)]
     IN  \/ /\ Cardinality(holds[running]) < MaxFds
            /\ holds' = [holds EXCEPT ![running] = @ \cup {t}]
            /\ sock' = k
         \/ /\ sock' = Released(k, t, holds)
            /\ UNCHANGED holds
  /\ UNCHANGED <<running, st, on>>

(* sys_accept with none pending: the caller is the one to wake. *)
AcceptBlocks(s) ==
  /\ Calling(s)
  /\ sock[s].listening /\ PendingCount(sock[s]) = 0
  /\ sock' = Counted([sock EXCEPT ![s].acceptWaiter = running], running)
  /\ Sleep("accept", s)
  /\ UNCHANGED holds

(* The listener once socket_try_complete_accept has served the acceptor. *)
Completed(r) == [Dequeued(r) EXCEPT !.acceptWaiter = Nobody]

(* socket_connect, with socket_try_complete_accept. *)
Connect(s) ==
  /\ Calling(s)
  /\ sock[s].peer = None
  /\ \E l, t \in Sockets :
       /\ FirstListener(l)
       /\ PendingCount(sock[l]) < sock[l].backlog
       /\ FirstUnused(sock, t)
       /\ LET linked == [Allocated(sock, t) EXCEPT
                           ![t].peer = s, ![s].peer = t, ![s].peerClosed = FALSE]
              k == [linked EXCEPT ![l] = Enqueued(@, t)]
              waiter == sock[l].acceptWaiter
              first == PendingFirst(k[l])
              done == [k EXCEPT ![l] = Completed(@)]
          IN  \/ /\ waiter = Nobody
                 /\ sock' = k
                 /\ UNCHANGED <<st, on, holds>>
              \/ /\ waiter # Nobody
                 /\ Wake(waiter)
                 /\ \/ /\ Cardinality(holds[waiter]) < MaxFds
                       /\ holds' = [holds EXCEPT ![waiter] = @ \cup {first}]
                       /\ sock' = done
                    \/ /\ Cardinality(holds[waiter]) = MaxFds
                       /\ sock' = Released(done, first, holds)
                       /\ UNCHANGED holds
  /\ UNCHANGED running

-----------------------------------------------------------------------------
(* socket_send to the peer t: first the hand-off to a reader asleep in     *)
(* recv, then the receive buffer; the bytes handed over are not in the     *)
(* count returned when the rest goes to the buffer.                        *)
Send(s, length, ok) ==
  LET t == sock[s].peer
      bytes == [i \in 1 .. length |-> sock[t].sent + i]
      waiter == sock[t].readWaiter
      asleep == waiter # Nobody
      handed == IF asleep /\ ok THEN Smaller(length, sock[t].readLength) ELSE 0
      written == Smaller(length - handed, Capacity - Len(sock[t].data))
      count == IF handed = length THEN length ELSE written
      delivered == IF handed > 0 THEN SubSeq(bytes, 1, handed)
                                 ELSE [i \in 1 .. written |-> Garbage]
      filled == [sock[t] EXCEPT !.data = @ \o SubSeq(bytes, handed + 1, handed + written),
                                !.sent = @ + count]
  IN  /\ Calling(s) /\ t # None /\ ~sock[t].peerClosed
      /\ sock[t].sent + length <= MaxBytes
      /\ handed + written > 0
      /\ \/ /\ asleep
            /\ sock' = [sock EXCEPT ![t] =
                 [filled EXCEPT !.readWaiter = Nobody, !.readLength = 0,
                                !.taken = @ \o delivered]]
            /\ Wake(waiter)
         \/ /\ ~asleep
            /\ sock' = [sock EXCEPT ![t] = filled]
            /\ UNCHANGED <<st, on>>
      /\ UNCHANGED <<running, holds>>


(* socket_recv with data in the buffer. *)
Recv(s, length) ==
  /\ Calling(s)
  /\ sock[s].data # <<>>
  /\ LET n == Smaller(length, Len(sock[s].data))
     IN  sock' = [sock EXCEPT ![s].taken = @ \o SubSeq(sock[s].data, 1, n),
                              ![s].data = SubSeq(@, n + 1, Len(@))]
  /\ UNCHANGED procVars

(* Mutant: the reader does not register. *)
RecvSleepsUnseen(s, length) ==
  /\ Calling(s)
  /\ sock[s].data = <<>> /\ sock[s].peer # None /\ ~sock[s].peerClosed
  /\ sock' = Counted(sock, running)
  /\ Sleep("recv", s)
  /\ UNCHANGED holds

(* sys_recv without data: the caller registers and sleeps, unless the      *)
(* stream has ended.                                                       *)
RecvBlocks(s, length) ==
  /\ Calling(s)
  /\ sock[s].data = <<>> /\ sock[s].peer # None /\ ~sock[s].peerClosed
  /\ sock' = Counted([sock EXCEPT ![s].readWaiter = running, ![s].readLength = length],
                  running)
  /\ Sleep("recv", s)
  /\ UNCHANGED holds

(* Mutant: the waiter stays registered. *)
ShutdownKeepsWaiter(s) ==
  LET t == sock[s].peer
      waiter == sock[t].readWaiter
  IN  /\ "shutdown" \in Calls /\ Calling(s)
      /\ t # None
      /\ sock' = [sock EXCEPT ![t].peerClosed = TRUE]
      /\ \/ waiter # Nobody /\ Wake(waiter)
         \/ waiter = Nobody /\ UNCHANGED <<st, on>>
      /\ UNCHANGED <<running, holds>>

(* socket_shutdown(SHUT_WR).  What it leaves in read_length, the next recv *)
(* overwrites before it is read.                                           *)
Shutdown(s) ==
  LET t == sock[s].peer
      waiter == sock[t].readWaiter
  IN  /\ "shutdown" \in Calls /\ Calling(s)
      /\ t # None
      /\ sock' = [sock EXCEPT ![t].peerClosed = TRUE, ![t].readWaiter = Nobody,
                              ![t].readLength = 0]
      /\ \/ waiter # Nobody /\ Wake(waiter)
         \/ waiter = Nobody /\ UNCHANGED <<st, on>>
      /\ UNCHANGED <<running, holds>>

(* socket_pending_readable *)
Readable(s) == IF sock[s].listening THEN PendingCount(sock[s]) > 0 ELSE sock[s].data # <<>>

(* sys_poll without a timeout, and nothing to read. *)
PollBlocks(s) ==
  /\ Calling(s)
  /\ "poll" \in Calls
  /\ ~Readable(s)
  /\ sock' = Counted(sock, running)
  /\ Sleep("poll", s)
  /\ UNCHANGED holds

-----------------------------------------------------------------------------
(* task_close *)
Close(s) ==
  /\ Calling(s)
  /\ holds' = [holds EXCEPT ![running] = @ \ {s}]
  /\ sock' = Released(sock, s, holds')
  /\ UNCHANGED <<running, st, on>>

(* task_fork_from_user: the child holds, and counts, the same sockets. *)
Fork(child) ==
  /\ "fork" \in Calls
  /\ running # Nobody /\ st[child] = "free"
  /\ st' = [st EXCEPT ![child] = "ready"]
  /\ holds' = [holds EXCEPT ![child] = holds[running]]
  /\ UNCHANGED <<sock, running, on>>

(* task_exit_current ... *)
Exit ==
  /\ "exit" \in Calls
  /\ running # Nobody
  /\ st' = [st EXCEPT ![running] = "zombie"]
  /\ running' = Nobody
  /\ UNCHANGED <<sock, on, holds>>

(* ... and task_free_slot, which releases the sockets one by one. *)
Reap(p) ==
  /\ st[p] = "zombie"
  /\ holds' = [holds EXCEPT ![p] = {}]
  /\ sock' = FoldSet(LAMBDA s, k : Released(k, s, holds'), sock, holds[p])
  /\ st' = [st EXCEPT ![p] = "free"]
  /\ UNCHANGED <<running, on>>

-----------------------------------------------------------------------------
Call(s) ==
  \/ Bind(s) \/ Accept(s) \/ AcceptBlocks(s) \/ Connect(s)
  \/ Shutdown(s) \/ PollBlocks(s) \/ Close(s)
  \/ \E backlog \in Backlogs : Listen(s, backlog)
  \/ \E length \in SendLengths, ok \in Handoffs : Send(s, length, ok)
  \/ \E length \in RecvLengths : Recv(s, length) \/ RecvBlocks(s, length)

Next ==
  \/ \E p \in Procs : Resume(p) \/ Fork(p) \/ Reap(p)
  \/ SwitchOut \/ Create \/ Exit
  \/ \E s \in Sockets : Call(s)

Spec == Init /\ [][Next]_vars

-----------------------------------------------------------------------------
(* Types. *)
TypeOK ==
  /\ running \in Procs \cup {Nobody}
  /\ st \in [Procs -> {"ready", "accept", "recv", "poll", "zombie", "free"}]
  /\ on \in [Procs -> Sockets \cup {None}]
  /\ holds \in [Procs -> SUBSET Sockets]
  /\ \A s \in Sockets :
       /\ sock[s].pendingHead \in 0 .. RingSize - 1 /\ sock[s].pendingTail \in 0 .. RingSize - 1
       /\ sock[s].peer \in Sockets \cup {None}
       /\ Len(sock[s].data) <= Capacity

(* Two connected endpoints point at each other and both are in use, and no *)
(* descriptor names an unused one: connect, accept, close and reaping keep *)
(* the pair consistent whatever the order in which the two sides go away   *)
(* (socket_connect, socket_release).                                       *)
PeersMutual ==
  /\ \A s \in Sockets : sock[s].peer # None =>
       /\ sock[s].peer # s /\ sock[sock[s].peer].peer = s
       /\ sock[s].used /\ sock[sock[s].peer].used
  /\ \A p \in Procs : \A s \in holds[p] : sock[s].used

(* A registered waiter is asleep on that very socket, so that waking it    *)
(* never disturbs a process that does something else: task_wake_slot makes *)
(* whatever it finds in the slot runnable.                                 *)
WaitersAsleep ==
  \A s \in Sockets :
    /\ sock[s].acceptWaiter # Nobody =>
         st[sock[s].acceptWaiter] = "accept" /\ on[sock[s].acceptWaiter] = s
    /\ sock[s].readWaiter # Nobody =>
         st[sock[s].readWaiter] = "recv" /\ on[sock[s].readWaiter] = s

(* A reader or acceptor that sleeps is registered, and there is nothing    *)
(* for it: neither data nor a connection arrives without waking it (the    *)
(* order of the hand-off and the buffer in socket_send, and                *)
(* socket_try_complete_accept).                                            *)
SleepersHaveNothing ==
  \A p \in Procs :
    /\ st[p] = "recv" => sock[on[p]].readWaiter = p /\ sock[on[p]].data = <<>>
    /\ st[p] = "accept" => sock[on[p]].acceptWaiter = p /\ PendingCount(sock[on[p]]) = 0



(* A process that polls without a timeout does not sleep on while there is *)
(* something to read (the comment in sys_poll).                            *)
PollersWoken ==
  \A p \in Procs : st[p] = "poll" => ~Readable(on[p])
=============================================================================
