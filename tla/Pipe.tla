-------------------------------- MODULE Pipe --------------------------------
(***************************************************************************)
(* One pipe object (src/pipe.c): the ring buffer with its two indices, of  *)
(* which one place stays empty so that head = tail means "empty", and the  *)
(* two ends.  Reads and writes never block; a transfer is cut short by the *)
(* space or the data there is, and copied in at most two chunks, the       *)
(* second one after the wrap.                                              *)
(***************************************************************************)
EXTENDS Integers, Sequences

CONSTANTS
  Size,      \* PIPE_BUFFER_SIZE
  Bytes,     \* what a byte may be
  MaxLen     \* bound: the longest transfer a program asks for

ASSUME SizeAssumption == Size \in Nat \ {0}
ASSUME BytesAssumption == Bytes # {}
ASSUME MaxLenAssumption == MaxLen \in Nat

VARIABLES
  buffer, head, tail,     \* recv_buffer, recv_head, recv_tail
  readOpen, writeOpen,    \* read_open, write_open (peer_closed = ~write_open)
  got                     \* what the last read delivered

vars == <<buffer, head, tail, readOpen, writeOpen, got>>

Places == 0 .. Size - 1
Messages == UNION {[1 .. n -> Bytes] : n \in 0 .. MaxLen}

Smaller(m, n) == IF m <= n THEN m ELSE n

(* pipe_buffer_used *)
BufferUsed == IF tail >= head THEN tail - head ELSE (Size - head) + tail

(* Mutant: no place is kept empty. *)
AvailableAll == Size - BufferUsed

(* pipe_buffer_available *)
Available == Size - BufferUsed - 1

(* Mutant: the index does not wrap. *)
AdvanceNoWrap(index, n) == index + n

(* The step of recv_head and recv_tail. *)
Advance(index, n) == (index + n) % Size

(* memcpy of n bytes of data, from the given offset, to place pos on. *)
CopyIn(b, pos, data, from, n) ==
  [i \in Places |-> IF pos <= i /\ i < pos + n THEN data[from + i - pos + 1] ELSE b[i]]

(* What the two chunks of a transfer that starts at head deliver. *)
CopyOut(n) ==
  [i \in 1 .. n |-> IF i <= Size - head THEN buffer[head + i - 1]
                                        ELSE buffer[i - (Size - head) - 1]]

(* pipe_alloc *)
Init ==
  /\ buffer \in [Places -> Bytes]
  /\ head = 0 /\ tail = 0
  /\ readOpen = TRUE /\ writeOpen = TRUE
  /\ got = <<>>

(* pipe_write, pipe_buffer_write; refused once an end is closed. *)
Write ==
  /\ writeOpen /\ readOpen
  /\ \E data \in Messages :
       LET n == Smaller(Len(data), Available)
           chunk == Smaller(Size - tail, n)
       IN  /\ buffer' = CopyIn(CopyIn(buffer, tail, data, 0, chunk), 0, data, chunk, n - chunk)
           /\ tail' = Advance(tail, n)
  /\ UNCHANGED <<head, readOpen, writeOpen, got>>

(* pipe_read, pipe_buffer_read; refused once the read end is closed. *)
Read ==
  /\ readOpen
  /\ \E length \in 0 .. MaxLen :
       LET n == Smaller(length, BufferUsed)
       IN  /\ got' = CopyOut(n)
           /\ head' = Advance(head, n)
  /\ UNCHANGED <<buffer, tail, readOpen, writeOpen>>

(* pipe_close_read *)
CloseRead ==
  /\ readOpen
  /\ readOpen' = FALSE
  /\ UNCHANGED <<buffer, head, tail, writeOpen, got>>

(* pipe_close_write *)
CloseWrite ==
  /\ writeOpen
  /\ writeOpen' = FALSE
  /\ UNCHANGED <<buffer, head, tail, readOpen, got>>

(* pipe_release of the last reference: both ends close. *)
Release ==
  /\ readOpen' = FALSE /\ writeOpen' = FALSE
  /\ UNCHANGED <<buffer, head, tail, got>>

Next == Write \/ Read \/ CloseRead \/ CloseWrite \/ Release

Spec == Init /\ [][Next]_vars

-----------------------------------------------------------------------------
(* Types, and the indices stay inside the buffer (pipe_buffer_write and    *)
(* pipe_buffer_read reduce them modulo its size).                          *)
TypeOK ==
  /\ buffer \in [Places -> Bytes]
  /\ head \in Places /\ tail \in Places
  /\ readOpen \in BOOLEAN /\ writeOpen \in BOOLEAN
  /\ got \in Seq(Bytes)

(* The bytes between head and tail, oldest first. *)
Contents == CopyOut(BufferUsed)

Fifo == INSTANCE PipeFifo WITH Capacity <- Size - 1, queue <- Contents

(* The ring implements the bounded queue: however the two indices chase    *)
(* each other round the buffer, no byte is lost, repeated, reordered or    *)
(* overwritten before it is read, and a full ring is not taken for an      *)
(* empty one (pipe_buffer_used and the place that stays empty).            *)
ImplementsFifo == Fifo!Spec
=============================================================================
