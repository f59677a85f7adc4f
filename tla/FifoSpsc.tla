------------------------------ MODULE FifoSpsc ------------------------------
(***************************************************************************)
(* The lock-free ring of algorithm/buffer/circle_fifo_buffer.c: struct     *)
(* fifo_spsc (word elements) and struct fifo_uni_spsc (elements of         *)
(* item_size bytes) run the same algorithm.  Pointers are free-running     *)
(* uint16_t counters (modulo PtrMod = 2^16) that are masked only when the  *)
(* array is indexed.                                                       *)
(*                                                                         *)
(* One producer and one consumer run concurrently.  An operation is        *)
(* several steps: the acquire load of the other side's pointer together    *)
(* with the capacity check, the copy of each element, and the release      *)
(* store of the own pointer.  The own pointer is written by nobody else,   *)
(* so its load needs no step.  Calls that return BUFF_ERR_FULL or          *)
(* BUFF_ERR_EMPTY change nothing and are the stuttering steps.             *)
(***************************************************************************)
EXTENDS Naturals, Sequences

CONSTANTS Size,      \* capacity: a power of two that fits uint16_t
          PtrMod,    \* 2^16 in the code: pointers wrap here
          Data,      \* element values
          MaxBlock   \* longest block a caller asks for

ASSUME FifoAssumption ==
    /\ Size \in Nat \ {0}
    /\ PtrMod \in Nat
    /\ PtrMod > Size
    /\ PtrMod % Size = 0
    /\ MaxBlock \in Nat \ {0}

VARIABLES w_ptr, r_ptr,   \* the published pointers
          buf,            \* the backing array
          prod, src, pk,  \* producer: step, block accepted, elements copied
          cons, clen, dst,\* consumer: step, elements granted, elements copied
          taken           \* the block the last completed read handed over

fifoVars == <<w_ptr, r_ptr, buf, prod, src, pk, cons, clen, dst, taken>>
prodVars == <<prod, src, pk>>
consVars == <<cons, clen, dst, taken>>

\* (uint16_t)(w_ptr - r_ptr)
Used == IF w_ptr >= r_ptr THEN w_ptr - r_ptr ELSE w_ptr + PtrMod - r_ptr

\* (uint16_t)(ptr + n)
Advance(ptr, n) == IF ptr + n < PtrMod THEN ptr + n ELSE ptr + n - PtrMod

\* Array index of the k-th element after ptr: ptr & mask, then the first
\* chunk up to the end of the array, then the second chunk from index 0.
Slot(ptr, k) ==
    LET idx == ptr % Size
        to_end == Size - idx
    IN  IF k < to_end THEN idx + k ELSE k - to_end

Least(a, b) == IF a <= b THEN a ELSE b

FifoInit ==
    /\ w_ptr = 0 /\ r_ptr = 0
    /\ buf \in [0..(Size - 1) -> Data]
    /\ prod = "idle" /\ src = << >> /\ pk = 0
    /\ cons = "idle" /\ clen = 0 /\ dst = << >>
    /\ taken = << >>

-----------------------------------------------------------------------------
\* Producer.

StartWrite(block) ==
    /\ prod = "idle"
    /\ prod' = "copy"
    /\ src' = block
    /\ pk' = 0
    /\ UNCHANGED <<w_ptr, r_ptr, buf, consVars>>

\* fifo_write_data and fifo_uni_write_acquire: one slot, refused when full.
WriteOneLate(d) == Used <= Size /\ StartWrite(<<d>>)
fifo_write_data(d) == Used < Size /\ StartWrite(<<d>>)

\* fifo_write_block and fifo_uni_write_block: the length is cut to the free
\* space seen at the load; BUFF_ERR_FULL when there is none.
WriteBlockUncut(block) == Size - Used > 0 /\ StartWrite(block)
fifo_write_block(block) ==
    LET free == Size - Used
    IN  /\ free > 0
        /\ StartWrite(SubSeq(block, 1, Least(Len(block), free)))

\* memcpy into the array, or the caller filling an acquired slot.
CopyIn ==
    /\ prod = "copy"
    /\ pk < Len(src)
    /\ buf' = [buf EXCEPT ![Slot(w_ptr, pk)] = src[pk + 1]]
    /\ pk' = pk + 1
    /\ UNCHANGED <<w_ptr, r_ptr, prod, src, consVars>>

\* The release store of w_ptr (fifo_uni_write_commit for an acquired slot).
PublishEarly ==
    /\ prod = "copy"
    /\ w_ptr' = Advance(w_ptr, Len(src))
    /\ prod' = "idle" /\ src' = << >> /\ pk' = 0
    /\ UNCHANGED <<r_ptr, buf, consVars>>
Publish ==
    /\ prod = "copy"
    /\ pk = Len(src)
    /\ w_ptr' = Advance(w_ptr, Len(src))
    /\ prod' = "idle" /\ src' = << >> /\ pk' = 0
    /\ UNCHANGED <<r_ptr, buf, consVars>>

-----------------------------------------------------------------------------
\* Consumer.

StartRead(n) ==
    /\ cons = "idle"
    /\ cons' = "copy"
    /\ clen' = n
    /\ dst' = << >>
    /\ UNCHANGED <<w_ptr, r_ptr, buf, prodVars, taken>>

\* fifo_read_data and fifo_uni_read_peek: one element, refused when empty.
fifo_read_data == Used > 0 /\ StartRead(1)

\* fifo_read_block and fifo_uni_read_block: cut to what is there.
fifo_read_block(n) == Used > 0 /\ StartRead(Least(n, Used))

CopyOut ==
    /\ cons = "copy"
    /\ Len(dst) < clen
    /\ dst' = Append(dst, buf[Slot(r_ptr, Len(dst))])
    /\ UNCHANGED <<w_ptr, r_ptr, buf, prodVars, cons, clen, taken>>

\* The release store of r_ptr (fifo_uni_read_release for a peeked slot).
Release ==
    /\ cons = "copy"
    /\ Len(dst) = clen
    /\ r_ptr' = Advance(r_ptr, clen)
    /\ taken' = dst
    /\ cons' = "idle" /\ clen' = 0 /\ dst' = << >>
    /\ UNCHANGED <<w_ptr, buf, prodVars>>

-----------------------------------------------------------------------------
Blocks == UNION {[1..n -> Data] : n \in 1..MaxBlock}

ProducerStep ==
    \/ \E d \in Data : fifo_write_data(d)
    \/ \E block \in Blocks : fifo_write_block(block)
    \/ CopyIn
    \/ Publish

ConsumerStep ==
    \/ fifo_read_data
    \/ \E n \in 1..MaxBlock : fifo_read_block(n)
    \/ CopyOut
    \/ Release

FifoNext == ProducerStep \/ ConsumerStep

FifoSpec == FifoInit /\ [][FifoNext]_fifoVars

-----------------------------------------------------------------------------
\* Every variable has its type; the counters stay within their width and a
\* block copy never runs past its block.
FifoTypeOK ==
    /\ w_ptr \in 0..(PtrMod - 1)
    /\ r_ptr \in 0..(PtrMod - 1)
    /\ buf \in [0..(Size - 1) -> Data]
    /\ prod \in {"idle", "copy"}
    /\ src \in Seq(Data)
    /\ prod = "idle" => src = << >>
    /\ pk \in 0..Len(src)
    /\ cons \in {"idle", "copy"}
    /\ clen \in Nat
    /\ dst \in Seq(Data)
    /\ Len(dst) <= clen
    /\ taken \in Seq(Data)

\* The free-running pointers never drift further apart than the capacity, the
\* block being written fits in the free space that is left, and the block
\* being read is covered by published elements, although each side decided
\* on an old value of the other side's pointer.
WithinCapacity ==
    /\ Used <= Size
    /\ prod = "copy" => Len(src) > 0 /\ Used + Len(src) <= Size
    /\ cons = "copy" => clen > 0 /\ clen <= Used

\* No slot is written by memcpy while the other side reads it, the wrap of
\* the array and of the 16-bit pointers included.
NoOverlap ==
    (prod = "copy" /\ cons = "copy") =>
        \A i \in pk..(Len(src) - 1), j \in Len(dst)..(clen - 1) :
            Slot(w_ptr, i) # Slot(r_ptr, j)

\* What the published part of the array holds, oldest first.
Contents == [i \in 1..Used |-> buf[Slot(r_ptr, i - 1)]]

\* Elements come out in the order they went in, none lost, repeated or torn:
\* the ring implements the bounded queue, a write taking effect at the store
\* of w_ptr and a read at the store of r_ptr.
Queue == INSTANCE BoundedQueue WITH Capacity <- Size, queue <- Contents, offer <- src
RefinesQueue == Queue!Spec
=============================================================================
