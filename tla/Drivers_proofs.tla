-------------------------- MODULE Drivers_proofs ---------------------------
(***************************************************************************)
(* The parts a device driver is built from, for every value of their       *)
(* constants: the single-producer single-consumer ring its interrupt fills *)
(* (FifoSpsc), the life cycle that guards a device's operations            *)
(* (DevLifecycle) and a client device in the virtual file system           *)
(* (DeviceVfs), which implements the life cycle's specification and so has *)
(* its properties.                                                         *)
(***************************************************************************)
EXTENDS FifoSpsc, DeviceVfs, TLAPS

USE FifoAssumption DEF FifoAssumption

Inv == FifoTypeOK /\ WithinCapacity

\* Every array index computed from a pointer is inside the array.
LEMMA SlotRange ==
    ASSUME NEW ptr \in Nat, NEW k \in Nat, k < Size
    PROVE  Slot(ptr, k) \in 0..(Size - 1)
  <1>1. ptr % Size \in 0..(Size - 1)
    OBVIOUS
  <1> QED
    BY <1>1 DEF Slot

\* Quotient and remainder by the capacity, and their uniqueness.
LEMMA DivMod ==
    ASSUME NEW a \in Nat
    PROVE  /\ a \div Size \in Nat
           /\ a % Size \in 0..(Size - 1)
           /\ a = Size * (a \div Size) + (a % Size)
  OBVIOUS

\* A number written as a multiple of the capacity plus a small rest has that
\* rest as its remainder.
LEMMA ModUnique ==
    ASSUME NEW q \in Nat, NEW m \in 0..(Size - 1)
    PROVE  (Size * q + m) % Size = m
  OBVIOUS

\* Multiples of the capacity are ordered as their factors.
LEMMA FactorOrder ==
    ASSUME NEW a \in Int, NEW b \in Int, Size * a < Size * b + Size
    PROVE  a <= b
  OBVIOUS

\* Masking a pointer that has moved by u < Size.
LEMMA ModAdd ==
    ASSUME NEW a \in Nat, NEW u \in 0..(Size - 1)
    PROVE  (a + u) % Size = IF (a % Size) + u < Size
                            THEN (a % Size) + u ELSE (a % Size) + u - Size
  <1> DEFINE q == a \div Size
             m == a % Size
  <1>1. q \in Nat /\ m \in 0..(Size - 1) /\ a = Size * q + m
    BY DivMod
  <1> HIDE DEF q, m
  <1>2. CASE m + u < Size
    <2>1. a + u = Size * q + (m + u) /\ m + u \in 0..(Size - 1)
      BY <1>1, <1>2
    <2> QED
      BY <1>1, <1>2, <2>1, ModUnique DEF m
  <1>3. CASE m + u >= Size
    <2>1. a + u = Size * (q + 1) + (m + u - Size)
      BY <1>1
    <2>2. m + u - Size \in 0..(Size - 1) /\ q + 1 \in Nat
      BY <1>1, <1>3
    <2>3. (a + u) % Size = m + u - Size
      BY <2>1, <2>2, ModUnique, Zenon
    <2> QED
      BY <1>1, <1>3, <2>3 DEF m
  <1> QED
    BY <1>1, <1>2, <1>3

\* The wrap of the pointer does not change its masked value, because the
\* capacity divides the pointer modulus.
LEMMA ModWrap ==
    ASSUME NEW a \in Nat, a >= PtrMod
    PROVE  (a - PtrMod) % Size = a % Size
  <1> DEFINE q == a \div Size
             m == a % Size
             c == PtrMod \div Size
  <1>1. q \in Nat /\ m \in 0..(Size - 1) /\ a = Size * q + m
    BY DivMod
  <1>2. c \in Nat /\ PtrMod = Size * c
    BY DivMod
  <1> HIDE DEF q, m, c
  <1>3. Size * c < Size * q + Size
    BY <1>1, <1>2
  <1>4. q - c \in Nat
    BY <1>1, <1>2, <1>3, FactorOrder
  <1>5. a - PtrMod = Size * (q - c) + m
    BY <1>1, <1>2
  <1>6. (a - PtrMod) % Size = m
    BY <1>1, <1>4, <1>5, ModUnique
  <1> QED
    BY <1>6 DEF m

\* The k-th slot after an advanced pointer is the (n + k)-th slot after the
\* old one.
LEMMA SlotShift ==
    ASSUME NEW ptr \in 0..(PtrMod - 1), NEW n \in Nat, NEW k \in Nat, n + k < Size
    PROVE  Slot(Advance(ptr, n), k) = Slot(ptr, n + k)
  <1> DEFINE m == ptr % Size
  <1>1. m \in 0..(Size - 1)
    BY DivMod
  <1>2. Advance(ptr, n) % Size = IF m + n < Size THEN m + n ELSE m + n - Size
    <2>0. ptr \in Nat /\ n \in 0..(Size - 1)
      OBVIOUS
    <2>1. (ptr + n) % Size = IF m + n < Size THEN m + n ELSE m + n - Size
      BY <2>0, ModAdd, Zenon
    <2>2. CASE ptr + n < PtrMod
      BY <2>1, <2>2 DEF Advance
    <2>3. CASE ptr + n >= PtrMod
      <3>1. ptr + n \in Nat /\ Advance(ptr, n) = (ptr + n) - PtrMod
        BY <2>0, <2>3 DEF Advance
      <3>2. ((ptr + n) - PtrMod) % Size = (ptr + n) % Size
        BY <2>3, <3>1, ModWrap, Zenon
      <3> QED
        BY <2>1, <3>1, <3>2, Zenon
    <2> QED
      BY <2>2, <2>3
  <1> HIDE DEF m
  <1>3. Slot(ptr, n + k) = IF n + k < Size - m THEN m + (n + k) ELSE (n + k) - (Size - m)
    BY DEF Slot, m
  <1> QED
    BY <1>1, <1>2, <1>3 DEF Slot

\* Within one turn of the ring different offsets are different slots.
LEMMA SlotInjective ==
    ASSUME NEW ptr \in Nat, NEW i \in 0..(Size - 1), NEW j \in 0..(Size - 1),
           Slot(ptr, i) = Slot(ptr, j)
    PROVE  i = j
  <1>1. ptr % Size \in 0..(Size - 1)
    BY DivMod
  <1> QED
    BY <1>1 DEF Slot

\* The used count is a natural number below the pointer modulus.
LEMMA UsedType ==
    ASSUME w_ptr \in 0..(PtrMod - 1), r_ptr \in 0..(PtrMod - 1)
    PROVE  Used \in 0..(PtrMod - 1)
  BY DEF Used

\* Storing w_ptr + n adds n to the used count, across the wrap of the pointer.
LEMMA AdvanceWrite ==
    ASSUME w_ptr \in 0..(PtrMod - 1), r_ptr \in 0..(PtrMod - 1),
           NEW n \in Nat, Used + n <= Size,
           w_ptr' = Advance(w_ptr, n), r_ptr' = r_ptr
    PROVE  w_ptr' \in 0..(PtrMod - 1) /\ Used' = Used + n
  <1>1. r_ptr <= w_ptr \/ w_ptr < r_ptr
    OBVIOUS
  <1>2. w_ptr + n < PtrMod \/ w_ptr + n >= PtrMod
    OBVIOUS
  <1> QED
    BY <1>1, <1>2 DEF Advance, Used

\* The initial state satisfies the invariant.
LEMMA InitInv == FifoInit => Inv
  BY DEF FifoInit, Inv, FifoTypeOK, WithinCapacity, Used

\* Accepting a block that fits keeps the invariant.
LEMMA StartWriteInv ==
    ASSUME Inv, NEW block \in Seq(Data), StartWrite(block),
           Len(block) > 0, Used + Len(block) <= Size
    PROVE  Inv'
  BY UsedType DEF Inv, FifoTypeOK, WithinCapacity, StartWrite, Used, consVars

\* A block write starts with a non-empty block cut to the free space.
LEMMA BlockCut ==
    ASSUME Used \in 0..Size, NEW block \in Blocks, fifo_write_block(block)
    PROVE  \E cut \in Seq(Data) :
              Len(cut) > 0 /\ Used + Len(cut) <= Size /\ StartWrite(cut)
  <1> DEFINE n == Least(Len(block), Size - Used)
  <1>1. block \in Seq(Data) /\ Len(block) > 0
    BY DEF Blocks
  <1>2. n \in 1..Len(block) /\ Used + n <= Size /\ StartWrite(SubSeq(block, 1, n))
    BY <1>1 DEF fifo_write_block, Least
  <1> HIDE DEF n
  <1> DEFINE cut == SubSeq(block, 1, n)
  <1>3. cut \in Seq(Data) /\ Len(cut) = n
    BY <1>1, <1>2
  <1>4. Len(cut) > 0 /\ Used + Len(cut) <= Size
    BY <1>2, <1>3
  <1>5. StartWrite(cut)
    BY <1>2
  <1> HIDE DEF cut
  <1> QED
    BY <1>3, <1>4, <1>5

\* Every step keeps types and capacity.
LEMMA StepInv == Inv /\ [FifoNext]_fifoVars => Inv'
  <1> SUFFICES ASSUME Inv, [FifoNext]_fifoVars PROVE Inv'
    OBVIOUS
  <1> USE DEF Inv, FifoTypeOK, WithinCapacity
  <1>1. ASSUME NEW d \in Data, fifo_write_data(d) PROVE Inv'
    <2>1. <<d>> \in Seq(Data) /\ Len(<<d>>) = 1
      OBVIOUS
    <2>2. StartWrite(<<d>>) /\ Used < Size /\ Used \in Nat
      BY <1>1, UsedType DEF fifo_write_data
    <2>3. Len(<<d>>) > 0 /\ Used + Len(<<d>>) <= Size
      BY <2>1, <2>2
    <2> QED
      BY <2>1, <2>2, <2>3, StartWriteInv, Zenon
  <1>2. ASSUME NEW block \in Blocks, fifo_write_block(block) PROVE Inv'
    <2>1. Used \in 0..Size
      BY UsedType
    <2> QED
      BY <1>2, <2>1, BlockCut, StartWriteInv
  <1>3. CASE CopyIn
    <2>1. Used' = Used
      BY <1>3 DEF CopyIn, Used
    <2>2. pk \in Nat /\ pk < Size /\ w_ptr \in Nat
      BY <1>3, UsedType DEF CopyIn
    <2>3. Slot(w_ptr, pk) \in 0..(Size - 1)
      BY <2>2, SlotRange, Zenon
    <2>4. src[pk + 1] \in Data
      BY <1>3 DEF CopyIn
    <2> QED
      BY <1>3, <2>1, <2>3, <2>4 DEF CopyIn, consVars
  <1>4. CASE Publish
    <2>1. Len(src) \in Nat /\ Used + Len(src) <= Size
      BY <1>4 DEF Publish
    <2>2. w_ptr' \in 0..(PtrMod - 1) /\ Used' = Used + Len(src)
      BY <1>4, <2>1, AdvanceWrite DEF Publish
    <2> QED
      BY <1>4, <2>1, <2>2, UsedType DEF Publish, consVars
  <1>5. CASE fifo_read_data
    BY <1>5, UsedType DEF fifo_read_data, StartRead, Used, prodVars
  <1>6. ASSUME NEW n \in 1..MaxBlock, fifo_read_block(n) PROVE Inv'
    BY <1>6, UsedType DEF fifo_read_block, StartRead, Least, Used, prodVars
  <1>7. CASE CopyOut
    <2>1. Used' = Used
      BY <1>7 DEF CopyOut, Used
    <2>2. Len(dst) \in Nat /\ Len(dst) < Size /\ r_ptr \in Nat
      BY <1>7, UsedType DEF CopyOut
    <2>3. buf[Slot(r_ptr, Len(dst))] \in Data
      BY <2>2, SlotRange, Zenon
    <2> QED
      BY <1>7, <2>1, <2>3 DEF CopyOut, prodVars
  <1>8. CASE Release
    <2>1. r_ptr' \in 0..(PtrMod - 1) /\ Used' = Used - clen
      BY <1>8, UsedType DEF Release, Advance, Used
    <2>2. clen \in Nat /\ Used \in Nat /\ Used - clen \in 0..Used
      BY <1>8, UsedType DEF Release
    <2> QED
      BY <1>8, <2>1, <2>2 DEF Release, prodVars
  <1>9. CASE UNCHANGED fifoVars
    BY <1>9 DEF fifoVars, Used
  <1> QED
    BY <1>1, <1>2, <1>3, <1>4, <1>5, <1>6, <1>7, <1>8, <1>9
       DEF FifoNext, ProducerStep, ConsumerStep

\* The pointers, the indices and the block lengths keep their types and stay
\* within the capacity, whatever the interleaving of producer and consumer.
THEOREM RingWithinCapacity == FifoSpec => [](FifoTypeOK /\ WithinCapacity)
  <1>1. Inv => FifoTypeOK /\ WithinCapacity
    BY DEF Inv
  <1> QED
    BY InitInv, StepInv, <1>1, PTL DEF FifoSpec

-----------------------------------------------------------------------------
\* What the copies have done so far: the producer's finished part of the block
\* is in its slots, the consumer's is what its slots hold.
CopiedIn == prod = "copy" => \A i \in 0..(pk - 1) : buf[Slot(w_ptr, i)] = src[i + 1]
CopiedOut == cons = "copy" => \A i \in 0..(Len(dst) - 1) : dst[i + 1] = buf[Slot(r_ptr, i)]
IInv == Inv /\ CopiedIn /\ CopiedOut

\* The producer's slots are the ones that follow the published elements.
LEMMA WriteSlot ==
    ASSUME Inv, NEW i \in Nat, Used + i < Size
    PROVE  Slot(w_ptr, i) = Slot(r_ptr, Used + i)
  <1>1. Used \in Nat /\ w_ptr = Advance(r_ptr, Used) /\ r_ptr \in 0..(PtrMod - 1)
    BY DEF Inv, FifoTypeOK, Used, Advance
  <1> QED
    BY <1>1, SlotShift

\* A slot the producer may still write is none of the published ones.
LEMMA WritableSlot ==
    ASSUME Inv, prod = "copy", NEW i \in 0..(Len(src) - 1), NEW j \in 0..(Used - 1)
    PROVE  Slot(w_ptr, i) # Slot(r_ptr, j)
  <1>0. /\ Used \in 0..Size /\ r_ptr \in Nat /\ Len(src) \in Nat
        /\ Used + Len(src) <= Size
    BY UsedType DEF Inv, FifoTypeOK, WithinCapacity
  <1>1. /\ Used \in Nat /\ i \in Nat /\ Used + i < Size /\ Used + i # j
        /\ Used + i \in 0..(Size - 1) /\ j \in 0..(Size - 1) /\ r_ptr \in Nat
    BY <1>0
  <1>2. Slot(w_ptr, i) = Slot(r_ptr, Used + i)
    BY <1>1, WriteSlot
  <1> QED
    BY <1>1, <1>2, SlotInjective

\* Free slots and published slots are disjoint, so the two copies are.
LEMMA OverlapFree == Inv => NoOverlap
  <1> SUFFICES ASSUME Inv, prod = "copy", cons = "copy",
                      NEW i \in pk..(Len(src) - 1), NEW j \in Len(dst)..(clen - 1)
               PROVE  Slot(w_ptr, i) # Slot(r_ptr, j)
    BY DEF NoOverlap
  <1>1. i \in 0..(Len(src) - 1) /\ j \in 0..(Used - 1)
    BY UsedType DEF Inv, FifoTypeOK, WithinCapacity
  <1> QED
    BY <1>1, WritableSlot

\* No step disturbs what the other side has copied.
LEMMA StepCopied == IInv /\ [FifoNext]_fifoVars => CopiedIn' /\ CopiedOut'
  <1> SUFFICES ASSUME IInv, [FifoNext]_fifoVars PROVE CopiedIn' /\ CopiedOut'
    OBVIOUS
  <1>0. /\ Inv /\ CopiedIn /\ CopiedOut
        /\ src \in Seq(Data) /\ dst \in Seq(Data) /\ pk \in 0..Len(src)
        /\ Len(dst) \in Nat /\ buf \in [0..(Size - 1) -> Data]
    BY DEF IInv, Inv, FifoTypeOK
  <1>1. ASSUME NEW block, StartWrite(block) PROVE CopiedIn' /\ CopiedOut'
    BY <1>0, <1>1 DEF StartWrite, consVars, CopiedIn, CopiedOut, Slot
  <1>2. CASE CopyIn
    <2>1. pk \in 0..(Len(src) - 1) /\ prod = "copy"
      BY <1>0, <1>2 DEF CopyIn
    <2>2. ASSUME NEW i \in 0..pk
          PROVE  buf'[Slot(w_ptr, i)] = src[i + 1]
      <3>1. /\ i \in Nat /\ pk \in Nat /\ Used \in Nat /\ Used + i < Size /\ Used + pk < Size
            /\ i < Size /\ w_ptr \in Nat /\ pk < Size
        BY <2>1, <2>2, <1>0, UsedType DEF Inv, FifoTypeOK, WithinCapacity
      <3>2. Slot(w_ptr, i) \in 0..(Size - 1)
        BY <3>1, SlotRange
      <3>3. CASE i = pk
        BY <1>0, <1>2, <3>2, <3>3 DEF CopyIn
      <3>4. CASE i # pk
        <4>1. i \in 0..(pk - 1)
          BY <3>1, <3>4
        <4>2. Slot(w_ptr, i) # Slot(w_ptr, pk)
          BY <3>1, <3>4, SlotInjective
        <4> QED
          BY <1>0, <1>2, <2>1, <3>2, <4>1, <4>2 DEF CopyIn, CopiedIn
      <3> QED
        BY <3>3, <3>4
    <2>3. CopiedIn'
      BY <1>0, <1>2, <2>2 DEF CopyIn, CopiedIn, Slot
    <2>4. CopiedOut'
      <3> SUFFICES ASSUME cons = "copy", NEW i \in 0..(Len(dst) - 1)
                   PROVE  dst[i + 1] = buf'[Slot(r_ptr, i)]
        BY <1>2 DEF CopyIn, CopiedOut, consVars, Slot
      <3>1. i \in 0..(Used - 1) /\ i \in Nat /\ i < Size /\ r_ptr \in Nat
        BY <1>0, UsedType DEF Inv, FifoTypeOK, WithinCapacity
      <3>2. Slot(r_ptr, i) \in 0..(Size - 1)
        BY <3>1, SlotRange, Zenon
      <3>3. Slot(w_ptr, pk) # Slot(r_ptr, i)
        BY <1>0, <2>1, <3>1, WritableSlot
      <3> QED
        BY <1>0, <1>2, <3>2, <3>3 DEF CopyIn, CopiedOut
    <2> QED
      BY <2>3, <2>4
  <1>3. CASE Publish
    BY <1>0, <1>3 DEF Publish, consVars, CopiedIn, CopiedOut, Slot
  <1>4. ASSUME NEW n, StartRead(n) PROVE CopiedIn' /\ CopiedOut'
    BY <1>0, <1>4 DEF StartRead, prodVars, CopiedIn, CopiedOut, Slot
  <1>5. CASE CopyOut
    <2> DEFINE e == buf[Slot(r_ptr, Len(dst))]
    <2>a. Len(dst) < Size /\ r_ptr \in Nat
      BY <1>0, <1>5, UsedType DEF CopyOut, Inv, FifoTypeOK, WithinCapacity
    <2>0. e \in Data
      BY <1>0, <2>a, SlotRange, Zenon
    <2>1. /\ Len(Append(dst, e)) = Len(dst) + 1
          /\ \A i \in 1..Len(dst) : Append(dst, e)[i] = dst[i]
          /\ Append(dst, e)[Len(dst) + 1] = e
      BY <1>0, <2>0
    <2>2. CopiedOut'
      BY <1>0, <1>5, <2>1 DEF CopyOut, CopiedOut, Slot
    <2> QED
      BY <1>0, <1>5, <2>2 DEF CopyOut, prodVars, CopiedIn, Slot
  <1>6. CASE Release
    BY <1>0, <1>6 DEF Release, prodVars, CopiedIn, CopiedOut, Slot
  <1>7. CASE UNCHANGED fifoVars
    BY <1>0, <1>7, Zenon DEF fifoVars, CopiedIn, CopiedOut, Slot
  <1> QED
    BY <1>1, <1>2, <1>3, <1>4, <1>5, <1>6, <1>7, Zenon
       DEF FifoNext, ProducerStep, ConsumerStep, fifo_write_data, fifo_write_block,
           fifo_read_data, fifo_read_block

-----------------------------------------------------------------------------
ContentsOK ==
    /\ Contents \in Seq(Data)
    /\ Len(Contents) = Used
    /\ \A i \in 1..Used : Contents[i] = buf[Slot(r_ptr, i - 1)]

\* The published part of the array is a sequence of Used elements.
LEMMA ContentsSeq == Inv => ContentsOK
  <1> SUFFICES ASSUME Inv PROVE ContentsOK
    OBVIOUS
  <1>1. Used \in 0..Size /\ r_ptr \in Nat
    BY UsedType DEF Inv, FifoTypeOK, WithinCapacity
  <1>2. ASSUME NEW i \in 1..Used PROVE buf[Slot(r_ptr, i - 1)] \in Data
    <2>1. i - 1 \in Nat /\ i - 1 < Size
      BY <1>1
    <2> QED
      BY <1>1, <2>1, SlotRange, Zenon DEF Inv, FifoTypeOK
  <1> QED
    BY <1>1, <1>2 DEF Contents, ContentsOK

\* Steps that move no pointer leave the published elements alone.
LEMMA ContentsKept ==
    ASSUME IInv, w_ptr' = w_ptr, r_ptr' = r_ptr, buf' = buf \/ CopyIn
    PROVE  Contents' = Contents
  <1>0. Used' = Used
    BY DEF Used
  <1>1. CASE buf' = buf
    BY <1>0, <1>1 DEF Contents, Slot
  <1>2. CASE CopyIn
    <2>1. ASSUME NEW i \in 1..Used
          PROVE  buf'[Slot(r_ptr, i - 1)] = buf[Slot(r_ptr, i - 1)]
      <3>1. /\ Inv /\ pk \in 0..(Len(src) - 1) /\ prod = "copy"
            /\ Used \in 0..Size /\ r_ptr \in Nat
        BY <1>2, UsedType DEF IInv, Inv, FifoTypeOK, WithinCapacity, CopyIn
      <3>2. i - 1 \in 0..(Used - 1) /\ i - 1 \in Nat /\ i - 1 < Size
        BY <3>1
      <3>3. Slot(r_ptr, i - 1) \in 0..(Size - 1)
        BY <3>1, <3>2, SlotRange
      <3>4. Slot(w_ptr, pk) # Slot(r_ptr, i - 1)
        BY <3>1, <3>2, WritableSlot
      <3> QED
        BY <1>2, <3>1, <3>3, <3>4 DEF CopyIn, Inv, FifoTypeOK
    <2> QED
      BY <1>0, <2>1 DEF Contents, Slot
  <1> QED
    BY <1>1, <1>2

\* The capacity check accepts a block that fits.
LEMMA StartAccepts ==
    ASSUME IInv, NEW block \in Seq(Data), Len(block) > 0, Used + Len(block) <= Size,
           StartWrite(block)
    PROVE  Queue!Next
  <1>1. Contents' = Contents /\ taken' = taken /\ src' = block
    BY ContentsKept DEF StartWrite, consVars
  <1>2. src = << >> /\ Used \in Nat
    BY UsedType DEF IInv, Inv, FifoTypeOK, StartWrite
  <1>3. Len(Contents) = Used
    BY ContentsSeq DEF IInv, ContentsOK
  <1>4. Queue!Accept(block)
    BY <1>1, <1>2, <1>3 DEF Queue!Accept
  <1>5. Len(block) \in 1..Size /\ block \in [1..Len(block) -> Data]
    BY <1>2
  <1> QED
    BY <1>4, <1>5 DEF Queue!Next

\* The store of w_ptr appends the producer's block to the queue.
LEMMA PublishSends ==
    ASSUME IInv, Inv', Publish
    PROVE  Queue!Next
  <1>1. /\ src \in Seq(Data) /\ Len(src) \in Nat /\ Len(src) > 0
        /\ Used \in Nat /\ Used + Len(src) <= Size /\ pk = Len(src)
        /\ r_ptr \in 0..(PtrMod - 1) /\ w_ptr \in 0..(PtrMod - 1) /\ Inv /\ prod = "copy"
    BY UsedType DEF IInv, Inv, FifoTypeOK, WithinCapacity, Publish
  <1>2. Used' = Used + Len(src)
    BY <1>1, AdvanceWrite DEF Publish
  <1>3. /\ Contents' \in Seq(Data) /\ Len(Contents') = Used'
        /\ \A i \in 1..Used' : Contents'[i] = buf[Slot(r_ptr, i - 1)]
    <2>1. buf' = buf /\ r_ptr' = r_ptr
      BY DEF Publish
    <2>2. ContentsOK'
      BY ContentsSeq, PTL
    <2> QED
      BY <2>1, <2>2 DEF ContentsOK, Slot
  <1>4. /\ Contents \in Seq(Data) /\ Len(Contents) = Used
        /\ \A i \in 1..Used : Contents[i] = buf[Slot(r_ptr, i - 1)]
    BY <1>1, ContentsSeq DEF ContentsOK
  <1>5. /\ Contents \o src \in Seq(Data) /\ Len(Contents \o src) = Used + Len(src)
        /\ \A i \in 1..(Used + Len(src)) :
              (Contents \o src)[i] = IF i <= Used THEN Contents[i] ELSE src[i - Used]
    <2> DEFINE c == Contents
    <2>1. c \in Seq(Data) /\ Len(c) = Used /\ src \in Seq(Data)
      BY <1>1, <1>4
    <2> HIDE DEF c
    <2>2. /\ c \o src \in Seq(Data)
          /\ Len(c \o src) = Len(c) + Len(src)
          /\ \A i \in 1..(Len(c) + Len(src)) :
                (c \o src)[i] = IF i <= Len(c) THEN c[i] ELSE src[i - Len(c)]
      BY <2>1
    <2>3. /\ c \o src \in Seq(Data) /\ Len(c \o src) = Used + Len(src)
          /\ \A i \in 1..(Used + Len(src)) :
                (c \o src)[i] = IF i <= Used THEN c[i] ELSE src[i - Used]
      BY <2>1, <2>2, Zenon
    <2> QED
      BY <2>3 DEF c
  <1>6. ASSUME NEW i \in 1..(Used + Len(src))
        PROVE  Contents'[i] = (Contents \o src)[i]
    <2>1. Contents'[i] = buf[Slot(r_ptr, i - 1)]
      BY <1>2, <1>3
    <2>2. CASE i <= Used
      BY <1>1, <1>4, <1>5, <2>1, <2>2
    <2>3. CASE i > Used
      <3> DEFINE k == i - Used - 1
      <3>1. k \in 0..(pk - 1) /\ k \in Nat /\ Used + k < Size /\ Used + k = i - 1 /\ k + 1 = i - Used
        BY <1>1, <2>3
      <3>2. Slot(w_ptr, k) = Slot(r_ptr, i - 1)
        BY <1>1, <3>1, WriteSlot
      <3>3. buf[Slot(w_ptr, k)] = src[k + 1]
        BY <1>1, <3>1 DEF IInv, CopiedIn
      <3>4. (Contents \o src)[i] = src[i - Used]
        BY <1>1, <1>5, <2>3
      <3> QED
        BY <2>1, <3>1, <3>2, <3>3, <3>4
    <2>4. i <= Used \/ i > Used
      BY <1>1
    <2> QED
      BY <2>2, <2>3, <2>4, Zenon
  <1>7. Contents' = Contents \o src
    BY <1>2, <1>3, <1>5, <1>6
  <1>8. src # << >>
    BY <1>1
  <1>9. Queue!Send
    BY <1>7, <1>8 DEF Queue!Send, Publish, consVars
  <1> QED
    BY <1>9 DEF Queue!Next

\* The store of r_ptr takes the delivered block off the front of the queue.
LEMMA ReleaseReceives ==
    ASSUME IInv, Inv', Release
    PROVE  Queue!Next
  <1>1. /\ dst \in Seq(Data) /\ Len(dst) = clen /\ clen \in 1..Used /\ Used \in 0..Size
        /\ r_ptr \in 0..(PtrMod - 1) /\ w_ptr \in 0..(PtrMod - 1) /\ Inv /\ cons = "copy"
    BY UsedType DEF IInv, Inv, FifoTypeOK, WithinCapacity, Release
  <1>2. Used' = Used - clen /\ r_ptr' = Advance(r_ptr, clen) /\ buf' = buf /\ taken' = dst
    BY <1>1 DEF Release, Advance, Used
  <1>3. /\ Contents' \in Seq(Data) /\ Len(Contents') = Used'
        /\ \A i \in 1..Used' : Contents'[i] = buf[Slot(r_ptr', i - 1)]
    <2>1. ContentsOK'
      BY ContentsSeq, PTL
    <2> QED
      BY <1>2, <2>1 DEF ContentsOK, Slot
  <1>4. /\ Contents \in Seq(Data) /\ Len(Contents) = Used
        /\ \A i \in 1..Used : Contents[i] = buf[Slot(r_ptr, i - 1)]
    BY <1>1, ContentsSeq DEF ContentsOK
  <1>5. taken' = SubSeq(Contents, 1, clen)
    <2> DEFINE s == SubSeq(Contents, 1, clen)
    <2>1. s \in Seq(Data) /\ Len(s) = clen /\ \A i \in 1..clen : s[i] = Contents[i]
      BY <1>1, <1>4
    <2>2. ASSUME NEW i \in 1..clen PROVE dst[i] = s[i]
      <3>1. i - 1 \in 0..(Len(dst) - 1) /\ (i - 1) + 1 = i /\ i \in 1..Used
        BY <1>1
      <3>2. dst[(i - 1) + 1] = buf[Slot(r_ptr, i - 1)]
        BY <1>1, <3>1 DEF IInv, CopiedOut
      <3> QED
        BY <1>4, <2>1, <3>1, <3>2
    <2> HIDE DEF s
    <2>3. dst = s
      BY <1>1, <2>1, <2>2
    <2> QED
      BY <1>2, <2>3 DEF s
  <1>6. Contents' = SubSeq(Contents, clen + 1, Len(Contents))
    <2> DEFINE s == SubSeq(Contents, clen + 1, Used)
    <2>1. /\ s \in Seq(Data) /\ Len(s) = Used - clen
          /\ \A i \in 1..(Used - clen) : s[i] = Contents[clen + i]
      <3> DEFINE c == Contents
                 n == clen + 1
      <3>1. /\ c \in Seq(Data) /\ n \in 1..(Len(c) + 1) /\ Len(c) = Used
            /\ Len(c) - n + 1 = Used - clen /\ n = clen + 1
        BY <1>1, <1>4
      <3> HIDE DEF c, n
      <3>2. /\ SubSeq(c, n, Len(c)) \in Seq(Data) /\ Len(SubSeq(c, n, Len(c))) = Len(c) - n + 1
            /\ \A i \in 1..(Len(c) - n + 1) : SubSeq(c, n, Len(c))[i] = c[n + i - 1]
        BY <3>1
      <3> QED
        BY <1>1, <3>1, <3>2 DEF c, n
    <2>2. ASSUME NEW i \in 1..(Used - clen) PROVE Contents'[i] = s[i]
      <3>1. /\ clen + i \in 1..Used /\ (clen + i) - 1 = clen + (i - 1)
            /\ clen \in Nat /\ i - 1 \in Nat /\ clen + (i - 1) < Size
        BY <1>1
      <3>4. Slot(Advance(r_ptr, clen), i - 1) = Slot(r_ptr, clen + (i - 1))
        BY <1>1, <3>1, SlotShift
      <3>2. Slot(r_ptr', i - 1) = Slot(r_ptr, clen + (i - 1))
        BY <1>2, <3>4
      <3>3. Contents'[i] = buf[Slot(r_ptr, clen + (i - 1))]
        BY <1>2, <1>3, <3>2
      <3> QED
        BY <1>4, <2>1, <3>1, <3>3
    <2> HIDE DEF s
    <2>3. Contents' = s
      BY <1>1, <1>2, <1>3, <2>1, <2>2
    <2> QED
      BY <1>4, <2>3 DEF s
  <1>7. Queue!Receive(clen)
    BY <1>5, <1>6 DEF Queue!Receive, Release, prodVars
  <1> QED
    BY <1>1, <1>4, <1>7 DEF Queue!Next

\* Every step of the ring is a step of the queue or leaves it alone.
LEMMA StepRefines == IInv /\ Inv' /\ [FifoNext]_fifoVars => [Queue!Next]_(Queue!vars)
  <1> SUFFICES ASSUME IInv, Inv', [FifoNext]_fifoVars
               PROVE  Queue!Next \/ (Contents' = Contents /\ src' = src /\ taken' = taken)
    BY DEF Queue!vars
  <1>0. Inv /\ Used \in 0..Size
    BY UsedType DEF IInv, Inv, FifoTypeOK, WithinCapacity
  <1>1. ASSUME NEW d \in Data, fifo_write_data(d) PROVE Queue!Next
    <2>1. /\ <<d>> \in Seq(Data) /\ Len(<<d>>) > 0 /\ Used + Len(<<d>>) <= Size
          /\ StartWrite(<<d>>)
      BY <1>0, <1>1 DEF fifo_write_data
    <2> QED
      BY <2>1, StartAccepts, Zenon
  <1>8. ASSUME NEW block \in Blocks, fifo_write_block(block) PROVE Queue!Next
    BY <1>0, <1>8, BlockCut, StartAccepts
  <1>2. CASE CopyIn
    BY <1>2, ContentsKept DEF CopyIn, consVars
  <1>3. CASE Publish
    BY <1>3, PublishSends
  <1>4. ASSUME NEW n, StartRead(n) PROVE Contents' = Contents /\ src' = src /\ taken' = taken
    BY <1>4, ContentsKept DEF StartRead, prodVars
  <1>5. CASE CopyOut
    BY <1>5, ContentsKept DEF CopyOut, prodVars
  <1>6. CASE Release
    BY <1>6, ReleaseReceives
  <1>7. CASE UNCHANGED fifoVars
    BY <1>7, ContentsKept DEF fifoVars
  <1> QED
    BY <1>1, <1>8, <1>2, <1>3, <1>4, <1>5, <1>6, <1>7
       DEF FifoNext, ProducerStep, ConsumerStep, fifo_read_data, fifo_read_block

\* Initially the queue is empty.
LEMMA InitRefines == FifoInit => Queue!Init
  <1> SUFFICES ASSUME FifoInit PROVE Contents = << >> /\ src = << >> /\ taken = << >>
    BY DEF Queue!Init
  <1>1. Inv /\ Used = 0 /\ src = << >> /\ taken = << >>
    BY InitInv DEF FifoInit, Used
  <1>2. Contents \in Seq(Data) /\ Len(Contents) = 0
    BY <1>1, ContentsSeq DEF ContentsOK
  <1> QED
    BY <1>1, <1>2

\* The inductive invariant of the ring.
LEMMA Invariance == FifoSpec => []IInv
  <1>1. FifoInit => IInv
    BY InitInv DEF IInv, FifoInit, CopiedIn, CopiedOut
  <1>2. IInv /\ [FifoNext]_fifoVars => IInv'
    BY StepInv, StepCopied DEF IInv
  <1> QED
    BY <1>1, <1>2, PTL DEF FifoSpec

\* No element slot is copied in by the producer while the consumer copies it
\* out, for every capacity and pointer width.
THEOREM NoSlotShared == FifoSpec => []NoOverlap
  <1>1. IInv => NoOverlap
    BY OverlapFree DEF IInv
  <1> QED
    BY <1>1, Invariance, PTL

\* The ring implements the bounded first-in first-out queue.
THEOREM RingIsQueue == FifoSpec => RefinesQueue
  <1>1. IInv => Inv
    BY DEF IInv
  <1> QED
    BY <1>1, InitRefines, StepRefines, Invariance, PTL DEF FifoSpec, RefinesQueue, Queue!Spec

\* The pointers stay inside their width and no memcpy runs past its block or
\* its slot, for every capacity, pointer width and block length.
THEOREM RingTypes == FifoSpec => []FifoTypeOK
  <1>1. IInv => FifoTypeOK
    BY DEF IInv, Inv
  <1> QED
    BY <1>1, Invariance, PTL

-----------------------------------------------------------------------------
HIDE FifoAssumption DEF FifoAssumption

\* The life cycle of a device, for any finite set of threads that open it and
\* do I/O on it: during its first life the two reference counters are exact and
\* a drained remover is alone.
\* What the argument needs to know of the number of a counter's holders.
HoldersCount ==
    /\ Cardinality({}) = 0
    /\ \A S \in SUBSET Users :
         /\ Cardinality(S) \in Nat
         /\ Cardinality(S) = 0 => S = {}
         /\ \A u \in Users \ S : Cardinality(S \cup {u}) = Cardinality(S) + 1
         /\ \A u \in S : Cardinality(S \ {u}) = Cardinality(S) - 1

\* A call past its load carries a value the counter may have had: no begin
\* carries the sentinel and no close starts from nothing.
CallsSound ==
    \A u \in Users :
        /\ upc[u] \in {"gate", "cas"} => old[u] >= 0 /\ target[u] \notin inside[u]
        /\ upc[u] = "close" => old[u] > 0

\* Before dev_lc_init has run for the first time no begin gets past the state.
NotYetBound ==
    binds = 0 =>
        /\ state = "UNINITIALIZED" /\ rpc \in {"unbound", "bind_io", "bind"}
        /\ \A c \in Counters : cnt[c] = 0
        /\ \A u \in Users : inside[u] = {} /\ upc[u] \in {"idle", "gate"}

LifeInv == LifeTypeOK /\ CallsSound /\ NotYetBound /\ CountsExact

\* A counter is locked and held by nobody, or it says how many hold it.
ExactAt(c) == IF IsLocked(c) THEN cnt[c] = Locked /\ Holders(c) = {}
                                  ELSE cnt[c] = Cardinality(Holders(c))

\* The initial state satisfies the invariant.
LEMMA LifeInvInit ==
    ASSUME HoldersCount
    PROVE  LifeInit => LifeInv
  <1> SUFFICES ASSUME LifeInit PROVE LifeInv
    OBVIOUS
  <1>1. LifeTypeOK /\ CallsSound /\ NotYetBound
    BY LifecycleAssumption DEF LifecycleAssumption, LifeInit, LifeTypeOK, CallsSound, NotYetBound, Counters
  <1>2. \A c \in Counters : Holders(c) = {} /\ ~IsLocked(c) /\ cnt[c] = 0
    BY DEF LifeInit, Holders, IsLocked, Counters
  <1>3. CountsExact
    BY <1>2, Zenon DEF HoldersCount, CountsExact
  <1> QED
    BY <1>1, <1>3 DEF LifeInv

\* Every step keeps the types.
LEMMA StepType ==
    LifeTypeOK /\ [LifeNext]_lifeVars => LifeTypeOK'
  <1> SUFFICES ASSUME LifeTypeOK, [LifeNext]_lifeVars PROVE LifeTypeOK'
    OBVIOUS
  <1> USE LifecycleAssumption DEF LifecycleAssumption, LifeTypeOK, Counters
  <1>1. ASSUME NEW u \in Users, Begin(u) PROVE LifeTypeOK'
    BY <1>1 DEF Begin, BeginLoad, BeginGate, BeginCas
  <1>2. ASSUME NEW u \in Users, End(u) PROVE LifeTypeOK'
    BY <1>2 DEF End, DropRef, CloseLoad, CloseCas
  <1>3. CASE Teardown
    BY <1>3 DEF Teardown, dev_lc_remove_start, Drain, DrainOpens, DrainIo, ResetOpens,
                ResetIo, ResetState, userVars, Locked
  <1>4. CASE Bind
    BY <1>4 DEF Bind, InitOpens, InitIo, InitState, userVars
  <1>5. CASE UNCHANGED lifeVars
    BY <1>5 DEF lifeVars, userVars
  <1> QED
    BY <1>1, <1>2, <1>3, <1>4, <1>5 DEF LifeNext

\* Every step keeps the calls in progress sound.
LEMMA StepCalls == LifeTypeOK /\ CallsSound /\ [LifeNext]_lifeVars => CallsSound'
  <1> SUFFICES ASSUME LifeTypeOK, CallsSound, [LifeNext]_lifeVars PROVE CallsSound'
    OBVIOUS
  <1> USE DEF LifeTypeOK, CallsSound, Counters
  <1>1. ASSUME NEW u \in Users, Begin(u) PROVE CallsSound'
    BY <1>1 DEF Begin, BeginLoad, BeginGate, BeginCas
  <1>2. ASSUME NEW u \in Users, End(u) PROVE CallsSound'
    BY <1>2 DEF End, DropRef, CloseLoad, CloseCas
  <1>3. CASE Teardown \/ Bind \/ UNCHANGED lifeVars
    BY <1>3 DEF Teardown, dev_lc_remove_start, Drain, DrainOpens, DrainIo, ResetOpens,
                ResetIo, ResetState, Bind, InitOpens, InitIo, InitState, lifeVars, userVars
  <1> QED
    BY <1>1, <1>2, <1>3, Zenon DEF LifeNext

\* Every step before the first dev_lc_init is over leaves the counters at zero.
LEMMA StepNotYetBound == LifeTypeOK /\ NotYetBound /\ [LifeNext]_lifeVars => NotYetBound'
  <1> SUFFICES ASSUME LifeTypeOK, NotYetBound, [LifeNext]_lifeVars, binds' = 0 PROVE NotYetBound'
    BY Zenon DEF NotYetBound
  <1> USE DEF LifeTypeOK, NotYetBound, Counters
  <1>1. ASSUME NEW u \in Users, Begin(u) PROVE NotYetBound'
    BY <1>1 DEF Begin, BeginLoad, BeginGate, BeginCas
  <1>2. ASSUME NEW u \in Users, End(u) PROVE NotYetBound'
    BY <1>2 DEF End, DropRef, CloseLoad, CloseCas
  <1>3. CASE Teardown
    BY <1>3 DEF Teardown, dev_lc_remove_start, Drain, DrainOpens, DrainIo, ResetOpens, ResetIo, ResetState
  <1>4. CASE Bind
    BY <1>4 DEF Bind, InitOpens, InitIo, InitState, userVars
  <1>5. CASE UNCHANGED lifeVars
    BY <1>5 DEF lifeVars, userVars
  <1> QED
    BY <1>1, <1>2, <1>3, <1>4, <1>5, Zenon DEF LifeNext

\* A step that gains, drops or leaves alone the references on its counters and
\* moves the counter accordingly keeps the counts exact.
LEMMA StepCounts ==
    ASSUME HoldersCount
    PROVE  LifeInv /\ [LifeNext]_lifeVars => CountsExact'
  <1> SUFFICES ASSUME LifeInv, [LifeNext]_lifeVars, FirstLife', NEW c \in Counters
               PROVE  ExactAt(c)'
    BY DEF CountsExact, ExactAt
  <1>0. Holders(c) \in SUBSET Users
    BY Zenon DEF Holders
  <1>1. FirstLife /\ LifeTypeOK /\ CallsSound /\ NotYetBound
    <2>1. ASSUME NEW u \in Users, Begin(u) \/ End(u) PROVE UNCHANGED <<rpc, binds>>
      BY <2>1, Zenon DEF Begin, BeginLoad, BeginGate, BeginCas, End, DropRef, CloseLoad, CloseCas
    <2>2. CASE Teardown
      BY <2>2 DEF FirstLife, Teardown, dev_lc_remove_start, Drain, DrainOpens, DrainIo, ResetOpens,
                  ResetIo, ResetState, LifeInv
    <2>3. CASE Bind
      BY <2>3 DEF FirstLife, Bind, InitOpens, InitIo, InitState, LifeInv, LifeTypeOK
    <2>4. CASE UNCHANGED lifeVars
      BY <2>4 DEF FirstLife, lifeVars, LifeInv
    <2> QED
      BY <2>1, <2>2, <2>3, <2>4 DEF LifeNext, FirstLife, LifeInv
  <1>2. ExactAt(c)
    BY <1>1 DEF LifeInv, CountsExact, ExactAt
  <1>3. ASSUME inside' = inside, cnt' = cnt, rpc' = rpc
        PROVE  ExactAt(c)'
    BY <1>2, <1>3 DEF ExactAt, IsLocked, Holders
  <1>4. ASSUME NEW u \in Users, NEW d \in Counters, d \notin inside[u],
               cnt[d] >= 0, cnt' = [cnt EXCEPT ![d] = cnt[d] + 1],
               inside' = [inside EXCEPT ![u] = @ \cup {d}], rpc' = rpc
        PROVE  ExactAt(c)'
    <2>1. CASE c # d
      <3>1. Holders(c)' = Holders(c) /\ cnt'[c] = cnt[c]
        BY <1>1, <1>4, <2>1 DEF Holders, LifeTypeOK
      <3> QED
        BY <1>2, <1>4, <3>1 DEF ExactAt, IsLocked
    <2>2. CASE c = d
      <3>1. ~IsLocked(c)
        BY <1>2, <1>4, <2>2 DEF ExactAt, Locked
      <3>2. Holders(c)' = Holders(c) \cup {u} /\ u \notin Holders(c)
        BY <1>1, <1>4, <2>2 DEF Holders, LifeTypeOK
      <3>3. cnt'[c] = cnt[c] + 1
        BY <1>1, <1>4, <2>2 DEF LifeTypeOK
      <3> QED
        BY <1>0, <1>2, <1>4, <3>1, <3>2, <3>3 DEF HoldersCount, ExactAt, IsLocked
    <2> QED
      BY <2>1, <2>2
  <1>5. ASSUME NEW u \in Users, NEW d \in inside[u],
               cnt' = [cnt EXCEPT ![d] = cnt[d] - 1],
               inside' = [inside EXCEPT ![u] = @ \ {d}], rpc' = rpc
        PROVE  ExactAt(c)'
    <2>0. d \in Counters
      BY <1>1, <1>5 DEF LifeTypeOK
    <2>1. CASE c # d
      <3>1. Holders(c)' = Holders(c) /\ cnt'[c] = cnt[c]
        BY <1>1, <1>5, <2>0, <2>1 DEF Holders, LifeTypeOK
      <3> QED
        BY <1>2, <1>5, <3>1 DEF ExactAt, IsLocked
    <2>2. CASE c = d
      <3>1. Holders(c)' = Holders(c) \ {u} /\ u \in Holders(c)
        BY <1>1, <1>5, <2>2 DEF Holders, LifeTypeOK
      <3>2. ~IsLocked(c)
        BY <1>2, <3>1 DEF ExactAt
      <3>3. cnt'[c] = cnt[c] - 1
        BY <1>1, <1>5, <2>0, <2>2 DEF LifeTypeOK
      <3> QED
        BY <1>0, <1>2, <1>5, <3>1, <3>2, <3>3 DEF HoldersCount, ExactAt, IsLocked
    <2> QED
      BY <2>1, <2>2
  <1>6. ASSUME NEW u \in Users, Begin(u)
        PROVE  ExactAt(c)'
    <2>1. CASE (\E d \in Counters : BeginLoad(u, d)) \/ BeginGate(u)
      BY <1>3, <2>1 DEF BeginLoad, BeginGate
    <2>2. CASE BeginCas(u)
      <3>1. CASE cnt[target[u]] = old[u]
        <4>1. target[u] \in Counters /\ target[u] \notin inside[u] /\ cnt[target[u]] >= 0
          BY <1>1, <2>2, <3>1 DEF BeginCas, CallsSound, LifeTypeOK
        <4> QED
          BY <1>4, <2>2, <3>1, <4>1 DEF BeginCas
      <3>2. CASE cnt[target[u]] # old[u]
        BY <1>3, <2>2, <3>2 DEF BeginCas
      <3> QED
        BY <3>1, <3>2
    <2> QED
      BY <1>6, <2>1, <2>2 DEF Begin
  <1>7. ASSUME NEW u \in Users, End(u)
        PROVE  ExactAt(c)'
    <2>1. ASSUME NEW d \in Counters, DropRef(u, d)
          PROVE  ExactAt(c)'
      BY <1>5, <2>1, Zenon DEF DropRef
    <2>2. CASE CloseLoad(u)
      BY <1>3, <2>2 DEF CloseLoad
    <2>3. CASE CloseCas(u)
      <3>2. CASE cnt["opens"] = old[u]
        <4>1. PICK h \in Users : "opens" \in inside[h] /\ inside' = [inside EXCEPT ![h] = @ \ {"opens"}]
          BY <2>3, <3>2 DEF CloseCas, Holders
        <4>2. cnt' = [cnt EXCEPT !["opens"] = cnt["opens"] - 1] /\ rpc' = rpc
          BY <2>3, <3>2 DEF CloseCas
        <4> QED
          BY <1>5, <4>1, <4>2, Zenon
      <3>3. CASE cnt["opens"] # old[u]
        BY <1>3, <2>3, <3>3 DEF CloseCas
      <3> QED
        BY <3>2, <3>3
    <2> QED
      BY <1>7, <2>1, <2>2, <2>3 DEF End
  <1>8. CASE Teardown \/ Bind
    <2>1. inside' = inside /\ Holders(c)' = Holders(c)
      BY <1>8 DEF Holders, Teardown, dev_lc_remove_start, Drain, DrainOpens, DrainIo, ResetOpens,
                  ResetIo, ResetState, Bind, InitOpens, InitIo, InitState, userVars
    <2>2. CASE dev_lc_remove_start
      BY <1>2, <2>1, <2>2 DEF ExactAt, dev_lc_remove_start, IsLocked
    <2>3. CASE DrainOpens
      BY <1>0, <1>1, <1>2, <2>1, <2>3 DEF HoldersCount, ExactAt, DrainOpens, IsLocked, LifeTypeOK, Counters
    <2>4. CASE DrainIo
      BY <1>0, <1>1, <1>2, <2>1, <2>4 DEF HoldersCount, ExactAt, DrainIo, IsLocked, LifeTypeOK, Counters
    <2>5. CASE ResetOpens \/ ResetIo \/ ResetState
      BY <1>1, <2>5 DEF ResetOpens, ResetIo, ResetState, FirstLife, NotYetBound
    <2>6. CASE Bind
      <3>1. binds = 0
        BY <1>1, <2>6 DEF Bind, InitOpens, InitIo, InitState, FirstLife, LifeTypeOK
      <3>2. Holders(c) = {}
        BY <1>1, <3>1 DEF NotYetBound, Holders
      <3>3. cnt'[c] = 0 /\ rpc' \in {"bind_io", "bind", "live"}
        BY <1>1, <2>6, <3>1 DEF Bind, InitOpens, InitIo, InitState, NotYetBound, LifeTypeOK, Counters
      <3> QED
        BY <2>1, <3>2, <3>3 DEF HoldersCount, ExactAt, IsLocked
    <2> QED
      BY <1>8, <2>2, <2>3, <2>4, <2>5, <2>6 DEF Teardown, Drain
  <1>9. CASE UNCHANGED lifeVars
    BY <1>3, <1>9 DEF lifeVars, userVars
  <1> QED
    BY <1>6, <1>7, <1>8, <1>9 DEF LifeNext

\* The inductive invariant.
LEMMA LifeInvariance ==
    ASSUME HoldersCount
    PROVE  LifeSpec => []LifeInv
  <1>1. LifeInv /\ [LifeNext]_lifeVars => LifeInv'
    BY StepType, StepCalls, StepNotYetBound, StepCounts DEF LifeInv
  <1> QED
    BY LifeInvInit, <1>1, PTL DEF LifeSpec

\* A drained remover holds both counters locked, so nobody is inside.
LEMMA DrainedInv == LifeInv => DrainedAlone
  <1> SUFFICES ASSUME LifeInv, binds = 1, rpc = "drained", NEW u \in Users
               PROVE  inside[u] = {}
    BY DEF DrainedAlone
  <1>1. \A c \in Counters : Holders(c) = {}
    BY DEF LifeInv, CountsExact, FirstLife, IsLocked
  <1>2. inside[u] \in SUBSET Counters
    BY DEF LifeInv, LifeTypeOK
  <1> QED
    BY <1>1, <1>2 DEF Holders

INSTANCE FiniteSetTheorems

\* The threads are finitely many, so their sets are counted.
LEMMA HoldersFinite == HoldersCount
  <1>0. IsFiniteSet(Users)
    BY LifecycleAssumption DEF LifecycleAssumption
  <1>1. Cardinality({}) = 0
    BY FS_EmptySet
  <1>2. ASSUME NEW S \in SUBSET Users
        PROVE  /\ Cardinality(S) \in Nat
               /\ Cardinality(S) = 0 => S = {}
               /\ \A u \in Users \ S : Cardinality(S \cup {u}) = Cardinality(S) + 1
               /\ \A u \in S : Cardinality(S \ {u}) = Cardinality(S) - 1
    <2>1. IsFiniteSet(S)
      BY <1>0, FS_Subset
    <2> QED
      BY <2>1, FS_CardinalityType, FS_EmptySet, FS_AddElement, FS_RemoveElement, Zenon
  <1> QED
    BY <1>1, <1>2 DEF HoldersCount

\* Types, and exact counts in the first life, hold for every set of threads.
THEOREM ExactCounts ==
    LifeSpec => [](LifeTypeOK /\ CountsExact)
  <1>1. LifeSpec => []LifeInv
    BY HoldersFinite, LifeInvariance
  <1>2. LifeInv => LifeTypeOK /\ CountsExact
    BY DEF LifeInv
  <1> QED
    BY <1>1, <1>2, PTL

\* A drained remover is alone in the device's first life, for every set of
\* threads.
THEOREM RemoverAlone ==
    LifeSpec => []DrainedAlone
  <1>1. LifeSpec => []LifeInv
    BY HoldersFinite, LifeInvariance
  <1>2. LifeInv => DrainedAlone
    BY DrainedInv
  <1> QED
    BY <1>1, <1>2, PTL

\* The counters, the state of dev_lc_state_t and the steps of every call keep
\* their types through any number of binds.
THEOREM LifecycleTypes ==
    LifeSpec => []LifeTypeOK
  <1>1. LifeSpec => []LifeInv
    BY HoldersFinite, LifeInvariance
  <1>2. LifeInv => LifeTypeOK
    BY DEF LifeInv
  <1> QED
    BY <1>1, <1>2, PTL

-----------------------------------------------------------------------------
\* Every step of a probe, of a call or of a remove is a step of the device's
\* life cycle, or leaves it alone.
LEMMA StepIsLife == [Next]_vars => [LifeNext]_lifeVars
  <1> SUFFICES ASSUME [Next]_vars PROVE [LifeNext]_lifeVars
    OBVIOUS
  <1>1. ASSUME NEW t \in Users, InCall(t) PROVE [LifeNext]_lifeVars
    <2>1. ASSUME NEW c \in Counters, NEW pc, NEW next, BeginOn(t, pc, c, next) PROVE [LifeNext]_lifeVars
      BY <2>1, Zenon DEF BeginOn, LifeNext, Begin
    <2>2. CASE OpenBegin(t) \/ IoBegin(t)
      BY <2>1, <2>2 DEF OpenBegin, IoBegin, Counters
    <2>3. CASE CloseBegin(t)
      BY <2>3, Zenon DEF CloseBegin, LifeNext, End
    <2>4. CASE OpenAbort(t) \/ IoEnd(t)
      BY <2>4 DEF OpenAbort, IoEnd, LifeNext, End, Counters
    <2>5. ASSUME NEW pc, NEW next, Dispatch(t, pc, next) PROVE UNCHANGED lifeVars
      BY <2>5, Zenon DEF Dispatch
    <2>6. CASE OpenCheck(t) \/ CloseCheck(t) \/ IoCheck(t)
      BY <2>6, Zenon DEF OpenCheck, CloseCheck, IoCheck, Checked
    <2>7. CASE OpenOk(t) \/ CloseEnd(t) \/ device_suspend(t) \/ device_resume(t)
      BY <2>7, Zenon DEF OpenOk, CloseEnd, device_suspend, device_resume
    <2> QED
      BY <1>1, <2>2, <2>3, <2>4, <2>5, <2>6, <2>7, Zenon DEF InCall, device_open, device_close, device_io
  <1>2. ASSUME NEW t \in Users, NEW call \in Calls, Enter(t, call) PROVE UNCHANGED lifeVars
    BY <1>2, Zenon DEF Enter
  <1>3. CASE BindDevice \/ uart_vfs_probe \/ SetProbed \/ RemoveStart
    BY <1>3, Zenon DEF BindDevice, uart_vfs_probe, SetProbed, RemoveStart, LifeNext, Teardown
  <1>4. CASE uart_vfs_remove
    BY <1>4, Zenon DEF uart_vfs_remove, device_ops_unregister, UnregisterMark, UnregisterCut, UnregisterTimeout,
                RemoveDrain, FreeSlot, RemoveFinish, LifeNext, Teardown
  <1>5. CASE UNCHANGED vars
    BY <1>5, Zenon DEF vars
  <1> QED
    BY <1>1, <1>2, <1>3, <1>4, <1>5, Zenon DEF Next

\* The VFS client device implements the life cycle, so its counters are exact
\* and its remover ends up alone.
THEOREM DeviceIsLifecycle == Spec => LifeSpec
  <1>1. Init => LifeInit
    BY DEF Init
  <1> QED
    BY <1>1, StepIsLife, PTL DEF Spec, LifeSpec

\* The mutex admits one call at a time, and a device marked REMOVED lets no
\* call past its checks.
VfsInv ==
    /\ threadPc \in [Users -> Steps]
    /\ \A t \in Users : lock = t <=> threadPc[t] # "idle"
    /\ status = "REMOVED" => \A t \in Users : threadPc[t] \in Calls \cup {"idle"}

\* After device_tree_init every thread is outside and the mutex is free.
LEMMA VfsInvInit == Init => VfsInv
  BY DeviceVfsAssumption DEF DeviceVfsAssumption, Init, VfsInv, Steps, Calls

\* REMOVED is left for READY only.
LEMMA Transitions ==
    /\ \A to \in {"PROBED", "RUNNING", "SUSPENDED"} : to \notin Allowed["REMOVED"]
    /\ "RUNNING" \in Allowed["PROBED"]
  BY DEF Allowed, Statuses

\* Every step preserves it: what a call does to its own program counter and to
\* the mutex goes together, and a mark finds every thread outside.
LEMMA VfsInvNext == VfsInv /\ [Next]_vars => VfsInv'
  <1> SUFFICES ASSUME VfsInv, [Next]_vars PROVE VfsInv'
    OBVIOUS
  <1> USE DeviceVfsAssumption DEF DeviceVfsAssumption, VfsInv, Steps, Calls, dev
  <1>1. ASSUME NEW t \in Users, InCall(t) PROVE VfsInv'
    <2>0. ASSUME NEW pc \in Steps \ {"idle"}, threadPc[t] # "idle",
                 (Goto(t, pc) /\ (status = "REMOVED" => pc \in Calls)) \/ Return(t), status' = status
          PROVE  VfsInv'
      BY <2>0 DEF Goto, Return
    <2>1. ASSUME threadPc[t] \notin {"idle", "open", "close", "io"}, Return(t),
                 status' = status \/ status' # "REMOVED"
          PROVE  VfsInv'
      BY <2>1 DEF Return
    <2>2. CASE OpenCheck(t) \/ CloseCheck(t) \/ IoCheck(t)
      BY <2>0, <2>2 DEF OpenCheck, CloseCheck, IoCheck, Checked, At
    <2>3. ASSUME NEW pc \in {"open_call", "close_call", "io_call"},
                 NEW next \in {"open_begin", "close_begin", "io_begin"}, Dispatch(t, pc, next)
          PROVE  VfsInv'
      BY <2>0, <2>3 DEF Dispatch, At
    <2>4. ASSUME NEW pc \in {"open_begin", "io_begin"}, NEW c \in Counters,
                 NEW next \in {"bus_open", "transfer"}, BeginOn(t, pc, c, next)
          PROVE  VfsInv'
      <3>1. threadPc[t] = pc /\ status' = status /\ status # "REMOVED"
        BY <2>4 DEF BeginOn, At
      <3>2. Goto(t, pc) \/ Goto(t, next) \/ Return(t)
        BY <2>4, Zenon DEF BeginOn
      <3> QED
        BY <2>0, <3>1, <3>2
    <2>5. CASE CloseBegin(t)
      <3>1. threadPc[t] = "close_begin" /\ status' = status /\ status # "REMOVED"
        BY <2>5 DEF CloseBegin, At
      <3>2. Goto(t, "close_begin") \/ Goto(t, "bus_close") \/ Return(t)
        BY <2>5, Zenon DEF CloseBegin
      <3> QED
        BY <2>0, <3>1, <3>2
    <2>6. CASE OpenOk(t) \/ CloseEnd(t) \/ device_suspend(t) \/ device_resume(t)
      BY <2>1, <2>6 DEF OpenOk, CloseEnd, device_suspend, device_resume, At, device_set_status
    <2>7. CASE OpenAbort(t) \/ IoEnd(t)
      BY <2>1, <2>7 DEF OpenAbort, IoEnd, At
    <2> QED
      BY <1>1, <2>2, <2>3, <2>4, <2>5, <2>6, <2>7
         DEF InCall, device_open, device_close, device_io, OpenBegin, IoBegin, Counters
  <1>2. ASSUME NEW t \in Users, NEW call \in Calls, Enter(t, call) PROVE VfsInv'
    BY <1>2 DEF Enter
  <1>3. CASE BindDevice \/ uart_vfs_probe \/ RemoveStart
    BY <1>3 DEF BindDevice, uart_vfs_probe, RemoveStart
  <1>4. CASE SetProbed
    BY <1>4 DEF SetProbed, device_set_status
  <1>5. CASE UnregisterMark
    BY <1>5 DEF UnregisterMark
  <1>6. CASE UnregisterCut \/ UnregisterTimeout \/ RemoveDrain \/ FreeSlot \/ RemoveFinish
    BY <1>6 DEF UnregisterCut, UnregisterTimeout, RemoveDrain, FreeSlot, RemoveFinish
  <1>7. CASE UNCHANGED vars
    BY <1>7 DEF vars
  <1> QED
    BY <1>1, <1>2, <1>3, <1>4, <1>5, <1>6, <1>7, Zenon DEF Next, uart_vfs_remove, device_ops_unregister

\* For any set of threads: when the mark had the mutex, uart_vfs_remove releases
\* the operations table with no call between its checks and its return.
THEOREM TableOutlivesCalls == Spec => []TableSafe
  <1>1. VfsInv => TableSafe
    BY DEF VfsInv, TableSafe
  <1> QED
    BY <1>1, VfsInvInit, VfsInvNext, PTL DEF Spec

-----------------------------------------------------------------------------
\* What is counted besides.  There is at most one open reference: while the
\* status is READY or PROBED nobody holds one but the thread that is opening,
\* whose begin found the counter at 0, and a close that found 1 shuts the bus.
Closed == cnt["opens"] <= 0 /\ bus_open = FALSE
ThreadCounted(t) ==
    /\ upc[t] # "idle" => threadPc[t] \in {"open_begin", "io_begin", "close_begin"}
    /\ threadPc[t] = "open_begin" =>
         upc[t] \in {"idle", "gate", "cas"} /\ (upc[t] # "idle" => target[t] = "opens" /\ old[t] = 0)
    /\ threadPc[t] = "io_begin" =>
         upc[t] \in {"idle", "gate", "cas"} /\ (upc[t] # "idle" => target[t] = "io_active")
    /\ threadPc[t] = "close_begin" => upc[t] \in {"idle", "close"} /\ (upc[t] = "close" => old[t] = 1)
    /\ threadPc[t] \in {"open_call", "open_begin"} => status = "PROBED"
    /\ threadPc[t] = "bus_open" => status = "PROBED" /\ bus_open = FALSE /\ old[t] = 0
    /\ threadPc[t] \in {"close_call", "close_begin"} => status \in {"RUNNING", "SUSPENDED"}
    /\ threadPc[t] = "bus_close" => status \in {"RUNNING", "SUSPENDED"} /\ cnt["opens"] <= 0 /\ old[t] = 1
DeviceCounted ==
    /\ status \in {"READY", "PROBED", "RUNNING", "SUSPENDED", "REMOVED"}
    /\ cnt["opens"] <= 1
    /\ removePc \in {"absent", "probing"} => status = "READY"
VfsCounted ==
    /\ DeviceCounted
    /\ status \in {"READY", "PROBED"} => Closed \/ \E t \in Users : threadPc[t] = "bus_open"
    /\ \A t \in Users : ThreadCounted(t)

\* After device_tree_init nothing is counted and the bus is shut.
LEMMA VfsCountedInit == Init => VfsCounted
  BY DEF Init, LifeInit, VfsCounted, DeviceCounted, ThreadCounted, Closed, Counters

\* The steps of one call keep the counts: the others are outside.
LEMMA CallCounted ==
    ASSUME LifeTypeOK, VfsInv, VfsCounted, NEW t \in Users, InCall(t)
    PROVE  VfsCounted'
  <1> DEFINE Opening == status \in {"READY", "PROBED"} => Closed \/ threadPc[t] = "bus_open"
  <1>a. threadPc \in [Users -> Steps] /\ threadPc[t] # "idle"
    BY Zenon DEF InCall, device_open, device_close, device_io, OpenCheck, CloseCheck, IoCheck, Checked, Dispatch,
           OpenBegin, IoBegin, BeginOn, OpenOk, OpenAbort, CloseBegin, CloseEnd, IoEnd, device_suspend,
           device_resume, At, VfsInv
  <1>b. \A u \in Users \ {t} : threadPc[u] = "idle" /\ upc[u] = "idle"
    BY <1>a, Zenon DEF VfsInv, VfsCounted, ThreadCounted
  <1>c. DeviceCounted /\ ThreadCounted(t) /\ Opening
    BY <1>b DEF VfsCounted
  <1>d. cnt \in [Counters -> Int] /\ upc \in [Users -> {"idle", "gate", "cas", "close"}]
        /\ target \in [Users -> Counters] /\ old \in [Users -> Int]
    BY DEF LifeTypeOK
  <1>e. \A u \in Users \ {t} : threadPc'[u] = "idle" /\ upc'[u] = "idle"
    <2>1. \E pc : threadPc' = [threadPc EXCEPT ![t] = pc]
      BY Zenon DEF InCall, device_open, device_close, device_io, OpenCheck, CloseCheck, IoCheck, Checked, Dispatch,
           OpenBegin, IoBegin, BeginOn, OpenOk, OpenAbort, CloseBegin, CloseEnd, IoEnd, device_suspend,
           device_resume, Goto, Return
    <2>2. upc' = upc \/ \E step : upc' = [upc EXCEPT ![t] = step]
      BY Zenon DEF InCall, device_open, device_close, device_io, OpenCheck, CloseCheck, IoCheck, Checked, Dispatch,
           OpenBegin, IoBegin, BeginOn, OpenOk, OpenAbort, CloseBegin, CloseEnd, IoEnd, device_suspend,
           device_resume, BeginLoad, BeginGate, BeginCas, CloseLoad, CloseCas, DropRef, lifeVars, userVars
    <2> QED
      BY <1>a, <1>b, <1>d, <2>1, <2>2
  <1> SUFFICES DeviceCounted' /\ ThreadCounted(t)' /\ Opening'
    <2>1. \A u \in Users \ {t} : ThreadCounted(u)'
      BY <1>e DEF ThreadCounted
    <2> QED
      BY <2>1 DEF VfsCounted
  <1> HIDE DEF Opening
  <1> USE DEF At, Goto, Return, dev
  <1>1. CASE OpenCheck(t) \/ CloseCheck(t) \/ IoCheck(t)
    <2>1. UNCHANGED <<cnt, upc, target, old, status, bus_open, removePc>>
      BY <1>1, Zenon DEF OpenCheck, CloseCheck, IoCheck, Checked, lifeVars, userVars
    <2>2. PICK pc : threadPc' = [threadPc EXCEPT ![t] = pc]
                    /\ \/ pc = "idle"
                       \/ pc = "open_call" /\ status = "PROBED"
                       \/ pc = "close_call" /\ status \in {"RUNNING", "SUSPENDED"}
                       \/ pc = "io_call"
      BY <1>1 DEF OpenCheck, CloseCheck, IoCheck, Checked
    <2>3. threadPc[t] \in {"open", "close", "io"}
      BY <1>1, Zenon DEF OpenCheck, CloseCheck, IoCheck, Checked
    <2> QED
      BY <1>a, <1>c, <2>1, <2>2, <2>3 DEF DeviceCounted, ThreadCounted, Opening, Closed
  <1>2. CASE Dispatch(t, "open_call", "open_begin") \/ Dispatch(t, "close_call", "close_begin")
             \/ Dispatch(t, "io_call", "io_begin")
    <2>1. UNCHANGED <<cnt, upc, target, old, status, bus_open, removePc>>
      BY <1>2, Zenon DEF Dispatch, lifeVars, userVars
    <2>2. PICK pc : threadPc' = [threadPc EXCEPT ![t] = pc]
                    /\ \/ pc = "fault" /\ threadPc[t] \in {"open_call", "close_call", "io_call"}
                       \/ pc = "open_begin" /\ threadPc[t] = "open_call"
                       \/ pc = "close_begin" /\ threadPc[t] = "close_call"
                       \/ pc = "io_begin" /\ threadPc[t] = "io_call"
      BY <1>2 DEF Dispatch
    <2> QED
      BY <1>a, <1>c, <2>1, <2>2 DEF DeviceCounted, ThreadCounted, Opening, Closed
  <1>3. CASE OpenBegin(t)
    <2>1. threadPc[t] = "open_begin" /\ UNCHANGED <<status, bus_open, removePc>>
      BY <1>3, Zenon DEF OpenBegin, BeginOn
    <2>2. CASE BeginLoad(t, "opens") /\ Goto(t, "open_begin")
      BY <1>a, <1>c, <1>d, <2>1, <2>2 DEF BeginLoad, DeviceCounted, ThreadCounted, Opening, Closed, Counters
    <2>3. CASE upc[t] = "idle" /\ Return(t) /\ UNCHANGED lifeVars
      BY <1>a, <1>c, <1>d, <2>1, <2>3 DEF lifeVars, userVars, DeviceCounted, ThreadCounted, Opening, Closed
    <2>4. CASE BeginGate(t) /\ IF state = "LIVE" THEN Goto(t, "open_begin") ELSE Return(t)
      BY <1>a, <1>c, <1>d, <2>1, <2>4 DEF BeginGate, DeviceCounted, ThreadCounted, Opening, Closed
    <2>5. CASE BeginCas(t) /\ Goto(t, IF cnt["opens"] = old[t] THEN "bus_open" ELSE "open_begin")
      BY <1>a, <1>c, <1>d, <2>1, <2>5 DEF BeginCas, DeviceCounted, ThreadCounted, Opening, Closed, Counters
    <2> QED
      BY <1>3, <2>2, <2>3, <2>4, <2>5, Zenon DEF OpenBegin, BeginOn
  <1>4. CASE IoBegin(t)
    <2>1. threadPc[t] = "io_begin" /\ UNCHANGED <<status, bus_open, removePc>>
      BY <1>4, Zenon DEF IoBegin, BeginOn
    <2>2. CASE BeginLoad(t, "io_active") /\ Goto(t, "io_begin")
      BY <1>a, <1>c, <1>d, <2>1, <2>2 DEF BeginLoad, DeviceCounted, ThreadCounted, Opening, Closed, Counters
    <2>3. CASE upc[t] = "idle" /\ Return(t) /\ UNCHANGED lifeVars
      BY <1>a, <1>c, <1>d, <2>1, <2>3 DEF lifeVars, userVars, DeviceCounted, ThreadCounted, Opening, Closed
    <2>4. CASE BeginGate(t) /\ IF state = "LIVE" THEN Goto(t, "io_begin") ELSE Return(t)
      BY <1>a, <1>c, <1>d, <2>1, <2>4 DEF BeginGate, DeviceCounted, ThreadCounted, Opening, Closed
    <2>5. CASE BeginCas(t) /\ Goto(t, IF cnt["io_active"] = old[t] THEN "transfer" ELSE "io_begin")
      BY <1>a, <1>c, <1>d, <2>1, <2>5 DEF BeginCas, DeviceCounted, ThreadCounted, Opening, Closed, Counters
    <2> QED
      BY <1>4, <2>2, <2>3, <2>4, <2>5, Zenon DEF IoBegin, BeginOn
  <1>5. CASE CloseBegin(t)
    <2>1. threadPc[t] = "close_begin" /\ UNCHANGED <<status, bus_open, removePc>>
      BY <1>5, Zenon DEF CloseBegin
    <2>2. CASE CloseLoad(t) /\ Goto(t, "close_begin")
      BY <1>a, <1>c, <1>d, <2>1, <2>2 DEF CloseLoad, DeviceCounted, ThreadCounted, Opening, Closed, Counters
    <2>3. CASE upc[t] = "idle" /\ Return(t) /\ UNCHANGED lifeVars
      BY <1>a, <1>c, <1>d, <2>1, <2>3 DEF lifeVars, userVars, DeviceCounted, ThreadCounted, Opening, Closed
    <2>4. CASE CloseCas(t) /\ Goto(t, IF cnt["opens"] = old[t] THEN "bus_close" ELSE "close_begin")
      BY <1>a, <1>c, <1>d, <2>1, <2>4 DEF CloseCas, DeviceCounted, ThreadCounted, Opening, Closed, Counters
    <2> QED
      BY <1>5, <2>2, <2>3, <2>4, Zenon DEF CloseBegin
  <1>6. CASE OpenOk(t)
    <2>1. threadPc[t] = "bus_open" /\ Return(t) /\ UNCHANGED <<cnt, upc, target, old, removePc>> /\ status' = "RUNNING"
      BY <1>6, <1>c, Transitions, Zenon DEF OpenOk, device_set_status, lifeVars, userVars, ThreadCounted
    <2> QED
      BY <1>a, <1>c, <2>1, Zenon DEF DeviceCounted, ThreadCounted, Opening
  <1>7. CASE CloseEnd(t)
    <2>1. threadPc[t] = "bus_close" /\ Return(t) /\ UNCHANGED <<cnt, upc, target, old, removePc>>
      BY <1>7, Zenon DEF CloseEnd, lifeVars, userVars
    <2>2. status \in {"RUNNING", "SUSPENDED"} /\ cnt["opens"] <= 0 /\ old[t] = 1
      BY <1>c, <2>1, Zenon DEF ThreadCounted
    <2>3. bus_open' = FALSE
      BY <1>7, <2>2, Zenon DEF CloseEnd
    <2>4. status' \in {"PROBED", status}
      BY <1>7 DEF CloseEnd, device_set_status
    <2> QED
      BY <1>a, <1>c, <2>1, <2>2, <2>3, <2>4 DEF DeviceCounted, ThreadCounted, Opening, Closed
  <1>8. CASE OpenAbort(t) \/ IoEnd(t)
    <2>1. threadPc[t] \in {"bus_open", "transfer"} /\ Return(t) /\ UNCHANGED <<upc, target, old, status, bus_open, removePc>>
      BY <1>8, Zenon DEF OpenAbort, IoEnd, DropRef
    <2>2. (cnt'["opens"] = cnt["opens"] /\ threadPc[t] = "transfer") \/ cnt'["opens"] = cnt["opens"] - 1
      BY <1>8, <1>d DEF OpenAbort, IoEnd, DropRef, Counters
    <2> QED
      BY <1>a, <1>c, <1>d, <2>1, <2>2 DEF DeviceCounted, ThreadCounted, Opening, Closed, Counters
  <1>9. CASE device_suspend(t) \/ device_resume(t)
    <2>1. threadPc[t] \in {"suspend", "resume"} /\ Return(t) /\ UNCHANGED <<cnt, upc, target, old, bus_open, removePc>>
      BY <1>9, Zenon DEF device_suspend, device_resume, lifeVars, userVars
    <2>2. \/ status' = status
          \/ status \in {"RUNNING", "SUSPENDED"} /\ status' \in {"RUNNING", "SUSPENDED"}
      BY <1>9 DEF device_suspend, device_resume, device_set_status
    <2> QED
      BY <1>a, <1>c, <2>1, <2>2 DEF DeviceCounted, ThreadCounted, Opening, Closed
  <1> QED
    BY <1>1, <1>2, <1>3, <1>4, <1>5, <1>6, <1>7, <1>8, <1>9, Zenon
       DEF InCall, device_open, device_close, device_io

\* The other steps keep the counts: the remover only ever lowers them.
LEMMA VfsCountedNext == LifeTypeOK /\ VfsInv /\ VfsCounted /\ [Next]_vars => VfsCounted'
  <1> SUFFICES ASSUME LifeTypeOK, VfsInv, VfsCounted, [Next]_vars PROVE VfsCounted'
    OBVIOUS
  <1>0. cnt \in [Counters -> Int] /\ threadPc \in [Users -> Steps]
    BY DEF LifeTypeOK, VfsInv
  <1>1. ASSUME NEW t \in Users, InCall(t) PROVE VfsCounted'
    BY <1>1, CallCounted
  <1>2. ASSUME NEW t \in Users, NEW call \in Calls, Enter(t, call) PROVE VfsCounted'
    <2>1. UNCHANGED <<cnt, upc, target, old, status, bus_open, removePc>>
      BY <1>2, Zenon DEF Enter, lifeVars, userVars, dev
    <2>2. threadPc[t] = "idle" /\ threadPc' = [threadPc EXCEPT ![t] = call]
      BY <1>2, Zenon DEF Enter
    <2>3. ThreadCounted(t)'
      BY <1>0, <2>1, <2>2, Zenon DEF VfsCounted, ThreadCounted, Calls
    <2>4. \A u \in Users \ {t} : ThreadCounted(u)' /\ threadPc'[u] = threadPc[u]
      BY <1>0, <2>1, <2>2 DEF VfsCounted, ThreadCounted
    <2> QED
      BY <2>1, <2>2, <2>3, <2>4 DEF VfsCounted, DeviceCounted, Closed
  <1>3. ASSUME UNCHANGED <<upc, target, old, status, bus_open, threadPc>>,
               cnt'["opens"] = cnt["opens"] \/ cnt'["opens"] <= 0, cnt'["opens"] \in Int,
               removePc' \in {"absent", "probing"} => status = "READY"
        PROVE  VfsCounted'
    <2>0. cnt["opens"] \in Int
      BY <1>0 DEF Counters
    <2>1. DeviceCounted'
      BY <1>3 DEF VfsCounted, DeviceCounted
    <2>2. Closed => Closed'
      BY <1>3, <2>0 DEF Closed
    <2>3. \A t \in Users : ThreadCounted(t)'
      BY <1>3, <2>0 DEF VfsCounted, ThreadCounted
    <2> QED
      BY <1>3, <2>1, <2>2, <2>3 DEF VfsCounted
  <1> USE DEF dev, lifeVars, userVars
  <1>4. CASE BindDevice
    BY <1>0, <1>3, <1>4 DEF BindDevice, Bind, InitOpens, InitIo, InitState, Counters, VfsCounted, DeviceCounted
  <1>5. CASE uart_vfs_probe
    BY <1>0, <1>3, <1>5 DEF uart_vfs_probe, Counters, VfsCounted, DeviceCounted
  <1>6. CASE SetProbed
    <2>1. status = "READY" /\ status' \in {"READY", "PROBED"} /\ removePc' = "probed"
          /\ UNCHANGED <<cnt, upc, target, old, bus_open, threadPc>>
      BY <1>6 DEF SetProbed, device_set_status, VfsCounted, DeviceCounted
    <2>2. \A t \in Users : ThreadCounted(t)'
      BY <2>1, Zenon DEF VfsCounted, ThreadCounted
    <2> QED
      BY <2>1, <2>2 DEF VfsCounted, DeviceCounted, Closed
  <1>7. CASE RemoveStart
    BY <1>0, <1>3, <1>7 DEF RemoveStart, dev_lc_remove_start, Counters
  <1>8. CASE UnregisterMark
    <2>1. status' \in {"REMOVED", status} /\ removePc' = "cut" /\ UNCHANGED <<cnt, upc, target, old, bus_open, threadPc>>
      BY <1>8 DEF UnregisterMark, device_set_status
    <2>2. \A t \in Users : threadPc[t] = "idle"
      BY <1>8, DeviceVfsAssumption DEF UnregisterMark, VfsInv, DeviceVfsAssumption
    <2>3. \A t \in Users : ThreadCounted(t)'
      BY <2>1, <2>2 DEF VfsCounted, ThreadCounted
    <2> QED
      BY <2>1, <2>2, <2>3 DEF VfsCounted, DeviceCounted, Closed
  <1>9. CASE UnregisterCut \/ UnregisterTimeout \/ FreeSlot
    BY <1>0, <1>3, <1>9 DEF UnregisterCut, UnregisterTimeout, FreeSlot, Counters
  <1>10. CASE RemoveDrain
    BY <1>0, <1>3, <1>10 DEF RemoveDrain, Drain, DrainOpens, DrainIo, Locked, Counters
  <1>11. CASE RemoveFinish
    BY <1>0, <1>3, <1>11 DEF RemoveFinish, ResetOpens, ResetIo, ResetState, Counters
  <1>12. CASE UNCHANGED vars
    BY <1>0, <1>3, <1>12 DEF vars, VfsCounted, DeviceCounted, Counters
  <1> QED
    BY <1>1, <1>2, <1>4, <1>5, <1>6, <1>7, <1>8, <1>9, <1>10, <1>11, <1>12, Zenon
       DEF Next, uart_vfs_remove, device_ops_unregister

\* A device whose status is PROBED while nobody is inside a call has no open
\* reference and its bus is shut, after aborted opens and closes as well, for
\* any finite set of threads.
THEOREM ProbedHasNoReference == Spec => []ProbedIsClosed
  <1>1. VfsInv /\ VfsCounted => ProbedIsClosed
    BY DeviceVfsAssumption DEF DeviceVfsAssumption, VfsInv, VfsCounted, Closed, ProbedIsClosed
  <1> QED
    BY <1>1, DeviceIsLifecycle, LifecycleTypes, VfsInvInit, VfsInvNext, VfsCountedInit, VfsCountedNext, PTL DEF Spec
=============================================================================
