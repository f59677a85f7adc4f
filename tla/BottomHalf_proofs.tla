------------------------- MODULE BottomHalf_proofs --------------------------
(***************************************************************************)
(* The claims on work items and the ring they are queued in, for any       *)
(* number of items and interrupt levels and any depth of the ring.         *)
(***************************************************************************)
EXTENDS BottomHalf, Integers, TLAPS

USE BottomHalfAssumption DEF BottomHalfAssumption

-----------------------------------------------------------------------------
\* Arithmetic of the ring: pointers run modulo 2 * Depth, slots modulo Depth.

Ptr == 0 .. PtrMod - 1

\* A multiple of n plus a small rest has that rest as its remainder.
LEMMA ModUnique ==
    ASSUME NEW n \in Nat \ {0}, NEW q \in Nat, NEW m \in 0 .. n - 1
    PROVE  (n * q + m) % n = m
OBVIOUS

\* Remainders of numbers that pass the end of the array at most twice.
LEMMA SlotMod ==
    ASSUME NEW a \in 0 .. 3 * Depth - 1
    PROVE  a % Depth = IF a < Depth THEN a ELSE IF a < 2 * Depth THEN a - Depth ELSE a - 2 * Depth
<1>1. CASE a < Depth
    <2>1. a = Depth * 0 + a /\ a \in 0 .. Depth - 1
        BY <1>1
    <2> QED
        BY <1>1, <2>1, ModUnique
<1>2. CASE a >= Depth /\ a < 2 * Depth
    <2>1. a = Depth * 1 + (a - Depth) /\ a - Depth \in 0 .. Depth - 1
        BY <1>2
    <2> QED
        BY <1>2, <2>1, ModUnique
<1>3. CASE a >= 2 * Depth
    <2>1. a = Depth * 2 + (a - 2 * Depth) /\ a - 2 * Depth \in 0 .. Depth - 1
        BY <1>3
    <2> QED
        BY <1>3, <2>1, ModUnique
<1> QED
    BY <1>1, <1>2, <1>3

\* Remainders of pointers that wrap at most once.
LEMMA PtrModulo ==
    ASSUME NEW a \in 0 .. 2 * PtrMod - 1
    PROVE  a % PtrMod = IF a < PtrMod THEN a ELSE a - PtrMod
<1> USE DEF PtrMod
<1>1. CASE a < PtrMod
    <2>1. a = PtrMod * 0 + a /\ a \in 0 .. PtrMod - 1
        BY <1>1
    <2> QED
        BY <1>1, <2>1, ModUnique
<1>2. CASE a >= PtrMod
    <2>1. a = PtrMod * 1 + (a - PtrMod) /\ a - PtrMod \in 0 .. PtrMod - 1
        BY <1>2
    <2> QED
        BY <1>2, <2>1, ModUnique
<1> QED
    BY <1>1, <1>2

\* What is needed of the modulus.
LEMMA PtrModIs == PtrMod \in Nat \ {0} /\ PtrMod = Depth + Depth
BY DEF PtrMod

\* The distance of two pointers.
LEMMA UsedIs ==
    ASSUME NEW w \in Ptr, NEW r \in Ptr
    PROVE  Used(w, r) = (IF w >= r THEN w - r ELSE w + PtrMod - r) /\ Used(w, r) \in Ptr
<1> DEFINE a == w + PtrMod - r
<1>1. a \in 0 .. 2 * PtrMod - 1
    BY PtrModIs DEF Ptr
<1>2. Used(w, r) = a % PtrMod
    BY DEF Used
<1>3. a % PtrMod = IF a < PtrMod THEN a ELSE a - PtrMod
    BY <1>1, PtrModulo
<1>4. Used(w, r) = IF a < PtrMod THEN a ELSE a - PtrMod
    BY <1>2, <1>3
<1> QED
    BY <1>4, PtrModIs DEF Ptr

\* The pointer after w.
LEMMA PtrNext ==
    ASSUME NEW w \in Ptr
    PROVE  /\ (w + 1) % PtrMod = (IF w + 1 < PtrMod THEN w + 1 ELSE w + 1 - PtrMod)
           /\ (w + 1) % PtrMod \in Ptr
<1> DEFINE x == w + 1
<1>1. x \in 0 .. 2 * PtrMod - 1
    BY PtrModIs DEF Ptr
<1> HIDE DEF x
<1>2. x % PtrMod = IF x < PtrMod THEN x ELSE x - PtrMod
    BY <1>1, PtrModulo
<1> DEFINE v == x % PtrMod
<1>3. v = IF x < PtrMod THEN x ELSE x - PtrMod
    BY <1>2
<1> HIDE DEF v
<1>4. v \in Ptr /\ v = (IF w + 1 < PtrMod THEN w + 1 ELSE w + 1 - PtrMod)
    BY <1>3, PtrModIs DEF Ptr, x
<1> QED
    BY <1>4 DEF v, x

\* Publishing the slot of w makes the distance one longer.
LEMMA UsedNext ==
    ASSUME NEW w \in Ptr, NEW r \in Ptr, Used(w, r) < Depth
    PROVE  Used((w + 1) % PtrMod, r) = Used(w, r) + 1
<1> DEFINE v == (w + 1) % PtrMod
<1>1. v = (IF w + 1 < PtrMod THEN w + 1 ELSE w + 1 - PtrMod) /\ v \in Ptr
    BY PtrNext
<1> HIDE DEF v
<1>2. /\ Used(v, r) = (IF v >= r THEN v - r ELSE v + PtrMod - r)
      /\ Used(w, r) = (IF w >= r THEN w - r ELSE w + PtrMod - r)
    BY <1>1, UsedIs
<1>3. Used(v, r) = Used(w, r) + 1
    BY <1>1, <1>2, PtrModIs DEF Ptr
<1> QED
    BY <1>3 DEF v

\* Reading an item shortens every distance by one.
LEMMA UsedAfterRead ==
    ASSUME NEW w \in Ptr, NEW r \in Ptr, w # r
    PROVE  Used(w, (r + 1) % PtrMod) = Used(w, r) - 1
<1> DEFINE v == (r + 1) % PtrMod
<1>1. v = (IF r + 1 < PtrMod THEN r + 1 ELSE r + 1 - PtrMod) /\ v \in Ptr
    BY PtrNext
<1> HIDE DEF v
<1>2. /\ Used(w, v) = (IF w >= v THEN w - v ELSE w + PtrMod - v)
      /\ Used(w, r) = (IF w >= r THEN w - r ELSE w + PtrMod - r)
    BY <1>1, UsedIs
<1>3. Used(w, v) = Used(w, r) - 1
    BY <1>1, <1>2, PtrModIs DEF Ptr
<1> QED
    BY <1>3 DEF v

\* The slot of the pointer w is the one at its distance from r, and it is the
\* only one of the ring's slots there.
LEMMA SlotOfPointer ==
    ASSUME NEW w \in Ptr, NEW r \in Ptr, Used(w, r) < Depth, NEW i \in 0 .. Depth - 1
    PROVE  /\ (r + i) % Depth \in 0 .. Depth - 1
           /\ w % Depth \in 0 .. Depth - 1
           /\ (r + i) % Depth = w % Depth <=> i = Used(w, r)
<1> DEFINE x == r + i
           a == x % Depth
           b == w % Depth
<1>1. x \in 0 .. 3 * Depth - 1 /\ w \in 0 .. 3 * Depth - 1
    BY PtrModIs DEF Ptr
<1> HIDE DEF x
<1>2. a = IF x < Depth THEN x ELSE IF x < 2 * Depth THEN x - Depth ELSE x - 2 * Depth
    BY <1>1, SlotMod, Zenon
<1>3. b = IF w < Depth THEN w ELSE IF w < 2 * Depth THEN w - Depth ELSE w - 2 * Depth
    BY <1>1, SlotMod
<1> HIDE DEF a, b
<1>4. Used(w, r) = (IF w >= r THEN w - r ELSE w + PtrMod - r)
    BY UsedIs
<1>5. a \in 0 .. Depth - 1 /\ b \in 0 .. Depth - 1
    BY <1>1, <1>2, <1>3, PtrModIs DEF Ptr
<1>6. a = b <=> i = Used(w, r)
    BY <1>2, <1>3, <1>4, PtrModIs DEF Ptr, x
<1> QED
    BY <1>5, <1>6 DEF a, b, x

\* After a read the i-th item is the one that was the (i + 1)-th.
LEMMA SlotAfterRead ==
    ASSUME NEW r \in Ptr, NEW i \in 0 .. Depth - 2
    PROVE  (((r + 1) % PtrMod) + i) % Depth = (r + (i + 1)) % Depth
<1> DEFINE v == (r + 1) % PtrMod
<1>1. v = (IF r + 1 < PtrMod THEN r + 1 ELSE r + 1 - PtrMod) /\ v \in Ptr
    BY PtrNext
<1> HIDE DEF v
<1> DEFINE x == v + i
           y == r + (i + 1)
           a == x % Depth
           b == y % Depth
<1>2. x \in 0 .. 3 * Depth - 1 /\ y \in 0 .. 3 * Depth - 1
    BY <1>1, PtrModIs DEF Ptr
<1> HIDE DEF x, y
<1>3. a = IF x < Depth THEN x ELSE IF x < 2 * Depth THEN x - Depth ELSE x - 2 * Depth
    BY <1>2, SlotMod
<1>4. b = IF y < Depth THEN y ELSE IF y < 2 * Depth THEN y - Depth ELSE y - 2 * Depth
    BY <1>2, SlotMod
<1> HIDE DEF a, b
<1>5. a = b
    BY <1>1, <1>3, <1>4, PtrModIs DEF Ptr, x, y
<1> QED
    BY <1>5 DEF a, b, v, x, y

-----------------------------------------------------------------------------
\* The invariant.  The main loop is producer 0, the handler of level l producer
\* l; a producer preempts those below.  Slots and the distances the producers
\* loaded are counted from r_ptr, so that the invariant needs no modulus.

Producer == 0 .. Levels

at == [p \in Producer |->
         IF p > 0 THEN isr[p].pc
         ELSE IF mpc = "refifo" THEN "fifo"
         ELSE IF mpc = "reput" THEN "put"
         ELSE IF mpc = "republish" THEN "publish"
         ELSE IF mpc = "refull" THEN "full"
         ELSE IF mpc \in {"exec", "call", "fn", "unpend"} THEN "held"
         ELSE "off"]
has == [p \in Producer |-> IF p > 0 THEN isr[p].work ELSE cur]
pos == [p \in Producer |-> Used(IF p > 0 THEN isr[p].w ELSE mw, r_ptr)]
used == Used(w_ptr, r_ptr)
marked == {x \in Works : pending[x]}
slots == [i \in 0 .. Depth - 1 |-> Item(i)]

Window == {"put", "publish"}
Claim == {"fifo", "put", "publish", "full", "held"}
IsrPcs == {"off", "cas", "merge", "rerun", "fifo", "put", "publish", "full", "ok"}

BitTypes ==
    /\ pending \in [Works -> BOOLEAN] /\ executing \in [Works -> BOOLEAN]
    /\ rerun \in [Works -> BOOLEAN] /\ pending_drain \in BOOLEAN
    /\ owed \subseteq Works
RingTypes ==
    /\ ring \in [0 .. Depth - 1 -> Works \cup {NoWork}]
    /\ w_ptr \in Ptr /\ r_ptr \in Ptr /\ mw \in Ptr
IsrTypes ==
    /\ isr \in [Level -> [pc : IsrPcs, work : Works \cup {NoWork}, w : Ptr]]
    /\ \A l \in Level : isr[l].pc # "off" => isr[l].work \in Works
MainTypes == mpc \in MainPcs /\ (mpc \notin {"poll", "read"} => cur \in Works)
Types == BitTypes /\ RingTypes /\ IsrTypes /\ MainTypes

\* Nesting: a producer's loaded distance is within the ring and at most the
\* current one, and who preempted it loaded later.
Nested ==
    /\ used \in 0 .. Depth
    /\ \A p \in Producer : at[p] \in Window => pos[p] \in 0 .. Depth - 1 /\ pos[p] <= used
    /\ \A p, q \in Producer : p < q /\ at[p] \in Window /\ at[q] \in Window => pos[p] <= pos[q]

\* Claims: the mark of an item is the right to queue it.  It belongs to the
\* queue, to one producer or to the poller that runs the item.  Only a producer
\* that has written its slot and not published it yet may see its item queued,
\* at that slot, by somebody above that published in between.
Claimed ==
    /\ \A p \in Producer : at[p] \in Claim => has[p] \in marked
    /\ \A p, q \in Producer : at[p] \in Claim /\ at[q] \in Claim /\ has[p] = has[q] => p = q
    /\ \A i \in 0 .. used - 1 : slots[i] \in marked
    /\ \A i, j \in 0 .. used - 1 : slots[i] = slots[j] => i = j
    /\ \A p \in Producer, i \in 0 .. used - 1 :
         at[p] \in Claim /\ has[p] = slots[i] => at[p] = "publish" /\ i = pos[p]

\* The slot a producer is about to publish holds an item that is not queued
\* below it and that nobody holds who is not about to publish the same slot.
Written ==
    \A p \in Producer : at[p] = "publish" =>
        /\ slots[pos[p]] \in marked
        /\ \A i \in 0 .. pos[p] - 1 : slots[i] # slots[pos[p]]
        /\ \A q \in Producer :
             at[q] \in Claim /\ has[q] = slots[pos[p]] => at[q] = "publish" /\ pos[q] = pos[p]

\* While producers do not overlap nothing that is pending gets lost: unless
\* somebody above is at the same slot, it holds what its producer wrote.
Accounted ==
    /\ \A x \in marked : \/ \E i \in 0 .. used - 1 : slots[i] = x
                         \/ \E p \in Producer : at[p] \in Claim /\ has[p] = x
    /\ \A p \in Producer : at[p] = "publish" /\ pos[p] = used /\ slots[pos[p]] # has[p] =>
         \E q \in Producer : q > p /\ at[q] = "publish" /\ pos[q] = pos[p]

\* A queued item the main loop does not know of yet has a handler behind it
\* that is about to raise the flag.
FlagFollows ==
    w_ptr # r_ptr /\ mpc = "poll" => pending_drain \/ \E l \in Level : isr[l].pc = "ok"

Ring == Nested /\ Claimed /\ Written
Kept == collided \/ Accounted

\* Nothing is queued and nobody is active at start.
LEMMA InitAll == Init => Types /\ Ring /\ Kept /\ FlagFollows
<1> SUFFICES ASSUME Init PROVE Types /\ Ring /\ Kept /\ FlagFollows
    OBVIOUS
<1>1. 0 \in Ptr
    BY PtrModIs DEF Ptr
<1>2. Types /\ FlagFollows
    BY <1>1, Zenon DEF Init, Types, BitTypes, RingTypes, IsrTypes, MainTypes, FlagFollows, Off, IsrPcs, MainPcs
<1>3. used = 0
    BY <1>1, UsedIs DEF Init, used
<1>4. \A p \in Producer : at[p] = "off"
    BY DEF Init, at, Producer, Level, Off
<1>5. marked = {}
    BY Zenon DEF Init, marked
<1>6. Ring /\ Kept
    BY <1>3, <1>4, <1>5 DEF Ring, Kept, Nested, Claimed, Written, Accounted, Window, Claim
<1> QED
    BY <1>2, <1>6

-----------------------------------------------------------------------------
\* What each kind of step does to the invariant, in terms of producers.

\* The claims of the producers of P are the same before and after.
Alike(P) ==
    \A q \in P : at[q] \in Claim \/ at'[q] \in Claim =>
        at'[q] = at[q] /\ has'[q] = has[q] /\ pos'[q] = pos[q]

\* p runs: nobody above it is active.
Top(p) == \A q \in Producer : q > p => at[q] \notin Claim

\* Steps that touch no claim.
LEMMA SameRing ==
    ASSUME Alike(Producer), UNCHANGED <<used, slots, marked>>, Ring, Kept, collided => collided'
    PROVE  Ring' /\ Kept'
<1> USE DEF Alike, Window, Claim
<1>1. Nested'
    BY DEF Ring, Nested
<1>2. Claimed'
    BY DEF Ring, Claimed
<1>3. Written'
    BY DEF Ring, Written
<1>4. Kept'
    BY DEF Kept, Accounted
<1> QED
    BY <1>1, <1>2, <1>3, <1>4 DEF Ring

\* A producer claims an item with a compare-and-swap.
LEMMA ClaimRing ==
    ASSUME Ring, Kept, NEW p \in Producer, Alike(Producer \ {p}),
           UNCHANGED <<used, slots, collided>>, at[p] \notin Claim, at'[p] = "fifo",
           has'[p] \notin marked, marked' = marked \cup {has'[p]}
    PROVE  Ring' /\ Kept'
<1> USE DEF Alike, Window, Claim
<1>1. Nested'
    BY DEF Ring, Nested
<1>2. Claimed'
    BY DEF Ring, Claimed
<1>3. Written'
    BY DEF Ring, Written
<1>4. Kept'
    BY DEF Kept, Accounted
<1> QED
    BY <1>1, <1>2, <1>3, <1>4 DEF Ring

\* A producer gives its claim back when the ring is full, or the poller ends
\* the one of the item it has run.
LEMMA ReleaseRing ==
    ASSUME Ring, Kept, NEW p \in Producer, Alike(Producer \ {p}),
           UNCHANGED <<used, slots, collided>>, at[p] \in {"full", "held"}, at'[p] \notin Claim,
           marked' = marked \ {has[p]}
    PROVE  Ring' /\ Kept'
<1> USE DEF Alike, Window, Claim
<1>1. Nested'
    BY DEF Ring, Nested
<1>2. Claimed'
    BY DEF Ring, Claimed
<1>3. Written'
    BY DEF Ring, Written
<1>4. Kept'
    BY DEF Kept, Accounted
<1> QED
    BY <1>1, <1>2, <1>3, <1>4 DEF Ring

\* A producer finds the ring full and keeps its claim for the moment.
LEMMA FullRing ==
    ASSUME Ring, Kept, NEW p \in Producer, Alike(Producer \ {p}),
           UNCHANGED <<used, slots, marked, collided>>,
           at[p] = "fifo", at'[p] = "full", has'[p] = has[p]
    PROVE  Ring' /\ Kept'
<1> USE DEF Alike, Window, Claim
<1>1. Nested'
    BY DEF Ring, Nested
<1>2. Claimed'
    BY DEF Ring, Claimed
<1>3. Written'
    BY DEF Ring, Written
<1>4. Kept'
    BY DEF Kept, Accounted
<1> QED
    BY <1>1, <1>2, <1>3, <1>4 DEF Ring

\* fifo_write_data: the load of the pointers when there is room,
LEMMA LoadRing ==
    ASSUME Ring, Kept, NEW p \in Producer, Top(p), Alike(Producer \ {p}),
           UNCHANGED <<used, slots, marked, collided>>,
           at[p] = "fifo", at'[p] = "put", has'[p] = has[p], pos'[p] = used, used < Depth
    PROVE  Ring' /\ Kept'
<1> USE DEF Alike, Window, Claim, Top, Producer
<1>1. Nested'
    BY DEF Ring, Nested
<1>2. Claimed'
    BY DEF Ring, Claimed
<1>3. Written'
    BY DEF Ring, Written
<1>4. Kept'
    BY DEF Kept, Accounted
<1> QED
    BY <1>1, <1>2, <1>3, <1>4 DEF Ring

\* the write of the slot,
LEMMA PutRing ==
    ASSUME Ring, Kept, NEW p \in Producer, Top(p), Alike(Producer \ {p}), UNCHANGED <<used, marked>>,
           at[p] = "put", at'[p] = "publish", has'[p] = has[p], pos'[p] = pos[p],
           \A i \in 0 .. Depth - 1 : slots'[i] = IF i = pos[p] THEN has[p] ELSE slots[i],
           ~collided' => ~collided /\ pos[p] = used
    PROVE  Ring' /\ Kept'
<1> USE DEF Alike, Window, Claim, Top, Producer
<1>1. Nested'
    BY DEF Ring, Nested
<1>2. pos[p] \in 0 .. Depth - 1 /\ pos[p] <= used /\ used \in 0 .. Depth
    BY DEF Ring, Nested
<1>3. \A i \in 0 .. used - 1 : i \in 0 .. Depth - 1 /\ slots[i] # has[p] /\ slots[i] \in marked
    BY <1>2 DEF Ring, Claimed
<1>4. Claimed'
    <2>1. \A q \in Producer : at'[q] \in Claim => has'[q] \in marked
        BY DEF Ring, Claimed
    <2>2. \A q, r \in Producer : at'[q] \in Claim /\ at'[r] \in Claim /\ has'[q] = has'[r] => q = r
        BY DEF Ring, Claimed
    <2>3. \A i \in 0 .. used - 1 : slots'[i] \in marked
        BY <1>3 DEF Ring, Claimed
    <2>4. \A i, j \in 0 .. used - 1 : slots'[i] = slots'[j] => i = j
        BY <1>3 DEF Ring, Claimed
    <2>5. \A q \in Producer, i \in 0 .. used - 1 :
            at'[q] \in Claim /\ has'[q] = slots'[i] => at'[q] = "publish" /\ i = pos'[q]
        BY <1>3 DEF Ring, Claimed
    <2> QED
        BY <2>1, <2>2, <2>3, <2>4, <2>5 DEF Claimed
<1>5. ASSUME NEW q \in Producer, at'[q] = "publish"
      PROVE  /\ slots'[pos'[q]] \in marked
             /\ \A i \in 0 .. pos'[q] - 1 : slots'[i] # slots'[pos'[q]]
             /\ \A r \in Producer : at'[r] \in Claim /\ has'[r] = slots'[pos'[q]]
                  => at'[r] = "publish" /\ pos'[r] = pos'[q]
    <2>1. pos'[q] \in 0 .. Depth - 1 /\ pos'[q] <= pos[p]
        BY <1>5 DEF Ring, Nested
    <2>2. CASE pos'[q] = pos[p]
        <3>1. slots'[pos'[q]] = has[p] /\ \A i \in 0 .. pos'[q] - 1 : slots'[i] = slots[i] /\ i \in 0 .. used - 1
            BY <1>2, <2>1, <2>2
        <3> QED
            BY <1>3, <2>2, <3>1 DEF Ring, Claimed
    <2>3. CASE pos'[q] # pos[p]
        <3>1. slots'[pos'[q]] = slots[pos'[q]] /\ \A i \in 0 .. pos'[q] - 1 : slots'[i] = slots[i]
            BY <1>2, <2>1, <2>3
        <3>2. q # p /\ at[q] = "publish" /\ pos'[q] = pos[q]
            BY <1>5, <2>3
        <3>3. \A r \in Producer : at'[r] \in Claim => at[r] \in Claim /\ has'[r] = has[r]
            OBVIOUS
        <3> QED
            BY <3>1, <3>2, <3>3 DEF Ring, Written
    <2> QED
        BY <2>2, <2>3
<1>6. Written'
    BY <1>5 DEF Written
<1>7. ASSUME ~collided' PROVE Accounted'
    <2>1. Accounted /\ pos[p] = used
        BY <1>7 DEF Kept
    <2>2. used \in 0 .. Depth - 1 /\ \A i \in 0 .. used - 1 : slots'[i] = slots[i]
        BY <1>2, <2>1
    <2>3. \A x \in marked : \/ \E i \in 0 .. used - 1 : slots'[i] = x
                            \/ \E q \in Producer : at'[q] \in Claim /\ has'[q] = x
        BY <2>1, <2>2 DEF Accounted
    <2>4. ASSUME NEW q \in Producer, at'[q] = "publish", pos'[q] = used, slots'[pos'[q]] # has'[q]
          PROVE  q < p
        BY <2>1, <2>2, <2>4
    <2> QED
        BY <2>1, <2>3, <2>4 DEF Accounted
<1> QED
    BY <1>1, <1>4, <1>6, <1>7 DEF Ring, Kept

\* and the store of the write pointer.
LEMMA PublishRing ==
    ASSUME Ring, Kept, NEW p \in Producer, Top(p), Alike(Producer \ {p}), UNCHANGED <<slots, marked>>,
           at[p] = "publish", at'[p] \notin Claim, used' = pos[p] + 1,
           ~collided' => ~collided /\ pos[p] = used
    PROVE  Ring' /\ Kept'
<1> USE DEF Alike, Window, Claim, Top, Producer
<1>1. pos[p] \in 0 .. Depth - 1 /\ pos[p] <= used /\ used \in 0 .. Depth
    BY DEF Ring, Nested
<1>2. Nested'
    BY <1>1 DEF Ring, Nested
<1>3. \A i \in 0 .. used' - 1 : i = pos[p] \/ (i \in 0 .. used - 1 /\ i \in 0 .. pos[p] - 1)
    BY <1>1
<1>4. Claimed'
    <2>1. \A q \in Producer : at'[q] \in Claim => has'[q] \in marked
        BY DEF Ring, Claimed
    <2>2. \A q, r \in Producer : at'[q] \in Claim /\ at'[r] \in Claim /\ has'[q] = has'[r] => q = r
        BY DEF Ring, Claimed
    <2>3. \A i \in 0 .. used' - 1 : slots[i] \in marked
        BY <1>3 DEF Ring, Claimed, Written
    <2>4. \A i, j \in 0 .. used' - 1 : slots[i] = slots[j] => i = j
        BY <1>3 DEF Ring, Claimed, Written
    <2>5. \A q \in Producer, i \in 0 .. used' - 1 :
            at'[q] \in Claim /\ has'[q] = slots[i] => at'[q] = "publish" /\ i = pos'[q]
        BY <1>3 DEF Ring, Claimed, Written
    <2> QED
        BY <2>1, <2>2, <2>3, <2>4, <2>5 DEF Claimed
<1>5. Written'
    BY DEF Ring, Written
<1>6. ASSUME ~collided' PROVE Accounted'
    <2>0. Accounted /\ pos[p] = used
        BY <1>6 DEF Kept
    <2>1. used \in Nat /\ used \in 0 .. used' - 1 /\ \A i \in 0 .. used - 1 : i \in 0 .. used' - 1
        BY <1>1, <2>0
    <2>2. slots[used] = has[p]
        BY <2>0 DEF Accounted
    <2>3. \A x \in marked : \/ \E i \in 0 .. used' - 1 : slots[i] = x
                            \/ \E q \in Producer : at'[q] \in Claim /\ has'[q] = x
        BY <2>0, <2>1, <2>2 DEF Accounted
    <2>4. \A q \in Producer : at'[q] = "publish" => pos'[q] < used'
        BY <2>0, <2>1 DEF Ring, Nested
    <2> QED
        BY <2>3, <2>4 DEF Accounted
<1> QED
    BY <1>2, <1>4, <1>5, <1>6 DEF Ring, Kept

\* The poller takes the first item; nobody else is active.
LEMMA ReadRing ==
    ASSUME Ring, Kept, UNCHANGED <<marked, collided>>, used # 0, used' = used - 1,
           \A q \in Producer : at[q] \notin Claim,
           \A q \in Producer : at'[q] = IF q = 0 THEN "held" ELSE at[q],
           has'[0] = slots[0], \A i \in 0 .. Depth - 2 : slots'[i] = slots[i + 1]
    PROVE  Ring' /\ Kept'
<1> USE DEF Window, Claim, Producer
<1>1. used \in 1 .. Depth /\ used' \in 0 .. Depth - 1
    BY DEF Ring, Nested
<1>2. \A i \in 0 .. used' - 1 : i \in 0 .. Depth - 2 /\ i + 1 \in 0 .. used - 1 /\ 0 \in 0 .. used - 1
    BY <1>1
<1>3. \A i \in 0 .. used' - 1 : slots'[i] = slots[i + 1] /\ slots'[i] \in marked /\ slots'[i] # slots[0]
    BY <1>1, <1>2 DEF Ring, Claimed
<1>4. \A i, j \in 0 .. used' - 1 : slots'[i] = slots'[j] => i = j
    BY <1>1, <1>2, <1>3 DEF Ring, Claimed
<1>5. slots[0] \in marked
    BY <1>1 DEF Ring, Claimed
<1>6. Nested' /\ Written'
    BY <1>1 DEF Nested, Written
<1>7. Claimed'
    BY <1>3, <1>4, <1>5 DEF Claimed
<1>8. ASSUME ~collided PROVE Accounted'
    <2>1. ASSUME NEW x \in marked
          PROVE  \/ \E i \in 0 .. used' - 1 : slots'[i] = x
                 \/ \E q \in Producer : at'[q] \in Claim /\ has'[q] = x
        <3>1. PICK i \in 0 .. used - 1 : slots[i] = x
            BY <1>8 DEF Kept, Accounted
        <3>2. CASE i = 0
            BY <3>1, <3>2
        <3>3. CASE i # 0
            <4>1. i - 1 \in 0 .. used' - 1 /\ i - 1 \in 0 .. Depth - 2 /\ (i - 1) + 1 = i
                BY <1>1, <3>1, <3>3
            <4>2. slots'[i - 1] = slots[i]
                BY <4>1
            <4> QED
                BY <3>1, <4>1, <4>2
        <3> QED
            BY <3>2, <3>3
    <2> QED
        BY <2>1 DEF Accounted
<1> QED
    BY <1>6, <1>7, <1>8 DEF Ring, Kept

-----------------------------------------------------------------------------
\* The steps of the model in those terms.

\* While the main loop runs no handler is active.
LEMMA MainOnTop == ASSUME MainRuns PROVE Top(0)
BY DEF MainRuns, Top, at, Producer, Level, Claim

\* While level l runs nobody above it is active.
LEMMA LevelOnTop == ASSUME NEW l \in Level, Runs(l) PROVE Top(l)
BY DEF Runs, Top, at, Producer, Level, Claim

\* A step of level l leaves the other producers as they are.
LEMMA OthersOfLevel ==
    ASSUME Types, NEW l \in Level, UNCHANGED <<mpc, cur, mw, r_ptr>>,
           \A k \in Level \ {l} : isr'[k] = isr[k]
    PROVE  Alike(Producer \ {l})
BY DEF Alike, at, has, pos, Producer, Level

\* A step of the main loop leaves all handlers as they are.
LEMMA OthersOfMain ==
    ASSUME UNCHANGED <<isr, r_ptr>>
    PROVE  Alike(Producer \ {0})
BY DEF Alike, at, has, pos, Producer, Level

\* Alike except for one producer without a claim is alike for all.
LEMMA AlikeAll ==
    ASSUME NEW p \in Producer, Alike(Producer \ {p}),
           \/ at[p] \notin Claim /\ at'[p] \notin Claim
           \/ at'[p] = at[p] /\ has'[p] = has[p] /\ pos'[p] = pos[p]
    PROVE  Alike(Producer)
BY DEF Alike

\* Without a change of ring and pointers the queue is the same.
LEMMA QueueSame ==
    ASSUME UNCHANGED <<ring, w_ptr, r_ptr>>
    PROVE  UNCHANGED <<used, slots>>
BY DEF used, slots, Item

\* A compare-and-swap on the mark of x: it claims the item, or finds it claimed.
LEMMA MarkSet ==
    ASSUME Types, NEW x \in Works, pending' = [pending EXCEPT ![x] = TRUE]
    PROVE  marked' = marked \cup {x} /\ (pending[x] <=> x \in marked)
BY Zenon DEF Types, BitTypes, marked

\* Clearing the mark of an item.
LEMMA MarkCleared ==
    ASSUME Types, NEW x \in Works, pending' = [pending EXCEPT ![x] = FALSE]
    PROVE  marked' = marked \ {x}
BY Zenon DEF Types, BitTypes, marked

\* The write through a loaded pointer changes the slot at its distance.
LEMMA PutSlots ==
    ASSUME RingTypes, Nested, NEW p \in Producer, at[p] = "put", NEW w \in Ptr, pos[p] = Used(w, r_ptr),
           ring' = [ring EXCEPT ![w % Depth] = has[p]], r_ptr' = r_ptr
    PROVE  \A i \in 0 .. Depth - 1 : slots'[i] = IF i = pos[p] THEN has[p] ELSE slots[i]
<1>1. pos[p] \in 0 .. Depth - 1 /\ r_ptr \in Ptr
    BY DEF Nested, Window, RingTypes
<1> SUFFICES ASSUME NEW i \in 0 .. Depth - 1
             PROVE  slots'[i] = IF i = pos[p] THEN has[p] ELSE slots[i]
    OBVIOUS
<1>2. /\ (r_ptr + i) % Depth \in 0 .. Depth - 1 /\ w % Depth \in 0 .. Depth - 1
      /\ (r_ptr + i) % Depth = w % Depth <=> i = pos[p]
    BY <1>1, SlotOfPointer
<1>3. slots[i] = ring[(r_ptr + i) % Depth] /\ slots'[i] = ring'[(r_ptr + i) % Depth]
    BY DEF slots, Item
<1> QED
    BY <1>2, <1>3 DEF RingTypes

\* Storing the pointer after a loaded one queues everything up to its slot.
LEMMA PublishUsed ==
    ASSUME RingTypes, Nested, NEW p \in Producer, at[p] = "publish", NEW w \in Ptr, pos[p] = Used(w, r_ptr),
           w_ptr' = (w + 1) % PtrMod, UNCHANGED <<ring, r_ptr>>
    PROVE  used' = pos[p] + 1 /\ UNCHANGED slots
<1>1. pos[p] \in 0 .. Depth - 1 /\ r_ptr \in Ptr
    BY DEF Nested, Window, RingTypes
<1>2. used' = pos[p] + 1
    BY <1>1, UsedNext DEF used
<1> QED
    BY <1>2 DEF slots, Item

\* The first queued item is a work, so the poller never takes an empty slot.
LEMMA FirstIsWork ==
    ASSUME Types, Ring, w_ptr # r_ptr
    PROVE  /\ used # 0 /\ ring[r_ptr % Depth] = slots[0] /\ slots[0] \in Works
           /\ slots[0] \in marked
<1>1. used \in Nat /\ used # 0
    <2>1. w_ptr \in Ptr /\ r_ptr \in Ptr
        BY DEF Types, RingTypes
    <2>2. used = (IF w_ptr >= r_ptr THEN w_ptr - r_ptr ELSE w_ptr + PtrMod - r_ptr)
        BY <2>1, UsedIs DEF used
    <2> QED
        BY <2>1, <2>2, PtrModIs DEF Ptr
<1>2. r_ptr + 0 = r_ptr /\ 0 \in 0 .. Depth - 1
    BY DEF Types, RingTypes, Ptr
<1>3. slots[0] = ring[r_ptr % Depth]
    BY <1>2 DEF slots, Item
<1>4. 0 \in 0 .. used - 1
    BY <1>1
<1>5. slots[0] \in marked
    BY <1>4 DEF Ring, Claimed
<1> QED
    BY <1>1, <1>3, <1>5 DEF marked

\* How a step of level l shows in the producers.
LEMMA LevelProducer ==
    ASSUME NEW l \in Level
    PROVE  /\ l \in Producer /\ at[l] = isr[l].pc /\ has[l] = isr[l].work
           /\ pos[l] = Used(isr[l].w, r_ptr)
           /\ at'[l] = isr'[l].pc /\ has'[l] = isr'[l].work /\ pos'[l] = Used(isr'[l].w, r_ptr')
BY DEF Level, Producer, at, has, pos

\* How the main loop shows in the producers.
LEMMA MainProducer ==
    /\ 0 \in Producer /\ has[0] = cur /\ has'[0] = cur'
    /\ pos[0] = Used(mw, r_ptr) /\ pos'[0] = Used(mw', r_ptr')
    /\ at[0] = IF mpc = "refifo" THEN "fifo" ELSE IF mpc = "reput" THEN "put"
               ELSE IF mpc = "republish" THEN "publish"
               ELSE IF mpc = "refull" THEN "full"
               ELSE IF mpc \in {"exec", "call", "fn", "unpend"} THEN "held" ELSE "off"
    /\ at'[0] = IF mpc' = "refifo" THEN "fifo" ELSE IF mpc' = "reput" THEN "put"
                ELSE IF mpc' = "republish" THEN "publish"
                ELSE IF mpc' = "refull" THEN "full"
                ELSE IF mpc' \in {"exec", "call", "fn", "unpend"} THEN "held" ELSE "off"
BY DEF Producer, at, has, pos

\* Level l moves on: its item and pointer stay, other levels too.
LEMMA StepIs ==
    ASSUME IsrTypes, NEW l \in Level, isr[l].pc # "off", NEW x \in IsrPcs, Step(l, x)
    PROVE  /\ IsrTypes'
           /\ isr'[l].pc = x /\ isr'[l].work = isr[l].work /\ isr'[l].w = isr[l].w
           /\ \A k \in Level \ {l} : isr'[k] = isr[k]
BY DEF IsrTypes, Step

\* A producer tries to claim an item.
LEMMA CasRing ==
    ASSUME Types, Ring, Kept, NEW p \in Producer, NEW x \in Works, Alike(Producer \ {p}),
           pending' = [pending EXCEPT ![x] = TRUE], UNCHANGED <<ring, w_ptr, r_ptr, collided>>,
           at[p] \notin Claim, has'[p] = x,
           IF pending[x] THEN at'[p] \notin Claim ELSE at'[p] = "fifo"
    PROVE  Ring' /\ Kept'
<1>1. marked' = marked \cup {x} /\ (pending[x] <=> x \in marked)
    BY MarkSet, Zenon
<1>2. UNCHANGED <<used, slots>>
    BY QueueSame
<1>3. CASE pending[x]
    <2>1. UNCHANGED marked /\ at'[p] \notin Claim
        BY <1>1, <1>3
    <2>2. Alike(Producer)
        BY <2>1, AlikeAll
    <2> QED
        BY <1>2, <2>1, <2>2, SameRing
<1>4. CASE ~pending[x]
    BY <1>1, <1>2, <1>4, ClaimRing
<1> QED
    BY <1>3, <1>4

\* Every step of a handler.
LEMMA RingIsr == ASSUME Types, Ring, Kept, NEW l \in Level, IsrStep(l) PROVE Ring' /\ Kept'
<1>1. /\ l \in Producer /\ Runs(l) /\ UNCHANGED <<r_ptr, mpc, cur, mw>>
      /\ isr[l].work \in Works /\ isr[l].w \in Ptr /\ isr[l].pc # "off"
    BY LevelProducer DEF IsrStep, SubmitClaim, SubmitMerge, SubmitRerun, FifoLoad, FifoPut, FifoPublish,
        SubmitNoSpace, SubmitOk, Runs, Types, IsrTypes, bits, fifo
<1>2. Top(l)
    BY <1>1, LevelOnTop
<1>3. ASSUME NEW x \in IsrPcs, Step(l, x)
      PROVE  /\ at'[l] = x /\ has'[l] = has[l] /\ pos'[l] = pos[l]
             /\ Alike(Producer \ {l})
    BY <1>1, <1>3, StepIs, OthersOfLevel, LevelProducer DEF Types
<1>4. /\ at[l] = isr[l].pc /\ has[l] = isr[l].work /\ pos[l] = Used(isr[l].w, r_ptr)
    BY LevelProducer
<1>5. CASE SubmitClaim(l)
    <2>1. /\ isr[l].pc = "cas" /\ pending' = [pending EXCEPT ![isr[l].work] = TRUE]
          /\ Step(l, IF pending[isr[l].work] THEN "merge" ELSE "fifo")
          /\ UNCHANGED <<ring, w_ptr, r_ptr, collided>>
        BY <1>5 DEF SubmitClaim, bits, fifo
    <2>2. at'[l] = IF pending[isr[l].work] THEN "merge" ELSE "fifo"
        BY <1>3, <2>1 DEF IsrPcs
    <2>3. has'[l] = isr[l].work /\ Alike(Producer \ {l})
        BY <1>3, <1>4, <2>1, Zenon DEF IsrPcs
    <2>4. IF pending[isr[l].work] THEN at'[l] \notin Claim ELSE at'[l] = "fifo"
        BY <2>2 DEF Claim
    <2>5. at[l] \notin Claim
        BY <1>4, <2>1 DEF Claim
    <2> QED
        BY <1>1, <2>1, <2>3, <2>4, <2>5, CasRing, Zenon
<1>6. CASE SubmitMerge(l) \/ SubmitRerun(l)
    <2>1. /\ at[l] \notin Claim /\ \E x \in {"rerun", "ok"} : Step(l, x)
          /\ UNCHANGED <<pending, ring, w_ptr, r_ptr, collided>>
        BY <1>4, <1>6, Zenon DEF SubmitMerge, SubmitRerun, Claim, bits, fifo
    <2>2. at'[l] \notin Claim /\ Alike(Producer \ {l})
        BY <1>3, <2>1, Zenon DEF IsrPcs, Claim
    <2>3. Alike(Producer)
        BY <1>1, <2>1, <2>2, AlikeAll, Zenon
    <2>4. UNCHANGED <<used, slots, marked>>
        BY <2>1, QueueSame DEF marked
    <2> QED
        BY <2>1, <2>3, <2>4, SameRing
<1>7. CASE FifoLoad(l)
    <2>1. isr[l].pc = "fifo" /\ UNCHANGED <<ring, w_ptr, r_ptr, collided>>
        BY <1>7 DEF FifoLoad, bits, fifo
    <2>2. used = Used(w_ptr, r_ptr) /\ used \in 0 .. Depth
        BY DEF used, Ring, Nested
    <2>3. CASE used >= Depth
        <3>1. UNCHANGED pending /\ Step(l, "full")
            BY <1>7, <2>2, <2>3 DEF FifoLoad, bits
        <3>2. at'[l] = "full" /\ has'[l] = has[l] /\ Alike(Producer \ {l})
            BY <1>3, <3>1 DEF IsrPcs
        <3>3. UNCHANGED <<used, slots, marked, collided>>
            BY <2>1, <3>1, QueueSame DEF marked
        <3> QED
            BY <1>1, <1>4, <2>1, <3>2, <3>3, FullRing
    <2>4. CASE used < Depth
        <3>1. UNCHANGED pending /\ isr' = [isr EXCEPT ![l].pc = "put", ![l].w = w_ptr]
            BY <1>7, <2>2, <2>4 DEF FifoLoad, bits, fifo
        <3>2. /\ isr'[l].pc = "put" /\ isr'[l].w = w_ptr /\ isr'[l].work = isr[l].work
              /\ \A k \in Level \ {l} : isr'[k] = isr[k]
            BY <3>1 DEF Types, IsrTypes
        <3>3. at'[l] = "put" /\ has'[l] = has[l] /\ pos'[l] = used
            BY <1>4, <2>1, <2>2, <3>2, LevelProducer
        <3>4. Alike(Producer \ {l})
            BY <1>1, <3>2, OthersOfLevel, Zenon
        <3> QED
            <4>1. UNCHANGED <<used, slots, marked, collided>>
                BY <2>1, <3>1, QueueSame DEF marked
            <4> QED
                BY <1>1, <1>2, <1>4, <2>1, <2>4, <3>3, <3>4, <4>1, LoadRing
    <2> QED
        BY <2>2, <2>3, <2>4
<1>8. CASE FifoPut(l)
    <2>1. /\ at[l] = "put" /\ Step(l, "publish") /\ UNCHANGED <<pending, w_ptr, r_ptr>>
          /\ ring' = [ring EXCEPT ![isr[l].w % Depth] = has[l]] /\ NoteStale(isr[l].w)
        BY <1>4, <1>8, Zenon DEF FifoPut, bits, fifo
    <2>2. /\ at'[l] = "publish" /\ has'[l] = has[l] /\ pos'[l] = pos[l]
          /\ Alike(Producer \ {l})
        BY <1>3, <2>1, Zenon DEF IsrPcs
    <2> QED
        <3>1. UNCHANGED <<used, marked>> /\ (~collided' => ~collided /\ pos[l] = used)
            BY <1>4, <2>1, Zenon DEF used, marked, NoteStale
        <3>2. \A i \in 0 .. Depth - 1 : slots'[i] = IF i = pos[l] THEN has[l] ELSE slots[i]
            BY <1>1, <1>4, <2>1, PutSlots, Zenon DEF Types, Ring
        <3> QED
            BY <1>1, <1>2, <2>1, <2>2, <3>1, <3>2, PutRing
<1>9. CASE FifoPublish(l)
    <2>1. /\ at[l] = "publish" /\ Step(l, "ok") /\ UNCHANGED <<pending, ring, r_ptr>>
          /\ w_ptr' = (isr[l].w + 1) % PtrMod /\ NoteStale(isr[l].w)
        BY <1>4, <1>9, Zenon DEF FifoPublish, bits, fifo
    <2>2. at'[l] \notin Claim /\ Alike(Producer \ {l})
        BY <1>3, <2>1 DEF IsrPcs, Claim
    <2> QED
        <3>1. UNCHANGED marked /\ (~collided' => ~collided /\ pos[l] = used)
            BY <1>4, <2>1, Zenon DEF used, marked, NoteStale
        <3>2. used' = pos[l] + 1 /\ UNCHANGED slots
            BY <1>1, <1>4, <2>1, PublishUsed DEF Types, Ring
        <3> QED
            BY <1>1, <1>2, <2>1, <2>2, <3>1, <3>2, PublishRing, Zenon
<1>10. CASE SubmitNoSpace(l)
    <2>1. /\ at[l] = "full" /\ UNCHANGED <<ring, w_ptr, r_ptr, collided>>
          /\ pending' = [pending EXCEPT ![has[l]] = FALSE] /\ isr' = [isr EXCEPT ![l] = Off]
        BY <1>4, <1>10, Zenon DEF SubmitNoSpace, fifo
    <2>2. isr'[l] = Off /\ \A k \in Level \ {l} : isr'[k] = isr[k]
        BY <2>1 DEF Types, IsrTypes
    <2>3. at'[l] \notin Claim
        BY <2>2, LevelProducer DEF Off, Claim
    <2>4. Alike(Producer \ {l})
        BY <1>1, <2>2, OthersOfLevel
    <2>5. marked' = marked \ {has[l]}
        BY <1>1, <1>4, <2>1, MarkCleared, Zenon
    <2>6. UNCHANGED <<used, slots, collided>>
        BY <2>1, QueueSame
    <2> QED
        BY <1>1, <2>1, <2>3, <2>4, <2>5, <2>6, ReleaseRing
<1>11. CASE SubmitOk(l)
    <2>1. /\ at[l] \notin Claim /\ isr' = [isr EXCEPT ![l] = Off]
          /\ UNCHANGED <<pending, ring, w_ptr, r_ptr, collided>>
        BY <1>4, <1>11, Zenon DEF SubmitOk, Claim, bits, fifo
    <2>2. isr'[l] = Off /\ \A k \in Level \ {l} : isr'[k] = isr[k]
        BY <2>1 DEF Types, IsrTypes
    <2>3. at'[l] \notin Claim
        BY <2>2, LevelProducer DEF Off, Claim
    <2>4. Alike(Producer)
        BY <1>1, <2>1, <2>2, <2>3, OthersOfLevel, AlikeAll, Zenon
    <2>5. UNCHANGED <<used, slots, marked>>
        BY <2>1, QueueSame DEF marked
    <2> QED
        BY <2>1, <2>4, <2>5, SameRing
<1> QED
    BY <1>5, <1>6, <1>7, <1>8, <1>9, <1>10, <1>11 DEF IsrStep

\* bottom_half_run_pending takes the first item.
LEMMA RunReadRing == ASSUME Types, Ring, Kept, RunRead, w_ptr # r_ptr PROVE Ring' /\ Kept'
<1>1. /\ MainRuns /\ mpc = "read" /\ mpc' = "exec" /\ cur' = ring[r_ptr % Depth]
      /\ r_ptr' = (r_ptr + 1) % PtrMod /\ UNCHANGED <<pending, ring, w_ptr, isr, collided>>
    BY DEF RunRead, At, MainKeeps, bits
<1>2. used # 0 /\ cur' = slots[0]
    BY <1>1, FirstIsWork
<1>3. used' = used - 1
    BY <1>1, UsedAfterRead DEF used, Types, RingTypes
<1>4. ASSUME NEW i \in 0 .. Depth - 2 PROVE slots'[i] = slots[i + 1]
    <2>1. i \in 0 .. Depth - 1 /\ i + 1 \in 0 .. Depth - 1
        OBVIOUS
    <2>2. (r_ptr' + i) % Depth = (r_ptr + (i + 1)) % Depth
        BY <1>1, SlotAfterRead DEF Types, RingTypes
    <2>3. slots'[i] = ring'[(r_ptr' + i) % Depth] /\ slots[i + 1] = ring[(r_ptr + (i + 1)) % Depth]
        BY <2>1 DEF slots, Item
    <2> QED
        BY <1>1, <2>2, <2>3
<1>5. \A q \in Producer : at[q] \notin Claim
    BY <1>1 DEF MainRuns, at, Producer, Level, Claim
<1>6. \A q \in Producer : at'[q] = IF q = 0 THEN "held" ELSE at[q]
    BY <1>1 DEF at, Producer
<1>7. UNCHANGED marked /\ has'[0] = slots[0]
    BY <1>1, <1>2, MainProducer DEF marked
<1> QED
    BY <1>1, <1>2, <1>3, <1>4, <1>5, <1>6, <1>7, ReadRing

\* Every step of the main loop.
LEMMA RingMain == ASSUME Types, Ring, Kept, MainStep PROVE Ring' /\ Kept'
<1>1. MainRuns /\ UNCHANGED isr /\ Top(0)
    BY MainOnTop DEF MainStep, bottom_half_poller_run, RunRead, FnAnnounce, FnStart, FnEnd, Unpend,
        TakeRerun, RerunClaim, RerunLoad, RerunPut, RerunPublish, RerunNoSpace, bits, fifo, At, MainKeeps
<1>2. ASSUME UNCHANGED <<r_ptr, w_ptr, ring, cur, mw, pending, collided>>, at'[0] = at[0]
      PROVE  Ring' /\ Kept'
    <2>1. Alike(Producer)
        BY <1>1, <1>2, OthersOfMain, AlikeAll, MainProducer, Zenon
    <2>2. UNCHANGED <<used, slots, marked>>
        BY <1>2, QueueSame DEF marked
    <2> QED
        BY <1>2, <2>1, <2>2, SameRing, Zenon
<1>3. CASE bottom_half_poller_run \/ FnAnnounce \/ FnStart \/ TakeRerun
    <2>1. at'[0] = at[0]
        BY <1>3, MainProducer, Zenon DEF bottom_half_poller_run, FnAnnounce, FnStart, TakeRerun, bits, fifo, At, MainKeeps
    <2> QED
        BY <1>2, <1>3, <2>1, Zenon DEF bottom_half_poller_run, FnAnnounce, FnStart, TakeRerun, bits, fifo, At, MainKeeps
<1>4. CASE FnEnd
    <2>1. at'[0] = at[0]
        BY <1>4, MainProducer, Zenon DEF FnEnd, bits, fifo, At, MainKeeps
    <2> QED
        BY <1>2, <1>4, <2>1, Zenon DEF FnEnd, bits, fifo, At, MainKeeps
<1>5. CASE RunRead
    <2>1. CASE w_ptr = r_ptr
        <3>1. at'[0] = at[0]
            BY <1>5, <2>1, MainProducer DEF RunRead, bits, fifo, At, MainKeeps
        <3> QED
            BY <1>2, <1>5, <2>1, <3>1 DEF RunRead, bits, fifo, At, MainKeeps
    <2> QED
        BY <1>5, <2>1, RunReadRing, Zenon
<1>6. CASE Unpend \/ RerunNoSpace
    <2>1. /\ at[0] \in {"full", "held"} /\ at'[0] = "off" /\ has[0] = cur /\ cur \in Works
        BY <1>6, MainProducer DEF Unpend, RerunNoSpace, Types, MainTypes, bits, fifo, At, MainKeeps
    <2>2. pending' = [pending EXCEPT ![has[0]] = FALSE] /\ UNCHANGED <<ring, w_ptr, r_ptr, collided>>
        BY <1>6, <2>1 DEF Unpend, RerunNoSpace, bits, fifo, At, MainKeeps
    <2>3. at'[0] \notin Claim
        BY <2>1 DEF Claim
    <2> QED
        <3>1. Alike(Producer \ {0}) /\ 0 \in Producer
            BY <1>1, <2>2, OthersOfMain, MainProducer
        <3>2. marked' = marked \ {has[0]}
            BY <2>1, <2>2, MarkCleared, Zenon
        <3>3. UNCHANGED <<used, slots, collided>>
            BY <2>2, QueueSame
        <3> QED
            BY <2>1, <2>3, <3>1, <3>2, <3>3, ReleaseRing
<1>7. CASE RerunClaim
    <2>1. /\ pending' = [pending EXCEPT ![cur] = TRUE] /\ UNCHANGED <<ring, w_ptr, r_ptr, cur, collided>>
          /\ cur \in Works
        BY <1>7 DEF RerunClaim, Types, MainTypes, bits, fifo, At, MainKeeps
    <2>2. /\ at[0] \notin Claim /\ has'[0] = cur
          /\ IF pending[cur] THEN at'[0] \notin Claim ELSE at'[0] = "fifo"
        BY <1>7, MainProducer DEF RerunClaim, Claim, bits, fifo, At, MainKeeps
    <2> QED
        <3>1. Alike(Producer \ {0}) /\ 0 \in Producer
            BY <1>1, <2>1, OthersOfMain, MainProducer
        <3> QED
            BY <2>1, <2>2, <3>1, CasRing, Zenon
<1>8. CASE RerunLoad
    <2>1. /\ at[0] = "fifo" /\ UNCHANGED <<ring, w_ptr, r_ptr, cur, collided>> /\ mw' = w_ptr
          /\ cur \in Works /\ has[0] = cur /\ has'[0] = cur
        BY <1>8, MainProducer DEF RerunLoad, Types, MainTypes, bits, fifo, At, MainKeeps
    <2>2. used = Used(w_ptr, r_ptr) /\ used \in 0 .. Depth
        BY DEF used, Ring, Nested
    <2>3. Alike(Producer \ {0})
        BY <1>1, <2>1, OthersOfMain
    <2>4. CASE used >= Depth
        <3>1. UNCHANGED pending /\ at'[0] = "full"
            BY <1>8, <2>1, <2>2, <2>4, MainProducer DEF RerunLoad, bits, fifo, At, MainKeeps
        <3>2. UNCHANGED <<used, slots, marked, collided>>
            BY <2>1, <3>1, QueueSame, Zenon DEF marked
        <3> QED
            BY <2>1, <2>3, <3>1, <3>2, MainProducer, FullRing
    <2>5. CASE used < Depth
        <3>1. UNCHANGED pending /\ at'[0] = "put" /\ pos'[0] = used
            BY <1>8, <2>1, <2>2, <2>5, MainProducer DEF RerunLoad, bits, fifo, At, MainKeeps
        <3> QED
            <4>1. UNCHANGED <<used, slots, marked, collided>>
                BY <2>1, <3>1, QueueSame, Zenon DEF marked
            <4> QED
                BY <1>1, <2>1, <2>3, <2>5, <3>1, <4>1, MainProducer, LoadRing
    <2> QED
        BY <2>2, <2>4, <2>5
<1>9. CASE RerunPut
    <2>1. /\ at[0] = "put" /\ at'[0] = "publish" /\ UNCHANGED <<pending, w_ptr, r_ptr, cur, mw>>
          /\ ring' = [ring EXCEPT ![mw % Depth] = has[0]] /\ NoteStale(mw)
        BY <1>9, MainProducer DEF RerunPut, bits, fifo, At, MainKeeps
    <2>2. has'[0] = has[0] /\ pos'[0] = pos[0] /\ pos[0] = Used(mw, r_ptr) /\ mw \in Ptr
        BY <2>1, MainProducer DEF Types, RingTypes
    <2> QED
        <3>1. UNCHANGED <<used, marked>> /\ (~collided' => ~collided /\ pos[0] = used)
            BY <2>1, <2>2, Zenon DEF used, marked, NoteStale
        <3>2. Alike(Producer \ {0}) /\ 0 \in Producer
            BY <1>1, <2>1, OthersOfMain, MainProducer
        <3>3. \A i \in 0 .. Depth - 1 : slots'[i] = IF i = pos[0] THEN has[0] ELSE slots[i]
            BY <2>1, <2>2, <3>2, PutSlots, Zenon DEF Types, Ring
        <3> QED
            BY <1>1, <2>1, <2>2, <3>1, <3>2, <3>3, PutRing
<1>10. CASE RerunPublish
    <2>1. /\ at[0] = "publish" /\ at'[0] \notin Claim /\ UNCHANGED <<pending, ring, r_ptr>>
          /\ w_ptr' = (mw + 1) % PtrMod /\ NoteStale(mw)
        BY <1>10, MainProducer DEF RerunPublish, Claim, bits, fifo, At, MainKeeps
    <2>2. pos[0] = Used(mw, r_ptr) /\ mw \in Ptr
        BY <2>1, MainProducer DEF Types, RingTypes
    <2> QED
        <3>1. UNCHANGED marked /\ (~collided' => ~collided /\ pos[0] = used)
            BY <2>1, <2>2, Zenon DEF used, marked, NoteStale
        <3>2. Alike(Producer \ {0}) /\ 0 \in Producer
            BY <1>1, <2>1, OthersOfMain, MainProducer
        <3>3. used' = pos[0] + 1 /\ UNCHANGED slots
            BY <2>1, <2>2, <3>2, PublishUsed DEF Types, Ring
        <3> QED
            BY <1>1, <2>1, <3>1, <3>2, <3>3, PublishRing
<1> QED
    BY <1>3, <1>4, <1>5, <1>6, <1>7, <1>8, <1>9, <1>10, Zenon DEF MainStep

\* Level l is entered, or left, or loads a pointer.
LEMMA IsrSet ==
    ASSUME IsrTypes, NEW l \in Level, NEW v \in [pc : IsrPcs, work : Works \cup {NoWork}, w : Ptr],
           v.pc # "off" => v.work \in Works, isr' = [isr EXCEPT ![l] = v]
    PROVE  IsrTypes' /\ isr'[l] = v /\ \A k \in Level \ {l} : isr'[k] = isr[k]
BY DEF IsrTypes

\* A write through a loaded pointer stays in the ring.
LEMMA PutTyped ==
    ASSUME RingTypes, NEW w \in Ptr, NEW x \in Works, ring' = [ring EXCEPT ![w % Depth] = x],
           UNCHANGED <<w_ptr, r_ptr, mw>>
    PROVE  RingTypes'
BY Zenon DEF RingTypes

\* Every step of a handler keeps the types.
LEMMA TypesIsr == ASSUME Types, NEW l \in Level, IsrStep(l) PROVE Types'
<1> BitTypes /\ RingTypes /\ IsrTypes /\ MainTypes
    BY DEF Types
<1> SUFFICES BitTypes' /\ RingTypes' /\ IsrTypes' /\ MainTypes'
    BY DEF Types
<1>1. isr[l] \in [pc : IsrPcs, work : Works \cup {NoWork}, w : Ptr]
      /\ (isr[l].pc # "off" => isr[l].work \in Works)
    BY DEF IsrTypes
<1>2. CASE SubmitClaim(l)
    <2>1. BitTypes'
        BY <1>2, <1>1, Zenon DEF SubmitClaim, BitTypes
    <2>2. IsrTypes'
        BY <1>2, StepIs, Zenon DEF SubmitClaim, IsrPcs
    <2> QED
        BY <1>2, <2>1, <2>2, Zenon DEF SubmitClaim, RingTypes, MainTypes, fifo
<1>3. CASE SubmitMerge(l)
    <2>1. IsrTypes'
        BY <1>3, StepIs, Zenon DEF SubmitMerge, IsrPcs
    <2> QED
        BY <1>3, <2>1 DEF SubmitMerge, BitTypes, RingTypes, MainTypes, fifo, bits
<1>4. CASE SubmitRerun(l)
    <2>1. BitTypes'
        BY <1>4, <1>1, Zenon DEF SubmitRerun, BitTypes
    <2>2. IsrTypes'
        BY <1>4, StepIs, Zenon DEF SubmitRerun, IsrPcs
    <2> QED
        BY <1>4, <2>1, <2>2, Zenon DEF SubmitRerun, RingTypes, MainTypes, fifo
<1>5. CASE FifoLoad(l)
    <2>1. IsrTypes'
        <3>1. CASE Step(l, "full")
            BY <1>5, <3>1, StepIs, Zenon DEF FifoLoad, IsrPcs
        <3>2. CASE isr' = [isr EXCEPT ![l].pc = "put", ![l].w = w_ptr]
            BY <1>5, <1>1, <3>2 DEF FifoLoad, IsrTypes, RingTypes, IsrPcs
        <3> QED
            BY <1>5, <3>1, <3>2 DEF FifoLoad
    <2> QED
        BY <1>5, <2>1, Zenon DEF FifoLoad, BitTypes, RingTypes, MainTypes, fifo, bits
<1>6. CASE FifoPut(l)
    <2>1. RingTypes'
        BY <1>6, <1>1, PutTyped, Zenon DEF FifoPut
    <2>2. IsrTypes'
        BY <1>6, StepIs, Zenon DEF FifoPut, IsrPcs
    <2> QED
        BY <1>6, <2>1, <2>2 DEF FifoPut, BitTypes, MainTypes, bits
<1>7. CASE FifoPublish(l)
    <2>1. RingTypes'
        BY <1>7, <1>1, PtrNext, Zenon DEF FifoPublish, RingTypes
    <2>2. IsrTypes'
        BY <1>7, StepIs, Zenon DEF FifoPublish, IsrPcs
    <2> QED
        BY <1>7, <2>1, <2>2, Zenon DEF FifoPublish, BitTypes, MainTypes, bits
<1>8. CASE SubmitOk(l)
    <2>1. BitTypes'
        BY <1>8, <1>1 DEF SubmitOk, BitTypes, bits
    <2>2. IsrTypes'
        BY <1>8, PtrModIs DEF SubmitOk, IsrTypes, IsrPcs, Off, Ptr
    <2> QED
        BY <1>8, <2>1, <2>2 DEF SubmitOk, RingTypes, MainTypes, fifo
<1>9. CASE SubmitNoSpace(l)
    <2>1. BitTypes'
        BY <1>9, <1>1, Zenon DEF SubmitNoSpace, BitTypes
    <2>2. IsrTypes'
        BY <1>9, PtrModIs DEF SubmitNoSpace, IsrTypes, IsrPcs, Off, Ptr
    <2> QED
        BY <1>9, <2>1, <2>2 DEF SubmitNoSpace, RingTypes, MainTypes, fifo
<1> QED
    BY <1>2, <1>3, <1>4, <1>5, <1>6, <1>7, <1>8, <1>9 DEF IsrStep

\* So does every step of the main loop.
LEMMA TypesMain == ASSUME Types, Ring, MainStep PROVE Types'
<1> BitTypes /\ RingTypes /\ IsrTypes /\ MainTypes
    BY DEF Types
<1> SUFFICES BitTypes' /\ RingTypes' /\ IsrTypes' /\ MainTypes'
    BY Zenon DEF Types
<1> USE DEF MainKeeps, At
<1>1. IsrTypes'
    BY DEF MainStep, bottom_half_poller_run, RunRead, FnAnnounce, FnStart, FnEnd, Unpend, TakeRerun,
        RerunClaim, RerunLoad, RerunPut, RerunPublish, RerunNoSpace, IsrTypes
<1>2. mpc \notin {"poll", "read"} => cur \in Works
    BY DEF MainTypes
<1>3. BitTypes'
    BY <1>2, Zenon DEF MainStep, bottom_half_poller_run, RunRead, FnAnnounce, FnStart, FnEnd, Unpend, TakeRerun,
        RerunClaim, RerunLoad, RerunPut, RerunPublish, RerunNoSpace, BitTypes, bits
<1>4. RingTypes'
    <2>1. CASE RunRead
        BY <2>1, PtrNext DEF RunRead, RingTypes
    <2>2. CASE RerunPut
        BY <2>2, <1>2, PutTyped, Zenon DEF RerunPut, RingTypes
    <2>3. CASE RerunPublish
        BY <2>3, PtrNext DEF RerunPublish, RingTypes
    <2>4. CASE RerunLoad
        BY <2>4, Zenon DEF RerunLoad, RingTypes, fifo
    <2> QED
        BY <2>1, <2>2, <2>3, <2>4 DEF MainStep, bottom_half_poller_run, FnAnnounce, FnStart, FnEnd, Unpend,
            TakeRerun, RerunClaim, RerunNoSpace, RingTypes, fifo
<1>5. MainTypes'
    <2>1. CASE RunRead
        BY <2>1, FirstIsWork DEF RunRead, MainTypes, MainPcs
    <2> QED
        BY <1>2, <2>1 DEF MainStep, bottom_half_poller_run, FnAnnounce, FnStart, FnEnd, Unpend, TakeRerun,
            RerunClaim, RerunLoad, RerunPut, RerunPublish, RerunNoSpace, MainTypes, MainPcs
<1> QED
    BY <1>1, <1>3, <1>4, <1>5

\* A handler enters with nothing claimed.
LEMMA EnterAll ==
    ASSUME Types, Ring, Kept, NEW l \in Level, NEW x \in Works, interrupt_virtual_dispatch(l, x)
    PROVE  Types' /\ Ring' /\ Kept'
<1> DEFINE v == [pc |-> "cas", work |-> x, w |-> 0]
<1>1. /\ isr[l].pc = "off" /\ isr' = [isr EXCEPT ![l] = v]
      /\ UNCHANGED <<bits, fifo, pending_drain, mpc, cur, mw, owed, collided>>
    BY DEF interrupt_virtual_dispatch, Level
<1>2. v \in [pc : IsrPcs, work : Works \cup {NoWork}, w : Ptr] /\ v.pc = "cas" /\ v.work = x
    BY PtrModIs DEF IsrPcs, Ptr
<1> HIDE DEF v
<1>3. IsrTypes' /\ isr'[l] = v /\ \A k \in Level \ {l} : isr'[k] = isr[k]
    BY <1>1, <1>2, IsrSet, Zenon DEF Types
<1>4. Types'
    BY <1>1, <1>3, Zenon DEF Types, BitTypes, RingTypes, MainTypes, bits, fifo
<1>5. l \in Producer /\ at[l] \notin Claim /\ at'[l] \notin Claim
    BY <1>1, <1>2, <1>3, LevelProducer, Zenon DEF Claim
<1>6. Alike(Producer \ {l})
    BY <1>1, <1>3, OthersOfLevel DEF fifo
<1>7. Alike(Producer)
    BY <1>5, <1>6, AlikeAll, Zenon
<1>8. UNCHANGED <<used, slots, marked>>
    BY <1>1, QueueSame DEF fifo, bits, marked
<1> QED
    BY <1>1, <1>4, <1>7, <1>8, SameRing

\* The flag: it is cleared before the ring is drained, and whoever moves
\* w_ptr raises it next.
LEMMA FlagNext == ASSUME Types, FlagFollows, Next PROVE FlagFollows'
<1> USE DEF FlagFollows, bits, fifo
<1>1. ASSUME NEW l \in Level, NEW x \in Works, interrupt_virtual_dispatch(l, x) PROVE FlagFollows'
    <2>1. isr[l].pc = "off" /\ UNCHANGED <<mpc, w_ptr, r_ptr, pending_drain>>
        BY <1>1 DEF interrupt_virtual_dispatch, Level
    <2>2. \A k \in Level \ {l} : isr'[k] = isr[k]
        BY <1>1 DEF interrupt_virtual_dispatch, Types, IsrTypes
    <2> QED
        BY <2>1, <2>2
<1>2. ASSUME NEW l \in Level, IsrStep(l) PROVE FlagFollows'
    <2>1. isr[l].pc # "off" /\ UNCHANGED <<mpc, r_ptr>>
        BY <1>2 DEF IsrStep, SubmitClaim, SubmitMerge, SubmitRerun, FifoLoad, FifoPut, FifoPublish,
            SubmitNoSpace, SubmitOk, Runs
    <2>2. CASE FifoPublish(l)
        BY <2>1, <2>2, StepIs, Zenon DEF FifoPublish, Types, IsrPcs
    <2>3. CASE SubmitOk(l)
        BY <2>3 DEF SubmitOk
    <2>4. CASE SubmitClaim(l) \/ SubmitMerge(l) \/ SubmitRerun(l) \/ FifoLoad(l) \/ FifoPut(l)
            \/ SubmitNoSpace(l)
        <3>1. isr[l].pc # "ok" /\ UNCHANGED <<w_ptr, pending_drain>>
            BY <2>4 DEF SubmitClaim, SubmitMerge, SubmitRerun, FifoLoad, FifoPut, SubmitNoSpace
        <3>2. \A k \in Level \ {l} : isr'[k] = isr[k]
            BY <2>4 DEF SubmitClaim, SubmitMerge, SubmitRerun, FifoLoad, FifoPut, SubmitNoSpace, Step, Types, IsrTypes
        <3> QED
            BY <2>1, <3>1, <3>2
    <2> QED
        BY <1>2, <2>2, <2>3, <2>4, Zenon DEF IsrStep
<1>3. CASE MainStep
    <2>1. CASE RunRead
        BY <2>1 DEF RunRead
    <2>2. CASE ~RunRead
        <3>1. mpc' # "poll"
            BY <1>3, <2>2 DEF MainStep, bottom_half_poller_run, FnAnnounce, FnStart, FnEnd,
                Unpend, TakeRerun, RerunClaim, RerunLoad, RerunPut, RerunPublish, RerunNoSpace
        <3> QED
            BY <3>1, Zenon
    <2> QED
        BY <2>1, <2>2
<1> QED
    BY <1>1, <1>2, <1>3 DEF Next

\* All of it is inductive.
LEMMA NextAll ==
    Types /\ Ring /\ Kept /\ FlagFollows /\ [Next]_vars => (Types /\ Ring /\ Kept /\ FlagFollows)'
<1> SUFFICES ASSUME Types, Ring, Kept, FlagFollows, [Next]_vars
             PROVE  (Types /\ Ring /\ Kept /\ FlagFollows)'
    OBVIOUS
<1>1. CASE Next
    <2>1. Types' /\ Ring' /\ Kept'
        BY <1>1, EnterAll, TypesIsr, TypesMain, RingIsr, RingMain DEF Next
    <2> QED
        BY <1>1, <2>1, FlagNext
<1>2. CASE UNCHANGED vars
    <2>1. Types' /\ FlagFollows'
        BY <1>2, Zenon DEF vars, bits, fifo, Types, BitTypes, RingTypes, IsrTypes, MainTypes, FlagFollows
    <2>2. UNCHANGED <<at, has, pos, used, slots, marked, collided>>
        BY <1>2 DEF vars, bits, fifo, at, has, pos, used, slots, marked, Item
    <2>3. Alike(Producer)
        BY <2>2, Zenon DEF Alike
    <2>4. Ring' /\ Kept'
        BY <2>2, <2>3, SameRing, Zenon
    <2> QED
        BY <2>1, <2>4
<1> QED
    BY <1>1, <1>2

\* The inductive invariant holds in every reachable state.
LEMMA Invariance == Spec => [](Types /\ Ring /\ Kept /\ FlagFollows)
BY InitAll, NextAll, PTL DEF Spec

\* However many handlers trigger an item, it is in the ring at most once, and
\* the poller never takes an empty slot for a work (bottom_half_submit_from_isr,
\* bottom_half_submit_rerun): also when the two producers overlap.
THEOREM Coalesced == Spec => []QueuedOnce
<1>1. Types /\ Ring => QueuedOnce
    <2> SUFFICES ASSUME Types, Ring PROVE QueuedOnce
        OBVIOUS
    <2>1. TypeOK
        BY DEF Types, BitTypes, RingTypes, IsrTypes, MainTypes, TypeOK, Ptr
    <2>2. \A i \in Queued : i \in 0 .. used - 1 /\ slots[i] = Item(i)
        BY DEF Queued, used, slots, Ring, Nested
    <2> QED
        BY <2>1, <2>2 DEF QueuedOnce, Ring, Claimed
<1> QED
    BY <1>1, Invariance, PTL

\* The main loop never sleeps on a non-empty ring (bottom_half_poller_run clears
\* the flag before it drains).
THEOREM WakeupKept == Spec => []NoLostWakeup
<1>1. FlagFollows => NoLostWakeup
    BY DEF FlagFollows, NoLostWakeup, MainRuns
<1> QED
    BY <1>1, Invariance, PTL

\* Unless two producers of the ring overlapped, an item marked pending is queued,
\* being queued or in the hands of the main loop.
THEOREM PendingOnItsWay == Spec => []PendingAccounted
<1>1. Types /\ Ring /\ Kept => PendingAccounted
    <2> SUFFICES ASSUME Types, Ring, Kept, ~collided, NEW x \in Works, pending[x]
                 PROVE  \/ \E i \in Queued : Item(i) = x
                        \/ \E l \in Level : isr[l].work = x /\ isr[l].pc \in {"fifo", "put", "publish", "full"}
                        \/ cur = x /\ mpc \in {"exec", "call", "fn", "unpend", "refifo", "reput", "republish", "refull"}
        BY DEF PendingAccounted
    <2>1. \/ \E i \in 0 .. used - 1 : slots[i] = x
          \/ \E p \in Producer : at[p] \in Claim /\ has[p] = x
        BY DEF Kept, Accounted, marked
    <2>2. ASSUME NEW i \in 0 .. used - 1, slots[i] = x PROVE i \in Queued /\ Item(i) = x
        <3>1. used \in 0 .. Depth
            BY DEF Ring, Nested
        <3>2. i \in 0 .. Depth - 1
            BY <2>2, <3>1
        <3> QED
            BY <2>2, <3>2 DEF Queued, used, slots
    <2>3. ASSUME NEW p \in Level, at[p] \in Claim, has[p] = x
          PROVE  isr[p].work = x /\ isr[p].pc \in {"fifo", "put", "publish", "full"}
        BY <2>3, LevelProducer DEF Types, IsrTypes, IsrPcs, Claim
    <2>4. ASSUME at[0] \in Claim, has[0] = x
          PROVE  cur = x /\ mpc \in {"exec", "call", "fn", "unpend", "refifo", "reput", "republish", "refull"}
        BY <2>4, MainProducer DEF Claim
    <2>5. \A p \in Producer : p = 0 \/ p \in Level
        BY DEF Producer, Level
    <2> QED
        BY <2>1, <2>2, <2>3, <2>4, <2>5
<1> QED
    BY <1>1, Invariance, PTL
=============================================================================
