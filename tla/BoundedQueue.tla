---------------------------- MODULE BoundedQueue ----------------------------
(***************************************************************************)
(* What a single-producer single-consumer buffer of the algorithm/buffer   *)
(* family promises: a first-in first-out queue of at most Capacity         *)
(* elements.  The producer has a block accepted when it fits, and appends  *)
(* it in one step; the consumer takes a block off the front in one step    *)
(* and finds exactly those elements in its destination buffer.             *)
(***************************************************************************)
EXTENDS Naturals, Sequences

CONSTANTS Capacity,  \* elements the queue can hold
          Data       \* element values

VARIABLES queue,     \* elements published and not yet released, oldest first
          offer,     \* the block accepted from the producer, not yet published
          taken      \* the block the last completed read delivered

vars == <<queue, offer, taken>>

Init == queue = << >> /\ offer = << >> /\ taken = << >>

\* A block that fits is accepted from the producer.
Accept(block) ==
    /\ offer = << >>
    /\ Len(queue) + Len(block) <= Capacity
    /\ offer' = block
    /\ UNCHANGED <<queue, taken>>

\* The accepted block is published as a whole.
Send ==
    /\ offer # << >>
    /\ queue' = queue \o offer
    /\ offer' = << >>
    /\ UNCHANGED taken

\* A read delivers the n oldest elements and removes them.
Receive(n) ==
    /\ taken' = SubSeq(queue, 1, n)
    /\ queue' = SubSeq(queue, n + 1, Len(queue))
    /\ UNCHANGED offer

Next ==
    \/ \E n \in 1..Capacity : \E block \in [1..n -> Data] : Accept(block)
    \/ Send
    \/ \E n \in 1..Len(queue) : Receive(n)

Spec == Init /\ [][Next]_vars
=============================================================================
