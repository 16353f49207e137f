------------------------------- MODULE CanFifo -------------------------------
(***************************************************************************)
(* What the CAN driver promises for each controller: two bounded first-in  *)
(* first-out queues of telegrams.  can_write appends to tq, the controller *)
(* is given the head of tq; the bus appends to rq, can_read takes the head *)
(* of rq.  A telegram that arrives when rq is full empties rq: the driver  *)
(* says "There is no protection against overflowing the ring buffer".      *)
(***************************************************************************)
EXTENDS Naturals, Sequences

CONSTANTS Chan,        \* the controllers
          Capacity     \* telegrams a queue holds

VARIABLES tq, acc,     \* accepted telegrams not yet sent; how many accepted
          wire,        \* the telegram given to the controller last
          rq, rcv      \* received telegrams not yet read; how many received

fifoVars == <<tq, acc, wire, rq, rcv>>

FifoInit ==
    /\ tq = [d \in Chan |-> <<>>] /\ acc = [d \in Chan |-> 0]
    /\ wire = [d \in Chan |-> 0]
    /\ rq = [d \in Chan |-> <<>>] /\ rcv = [d \in Chan |-> 0]

\* can_write accepts one telegram.
Accept(d) ==
    /\ Len(tq[d]) < Capacity
    /\ tq' = [tq EXCEPT ![d] = Append(@, acc[d] + 1)]
    /\ acc' = [acc EXCEPT ![d] = @ + 1]
    /\ UNCHANGED <<wire, rq, rcv>>

\* can_standard_transmit hands the oldest one to the controller.
Send(d) ==
    /\ tq[d] # <<>>
    /\ wire' = [wire EXCEPT ![d] = Head(tq[d])]
    /\ tq' = [tq EXCEPT ![d] = Tail(@)]
    /\ UNCHANGED <<acc, rq, rcv>>

\* The handler stores a received telegram.
Arrive(d) ==
    /\ rq' = [rq EXCEPT ![d] =
                IF Len(@) < Capacity THEN Append(@, rcv[d] + 1) ELSE <<>>]
    /\ rcv' = [rcv EXCEPT ![d] = @ + 1]
    /\ UNCHANGED <<tq, acc, wire>>

\* can_read returns the oldest one.
Read(d) ==
    /\ rq[d] # <<>>
    /\ rq' = [rq EXCEPT ![d] = Tail(@)]
    /\ UNCHANGED <<tq, acc, wire, rcv>>

\* can_open and can_ioctl(CAN_SET_BAUD_RATE) start again with empty queues.
Flush(d) ==
    /\ tq' = [tq EXCEPT ![d] = <<>>] /\ acc' = [acc EXCEPT ![d] = 0]
    /\ rq' = [rq EXCEPT ![d] = <<>>] /\ rcv' = [rcv EXCEPT ![d] = 0]
    /\ UNCHANGED wire

FifoNext == \E d \in Chan : Accept(d) \/ Send(d) \/ Arrive(d) \/ Read(d) \/ Flush(d)

FifoSpec == FifoInit /\ [][FifoNext]_fifoVars

=============================================================================
