------------------------------ MODULE Channel ------------------------------
(***************************************************************************)
(* What a mailbox promises: a FIFO queue of messages of different sizes    *)
(* whose total size is bounded.                                            *)
(***************************************************************************)
EXTENDS Naturals, Sequences, FiniteSetsExt

CONSTANTS
    Threads,
    Capacity,       \* bytes
    Messages,
    Size,           \* Size[m]: the bytes message m takes in the queue
    NoMessage

VARIABLES
    queue,          \* the messages sent and not yet received
    got             \* got[t]: the message that t has received, and not yet consumed

Used(q) == MapThenSumSet(LAMBDA i : Size[q[i]], DOMAIN q)

ChannelInit ==
    /\ queue = <<>>
    /\ got = [t \in Threads |-> NoMessage]

Send(m) ==
    /\ Used(queue) + Size[m] <= Capacity
    /\ queue' = Append(queue, m)
    /\ UNCHANGED got

Receive(t) ==
    /\ queue # <<>>
    /\ got' = [got EXCEPT ![t] = Head(queue)]
    /\ queue' = Tail(queue)

\* The caller is done with the message.
Consume(t) ==
    /\ got' = [got EXCEPT ![t] = NoMessage]
    /\ UNCHANGED queue

ChannelNext ==
    \/ \E m \in Messages : Send(m)
    \/ \E t \in Threads : Receive(t) \/ Consume(t)

ChannelSpec == ChannelInit /\ [][ChannelNext]_<<queue, got>>
=============================================================================
