-------------------------------- MODULE Mbox --------------------------------
(***************************************************************************)
(* A mailbox of kernel/mbox.cpp, on the monitor that Lock and Condition    *)
(* implement (module Sync shows that they do).  A thread may be preempted  *)
(* between any two bytes it copies; only the mailbox's lock protects them. *)
(*                                                                         *)
(* A byte of the buffer is a pair: the message it belongs to and its       *)
(* offset there.  The first HeaderSize bytes of a message hold its         *)
(* content_size.                                                           *)
(***************************************************************************)
EXTENDS Integers, Sequences, FiniteSetsExt

CONSTANTS
    Senders, Receivers,
    Openers,            \* the threads among them that open, close and stat the mailbox
    MBUFFER_SIZE,
    HeaderSize,         \* sizeof(Message)
    Messages,
    content_size,       \* content_size[m]
    MaxOwners,          \* how often the mailbox may be open at once (a bound)
    NoThread, NoMessage

Threads == Senders \cup Receivers
Operations == {"open", "close", "stat", "send", "recv"}
Lock == "lock"
freed_space == "freed_space"
arrived_data == "arrived_data"

MSG_SIZE == [m \in Messages |-> HeaderSize + content_size[m]]

ASSUME MboxAssumption ==
    /\ MBUFFER_SIZE \in Nat \ {0} /\ HeaderSize \in Nat \ {0} /\ MaxOwners \in Nat
    /\ Openers \subseteq Threads
    /\ content_size \in [Messages -> Nat]
    /\ \A m \in Messages : MSG_SIZE[m] <= MBUFFER_SIZE
    /\ NoThread \notin Threads /\ NoMessage \notin Messages

VARIABLES
    owners, messages, head, tail, buffer,   \* the fields of Mbox
    owner, waiting, signalled,              \* its lock and conditions
    op,     \* op[t]: the call that t is in
    pc,     \* pc[t]: where it is in it
    msg,    \* msg[t]: the message t sends
    i,      \* i[t]: the index of the copy loop
    copy,   \* copy[t]: the bytes that recv has copied out
    got     \* got[t]: the message that t's recv returns

fields == <<owners, messages, head, tail, buffer>>
monitor == <<owner, waiting, signalled>>
locals == <<op, msg, i, copy, got>>
vars == <<fields, monitor, locals, pc>>

Mon == INSTANCE Monitor WITH
         Locks <- {Lock}, Conditions <- {freed_space, arrived_data},
         LockOf <- [c \in {freed_space, arrived_data} |-> Lock]

NoByte == <<NoMessage, 0>>
Bytes == {NoByte} \cup UNION {{m} \X (0 .. MSG_SIZE[m] - 1) : m \in Messages}
PC == {"idle", "acquire", "in", "waiting", "copy", "header", "signal", "release"}

\* The mailboxes are zero-initialised globals.
Init ==
    /\ owners = 0 /\ messages = 0 /\ head = 0 /\ tail = 0
    /\ buffer = [k \in 0 .. MBUFFER_SIZE - 1 |-> NoByte]
    /\ Mon!MonitorInit
    /\ op = [t \in Threads |-> "none"]
    /\ pc = [t \in Threads |-> "idle"]
    /\ msg = [t \in Threads |-> NoMessage]
    /\ i = [t \in Threads |-> 0]
    /\ copy = [t \in Threads |-> <<>>]
    /\ got = [t \in Threads |-> NoMessage]

\* Mutant: a full buffer looks like an empty one.
space_available_full ==
    IF tail > head THEN tail - head ELSE tail + MBUFFER_SIZE - head

space_available ==
    IF tail = head /\ messages # 0 THEN 0
    ELSE IF tail > head THEN tail - head
    ELSE tail + MBUFFER_SIZE - head

Wrap(k) == k % MBUFFER_SIZE

Goto(t, p) == pc' = [pc EXCEPT ![t] = p]
-----------------------------------------------------------------------------
\* Every call starts by taking the lock.
Call(t, o, m) ==
    /\ pc[t] = "idle"
    /\ o = "send" => t \in Senders
    /\ o = "recv" => t \in Receivers
    /\ o \in {"open", "close", "stat"} => t \in Openers
    /\ o = "open" => owners < MaxOwners
    /\ Goto(t, "acquire")
    /\ op' = [op EXCEPT ![t] = o]
    /\ msg' = [msg EXCEPT ![t] = IF o = "send" THEN m ELSE @]
    /\ UNCHANGED <<fields, monitor, i, copy, got>>

acquire(t) ==
    /\ pc[t] = "acquire"
    /\ Mon!Acquire(t, Lock)
    /\ Goto(t, "in")
    /\ UNCHANGED <<fields, locals>>

\* The locals of the call are gone.
release(t) ==
    /\ pc[t] = "release"
    /\ Mon!Release(t, Lock)
    /\ Goto(t, "idle")
    /\ op' = [op EXCEPT ![t] = "none"]
    /\ msg' = [msg EXCEPT ![t] = NoMessage]
    /\ i' = [i EXCEPT ![t] = 0]
    /\ got' = [got EXCEPT ![t] = NoMessage]
    /\ UNCHANGED <<fields, copy>>

\* wait() returns, to the test of the loop.
return_from_wait(t) ==
    /\ \E c \in {freed_space, arrived_data} : Mon!Return(t, c)
    /\ Goto(t, "in")
    /\ UNCHANGED <<fields, locals>>

In(t, o) == pc[t] = "in" /\ op[t] = o

\* Mutant: the last owner is gone, whatever is left in the mailbox.
Unused_owners == owners = 0
Unused == owners = 0 /\ messages = 0

\* After the test of the key, which is that of a mailbox here: another one returns
\* before it has touched anything.
mbox_open(t) ==
    /\ In(t, "open")
    /\ head' = IF Unused THEN 0 ELSE head
    /\ tail' = IF Unused THEN 0 ELSE tail
    /\ messages' = IF Unused THEN 0 ELSE messages
    /\ owners' = owners + 1
    /\ Goto(t, "release")
    /\ UNCHANGED <<buffer, monitor, locals>>

\* close, and stat, which only reads.
close(t) ==
    /\ In(t, "close")
    /\ owners' = IF owners = 0 THEN owners ELSE owners - 1
    /\ Goto(t, "release")
    /\ UNCHANGED <<messages, head, tail, buffer, monitor, locals>>

stat(t) ==
    /\ In(t, "stat")
    /\ Goto(t, "release")
    /\ UNCHANGED <<fields, monitor, locals>>

\* The loop of send: wait for space, then start to copy.
send_test(t) ==
    /\ In(t, "send")
    /\ \/ /\ space_available < MSG_SIZE[msg[t]]
          /\ Mon!Wait(t, freed_space)
          /\ Goto(t, "waiting")
          /\ UNCHANGED i
       \/ /\ space_available >= MSG_SIZE[msg[t]]
          /\ Goto(t, "copy")
          /\ i' = [i EXCEPT ![t] = 0]
          /\ UNCHANGED monitor
    /\ UNCHANGED <<fields, op, msg, copy, got>>

send_copy(t) ==
    /\ pc[t] = "copy" /\ op[t] = "send"
    /\ i[t] < MSG_SIZE[msg[t]]
    /\ buffer' = [buffer EXCEPT ![Wrap(head + i[t])] = <<msg[t], i[t]>>]
    /\ i' = [i EXCEPT ![t] = @ + 1]
    /\ UNCHANGED <<owners, messages, head, tail, monitor, op, pc, msg, copy, got>>

send_commit(t) ==
    /\ pc[t] = "copy" /\ op[t] = "send"
    /\ i[t] = MSG_SIZE[msg[t]]
    /\ head' = Wrap(head + MSG_SIZE[msg[t]])
    /\ messages' = messages + 1
    /\ Goto(t, "signal")
    /\ UNCHANGED <<owners, tail, buffer, monitor, locals>>

\* Mutant: a receiver is woken only by the first of several messages.
Announce_first == IF messages = 1 THEN Mon!Signal(arrived_data) ELSE UNCHANGED monitor
Announce == Mon!Signal(arrived_data)

\* Mutant: only one of the senders that wait for space is woken.
Free_one == Mon!Signal(freed_space)
Free == Mon!Broadcast(freed_space)

signal(t) ==
    /\ pc[t] = "signal"
    /\ IF op[t] = "send" THEN Announce ELSE Free
    /\ Goto(t, "release")
    /\ UNCHANGED <<fields, locals>>

\* The loop of recv: wait for a message, then read its header.
recv_test(t) ==
    /\ In(t, "recv")
    /\ \/ /\ messages = 0
          /\ Mon!Wait(t, arrived_data)
          /\ Goto(t, "waiting")
          /\ UNCHANGED copy
       \/ /\ messages # 0
          /\ Goto(t, "header")
          /\ copy' = [copy EXCEPT ![t] = <<>>]
          /\ UNCHANGED monitor
    /\ UNCHANGED <<fields, op, msg, i, got>>

\* ring_copy_out, one byte.
CopyByte(t) ==
    /\ copy' = [copy EXCEPT ![t] = Append(@, buffer[Wrap(tail + Len(@))])]
    /\ UNCHANGED <<fields, monitor, op, msg, i, got>>

\* The message whose header has been read; bytes of two messages, or of none,
\* would make up a content_size nobody sent.
HeaderOf(c) ==
    IF \E m \in Messages : \A k \in 1 .. HeaderSize : c[k] = <<m, k - 1>>
      THEN CHOOSE m \in Messages : c[1] = <<m, 0>>
      ELSE NoMessage

\* The header alone; then the whole message, from its first byte.
recv_header(t) ==
    /\ pc[t] = "header"
    /\ \/ Len(copy[t]) < HeaderSize /\ CopyByte(t) /\ UNCHANGED pc
       \/ /\ Len(copy[t]) = HeaderSize
          /\ msg' = [msg EXCEPT ![t] = HeaderOf(copy[t])]
          /\ copy' = [copy EXCEPT ![t] = <<>>]
          /\ Goto(t, "copy")
          /\ UNCHANGED <<fields, monitor, op, i, got>>

recv_copy(t) ==
    /\ pc[t] = "copy" /\ op[t] = "recv" /\ msg[t] \in Messages
    /\ Len(copy[t]) < MSG_SIZE[msg[t]]
    /\ CopyByte(t)
    /\ UNCHANGED pc

\* What has been copied: a message, if every byte of it is there.
MessageIn(m, c) == IF \A k \in DOMAIN c : c[k] = <<m, k - 1>> THEN m ELSE NoMessage

recv_commit(t) ==
    /\ pc[t] = "copy" /\ op[t] = "recv" /\ msg[t] \in Messages
    /\ Len(copy[t]) = MSG_SIZE[msg[t]]
    /\ tail' = Wrap(tail + MSG_SIZE[msg[t]])
    /\ messages' = messages - 1
    /\ got' = [got EXCEPT ![t] = MessageIn(msg[t], copy[t])]
    /\ copy' = [copy EXCEPT ![t] = <<>>]
    /\ Goto(t, "signal")
    /\ UNCHANGED <<owners, head, buffer, monitor, op, msg, i>>

\* A step inside a call, which does not depend on others but for the lock.
Work(t) ==
    \/ release(t) \/ mbox_open(t) \/ close(t) \/ stat(t)
    \/ send_test(t) \/ send_copy(t) \/ send_commit(t) \/ signal(t)
    \/ recv_test(t) \/ recv_header(t) \/ recv_copy(t) \/ recv_commit(t)

Next ==
    \E t \in Threads :
        \/ \E o \in Operations, m \in Messages : Call(t, o, m)
        \/ acquire(t) \/ return_from_wait(t) \/ Work(t)

Spec == Init /\ [][Next]_vars
-----------------------------------------------------------------------------
\* The messages in the buffer, found as recv would find them, one after another
\* from the tail.
Contents ==
    LET at[n \in 0 .. messages] ==
          IF n = 0 THEN tail
          ELSE Wrap(at[n - 1] + MSG_SIZE[buffer[at[n - 1]][1]])
    IN  [n \in 1 .. messages |-> buffer[at[n - 1]][1]]

UsedBytes == MapThenSumSet(LAMBDA n : MSG_SIZE[Contents[n]], 1 .. messages)

\* Every variable has its type.
TypeOK ==
    /\ owners \in 0 .. MaxOwners + Cardinality(Threads)
    /\ messages \in 0 .. MBUFFER_SIZE
    /\ head \in 0 .. MBUFFER_SIZE - 1 /\ tail \in 0 .. MBUFFER_SIZE - 1
    /\ buffer \in [0 .. MBUFFER_SIZE - 1 -> Bytes]
    /\ owner \in [{Lock} -> Threads \cup {NoThread}]
    /\ op \in [Threads -> Operations \cup {"none"}]
    /\ pc \in [Threads -> PC]
    /\ msg \in [Threads -> Messages \cup {NoMessage}]
    /\ i \in [Threads -> 0 .. MBUFFER_SIZE]
    /\ copy \in [Threads -> Seq(Bytes)]
    /\ got \in [Threads -> Messages \cup {NoMessage}]

\* space_available tells the full buffer from the empty one and is exact in
\* every state, so send never overwrites a byte that recv has yet to read and
\* never waits for space that is there.  Every variable has its type.
SpaceIsFree == TypeOK /\ space_available = MBUFFER_SIZE - UsedBytes

\* The buffer is a FIFO of whole messages: no message is lost when the mailbox is
\* closed and opened again, cut at the wrap-around, or mixed with another.
C == INSTANCE Channel WITH Capacity <- MBUFFER_SIZE, Size <- MSG_SIZE, queue <- Contents
ImplementsChannel == C!ChannelSpec

Free_lock == owner[Lock] = NoThread

\* One signal per message is enough: while receivers wait, every message in the
\* mailbox has a receiver that has been woken for it, although a receiver that
\* never waited may take the message first.
NoForgottenReceiver ==
    Free_lock /\ waiting[arrived_data] # {}
        => messages <= Cardinality(signalled[arrived_data])

\* No sender sleeps on when there is space for its message.
NoForgottenSender ==
    Free_lock => \A t \in waiting[freed_space] : space_available < MSG_SIZE[msg[t]]
=============================================================================
