------------------------------ MODULE MsgTask ------------------------------
(***************************************************************************)
(* MsgTask (gps/core/MsgTask.cpp) on its message queue (gps/utils/msg_q.c, *)
(* linked_list.c): the thread on which the adapters process messages.      *)
(* Any thread sends; loopMain receives, processes and deletes; the owner's *)
(* delete of the MsgTask unblocks the queue, and the thread then destroys  *)
(* it and exits.                                                           *)
(*                                                                         *)
(* What runs under list_mutex is one step; a wait on list_cond is a state  *)
(* of its own, and may end without a signal.  Nobody sends to a queue that *)
(* has been destroyed: the code does not guard against it, and nothing in  *)
(* this repository deletes a MsgTask.                                      *)
(***************************************************************************)
EXTENDS Naturals, Sequences

CONSTANT Msgs  \* the messages that may be sent, each once

VARIABLES
  msg_list,   \* the queue, oldest first (linked_list adds at the head,
              \* removes at the tail)
  unblocked,  \* msg_q.unblocked
  loop,       \* where loopMain is
  hand,       \* the message that loopMain received, if any
  fate,       \* what has become of each message
  ticket,     \* history: the order in which messages were accepted, from 1
  accepted    \* history: how many messages have been accepted

vars == <<msg_list, unblocked, loop, hand, fate, ticket, accepted>>

Loops == {"rcv", "wait", "woken", "proc", "failed", "exited"}
Fates == {"unsent", "queued", "leaked", "received", "deleted", "flushed"}

Init ==
  /\ msg_list = <<>>
  /\ unblocked = 0
  /\ loop = "rcv"
  /\ hand = <<>>
  /\ fate = [m \in Msgs |-> "unsent"]
  /\ ticket = [m \in Msgs |-> 0]
  /\ accepted = 0

Becomes(m, f) == fate' = [fate EXCEPT ![m] = f]

\* Mutant: nobody is told.
NotSignalled == loop

\* pthread_cond_signal, pthread_cond_broadcast: the one thread that can wait.
Signalled == IF loop = "wait" THEN "woken" ELSE loop

\* Mutant: linked_list_add at the end where remove takes.
AddAtTail(m) == <<m>> \o msg_list

\* linked_list_add.
Added(m) == Append(msg_list, m)

\* sendMsg, msg_q_snd.  sendMsg drops the result: a message that is refused
\* is deleted by nobody.
SendMsg(m) ==
  /\ loop # "exited"
  /\ fate[m] = "unsent"
  /\ unblocked = 0
  /\ msg_list' = Added(m)
  /\ Becomes(m, "queued")
  /\ accepted' = accepted + 1
  /\ ticket' = [ticket EXCEPT ![m] = accepted']
  /\ loop' = Signalled
  /\ UNCHANGED <<unblocked, hand>>

SendRefused(m) ==
  /\ loop # "exited"
  /\ fate[m] = "unsent"
  /\ unblocked = 1
  /\ Becomes(m, "leaked")
  /\ UNCHANGED <<msg_list, unblocked, loop, hand, ticket, accepted>>

\* ~MsgTask of the owner: msg_q_unblock.
Unblock ==
  /\ unblocked = 0
  /\ unblocked' = 1
  /\ loop' = Signalled
  /\ UNCHANGED <<msg_list, hand, fate, ticket, accepted>>

\* linked_list_remove.
Remove ==
  /\ hand' = <<Head(msg_list)>>
  /\ msg_list' = Tail(msg_list)
  /\ Becomes(Head(msg_list), "received")
  /\ loop' = "proc"
  /\ UNCHANGED <<unblocked, ticket, accepted>>

Goes(pc) ==
  /\ loop' = pc
  /\ UNCHANGED <<msg_list, unblocked, hand, fate, ticket, accepted>>

\* msg_q_rcv up to its wait.
Receive ==
  /\ loop = "rcv"
  /\ \/ unblocked = 1 /\ Goes("failed")
     \/ unblocked = 0 /\ msg_list = <<>> /\ Goes("wait")
     \/ unblocked = 0 /\ msg_list # <<>> /\ Remove

\* Mutant: the wait is not repeated.
WakeOnce ==
  /\ loop = "woken"
  /\ \/ msg_list # <<>> /\ Remove
     \/ msg_list = <<>> /\ Goes("failed")

\* msg_q_rcv after its wait: a message is received even from a queue that has
\* been unblocked meanwhile.
Wake ==
  /\ loop = "woken"
  /\ \/ msg_list # <<>> /\ Remove
     \/ msg_list = <<>> /\ unblocked = 1 /\ Goes("failed")
     \/ msg_list = <<>> /\ unblocked = 0 /\ Goes("wait")

\* pthread_cond_wait may return without a signal.
WakeSpuriously == loop = "wait" /\ Goes("woken")

\* proc() and delete.
Proc ==
  /\ loop = "proc"
  /\ Becomes(hand[1], "deleted")
  /\ hand' = <<>>
  /\ loop' = "rcv"
  /\ UNCHANGED <<msg_list, unblocked, ticket, accepted>>

\* linked_list_flush deletes what is still in the queue.
FlushQueued == [m \in Msgs |-> IF fate[m] = "queued" THEN "flushed" ELSE fate[m]]

\* msg_q_destroy, and loopMain returns.
Destroy ==
  /\ loop = "failed"
  /\ msg_list' = <<>>
  /\ fate' = FlushQueued
  /\ loop' = "exited"
  /\ UNCHANGED <<unblocked, hand, ticket, accepted>>

LoopMain == Receive \/ Wake \/ Proc \/ Destroy

Next ==
  \/ \E m \in Msgs : SendMsg(m) \/ SendRefused(m)
  \/ Unblock
  \/ LoopMain
  \/ WakeSpuriously

Spec == Init /\ [][Next]_vars

\* The thread runs whenever it can.
FairSpec == Spec /\ WF_vars(LoopMain)

(***************************************************************************)
(* Properties                                                              *)
(***************************************************************************)
TypeOK ==
  /\ msg_list \in Seq(Msgs)
  /\ unblocked \in {0, 1}
  /\ loop \in Loops
  /\ hand \in Seq(Msgs) /\ Len(hand) = IF loop = "proc" THEN 1 ELSE 0
  /\ fate \in [Msgs -> Fates]
  /\ ticket \in [Msgs -> Nat]
  /\ accepted \in Nat

\* Every message is accounted for at every moment: queued in the list, once;
\* in the thread's hand; processed and deleted; flushed with the queue; or
\* refused.  None is deleted twice, and none is freed while it is in use.
Accounted ==
  /\ \A m \in Msgs : fate[m] = "queued" <=> \E i \in 1..Len(msg_list) : msg_list[i] = m
  /\ \A i, j \in 1..Len(msg_list) : msg_list[i] = msg_list[j] => i = j
  /\ \A m \in Msgs : fate[m] = "received" <=> loop = "proc" /\ hand[1] = m

\* The thread gives up its queue only after it was unblocked: no wake-up,
\* signalled or not, is taken for the end.
StopsWhenUnblocked == loop \in {"failed", "exited"} => unblocked = 1

\* The task is a mailbox: messages are processed one by one in the order in
\* which they were accepted, whatever threads sent them.
Box == INSTANCE Mailbox WITH done <- {m \in Msgs : fate[m] = "deleted"}
IsMailbox == Box!Spec

\* A message that was accepted is processed, or deleted with the queue: no
\* wake-up is lost.
Answered == \A m \in Msgs : fate[m] = "queued" ~> fate[m] \in {"deleted", "flushed"}

\* The thread of a deleted task exits, even one that waits.
Stops == unblocked = 1 ~> loop = "exited"

\* Every message has one place and one owner, until the task is deleted.
TaskIsSound == TypeOK /\ Accounted /\ StopsWhenUnblocked
=============================================================================
