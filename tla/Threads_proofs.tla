--------------------------- MODULE Threads_proofs ---------------------------
(***************************************************************************)
(* Proofs about the threads of the utilities and of the daemons' pipe.     *)
(*                                                                         *)
(* MsgTask, for any set of messages: its invariants, and that it is a      *)
(* Mailbox.  Accounted is not inductive: that a message is in the queue    *)
(* once follows from the tickets, which number the queue consecutively     *)
(* from its head to the last ticket given (Numbered).  With DoneFirst, the *)
(* same numbering says that what the thread has in hand is the next after  *)
(* all that were processed, which is what a Mailbox requires of Serve.     *)
(*                                                                         *)
(* LocTimer, for any threads that stop the timer: what keeps the record    *)
(* under whoever holds the mutex is that the mutex tells who does, up to   *)
(* the last try to destroy it; what keeps an early stop silent is that the *)
(* result is not a time-out from then on.                                  *)
(*                                                                         *)
(* DmnConn, for any of the daemons and any number of requests: a count of  *)
(* what was written, with the one wake-up apart; flags and pipes that back *)
(* each step of the launch; and the daemon's name on its request, from the *)
(* pipe to the adapter's message.                                          *)
(***************************************************************************)
EXTENDS MsgTask, LocTimer, DmnConn, TLAPS

InList(m) == \E i \in 1..Len(msg_list) : msg_list[i] = m

\* The queue holds what is "queued", with consecutive tickets up to the last.
Numbered ==
  /\ \A m \in Msgs : fate[m] = "queued" <=> InList(m)
  /\ \A i \in 1..Len(msg_list) : ticket[msg_list[i]] = accepted - Len(msg_list) + i

\* The message in hand is the one that left the queue last.
InHand ==
  /\ \A m \in Msgs : fate[m] = "received" <=> loop = "proc" /\ hand[1] = m
  /\ loop = "proc" => ticket[hand[1]] = accepted - Len(msg_list)

\* Tickets are given to accepted messages, from 1 on, to each its own.
Tickets ==
  /\ \A m \in Msgs : ticket[m] <= accepted
  /\ \A m \in Msgs : ticket[m] = 0 <=> fate[m] \in {"unsent", "leaked"}
  /\ \A m, o \in Msgs : ticket[m] # 0 /\ ticket[m] = ticket[o] => m = o
  /\ accepted = 0 \/ \E m \in Msgs : ticket[m] = accepted

\* While the thread runs, what has been accepted and is neither queued nor in
\* hand has been processed: nothing is flushed before the queue is destroyed.
DoneFirst ==
  loop # "exited" => \A m \in Msgs : fate[m] # "flushed"

TaskIInv == TypeOK /\ Numbered /\ InHand /\ Tickets /\ DoneFirst /\ StopsWhenUnblocked

-----------------------------------------------------------------------------
\* What Append and Tail do to a queue of messages.
LEMMA Appended ==
  ASSUME NEW S, NEW q \in Seq(S), NEW m \in S
  PROVE  /\ Append(q, m) \in Seq(S)
         /\ Len(Append(q, m)) = Len(q) + 1
         /\ \A i \in 1..Len(q) : Append(q, m)[i] = q[i]
         /\ Append(q, m)[Len(q) + 1] = m
  OBVIOUS

LEMMA Removed ==
  ASSUME NEW S, NEW q \in Seq(S), q # <<>>
  PROVE  /\ Tail(q) \in Seq(S)
         /\ Len(q) \in Nat \ {0} /\ Len(Tail(q)) = Len(q) - 1
         /\ \A i \in 1..Len(Tail(q)) : Tail(q)[i] = q[i + 1]
         /\ Head(q) = q[1] /\ q[1] \in S
  OBVIOUS

LEMMA HandHoldsOne ==
  ASSUME TypeOK, loop = "proc"
  PROVE  hand[1] \in Msgs
<1>1. hand \in Seq(Msgs) /\ Len(hand) = 1
  BY DEF TypeOK
<1> QED BY <1>1

LEMMA InitIInv == Init => TaskIInv
  BY DEF Init, TaskIInv, TypeOK, Numbered, InList, InHand, Tickets, DoneFirst,
         StopsWhenUnblocked, Loops, Fates

\* A message is accepted.
LEMMA SendKeeps ==
  ASSUME TaskIInv, NEW m \in Msgs, SendMsg(m)
  PROVE  TaskIInv'
<1> USE DEF TaskIInv
<1>1. /\ msg_list \in Seq(Msgs) /\ Len(msg_list) \in Nat
      /\ accepted \in Nat /\ accepted' = accepted + 1
      /\ ticket \in [Msgs -> Nat] /\ fate \in [Msgs -> Fates]
  BY DEF SendMsg, TypeOK
<1>2. /\ msg_list' \in Seq(Msgs)
      /\ Len(msg_list') = Len(msg_list) + 1
      /\ \A i \in 1..Len(msg_list) : msg_list'[i] = msg_list[i]
      /\ msg_list'[Len(msg_list) + 1] = m
  BY <1>1, Appended DEF SendMsg, Added
<1>3. /\ ticket' = [ticket EXCEPT ![m] = accepted + 1]
      /\ fate' = [fate EXCEPT ![m] = "queued"]
      /\ fate[m] = "unsent"
      /\ hand' = hand
      /\ loop' = "proc" <=> loop = "proc"
      /\ loop' \in {loop, "woken"} /\ (loop' # loop => loop = "wait")
      /\ loop # "exited"
  BY <1>1 DEF SendMsg, Becomes, Signalled
<1>4. TypeOK'
  BY <1>1, <1>2, <1>3 DEF TypeOK, SendMsg, Loops, Fates
<1>5. /\ ticket'[m] = accepted + 1
      /\ \A o \in Msgs \ {m} : ticket'[o] = ticket[o] /\ fate'[o] = fate[o]
      /\ fate'[m] = "queued" /\ ticket[m] = 0
  BY <1>1, <1>3 DEF Tickets
<1>6. \A i \in 1..Len(msg_list) : msg_list[i] \in Msgs /\ msg_list[i] # m
  BY <1>1, <1>3 DEF Numbered, InList
<1>7. Numbered'
  <2>1. \A o \in Msgs : fate'[o] = "queued" <=> InList(o)'
    <3>1. InList(m)'
      BY <1>1, <1>2 DEF InList
    <3>2. ASSUME NEW o \in Msgs \ {m} PROVE InList(o)' <=> InList(o)
      <4>1. ASSUME InList(o)' PROVE InList(o)
        <5>1. PICK i \in 1..Len(msg_list') : msg_list'[i] = o
          BY <4>1 DEF InList
        <5>2. i # Len(msg_list) + 1
          BY <1>2, <5>1
        <5>3. i \in 1..Len(msg_list) /\ msg_list[i] = o
          BY <1>1, <1>2, <5>1, <5>2
        <5> QED BY <5>3 DEF InList
      <4>2. ASSUME InList(o) PROVE InList(o)'
        <5>1. PICK i \in 1..Len(msg_list) : msg_list[i] = o
          BY <4>2 DEF InList
        <5>2. i \in 1..Len(msg_list') /\ msg_list'[i] = o
          BY <1>1, <1>2, <5>1
        <5> QED BY <5>2 DEF InList
      <4> QED BY <4>1, <4>2
    <3> QED BY <3>1, <3>2, <1>5 DEF Numbered
  <2>2. \A i \in 1..Len(msg_list') : ticket'[msg_list'[i]] = accepted' - Len(msg_list') + i
    <3>1. TAKE i \in 1..Len(msg_list')
    <3>2. CASE i \in 1..Len(msg_list)
      <4>1. msg_list'[i] = msg_list[i] /\ ticket'[msg_list[i]] = ticket[msg_list[i]]
        BY <1>2, <1>5, <1>6, <3>2
      <4>2. ticket[msg_list[i]] = accepted - Len(msg_list) + i
        BY <3>2 DEF Numbered
      <4>3. i \in Nat /\ accepted' - Len(msg_list') + i = accepted - Len(msg_list) + i
        BY <1>1, <1>2, <3>2
      <4> QED BY <4>1, <4>2, <4>3
    <3>3. CASE i = Len(msg_list) + 1
      BY <1>1, <1>2, <1>5, <3>3
    <3> QED BY <1>1, <1>2, <3>2, <3>3
  <2> QED BY <2>1, <2>2 DEF Numbered
<1>8. InHand'
  <2>1. ASSUME loop = "proc" PROVE hand[1] \in Msgs /\ hand[1] # m
    <3>1. hand[1] \in Msgs
      BY <2>1, HandHoldsOne
    <3>2. fate[hand[1]] = "received"
      BY <2>1, <3>1 DEF InHand
    <3> QED BY <3>1, <3>2, <1>3
  <2> QED BY <1>1, <1>2, <1>3, <1>5, <2>1 DEF InHand
<1>9. Tickets'
  BY <1>1, <1>3, <1>5 DEF Tickets
<1>10. DoneFirst' /\ StopsWhenUnblocked'
  BY <1>3, <1>5 DEF DoneFirst, StopsWhenUnblocked, SendMsg
<1> QED BY <1>4, <1>7, <1>8, <1>9, <1>10

\* A message is refused.
LEMMA RefuseKeeps ==
  ASSUME TaskIInv, NEW m \in Msgs, SendRefused(m)
  PROVE  TaskIInv'
<1> USE DEF TaskIInv
<1>1. TypeOK'
  BY DEF TypeOK, SendRefused, Becomes, Fates
<1>2. /\ fate' = [fate EXCEPT ![m] = "leaked"] /\ fate[m] = "unsent"
      /\ fate \in [Msgs -> Fates]
  BY DEF SendRefused, Becomes, TypeOK
<1>3. Numbered'
  BY <1>2 DEF Numbered, InList, SendRefused
<1>4. InHand' /\ Tickets' /\ DoneFirst' /\ StopsWhenUnblocked'
  BY <1>2 DEF InHand, Tickets, DoneFirst, StopsWhenUnblocked, SendRefused
<1> QED BY <1>1, <1>3, <1>4

\* The thread takes the oldest message.
LEMMA RemoveKeeps ==
  ASSUME TaskIInv, msg_list # <<>>, loop \in {"rcv", "woken"}, Remove
  PROVE  TaskIInv'
<1> USE DEF TaskIInv
<1>1. /\ msg_list \in Seq(Msgs) /\ Len(msg_list) \in Nat /\ accepted \in Nat
      /\ ticket \in [Msgs -> Nat] /\ fate \in [Msgs -> Fates]
  BY DEF TypeOK
<1>2. /\ msg_list' \in Seq(Msgs)
      /\ Len(msg_list) \in Nat \ {0} /\ Len(msg_list') = Len(msg_list) - 1
      /\ \A i \in 1..Len(msg_list') : msg_list'[i] = msg_list[i + 1]
      /\ hand' = <<msg_list[1]>> /\ msg_list[1] \in Msgs
  BY <1>1, Removed DEF Remove
<1>3. /\ fate' = [fate EXCEPT ![msg_list[1]] = "received"]
      /\ ticket' = ticket /\ accepted' = accepted /\ unblocked' = unblocked
      /\ loop' = "proc"
  BY <1>1, Removed DEF Remove, Becomes
<1>4. TypeOK'
  BY <1>1, <1>2, <1>3 DEF TypeOK, Loops, Fates
<1>5. \A i \in 1..Len(msg_list) : i # 1 => msg_list[i] # msg_list[1]
  BY <1>1, <1>2 DEF Numbered
<1>6. Numbered'
  <2>1. ASSUME NEW o \in Msgs PROVE InList(o)' <=> InList(o) /\ o # msg_list[1]
    <3>1. ASSUME InList(o)' PROVE InList(o) /\ o # msg_list[1]
      <4>1. PICK i \in 1..Len(msg_list') : msg_list'[i] = o
        BY <3>1 DEF InList
      <4>2. i + 1 \in 1..Len(msg_list) /\ i + 1 # 1 /\ msg_list[i + 1] = o
        BY <1>1, <1>2, <4>1
      <4> QED BY <4>2, <1>5 DEF InList
    <3>2. ASSUME InList(o), o # msg_list[1] PROVE InList(o)'
      <4>1. PICK i \in 1..Len(msg_list) : msg_list[i] = o
        BY <3>2 DEF InList
      <4>2. i - 1 \in 1..Len(msg_list') /\ msg_list'[i - 1] = o
        <5>1. i \in Nat /\ i # 0 /\ i # 1
          BY <4>1, <3>2
        <5>2. i - 1 \in 1..Len(msg_list') /\ (i - 1) + 1 = i
          BY <1>1, <1>2, <4>1, <5>1
        <5> QED BY <1>1, <1>2, <4>1, <5>2
      <4> QED BY <4>2 DEF InList
    <3> QED BY <3>1, <3>2
  <2>2. \A o \in Msgs : fate'[o] = "queued" <=> InList(o)'
    <3>1. \A o \in Msgs : fate'[o] = "queued" <=> fate[o] = "queued" /\ o # msg_list[1]
      BY <1>1, <1>3
    <3> QED BY <2>1, <3>1 DEF Numbered
  <2>3. \A i \in 1..Len(msg_list') : ticket'[msg_list'[i]] = accepted' - Len(msg_list') + i
    <3>1. TAKE i \in 1..Len(msg_list')
    <3>2. i \in Nat /\ i + 1 \in 1..Len(msg_list)
      BY <1>2
    <3>3. ticket[msg_list[i + 1]] = accepted - Len(msg_list) + (i + 1)
      BY <3>2 DEF Numbered
    <3>4. accepted - Len(msg_list) + (i + 1) = accepted' - Len(msg_list') + i
      BY <1>1, <1>2, <1>3, <3>2
    <3> QED BY <1>2, <1>3, <3>3, <3>4
  <2> QED BY <2>2, <2>3 DEF Numbered
<1>7. InHand'
  <2>1. \A o \in Msgs : fate[o] # "received"
    BY DEF InHand
  <2>2. ticket[msg_list[1]] = accepted - Len(msg_list')
    BY <1>1, <1>2 DEF Numbered
  <2> QED BY <1>1, <1>2, <1>3, <2>1, <2>2 DEF InHand
<1>8. fate[msg_list[1]] = "queued"
  BY <1>1, <1>2 DEF Numbered, InList
<1>9. Tickets' /\ DoneFirst' /\ StopsWhenUnblocked'
  BY <1>1, <1>2, <1>3, <1>8 DEF Tickets, DoneFirst, StopsWhenUnblocked
<1> QED BY <1>4, <1>6, <1>7, <1>9

\* A step of the thread, or of the owner, that moves no message.
LEMMA GoesKeeps ==
  ASSUME TaskIInv, loop # "proc", loop' \in Loops \ {"proc"},
         loop' \in {"failed", "exited"} => unblocked' = 1,
         loop = "exited" => loop' = "exited",
         unblocked' \in {0, 1},
         UNCHANGED <<msg_list, hand, fate, ticket, accepted>>
  PROVE  TaskIInv'
  BY DEF TaskIInv, TypeOK, Numbered, InList, InHand, Tickets, DoneFirst, StopsWhenUnblocked

\* The message in hand is processed and deleted.
LEMMA ProcKeeps ==
  ASSUME TaskIInv, Proc
  PROVE  TaskIInv'
<1> USE DEF TaskIInv
<1>1. /\ hand[1] \in Msgs /\ fate[hand[1]] = "received"
      /\ fate' = [fate EXCEPT ![hand[1]] = "deleted"] /\ fate \in [Msgs -> Fates]
      /\ loop = "proc" /\ loop' = "rcv" /\ hand' = <<>>
      /\ UNCHANGED <<msg_list, unblocked, ticket, accepted>>
  <2>1. hand[1] \in Msgs
    BY HandHoldsOne DEF Proc
  <2> QED BY <2>1 DEF TypeOK, Proc, Becomes, InHand
<1>2. TypeOK'
  BY <1>1 DEF TypeOK, Loops, Fates
<1>3. Numbered' /\ InHand'
  BY <1>1 DEF Numbered, InList, InHand
<1>4. Tickets' /\ DoneFirst' /\ StopsWhenUnblocked'
  BY <1>1 DEF Tickets, DoneFirst, StopsWhenUnblocked
<1> QED BY <1>2, <1>3, <1>4

\* The queue is destroyed with what is in it.
LEMMA DestroyKeeps ==
  ASSUME TaskIInv, Destroy
  PROVE  TaskIInv'
<1> USE DEF TaskIInv
<1>1. /\ fate \in [Msgs -> Fates]
      /\ fate' = [m \in Msgs |-> IF fate[m] = "queued" THEN "flushed" ELSE fate[m]]
      /\ loop = "failed" /\ loop' = "exited" /\ msg_list' = <<>> /\ unblocked = 1
      /\ UNCHANGED <<unblocked, hand, ticket, accepted>>
  BY DEF TypeOK, Destroy, FlushQueued, StopsWhenUnblocked
<1>2. TypeOK'
  BY <1>1 DEF TypeOK, Loops, Fates
<1>3. Numbered' /\ InHand'
  BY <1>1 DEF Numbered, InList, InHand
<1>4. Tickets' /\ DoneFirst' /\ StopsWhenUnblocked'
  BY <1>1 DEF Tickets, DoneFirst, StopsWhenUnblocked
<1> QED BY <1>2, <1>3, <1>4

-----------------------------------------------------------------------------
LEMMA NextKeeps == TaskIInv /\ [Next]_vars => TaskIInv'
<1> SUFFICES ASSUME TaskIInv, [Next]_vars
             PROVE  TaskIInv'
  OBVIOUS
<1>1. ASSUME NEW m \in Msgs, SendMsg(m) PROVE TaskIInv'
  BY <1>1, SendKeeps
<1>2. ASSUME NEW m \in Msgs, SendRefused(m) PROVE TaskIInv'
  BY <1>2, RefuseKeeps
<1>3. CASE Unblock
  <2>1. CASE loop = "proc"
    BY <1>3, <2>1 DEF Unblock, Signalled, TaskIInv, TypeOK, Numbered, InList, InHand,
                      Tickets, DoneFirst, StopsWhenUnblocked
  <2>2. CASE loop # "proc"
    BY <1>3, <2>2, GoesKeeps DEF Unblock, Signalled, TaskIInv, TypeOK, Loops
  <2> QED BY <2>1, <2>2
<1>4. CASE Receive
  <2>1. CASE msg_list # <<>> /\ Remove
    BY <1>4, <2>1, RemoveKeeps DEF Receive
  <2>2. CASE unblocked = 1 /\ Goes("failed")
    BY <1>4, <2>2, GoesKeeps DEF Receive, Goes, Loops
  <2>3. CASE unblocked = 0 /\ Goes("wait")
    BY <1>4, <2>3, GoesKeeps DEF Receive, Goes, Loops
  <2> QED BY <1>4, <2>1, <2>2, <2>3 DEF Receive
<1>5. CASE Wake
  <2>1. CASE msg_list # <<>> /\ Remove
    BY <1>5, <2>1, RemoveKeeps DEF Wake
  <2>2. CASE unblocked = 1 /\ Goes("failed")
    BY <1>5, <2>2, GoesKeeps DEF Wake, Goes, Loops
  <2>3. CASE unblocked = 0 /\ Goes("wait")
    BY <1>5, <2>3, GoesKeeps DEF Wake, Goes, Loops
  <2> QED BY <1>5, <2>1, <2>2, <2>3 DEF Wake
<1>6. CASE Proc
  BY <1>6, ProcKeeps
<1>7. CASE Destroy
  BY <1>7, DestroyKeeps
<1>8. CASE WakeSpuriously
  BY <1>8, GoesKeeps DEF WakeSpuriously, Goes, Loops, TaskIInv, TypeOK
<1>9. CASE UNCHANGED vars
  BY <1>9 DEF vars, TaskIInv, TypeOK, Numbered, InList, InHand, Tickets, DoneFirst,
              StopsWhenUnblocked
<1> QED BY <1>1, <1>2, <1>3, <1>4, <1>5, <1>6, <1>7, <1>8, <1>9 DEF Next, LoopMain

\* TaskIInv holds in every state that the message task can reach.
THEOREM TaskInvariance == Spec => []TaskIInv
<1>1. Init => TaskIInv
  BY InitIInv
<1>2. TaskIInv /\ [Next]_vars => TaskIInv'
  BY NextKeeps
<1> QED BY <1>1, <1>2, PTL DEF Spec

\* The task keeps its types, no message is lost, freed twice or freed while it
\* is processed, and loopMain gives up its queue only after the owner has
\* unblocked it.
THEOREM StaysSound == Spec => []TaskIsSound
<1>1. TaskIInv => Accounted
  <2> SUFFICES ASSUME TaskIInv PROVE Accounted
    OBVIOUS
  <2>1. \A i, j \in 1..Len(msg_list) : msg_list[i] = msg_list[j] => i = j
    <3>1. accepted \in Nat /\ Len(msg_list) \in Nat
      BY DEF TaskIInv, TypeOK
    <3> QED BY <3>1 DEF TaskIInv, Numbered
  <2> QED BY <2>1 DEF TaskIInv, Numbered, InList, InHand, Accounted
<1>2. TaskIInv => TaskIsSound
  BY <1>1 DEF TaskIInv, TaskIsSound
<1> QED BY <1>2, TaskInvariance, PTL

\* A MsgTask is a Mailbox: every message that is processed is the first of
\* those that were accepted and not yet processed.
THEOREM TaskIsMailbox == Spec => IsMailbox
<1> DEFINE done == {m \in Msgs : fate[m] = "deleted"}
<1>1. Init => Box!Init
  BY DEF Init, Box!Init
<1>2. TaskIInv /\ [Next]_vars => [Box!Next]_Box!mvars
  <2> SUFFICES ASSUME TaskIInv, [Next]_vars
               PROVE  Box!Next \/ UNCHANGED Box!mvars
    OBVIOUS
  <2>1. ASSUME NEW m \in Msgs, SendMsg(m) PROVE Box!Accept(m)
    <3>1. /\ accepted \in Nat /\ ticket \in [Msgs -> Nat] /\ fate \in [Msgs -> Fates]
          /\ ticket' = [ticket EXCEPT ![m] = accepted + 1]
          /\ fate' = [fate EXCEPT ![m] = "queued"] /\ fate[m] = "unsent"
      BY <2>1 DEF TaskIInv, TypeOK, SendMsg, Becomes
    <3>2. done' = done
      BY <3>1
    <3>3. ticket[m] = 0 /\ \A o \in Msgs : ticket[o] < ticket'[m]
      BY <3>1 DEF TaskIInv, Tickets
    <3>4. ticket'[m] = 1 \/ \E o \in Msgs : ticket'[m] = ticket[o] + 1
      BY <3>1 DEF TaskIInv, Tickets
    <3> QED BY <3>1, <3>2, <3>3, <3>4 DEF Box!Accept
  <2>2. ASSUME NEW h \in Msgs, h = hand[1], Proc PROVE Box!Serve(h)
    <3>1. /\ loop = "proc" /\ h \in Msgs /\ fate \in [Msgs -> Fates]
          /\ fate[h] = "received" /\ ticket[h] = accepted - Len(msg_list)
          /\ fate' = [fate EXCEPT ![h] = "deleted"] /\ ticket' = ticket
          /\ accepted \in Nat /\ Len(msg_list) \in Nat /\ ticket \in [Msgs -> Nat]
      BY <2>2 DEF TaskIInv, TypeOK, InHand, Proc, Becomes
    <3>2. ticket[h] # 0
      BY <3>1 DEF TaskIInv, Tickets
    <3>3. ASSUME NEW o \in Msgs, ticket[o] \in 1..(ticket[h] - 1)
          PROVE  fate[o] = "deleted"
      <4>1. fate[o] \notin {"unsent", "leaked", "flushed"}
        BY <3>1, <3>3 DEF TaskIInv, Tickets, DoneFirst
      <4>2. fate[o] # "received"
        BY <3>1, <3>3 DEF TaskIInv, InHand
      <4>3. fate[o] # "queued"
        BY <3>1, <3>3 DEF TaskIInv, Numbered, InList
      <4> QED BY <3>1, <4>1, <4>2, <4>3 DEF Fates
    <3>4. done' = done \cup {h}
      BY <3>1
    <3> QED BY <3>1, <3>2, <3>3, <3>4 DEF Box!Serve
  <2>3. ASSUME NEW m \in Msgs, SendRefused(m) PROVE UNCHANGED Box!mvars
    BY <2>3 DEF SendRefused, Becomes, TaskIInv, TypeOK, Box!mvars
  <2>4. CASE Remove /\ msg_list # <<>>
    <3>1. /\ msg_list[1] \in Msgs /\ fate \in [Msgs -> Fates]
          /\ fate' = [fate EXCEPT ![msg_list[1]] = "received"] /\ ticket' = ticket
      BY <2>4, Removed DEF Remove, Becomes, TaskIInv, TypeOK
    <3>2. fate[msg_list[1]] = "queued"
      BY <2>4, <3>1 DEF TaskIInv, TypeOK, Numbered, InList
    <3> QED BY <3>1, <3>2 DEF Box!mvars
  <2>5. CASE Destroy
    BY <2>5 DEF Destroy, FlushQueued, TaskIInv, TypeOK, Box!mvars
  <2>6. CASE UNCHANGED <<ticket, fate>>
    BY <2>6 DEF Box!mvars
  <2>7. CASE Receive \/ Wake
    BY <2>4, <2>6, <2>7 DEF Receive, Wake, Goes
  <2>8. CASE Unblock \/ WakeSpuriously \/ UNCHANGED vars
    BY <2>6, <2>8 DEF Unblock, WakeSpuriously, Goes, vars
  <2>9. CASE Proc
    <3>1. PICK h \in Msgs : h = hand[1]
      BY <2>9, HandHoldsOne DEF Proc, TaskIInv
    <3>2. Box!Serve(h)
      BY <2>2, <2>9, <3>1
    <3> QED BY <3>2 DEF Box!Next
  <2>10. ASSUME NEW m \in Msgs, SendMsg(m) \/ SendRefused(m)
         PROVE  Box!Next \/ UNCHANGED Box!mvars
    BY <2>1, <2>3, <2>10 DEF Box!Next
  <2> QED
    BY <2>5, <2>7, <2>8, <2>9, <2>10 DEF Next, LoopMain
<1> QED BY <1>1, <1>2, TaskInvariance, PTL DEF Spec, IsMailbox, Box!Spec
-----------------------------------------------------------------------------
(***************************************************************************)
(* The timer, for any number of threads that stop it.                      *)
(***************************************************************************)
\* Up to the last try to destroy the mutex, which takes it from its holder, it
\* is held by the one thread that is between its lock and its unlock.
HoldersAreRight ==
  tries < 6 => \A s \in Stoppers : stop[s] \in {"locked", "unlock"} <=> mutex = s

\* Nobody stops a timer whose start has not returned.
NotBeforeStart ==
  handle = "none" => mutex = Nobody /\ \A s \in Stoppers : stop[s] = "out"

\* The result is the thread's own until its wait has ended.
ResultIsLocal == pc \in {"unborn", "start", "wait"} => ret = "-ETIMEDOUT" /\ ~fired

\* An early stop is seen before the wait, in the state, or ends it.
EarlyStopIsSeen ==
  stopped = "early" => ret # "ETIMEDOUT" /\ ~fired /\ pc # "wait" /\ ~Armed

TimerIInv ==
  /\ TimerTypeOK /\ HolderIsSafe
  /\ HoldersAreRight /\ NotBeforeStart /\ ResultIsLocal /\ EarlyStopIsSeen

LEMMA TimerInitial == TimerInit => TimerIInv
  <1> SUFFICES ASSUME TimerInit PROVE TimerIInv
    OBVIOUS
  <1>1. TimerTypeOK
    <2>1. stop \in [Stoppers -> {"out", "lock", "locked", "unlock", "done"}]
      BY DEF TimerInit
    <2>2. mutex = Nobody /\ tries \in 0..6
      BY DEF TimerInit
    <2> QED
      BY <2>1, <2>2 DEF TimerInit, TimerTypeOK
  <1>2. HolderIsSafe /\ NotBeforeStart /\ ResultIsLocal /\ EarlyStopIsSeen
    BY DEF TimerInit, HolderIsSafe, NotBeforeStart, ResultIsLocal, EarlyStopIsSeen
  <1>3. HoldersAreRight
    BY TimerAssumption DEF TimerInit, HoldersAreRight
  <1> QED
    BY <1>1, <1>2, <1>3 DEF TimerIInv

\* A step of loc_timer_start or of the timer's thread, which leaves the threads
\* that stop the timer where they are.
LEMMA ThreadKeeps ==
  ASSUME TimerIInv, Start \/ StartFails \/ TimerThread \/ TimesOut \/ WakesSpuriously
  PROVE  TimerIInv'
  <1> USE DEF TimerIInv, TimerTypeOK, HolderIsSafe, HoldersAreRight, NotBeforeStart,
              ResultIsLocal, EarlyStopIsSeen, Armed
  <1>1. CASE Start \/ StartFails
    BY <1>1 DEF Start, StartFails
  <1>2. CASE Enter
    BY <1>2 DEF Enter
  <1>3. CASE TimesOut \/ WakesSpuriously \/ Woken
    BY <1>3 DEF TimesOut, WakesSpuriously, WaitEnds, Woken
  <1>4. CASE Callback
    <2>1. CASE ret = "ETIMEDOUT"
      BY <1>4, <2>1 DEF Callback, CallsBack
    <2>2. CASE ret # "ETIMEDOUT"
      BY <1>4, <2>2 DEF Callback, CallsBack
    <2> QED
      BY <2>1, <2>2
  <1>4a. CASE CallbackReturns
    BY <1>4a DEF CallbackReturns
  <1>5. CASE Busy
    BY <1>5 DEF Busy
  <1>6. CASE Free
    BY <1>6, TimerAssumption DEF Free, Destroyed
  <1> QED
    BY <1>1, <1>2, <1>3, <1>4, <1>4a, <1>5, <1>6 DEF TimerThread

\* A step of a thread inside loc_timer_stop.
LEMMA StopKeeps ==
  ASSUME TimerIInv, NEW s \in Stoppers, Stop(s)
  PROVE  TimerIInv'
  <1> USE DEF TimerIInv, TimerTypeOK, HolderIsSafe, HoldersAreRight, NotBeforeStart,
              ResultIsLocal, EarlyStopIsSeen, Armed
  <1>0. s # Nobody
    BY TimerAssumption
  <1>1. CASE StopChecks(s)
    BY <1>0, <1>1 DEF StopChecks, StopGoes, Touched
  <1>2. CASE StopLocks(s)
    <2>1. TimerTypeOK'
      BY <1>0, <1>2 DEF StopLocks, StopGoes, Touched
    <2>2. HolderIsSafe' /\ NotBeforeStart' /\ ResultIsLocal' /\ EarlyStopIsSeen'
      BY <1>0, <1>2 DEF StopLocks, StopGoes, Touched
    <2>3. \A o \in Stoppers \ {s} : stop'[o] = stop[o]
      BY <1>2 DEF StopLocks, StopGoes
    <2>4. ASSUME memory = "live" PROVE HoldersAreRight'
      <3>1. tries' = tries /\ mutex = Nobody /\ mutex' = s /\ stop'[s] = "locked"
        BY <1>2, <2>4 DEF StopLocks, StopGoes
      <3> QED
        BY <1>0, <2>3, <3>1, TimerAssumption
    <2>5. ASSUME memory # "live" PROVE HoldersAreRight'
      <3>1. tries' = tries /\ mutex' = mutex /\ mutex # s /\ stop'[s] = "done"
        BY <1>0, <1>2, <2>5 DEF StopLocks, StopGoes
      <3> QED
        BY <1>0, <2>3, <3>1, TimerAssumption
    <2> QED
      BY <2>1, <2>2, <2>4, <2>5
  <1>3. CASE StopSignals(s)
    BY <1>0, <1>3 DEF StopSignals, StopGoes, Touched, Aborted
  <1>4. CASE StopUnlocks(s)
    <2>1. TimerTypeOK'
      BY <1>0, <1>4 DEF StopUnlocks, StopGoes, Touched, Unlocked
    <2>2. HolderIsSafe' /\ NotBeforeStart' /\ ResultIsLocal' /\ EarlyStopIsSeen'
      BY <1>0, <1>4 DEF StopUnlocks, StopGoes, Touched, Unlocked
    <2>3. HoldersAreRight'
      <3>1. /\ tries' = tries /\ stop'[s] = "done"
            /\ mutex' = IF mutex = s THEN Nobody ELSE mutex
            /\ \A o \in Stoppers \ {s} : stop'[o] = stop[o]
        BY <1>4 DEF StopUnlocks, StopGoes, Unlocked
      <3> QED
        BY <1>0, <3>1, TimerAssumption
    <2> QED
      BY <2>1, <2>2, <2>3
  <1> QED
    BY <1>1, <1>2, <1>3, <1>4 DEF Stop

LEMMA TimerInductive == TimerIInv /\ [TimerNext]_timerVars => TimerIInv'
  <1> SUFFICES ASSUME TimerIInv, [TimerNext]_timerVars PROVE TimerIInv'
    OBVIOUS
  <1>1. CASE UNCHANGED timerVars
    BY <1>1 DEF timerVars, TimerIInv, TimerTypeOK, HolderIsSafe, HoldersAreRight,
                NotBeforeStart, ResultIsLocal, EarlyStopIsSeen, Armed
  <1> QED
    BY <1>1, ThreadKeeps, StopKeeps DEF TimerNext

THEOREM TimerInvariant == TimerSpec => []TimerIInv
  BY TimerInitial, TimerInductive, PTL DEF TimerSpec

\* loc_timer_stop: a thread that holds the mutex of a timer finds the record
\* alive, as timer_thread tries to destroy the mutex before it frees it.
THEOREM RecordStaysSafe == TimerSpec => []RecordIsSafe
  <1>1. TimerIInv => RecordIsSafe
    BY DEF TimerIInv, RecordIsSafe
  <1> QED
    BY <1>1, TimerInvariant, PTL

\* timer_thread: a timer that was stopped before its wait timed out, its thread
\* waiting or not yet, never calls back.
THEOREM EarlyStopSilences == TimerSpec => []EarlyStopIsSilent
  <1>1. TimerIInv => EarlyStopIsSilent
    BY DEF TimerIInv, EarlyStopIsSeen, EarlyStopIsSilent
  <1> QED
    BY <1>1, TimerInvariant, PTL
-----------------------------------------------------------------------------
(***************************************************************************)
(* The server of the daemons' pipe, for any of the daemons and any number  *)
(* of requests.                                                            *)
(***************************************************************************)
Requests == [ctrl : Controls, made : {"BIT", "WIFI"}, sender : Senders]

DmnTyped ==
  /\ thread_exit \in {0, 1} /\ thread_ready \in {0, 1}
  /\ owner \in {"launch", "wait", "waiting", "woken", "running", "failed", "exiting",
                "joining", "joined"}
  /\ result \in {"none", "success", "error"}
  /\ server \in {"unborn", "init", "fail", "signal", "pre", "proc", "test", "post", "ended"}
  /\ queues \in {"absent", "open", "removed"}
  /\ pipe \in Seq(Messages) /\ box \in Seq(Requests)
  /\ sent \in Nat /\ served \in Nat /\ refused \in Nat
  /\ sent <= MaxRequests
  /\ asked \in [Daemons -> SUBSET Controls] /\ told \in [Daemons -> SUBSET Results]
  /\ troubles \subseteq {"unmade", "spurious", "pipe", "pre", "receive"}

\* Whoever returns from the wait for a reason of the code finds a flag set, and a
\* server that is ready has its pipes.
LaunchIsBacked ==
  /\ owner = "woken" /\ "spurious" \notin troubles => thread_ready = 1 \/ thread_exit = 1
  /\ server = "fail" => thread_exit = 1
  /\ server = "signal" => queues # "absent" \/ "pipe" \in troubles
  /\ thread_ready = 1 => thread_exit = 1 \/ queues # "absent" \/ "pipe" \in troubles
  /\ LaunchedIsReady

\* What waits in the pipe was written by a daemon, but for one wake-up.
Wakes(i) == pipe[i].ctrl = "UNBLOCK"
HasWakeUp == \E i \in 1..Len(pipe) : Wakes(i)

OneWakeUp ==
  /\ HasWakeUp => owner \in {"joining", "joined"}
  /\ \A i, j \in 1..Len(pipe) : Wakes(i) /\ Wakes(j) => i = j

NothingMadeUp ==
  /\ Len(pipe) + Len(box) + served + refused <= sent + 1
  /\ ~HasWakeUp => Len(pipe) + Len(box) + served + refused <= sent

\* A known request carries the name of the daemon that wrote it.
NamesAreRight ==
  /\ \A i \in 1..Len(pipe) : IsKnown(pipe[i]) =>
       pipe[i].sender \in Daemons /\ pipe[i].ctrl \in asked[pipe[i].sender]
  /\ \A i \in 1..Len(box) :
       Recipient(box[i]) \in Daemons /\ box[i].ctrl \in asked[Recipient(box[i])]

DmnIInv ==
  DmnTyped /\ LaunchIsBacked /\ OneWakeUp /\ NothingMadeUp /\ NamesAreRight /\ AnswersAreOwn

LEMMA DmnInitial == DmnInit => DmnIInv
  <1> SUFFICES ASSUME DmnInit PROVE DmnIInv
    OBVIOUS
  <1>1. asked \in [Daemons -> SUBSET Controls] /\ told \in [Daemons -> SUBSET Results]
    BY DEF DmnInit
  <1>2. Len(pipe) = 0 /\ Len(box) = 0 /\ pipe \in Seq(Messages) /\ box \in Seq(Requests)
    BY DEF DmnInit
  <1>3. DmnTyped
    BY <1>1, <1>2, DmnAssumption DEF DmnInit, DmnTyped
  <1>4. LaunchIsBacked
    BY DEF DmnInit, LaunchIsBacked, LaunchedIsReady
  <1>5. OneWakeUp /\ NothingMadeUp /\ NamesAreRight
    BY <1>2 DEF DmnInit, OneWakeUp, HasWakeUp, NothingMadeUp, NamesAreRight
  <1>6. AnswersAreOwn
    BY DEF DmnInit, AnswersAreOwn
  <1> QED
    BY <1>3, <1>4, <1>5, <1>6 DEF DmnIInv

\* The steps that leave the requests alone.
QuietStep ==
  \/ Create \/ SignalWait \/ OwnerWakes \/ Launched
  \/ ProcInit \/ ProcInitFailed \/ Ready \/ ProcPre \/ ProcFails \/ Loop
  \/ (UnblockThelper /\ ServerUnblock) \/ Join
  \/ UNCHANGED dmnVars

LEMMA QuietFrame ==
  ASSUME QuietStep
  PROVE  /\ pipe' = pipe /\ box' = box /\ served' = served /\ refused' = refused
         /\ sent' = sent /\ asked' = asked /\ told' = told
         /\ owner \in {"joining", "joined"} => owner' \in {"joining", "joined"}
  <1> USE DEF Daemon
  <1>1. CASE Create \/ SignalWait \/ OwnerWakes \/ Launched
    BY <1>1 DEF Create, SignalWait, OwnerWakes, Launched
  <1>2. CASE ProcInit \/ ProcPre \/ ProcFails \/ Loop
    BY <1>2 DEF ProcInit, ProcPre, ProcFails, Loop
  <1>3. CASE ProcInitFailed \/ Ready
    BY <1>3 DEF ProcInitFailed, Ready, SignalReady
  <1>4. CASE (UnblockThelper /\ ServerUnblock) \/ Join \/ UNCHANGED dmnVars
    BY <1>4 DEF UnblockThelper, ServerUnblock, Join, dmnVars
  <1> QED
    BY <1>1, <1>2, <1>3, <1>4 DEF QuietStep

LEMMA QuietTyped ==
  ASSUME DmnTyped, QuietStep
  PROVE  DmnTyped'
  <1> DEFINE Owners == {"launch", "wait", "waiting", "woken", "running", "failed", "exiting",
                        "joining", "joined"}
             Servers == {"unborn", "init", "fail", "signal", "pre", "proc", "test", "post",
                         "ended"}
             Troubles == {"unmade", "spurious", "pipe", "pre", "receive"}
  <1>1. /\ pipe' = pipe /\ box' = box /\ served' = served /\ refused' = refused
        /\ sent' = sent /\ asked' = asked /\ told' = told
    BY QuietFrame
  <1>2. /\ thread_exit' \in {thread_exit, 1} /\ thread_ready' \in {thread_ready, 1}
        /\ owner' \in {owner} \cup Owners
        /\ result' \in {result, "success", "error"}
        /\ server' \in {server} \cup Servers
        /\ queues' \in {queues, "open"}
    <2> USE DEF flags
    <2>1. CASE Create \/ OwnerWakes
      BY <2>1 DEF Create, OwnerWakes
    <2>2. CASE SignalWait \/ Launched
      BY <2>2 DEF SignalWait, Launched
    <2>3. CASE ProcInit \/ ProcPre
      BY <2>3 DEF ProcInit, ProcPre
    <2>4. CASE ProcFails \/ Loop
      BY <2>4 DEF ProcFails, Loop
    <2>5. CASE ProcInitFailed \/ Ready
      BY <2>5 DEF ProcInitFailed, Ready, SignalReady
    <2>6. CASE UnblockThelper /\ ServerUnblock
      BY <2>6 DEF UnblockThelper, ServerUnblock
    <2>7. CASE Join \/ UNCHANGED dmnVars
      BY <2>7 DEF Join, dmnVars
    <2> QED
      BY <2>1, <2>2, <2>3, <2>4, <2>5, <2>6, <2>7 DEF QuietStep
  <1>3. troubles' = troubles \/ \E what \in Troubles : troubles' = troubles \cup {what}
    <2>1. CASE Create \/ OwnerWakes
      BY <2>1 DEF Create, OwnerWakes, Trouble
    <2>2. CASE ProcInit \/ ProcPre \/ ProcFails
      BY <2>2 DEF ProcInit, ProcPre, ProcFails, Trouble
    <2>3. CASE SignalWait \/ Launched \/ Loop \/ ProcInitFailed \/ Ready
      BY <2>3 DEF SignalWait, Launched, Loop, ProcInitFailed, Ready
    <2>4. CASE (UnblockThelper /\ ServerUnblock) \/ Join \/ UNCHANGED dmnVars
      BY <2>4 DEF ServerUnblock, Join, dmnVars
    <2> QED
      BY <2>1, <2>2, <2>3, <2>4 DEF QuietStep
  <1>4. troubles' \subseteq Troubles
    BY <1>3 DEF DmnTyped
  <1> QED
    BY <1>1, <1>2, <1>4 DEF DmnTyped

\* The launch is concerned by the quiet steps only.
LEMMA QuietLaunch ==
  ASSUME DmnTyped, LaunchIsBacked, QuietStep
  PROVE  LaunchIsBacked'
  <1> USE DEF DmnTyped, LaunchIsBacked, LaunchedIsReady, flags
  <1>1. CASE Create \/ OwnerWakes
    BY <1>1 DEF Create, OwnerWakes, Trouble
  <1>2. CASE SignalWait \/ Launched
    BY <1>2 DEF SignalWait, NotReady, Launched
  <1>3. CASE ProcInit \/ ProcPre \/ ProcFails \/ Loop
    BY <1>3 DEF ProcInit, ProcPre, ProcFails, Loop, Trouble
  <1>4. CASE ProcInitFailed \/ Ready
    BY <1>4 DEF ProcInitFailed, Ready, SignalReady
  <1>5. CASE (UnblockThelper /\ ServerUnblock) \/ Join \/ UNCHANGED dmnVars
    BY <1>5 DEF UnblockThelper, ServerUnblock, Join, dmnVars
  <1> QED
    BY <1>1, <1>2, <1>3, <1>4, <1>5 DEF QuietStep

LEMMA QuietKeeps ==
  ASSUME DmnIInv, QuietStep
  PROVE  DmnIInv'
  <1>1. DmnTyped' /\ LaunchIsBacked'
    BY QuietTyped, QuietLaunch DEF DmnIInv
  <1>2. /\ pipe' = pipe /\ box' = box /\ served' = served /\ refused' = refused
        /\ sent' = sent /\ asked' = asked /\ told' = told
        /\ owner \in {"joining", "joined"} => owner' \in {"joining", "joined"}
    BY QuietFrame
  <1>3. OneWakeUp' /\ NothingMadeUp'
    BY <1>2 DEF DmnIInv, OneWakeUp, NothingMadeUp, HasWakeUp, Wakes
  <1>4. NamesAreRight' /\ AnswersAreOwn'
    BY <1>2 DEF DmnIInv, NamesAreRight, AnswersAreOwn, IsKnown, Recipient
  <1> QED
    BY <1>1, <1>3, <1>4 DEF DmnIInv

-----------------------------------------------------------------------------
\* The steps that write, read or answer requests are not concerned by the
\* launch.
WakeUp == [ctrl |-> "UNBLOCK", type |-> "other", sender |-> "MODEM"]

LEMMA QueueLaunch ==
  ASSUME DmnTyped, LaunchIsBacked,
         \/ ServerProc \/ ProcPost \/ (UnblockProc /\ ServerUnblock) \/ Serve
         \/ (\E d \in Daemons : Request(d))
  PROVE  LaunchIsBacked'
  <1> USE DEF DmnTyped, LaunchIsBacked, LaunchedIsReady, flags
  <1>1. CASE ServerProc \/ ProcPost
    BY <1>1 DEF ServerProc, ProcResult, ProcPost
  <1>2. CASE UnblockProc /\ ServerUnblock
    BY <1>2 DEF UnblockProc, ServerUnblock
  <1>3. CASE Serve
    BY <1>3 DEF Serve
  <1>4. CASE \E d \in Daemons : Request(d)
    BY <1>4 DEF Request
  <1> QED
    BY <1>1, <1>2, <1>3, <1>4

\* A message that is written to the pipe: the request of a daemon, or the one
\* wake-up.
LEMMA WrittenKeeps ==
  ASSUME DmnIInv, NEW m \in Messages, pipe' = Append(pipe, m),
         box' = box, served' = served, refused' = refused,
         asked' \in [Daemons -> SUBSET Controls], \A d \in Daemons : asked[d] \subseteq asked'[d],
         IF m.ctrl = "UNBLOCK"
           THEN ~HasWakeUp /\ owner' = "joining" /\ sent' = sent
           ELSE owner' = owner /\ sent' = sent + 1,
         IsKnown(m) => m.sender \in Daemons /\ m.ctrl \in asked'[m.sender]
  PROVE  OneWakeUp' /\ NothingMadeUp' /\ NamesAreRight'
  <1> DEFINE n == Len(pipe)
  <1>1. /\ n \in Nat /\ Len(pipe') = n + 1 /\ pipe'[n + 1] = m
        /\ \A i \in 1..n : pipe'[i] = pipe[i]
    BY Appended DEF DmnIInv, DmnTyped
  <1> HIDE DEF n
  <1>2. \A i \in 1..Len(pipe') : i \in 1..n \/ i = n + 1
    BY <1>1
  <1>3. \A i \in 1..n : Wakes(i)' <=> Wakes(i)
    BY <1>1 DEF Wakes
  <1>4. \A i \in 1..Len(pipe') : i = n + 1 => (Wakes(i)' <=> m.ctrl = "UNBLOCK")
    BY <1>1 DEF Wakes
  <1>5. 1..n \subseteq 1..Len(pipe') /\ n + 1 \in 1..Len(pipe')
    BY <1>1
  <1>6. HasWakeUp <=> \E i \in 1..n : Wakes(i)
    BY DEF HasWakeUp, n
  <1>7. HasWakeUp' <=> (HasWakeUp \/ m.ctrl = "UNBLOCK")
    BY <1>2, <1>3, <1>4, <1>5, <1>6 DEF HasWakeUp
  <1>8. OneWakeUp'
    <2>1. HasWakeUp' => owner' \in {"joining", "joined"}
      BY <1>7 DEF DmnIInv, OneWakeUp
    <2>2. ASSUME NEW i \in 1..Len(pipe'), NEW j \in 1..Len(pipe'), Wakes(i)', Wakes(j)'
          PROVE  i = j
      <3>1. i \in 1..n /\ j \in 1..n => i = j
        BY <1>3, <2>2 DEF DmnIInv, OneWakeUp, n
      <3>2. i = n + 1 \/ j = n + 1 => ~HasWakeUp
        BY <1>4, <2>2
      <3> QED
        BY <1>2, <1>3, <1>6, <2>2, <3>1, <3>2
    <2> QED
      BY <2>1, <2>2 DEF OneWakeUp
  <1>9. NothingMadeUp'
    BY <1>1, <1>7 DEF DmnIInv, DmnTyped, NothingMadeUp, n
  <1>10. NamesAreRight'
    <2>1. ASSUME NEW i \in 1..Len(pipe'), IsKnown(pipe'[i])
          PROVE  pipe'[i].sender \in Daemons /\ pipe'[i].ctrl \in asked'[pipe'[i].sender]
      <3>1. CASE i \in 1..n
        <4>1. pipe[i].sender \in Daemons /\ pipe[i].ctrl \in asked[pipe[i].sender]
          BY <1>1, <2>1, <3>1 DEF DmnIInv, NamesAreRight, n
        <4> QED
          BY <1>1, <3>1, <4>1
      <3>2. CASE i = n + 1
        BY <1>1, <2>1, <3>2
      <3> QED
        BY <1>2, <3>1, <3>2
    <2>2. ASSUME NEW i \in 1..Len(box)
          PROVE  Recipient(box[i]) \in Daemons /\ box[i].ctrl \in asked'[Recipient(box[i])]
      BY DEF DmnIInv, NamesAreRight
    <2> QED
      BY <2>1, <2>2 DEF NamesAreRight, IsKnown, Recipient
  <1> QED
    BY <1>8, <1>9, <1>10

\* A message that leaves the pipe.
LEMMA ReadFrame ==
  ASSUME DmnIInv, pipe # <<>>, pipe' = Tail(pipe), owner' = owner
  PROVE  /\ OneWakeUp'
         /\ Len(pipe) \in Nat \ {0} /\ Len(pipe') = Len(pipe) - 1
         /\ HasWakeUp' => HasWakeUp /\ Head(pipe).ctrl # "UNBLOCK"
         /\ HasWakeUp => HasWakeUp' \/ Head(pipe).ctrl = "UNBLOCK"
         /\ \A i \in 1..Len(pipe') : i + 1 \in 1..Len(pipe) /\ pipe'[i] = pipe[i + 1]
         /\ Head(pipe) = pipe[1] /\ 1 \in 1..Len(pipe)
  <1> DEFINE n == Len(pipe')
  <1>1. /\ Len(pipe) \in Nat \ {0} /\ n = Len(pipe) - 1
        /\ \A i \in 1..n : pipe'[i] = pipe[i + 1]
        /\ Head(pipe) = pipe[1]
    BY Removed DEF DmnIInv, DmnTyped
  <1> HIDE DEF n
  <1>2. n \in Nat /\ Len(pipe) = n + 1
    BY <1>1
  <1>3. /\ \A i \in 1..n : i + 1 \in 1..Len(pipe) /\ i + 1 # 1
        /\ \A i \in 1..Len(pipe) : i = 1 \/ \E k \in 1..n : i = k + 1
        /\ 1 \in 1..Len(pipe)
    <2>1. \A i \in 1..(n + 1) : i = 1 \/ (i - 1 \in 1..n /\ i = (i - 1) + 1)
      BY <1>2
    <2> QED
      BY <1>2, <2>1
  <1>4. \A i \in 1..n : Wakes(i)' <=> Wakes(i + 1)
    BY <1>1 DEF Wakes
  <1>5. Wakes(1) <=> Head(pipe).ctrl = "UNBLOCK"
    BY <1>1 DEF Wakes
  <1>6. \A i, j \in 1..Len(pipe) : Wakes(i) /\ Wakes(j) => i = j
    BY DEF DmnIInv, OneWakeUp
  <1>7. HasWakeUp' <=> \E i \in 1..n : Wakes(i)'
    BY DEF HasWakeUp, n
  <1>8. HasWakeUp' => HasWakeUp /\ Head(pipe).ctrl # "UNBLOCK"
    BY <1>3, <1>4, <1>5, <1>6, <1>7 DEF HasWakeUp
  <1>9. HasWakeUp => HasWakeUp' \/ Head(pipe).ctrl = "UNBLOCK"
    BY <1>3, <1>4, <1>5, <1>7 DEF HasWakeUp
  <1>10. \A i, j \in 1..n : Wakes(i)' /\ Wakes(j)' => i = j
    <2>1. \A i, j \in 1..n : Wakes(i)' /\ Wakes(j)' => i + 1 = j + 1
      BY <1>3, <1>4, <1>6
    <2> QED
      BY <1>2, <2>1
  <1>11. OneWakeUp'
    BY <1>8, <1>10 DEF DmnIInv, OneWakeUp, n
  <1> QED
    BY <1>1, <1>3, <1>8, <1>9, <1>11 DEF n

\* loc_api_server_proc: a known request becomes a message of the adapter.
LEMMA ServerProcKeeps ==
  ASSUME DmnIInv, ServerProc
  PROVE  DmnIInv'
  <1>0. PICK m : m = Head(pipe)
    OBVIOUS
  <1>1. /\ pipe # <<>> /\ pipe' = Tail(pipe) /\ owner' = owner
        /\ box' = IF IsKnown(m) THEN Append(box, Made(m)) ELSE box
        /\ refused' = IF IsKnown(m) \/ m.ctrl = "UNBLOCK" THEN refused ELSE refused + 1
        /\ thread_exit' = thread_exit /\ thread_ready' = thread_ready
        /\ sent' = sent /\ served' = served /\ asked' = asked /\ told' = told
        /\ result' = result /\ queues' = queues /\ troubles' = troubles /\ server' = "test"
    BY <1>0 DEF ServerProc, Rest, ProcResult
  <1>2. /\ OneWakeUp'
        /\ Len(pipe) \in Nat \ {0} /\ Len(pipe') = Len(pipe) - 1
        /\ HasWakeUp' => HasWakeUp /\ m.ctrl # "UNBLOCK"
        /\ HasWakeUp => HasWakeUp' \/ m.ctrl = "UNBLOCK"
        /\ \A i \in 1..Len(pipe') : i + 1 \in 1..Len(pipe) /\ pipe'[i] = pipe[i + 1]
        /\ m = pipe[1] /\ 1 \in 1..Len(pipe)
    BY <1>0, <1>1, ReadFrame
  <1>3. pipe' \in Seq(Messages) /\ m \in Messages
    BY <1>0, <1>1, Removed DEF DmnIInv, DmnTyped
  <1>4. IsKnown(m) => m.ctrl # "UNBLOCK" /\ Made(m) \in Requests /\ Recipient(Made(m)) = m.sender
                        /\ Made(m).ctrl = m.ctrl
    BY DEF IsKnown, Controls, Made, Requests, Recipient
  <1>5. IsKnown(m) => /\ box' \in Seq(Requests) /\ Len(box') = Len(box) + 1
                      /\ \A i \in 1..Len(box) : box'[i] = box[i]
                      /\ box'[Len(box) + 1] = Made(m)
    BY <1>1, <1>4, Appended DEF DmnIInv, DmnTyped
  <1>6. Len(box) \in Nat /\ box \in Seq(Requests)
    BY DEF DmnIInv, DmnTyped
  <1>7. DmnTyped'
    <2>1. box' \in Seq(Requests) /\ refused' \in Nat
      BY <1>1, <1>5 DEF DmnIInv, DmnTyped
    <2> QED
      BY <1>1, <1>3, <2>1 DEF DmnIInv, DmnTyped
  <1>8. LaunchIsBacked'
    BY QueueLaunch DEF DmnIInv
  <1>9. NothingMadeUp'
    <2> DEFINE Read == Len(pipe) + Len(box) + served + refused
               Kept == Len(pipe') + Len(box') + served' + refused'
    <2>0. /\ Read \in Nat /\ sent \in Nat /\ Read <= sent + 1
          /\ ~HasWakeUp => Read <= sent
      BY <1>2, <1>6 DEF DmnIInv, DmnTyped, NothingMadeUp
    <2>1. /\ served' = served /\ sent' = sent
          /\ served \in Nat /\ refused \in Nat /\ refused' \in Nat
          /\ Len(pipe) \in Nat /\ Len(pipe') = Len(pipe) - 1
      BY <1>1, <1>2, <1>7 DEF DmnIInv, DmnTyped
    <2>2. CASE m.ctrl = "UNBLOCK"
      <3>1. Len(box') = Len(box) /\ refused' = refused /\ ~HasWakeUp'
        BY <1>1, <1>2, <1>4, <2>2
      <3>2. Kept = Read - 1
        BY <1>6, <2>1, <3>1
      <3> HIDE DEF Kept, Read
      <3>3. Kept <= sent' + 1 /\ Kept <= sent'
        BY <2>0, <2>1, <3>2
      <3> QED
        BY <3>3 DEF NothingMadeUp, Kept
    <2>3. CASE m.ctrl # "UNBLOCK"
      <3>1. \/ Len(box') = Len(box) + 1 /\ refused' = refused
            \/ Len(box') = Len(box) /\ refused' = refused + 1
        BY <1>1, <1>5, <2>3
      <3>2. Kept = Read
        BY <1>6, <2>1, <3>1
      <3>3. HasWakeUp => HasWakeUp'
        BY <1>2, <2>3
      <3> HIDE DEF Kept, Read
      <3>4. Kept <= sent' + 1 /\ (~HasWakeUp' => Kept <= sent')
        BY <2>0, <2>1, <3>2, <3>3
      <3> QED
        BY <3>4 DEF NothingMadeUp, Kept
    <2> QED
      BY <2>2, <2>3
  <1>10. NamesAreRight'
    <2>1. ASSUME NEW i \in 1..Len(pipe'), IsKnown(pipe'[i])
          PROVE  pipe'[i].sender \in Daemons /\ pipe'[i].ctrl \in asked[pipe'[i].sender]
      <3>1. i + 1 \in 1..Len(pipe) /\ pipe'[i] = pipe[i + 1]
        BY <1>2
      <3> QED
        BY <2>1, <3>1 DEF DmnIInv, NamesAreRight
    <2>2. ASSUME NEW i \in 1..Len(box')
          PROVE  Recipient(box'[i]) \in Daemons /\ box'[i].ctrl \in asked[Recipient(box'[i])]
      <3>1. CASE i \in 1..Len(box) /\ box'[i] = box[i]
        BY <3>1 DEF DmnIInv, NamesAreRight
      <3>2. CASE IsKnown(m) /\ box'[i] = Made(m)
        BY <1>2, <1>4, <3>2 DEF DmnIInv, NamesAreRight
      <3>3. CASE IsKnown(m)
        <4>1. i \in 1..Len(box) \/ i = Len(box) + 1
          BY <1>5, <1>6, <3>3
        <4> QED
          BY <1>5, <3>1, <3>2, <3>3, <4>1
      <3>4. CASE ~IsKnown(m)
        BY <1>1, <3>1, <3>4
      <3> QED
        BY <3>3, <3>4
    <2> QED
      BY <1>1, <2>1, <2>2 DEF NamesAreRight, IsKnown, Recipient
  <1>11. AnswersAreOwn'
    BY <1>1 DEF DmnIInv, AnswersAreOwn
  <1> QED
    BY <1>2, <1>7, <1>8, <1>9, <1>10, <1>11 DEF DmnIInv

\* loc_api_server_proc_post: what still waits is lost.
LEMMA PostKeeps ==
  ASSUME DmnIInv, ProcPost
  PROVE  DmnIInv'
  <1>1. /\ pipe' = <<>> /\ queues' = "removed" /\ server' = "ended"
        /\ box' = box /\ served' = served /\ refused' = refused /\ sent' = sent
        /\ asked' = asked /\ told' = told /\ owner' = owner /\ result' = result
        /\ troubles' = troubles /\ thread_exit' = thread_exit /\ thread_ready' = thread_ready
    BY DEF ProcPost, flags, Daemon
  <1>2. pipe' \in Seq(Messages) /\ Len(pipe') = 0 /\ Len(pipe) \in Nat
    BY <1>1 DEF DmnIInv, DmnTyped
  <1>3. DmnTyped'
    BY <1>1, <1>2 DEF DmnIInv, DmnTyped
  <1>4. LaunchIsBacked'
    BY QueueLaunch DEF DmnIInv
  <1>5. OneWakeUp' /\ ~HasWakeUp'
    BY <1>2 DEF OneWakeUp, HasWakeUp
  <1>6. NothingMadeUp'
    <2>1. Len(box) \in Nat
      BY DEF DmnIInv, DmnTyped
    <2>2. CASE HasWakeUp
      <3>1. Len(pipe) # 0
        BY <2>2 DEF HasWakeUp
      <3> QED
        BY <1>1, <1>2, <2>1, <3>1 DEF DmnIInv, DmnTyped, NothingMadeUp
    <2>3. CASE ~HasWakeUp
      BY <1>1, <1>2, <2>1, <2>3 DEF DmnIInv, DmnTyped, NothingMadeUp
    <2> QED
      BY <2>2, <2>3
  <1>7. NamesAreRight'
    BY <1>1, <1>2 DEF DmnIInv, NamesAreRight, Recipient
  <1>8. AnswersAreOwn'
    BY <1>1 DEF DmnIInv, AnswersAreOwn
  <1> QED
    BY <1>3, <1>4, <1>5, <1>6, <1>7, <1>8 DEF DmnIInv

\* loc_eng_dmn_conn_unblock_proc: once, by the owner that goes on to join.
LEMMA UnblockKeeps ==
  ASSUME DmnIInv, UnblockProc, ServerUnblock
  PROVE  DmnIInv'
  <1>1. /\ owner = "exiting" /\ owner' = "joining" /\ thread_exit' = thread_exit
        /\ pipe' = IF queues = "open" THEN Append(pipe, WakeUp) ELSE pipe
        /\ box' = box /\ served' = served /\ refused' = refused /\ sent' = sent
        /\ asked' = asked /\ told' = told /\ result' = result /\ server' = server
        /\ troubles' = troubles /\ thread_ready' = thread_ready /\ queues' = queues
    BY DEF UnblockProc, ServerUnblock, Written, WakeUp, Daemon
  <1>2. WakeUp \in Messages /\ ~IsKnown(WakeUp) /\ WakeUp.ctrl = "UNBLOCK"
    BY DEF WakeUp, Messages, Controls, Types, Senders, IsKnown
  <1>3. ~HasWakeUp
    BY <1>1 DEF DmnIInv, OneWakeUp
  <1>4. pipe' \in Seq(Messages)
    BY <1>1, <1>2, Appended DEF DmnIInv, DmnTyped
  <1>5. DmnTyped'
    BY <1>1, <1>4 DEF DmnIInv, DmnTyped
  <1>6. LaunchIsBacked'
    BY QueueLaunch DEF DmnIInv
  <1>7. OneWakeUp' /\ NothingMadeUp' /\ NamesAreRight'
    <2>1. CASE queues = "open"
      <3>1. pipe' = Append(pipe, WakeUp)
        BY <1>1, <2>1
      <3>2. /\ asked' \in [Daemons -> SUBSET Controls]
            /\ \A d \in Daemons : asked[d] \subseteq asked'[d]
        BY <1>1 DEF DmnIInv, DmnTyped
      <3> QED
        BY <1>1, <1>2, <1>3, <3>1, <3>2, WrittenKeeps
    <2>2. CASE queues # "open"
      BY <1>1, <2>2 DEF DmnIInv, OneWakeUp, NothingMadeUp, NamesAreRight, HasWakeUp, Wakes,
                        IsKnown, Recipient
    <2> QED
      BY <2>1, <2>2
  <1>8. AnswersAreOwn'
    BY <1>1 DEF DmnIInv, AnswersAreOwn
  <1> QED
    BY <1>5, <1>6, <1>7, <1>8 DEF DmnIInv

\* A daemon's request.
LEMMA RequestKeeps ==
  ASSUME DmnIInv, NEW d \in Daemons, Request(d)
  PROVE  DmnIInv'
  <1> DEFINE Writable == [ctrl : Controls \cup {"other"}, type : Types \cup {"other"},
                          sender : Senders \cup {"MODEM"}]
  <1>1. PICK m \in Writable :
          /\ pipe' = Append(pipe, m)
          /\ \/ /\ m.sender = d /\ m.ctrl \in Controls
                /\ asked' = [asked EXCEPT ![d] = @ \cup {m.ctrl}]
             \/ ~IsKnown(m) /\ asked' = asked
    <2>1. PICK ctrl \in Controls :
            \/ /\ pipe' = Append(pipe, [ctrl |-> ctrl, type |-> "ANY", sender |-> d])
               /\ asked' = [asked EXCEPT ![d] = @ \cup {ctrl}]
            \/ /\ \E m \in Unknown(ctrl, d) : pipe' = Append(pipe, m)
               /\ asked' = asked
      BY DEF Request
    <2>2. d \in Senders
      BY DmnAssumption
    <2>3. CASE /\ pipe' = Append(pipe, [ctrl |-> ctrl, type |-> "ANY", sender |-> d])
               /\ asked' = [asked EXCEPT ![d] = @ \cup {ctrl}]
      <3> [ctrl |-> ctrl, type |-> "ANY", sender |-> d] \in Writable
        BY <2>2 DEF Types
      <3> QED
        BY <2>3
    <2>4. ASSUME NEW m \in Unknown(ctrl, d)
          PROVE  m \in Writable /\ ~IsKnown(m)
      BY <2>2 DEF Unknown, IsKnown, Types, Controls, Senders
    <2> QED
      BY <2>1, <2>3, <2>4
  <1>2. m \in Messages /\ m.ctrl # "UNBLOCK"
    BY DEF Messages, Controls
  <1>3. /\ sent < MaxRequests /\ sent' = sent + 1 /\ owner' = owner /\ result' = result
        /\ server' = server /\ queues' = queues /\ box' = box /\ served' = served
        /\ refused' = refused /\ told' = told /\ troubles' = troubles
        /\ thread_exit' = thread_exit /\ thread_ready' = thread_ready
    BY DEF Request, flags
  <1>4. /\ asked' \in [Daemons -> SUBSET Controls]
        /\ \A e \in Daemons : asked[e] \subseteq asked'[e]
        /\ IsKnown(m) => m.sender \in Daemons /\ m.ctrl \in asked'[m.sender]
    <2>1. asked \in [Daemons -> SUBSET Controls]
      BY DEF DmnIInv, DmnTyped
    <2> QED
      BY <1>1, <2>1
  <1>5. OneWakeUp' /\ NothingMadeUp' /\ NamesAreRight'
    BY <1>1, <1>2, <1>3, <1>4, WrittenKeeps
  <1>6. pipe' \in Seq(Messages)
    BY <1>1, <1>2, Appended DEF DmnIInv, DmnTyped
  <1>7. sent' \in Nat /\ sent' <= MaxRequests
    BY <1>3, DmnAssumption DEF DmnIInv, DmnTyped
  <1>8. DmnTyped'
    BY <1>3, <1>4, <1>6, <1>7 DEF DmnIInv, DmnTyped
  <1>9. LaunchIsBacked'
    BY QueueLaunch DEF DmnIInv
  <1>10. AnswersAreOwn'
    BY <1>3, <1>4 DEF DmnIInv, AnswersAreOwn
  <1> QED
    BY <1>5, <1>8, <1>9, <1>10 DEF DmnIInv

\* What a subscriber may be told of a request is an answer to what it asked.
LEMMA WordsAreAnswers ==
  ASSUME NEW m \in Requests, NEW status \in Statuses(m.ctrl)
  PROVE  /\ Words(m, status) \subseteq Results
         /\ Words(m, status) \cap {"REQUEST_SUCCESS", "FAILURE"} # {} => m.ctrl = "REQUEST"
  <1>1. m.ctrl \in {"REQUEST", "RELEASE"}
    BY DEF Requests, Controls
  <1>2. status \in {"GRANTED", "DENIED"} => m.ctrl = "REQUEST"
    BY <1>1 DEF Statuses
  <1>3. status \in {"GRANTED", "DENIED", "RELEASED", "none", "UNSUBSCRIBE"}
    BY <1>1 DEF Statuses
  <1>4. CASE status \in {"GRANTED", "DENIED"}
    BY <1>2, <1>4 DEF Words, Results
  <1>5. CASE status \in {"RELEASED", "none"}
    BY <1>5 DEF Words, Results
  <1>6. CASE status = "UNSUBSCRIBE"
    BY <1>6 DEF Words, Results
  <1> QED
    BY <1>3, <1>4, <1>5, <1>6

\* The adapter processes its oldest request.
LEMMA ServeKeeps ==
  ASSUME DmnIInv, Serve
  PROVE  DmnIInv'
  <1>0. PICK m : m = Head(box)
    OBVIOUS
  <1>1. /\ box # <<>> /\ box' = Tail(box) /\ served' = served + 1
        /\ pipe' = pipe /\ sent' = sent /\ refused' = refused /\ asked' = asked
        /\ thread_exit' = thread_exit /\ thread_ready' = thread_ready /\ owner' = owner
        /\ result' = result /\ queues' = queues /\ troubles' = troubles /\ server' = server
    BY DEF Serve, flags
  <1>2. /\ box' \in Seq(Requests)
        /\ Len(box) \in Nat \ {0} /\ Len(box') = Len(box) - 1
        /\ \A i \in 1..Len(box') : box'[i] = box[i + 1]
        /\ m = box[1] /\ m \in Requests
    BY <1>0, <1>1, Removed DEF DmnIInv, DmnTyped
  <1>3. Recipient(m) \in Daemons /\ m.ctrl \in asked[Recipient(m)]
    BY <1>2 DEF DmnIInv, NamesAreRight
  <1>4. PICK status \in Statuses(m.ctrl) : DataConn(Recipient(m), Words(m, status))
    BY <1>0 DEF Serve
  <1>5. PICK words : words = Words(m, status)
    OBVIOUS
  <1>6. /\ words \subseteq Results
        /\ words \cap {"REQUEST_SUCCESS", "FAILURE"} # {} => m.ctrl = "REQUEST"
    BY <1>2, <1>5, WordsAreAnswers
  <1>7. told \in [Daemons -> SUBSET Results]
    BY DEF DmnIInv, DmnTyped
  <1>8. /\ told' \in [Daemons -> SUBSET Results]
        /\ \A d \in Daemons : \/ told'[d] = told[d]
                              \/ d = Recipient(m) /\ told'[d] = told[d] \cup words
    BY <1>3, <1>4, <1>5, <1>6, <1>7 DEF DataConn
  <1>9. DmnTyped'
    BY <1>1, <1>2, <1>8 DEF DmnIInv, DmnTyped
  <1>10. LaunchIsBacked'
    BY QueueLaunch DEF DmnIInv
  <1>11. OneWakeUp' /\ NothingMadeUp'
    <2>1. Len(box') + served' = Len(box) + served /\ Len(pipe) \in Nat
      BY <1>1, <1>2 DEF DmnIInv, DmnTyped
    <2>2. Len(box') \in Nat
      BY <1>2
    <2> QED
      BY <1>1, <1>2, <2>1, <2>2
      DEF DmnIInv, DmnTyped, OneWakeUp, NothingMadeUp, HasWakeUp, Wakes
  <1>12. NamesAreRight'
    <2>1. \A i \in 1..Len(box') : i + 1 \in 1..Len(box) /\ box'[i] = box[i + 1]
      BY <1>2
    <2>2. ASSUME NEW i \in 1..Len(box')
          PROVE  Recipient(box'[i]) \in Daemons /\ box'[i].ctrl \in asked[Recipient(box'[i])]
      BY <2>1 DEF DmnIInv, NamesAreRight
    <2> QED
      BY <1>1, <2>2 DEF DmnIInv, NamesAreRight, IsKnown, Recipient
  <1>13. AnswersAreOwn'
    <2>1. ASSUME NEW d \in Daemons
          PROVE  /\ told'[d] # {} => asked[d] # {}
                 /\ told'[d] \cap {"REQUEST_SUCCESS", "FAILURE"} # {} => "REQUEST" \in asked[d]
      BY <1>3, <1>6, <1>8 DEF DmnIInv, AnswersAreOwn
    <2> QED
      BY <1>1, <2>1 DEF AnswersAreOwn
  <1> QED
    BY <1>9, <1>10, <1>11, <1>12, <1>13 DEF DmnIInv

LEMMA DmnInductive == DmnIInv /\ [DmnNext]_dmnVars => DmnIInv'
  <1> SUFFICES ASSUME DmnIInv, [DmnNext]_dmnVars PROVE DmnIInv'
    OBVIOUS
  <1>1. CASE ServerUnblock
    BY <1>1, QuietKeeps, UnblockKeeps DEF ServerUnblock, QuietStep
  <1>2. CASE ThelperMain
    BY <1>2, QuietKeeps, ServerProcKeeps, PostKeeps DEF ThelperMain, QuietStep
  <1>3. CASE Create \/ SignalWait \/ OwnerWakes \/ Launched \/ ProcFails \/ Join
    BY <1>3, QuietKeeps DEF QuietStep
  <1>4. CASE UNCHANGED dmnVars
    BY <1>4, QuietKeeps DEF QuietStep
  <1>5. CASE Serve
    BY <1>5, ServeKeeps
  <1>6. CASE \E d \in Daemons : Request(d)
    BY <1>6, RequestKeeps
  <1> QED
    BY <1>1, <1>2, <1>3, <1>4, <1>5, <1>6 DEF DmnNext

\* loc_eng_dmn_conn_launch_thelper and loc_api_server_proc: a launch that
\* succeeded has its pipes if they could be made, what is read of the pipe was
\* written to it once, and answers find the daemon that asked.
THEOREM LaunchStaysSound == DmnSpec => []LaunchIsSound
  <1>1. DmnIInv => LaunchIsSound
    <2> SUFFICES ASSUME DmnIInv PROVE LaunchIsSound
      OBVIOUS
    <2>1. Len(pipe) \in Nat /\ Len(box) \in Nat
      BY DEF DmnIInv, DmnTyped
    <2>2. HasWakeUp => Len(pipe) # 0
      BY <2>1 DEF HasWakeUp
    <2>3. Len(box) + served + refused <= sent
      BY <2>1, <2>2 DEF DmnIInv, DmnTyped, NothingMadeUp
    <2> QED
      BY <2>3 DEF DmnIInv, DmnTyped, LaunchIsBacked, LaunchIsSound, DmnTypeOK
  <1> QED
    BY DmnInitial, DmnInductive, <1>1, PTL DEF DmnSpec
=============================================================================
