------------------------------ MODULE Mailbox ------------------------------
(***************************************************************************)
(* What a MsgTask promises to those who send to it, with neither thread,   *)
(* nor lock, nor condition variable: messages get tickets in the order in  *)
(* which they are accepted and are processed in the order of the tickets,  *)
(* each before the next, until the task is deleted.                        *)
(***************************************************************************)
EXTENDS Integers

CONSTANT Msgs

VARIABLES ticket, done

mvars == <<ticket, done>>

Init == ticket = [m \in Msgs |-> 0] /\ done = {}

\* The new ticket is the next after those that were given.
Accept(m) ==
  /\ ticket[m] = 0
  /\ \A o \in Msgs : ticket[o] < ticket'[m]
  /\ ticket'[m] = 1 \/ \E o \in Msgs : ticket'[m] = ticket[o] + 1
  /\ ticket' = [ticket EXCEPT ![m] = ticket'[m]]
  /\ UNCHANGED done

\* Everything that was accepted before m has been processed.
Serve(m) ==
  /\ ticket[m] # 0 /\ m \notin done
  /\ \A o \in Msgs : ticket[o] \in 1..(ticket[m] - 1) => o \in done
  /\ done' = done \cup {m}
  /\ UNCHANGED ticket

Next == \E m \in Msgs : Accept(m) \/ Serve(m)

Spec == Init /\ [][Next]_mvars
=============================================================================
