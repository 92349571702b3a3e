------------------------------ MODULE AgpsNif ------------------------------
(***************************************************************************)
(* An AgpsStateMachine composed with the connectivity service of the       *)
(* framework it leases its interface from.  Requests go out through        *)
(* agps_status_cb, in order; the answers come back as messages             *)
(* (LocEngAtlOpenSuccess, LocEngAtlClosed, LocEngAtlOpenFailed) in the     *)
(* adapter's FIFO queue, so each may arrive after the machine has moved    *)
(* on: a GRANTED for a request that was given up, a RELEASED that crosses  *)
(* a new REQUEST.                                                          *)
(***************************************************************************)
EXTENDS AgpsStateMachine

CONSTANT
  MaxInFlight  \* bound: nobody asks while this many requests and answers wait

ASSUME NifAssumption == MaxInFlight \in Nat \ {0}

VARIABLES
  lease,    \* external: "up" while the service keeps the interface up for us
  answers   \* answers queued for the adapter's thread, oldest first

nvars == <<vars, lease, answers>>

Answers == {"GRANTED", "RELEASED", "DENIED"}

NInit == Init /\ lease = "down" /\ answers = <<>>

MayAsk == Len(outbox) + Len(answers) < MaxInFlight

Ask(s)   == MayAsk /\ SubscribeRsrc(s)   /\ UNCHANGED <<lease, answers>>
Leave(s) == MayAsk /\ UnsubscribeRsrc(s) /\ UNCHANGED <<lease, answers>>

EngineUp == DropAllSubscribers /\ UNCHANGED <<lease, answers>>

(***************************************************************************)
(* External: the service answers requests in the order they came.  It may  *)
(* refuse an interface that is not up, and may lose one that is.           *)
(***************************************************************************)
Answer(request, after, answer) ==
  /\ outbox # <<>> /\ Head(outbox) = request
  /\ TakeRequest
  /\ lease' = after
  /\ answers' = Append(answers, answer)

\* It names the access point: loc_eng_agps_open drops a NULL one (README, known
\* divergences).
Grant == Answer("REQUEST", "up", "GRANTED")
Deny  == lease = "down" /\ Answer("REQUEST", "down", "DENIED")
Close == Answer("RELEASE", "down", "RELEASED")

\* A release of an interface that is not up may be passed over in silence.
CloseNothing ==
  /\ outbox # <<>> /\ Head(outbox) = "RELEASE"
  /\ lease = "down"
  /\ TakeRequest
  /\ UNCHANGED <<lease, answers>>

LoseLease ==
  /\ lease = "up"
  /\ Len(outbox) + Len(answers) < MaxInFlight
  /\ lease' = "down"
  /\ answers' = Append(answers, "RELEASED")
  /\ UNCHANGED vars

\* The adapter's thread processes the oldest answer.
Deliver ==
  /\ answers # <<>>
  /\ answers' = Tail(answers)
  /\ OnRsrcEvent(Head(answers))
  /\ UNCHANGED lease

NNext ==
  \/ \E s \in Clients : Ask(s) \/ Leave(s)
  \/ EngineUp
  \/ Grant \/ Deny \/ Close \/ CloseNothing \/ LoseLease
  \/ Deliver

NSpec == NInit /\ [][NNext]_nvars

\* The service answers every request (agps_status_cb is a contract with the
\* framework) and the adapter's thread processes every message.
Service == Grant \/ Deny \/ Close \/ CloseNothing
NFairSpec == NSpec /\ WF_nvars(Service) /\ WF_nvars(Deliver)

(***************************************************************************)
(* Properties                                                              *)
(***************************************************************************)
InQueue(q, S) == \E i \in 1..Len(q) : q[i] \in S

\* The composition keeps the types.
NTypeOK ==
  /\ TypeOK
  /\ lease \in {"up", "down"}
  /\ answers \in Seq(Answers)

\* While the machine is Pending, an answer that ends Pending is on its way,
\* whatever stale answers came before it: it cannot wait for ever.
PendingIsAnswered ==
  mState = "Pending" => InQueue(outbox, {"REQUEST"}) \/ InQueue(answers, {"GRANTED", "DENIED"})

\* The same for Releasing and the RELEASED it waits for.
ReleasingIsAnswered ==
  mState = "Releasing" => InQueue(outbox, {"RELEASE"}) \/ InQueue(answers, {"RELEASED", "DENIED"})

\* No state of the machine waits for nothing.
WaitIsAnswered == PendingIsAnswered /\ ReleasingIsAnswered

\* The machine never believes it holds an interface that the service has taken
\* down, unless the news is already in its queue.
AcquiredIsLeased ==
  mState = "Acquired" => lease = "up" \/ InQueue(answers, {"RELEASED"})

\* Every subscriber that waits, for an interface or for the completion of its
\* close, is told something, or leaves.
Answered ==
  \A word \in {"requested", "closing"} : \A s \in Ids :
    view[s] = word ~> view[s] # word
=============================================================================
