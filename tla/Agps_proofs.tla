---------------------------- MODULE Agps_proofs ----------------------------
(***************************************************************************)
(* Theorems about the AGPS machines, for every set of subscribers.         *)
(*                                                                         *)
(* First a machine in an arbitrary environment (AgpsStateMachine).  The    *)
(* inductive invariant adds to the properties the one fact they rest on:   *)
(* only the wifi_nif machine has subscribers that wait for the close, and  *)
(* since it admits one subscriber, those in the list are all active or, in *)
(* Releasing, all inactive.                                                *)
(*                                                                         *)
(* Then a machine composed with the connectivity service (AgpsNif): no     *)
(* state that waits for the service waits for nothing, and the machine     *)
(* never believes in an interface that is gone without the news queued.    *)
(***************************************************************************)
EXTENDS AgpsNif, TLAPS

\* Active and inactive subscribers are never in the list at once.
ListMatchesState ==
  /\ mState \in {"Pending", "Acquired"} => Inactive(subs) = {}
  /\ mState = "Releasing" => mEnforceSingleSubscriber /\ Active(subs) = {} /\ Inactive(subs) # {}

\* Nobody is in the list of a machine that is not theirs.
ListedAreClients == Listed(subs) \subseteq Clients

IInv ==
  /\ TypeOK
  /\ ListedAreClients
  /\ ReleasedIsEmpty
  /\ ListMatchesState
  /\ OneSubscriber
  /\ GrantedIsServed
  /\ RequestedIsRemembered
  /\ ClosingIsAwaited

LEMMA InitIInv == Init => IInv
  BY DEF Init, IInv, TypeOK, States, Listing, Views, Requests, ReleasedIsEmpty,
     ListMatchesState, ListedAreClients, Clients, OneSubscriber, GrantedIsServed,
     RequestedIsRemembered,
     ClosingIsAwaited, Listed, Active, Inactive

\* The requests in the outbox stay requests.
LEMMA OutboxType ==
  ASSUME NEW l, TypeOK
  PROVE  /\ RsrcRequest("REQUEST", l) \in Seq(Requests)
         /\ RsrcRequest("RELEASE", l) \in Seq(Requests)
  BY DEF RsrcRequest, TypeOK, Requests

LEMMA SubscribeIInv ==
  ASSUME IInv, NEW s \in Ids, s \in Clients, SubscribeRsrc(s)
  PROVE  IInv'
<1> USE DEF IInv, TypeOK, States, Listing, Views, ReleasedIsEmpty,
            ListMatchesState, ListedAreClients, Clients, OneSubscriber, GrantedIsServed,
            RequestedIsRemembered, ClosingIsAwaited, Listed, Active, Inactive,
            Tell, AddSubscriber, Admitted
<1>1. CASE Refuse(s)
  BY <1>1 DEF Refuse
<1>2. CASE SubscribeReleased(s)
  <2>1. outbox' \in Seq(Requests)
    BY <1>2, OutboxType DEF SubscribeReleased
  <2>2. QED
    BY <1>2, <2>1 DEF SubscribeReleased
<1>3. CASE SubscribeUnanswered(s)
  BY <1>3, WaitersAssumption DEF SubscribeUnanswered
<1>4. CASE SubscribeAcquired(s)
  BY <1>4, WaitersAssumption DEF SubscribeAcquired
<1>5. QED
  BY <1>1, <1>2, <1>3, <1>4 DEF SubscribeRsrc

LEMMA UnsubscribeIInv ==
  ASSUME IInv, NEW s \in Ids, s \in Clients, UnsubscribeRsrc(s)
  PROVE  IInv'
<1> USE DEF IInv, TypeOK, States, Listing, Views, ReleasedIsEmpty,
            ListMatchesState, ListedAreClients, Clients, OneSubscriber, GrantedIsServed,
            RequestedIsRemembered, ClosingIsAwaited, Listed, Active, Inactive,
            Tell, Remove, AfterUnsubscribe, Unsubscribed
<1>1. outbox' \in Seq(Requests) /\ UNCHANGED mEnforceSingleSubscriber
  BY OutboxType DEF UnsubscribeRsrc, Unused
<1>2. mState # "Released"
  BY DEF UnsubscribeRsrc, Unused
<1>3. CASE s \in Waiters
  <2>1. mEnforceSingleSubscriber
    BY <1>3, WaitersAssumption
  <2>2. subs' = [subs EXCEPT ![s] = "inactive"]
          /\ view' = [t \in Ids |-> IF t \in {s} THEN "closing" ELSE view[t]]
    BY <1>2, <1>3 DEF UnsubscribeRsrc, Unused
  <2>3. \A t \in Ids : t # s => subs[t] = "absent"
    BY <2>1 DEF UnsubscribeRsrc, Unused
  <2>4. mState' = "Releasing"
    BY <1>2, <2>2, <2>3 DEF UnsubscribeRsrc, Unused
  <2>5. QED
    BY <1>1, <2>1, <2>2, <2>3, <2>4
<1>4. CASE s \notin Waiters
  <2>1. subs' = [t \in Ids |-> IF t \in {s} THEN "absent" ELSE subs[t]]
          /\ view' = [t \in Ids |-> IF t \in {s} THEN "idle" ELSE view[t]]
    BY <1>2, <1>4 DEF UnsubscribeRsrc, Unused
  <2>2. Listed(subs') = {} => mState' = "Released"
    BY <1>2 DEF UnsubscribeRsrc, Unused
  <2>3. CASE Listed(subs') # {}
    <3>1. PICK t \in Ids : t # s /\ subs[t] # "absent"
      BY <2>1, <2>3
    <3>2. ~mEnforceSingleSubscriber
      BY <3>1 DEF UnsubscribeRsrc, Unused
    <3>3. mState \in {"Pending", "Acquired"}
      BY <1>2, <3>2
    <3>4. Active(subs') # {}
      BY <2>1, <3>1, <3>3
    <3>5. mState' = mState
      BY <1>2, <2>3, <3>4 DEF UnsubscribeRsrc, Unused
    <3>6. QED
      BY <1>1, <2>1, <3>2, <3>3, <3>5
  <2>4. CASE Listed(subs') = {}
    BY <1>1, <2>1, <2>2, <2>4
  <2>5. QED
    BY <2>3, <2>4
<1>5. QED
  BY <1>3, <1>4

LEMMA EventIInv ==
  ASSUME IInv, NEW event \in {"GRANTED", "RELEASED", "DENIED"}, OnRsrcEvent(event)
  PROVE  IInv'
<1> USE DEF IInv, TypeOK, States, Listing, Views, ReleasedIsEmpty,
            ListMatchesState, ListedAreClients, Clients, OneSubscriber, GrantedIsServed,
            RequestedIsRemembered, ClosingIsAwaited, Listed, Active, Inactive,
            Tell, Remove
<1>1. CASE OnGranted
  BY <1>1 DEF OnGranted
<1>2. CASE LoseAll
  BY <1>2 DEF LoseAll
<1>3. CASE mState = "Releasing" /\ CloseComplete
  <2>1. Active(subs') = {}
    BY <1>3 DEF CloseComplete
  <2>2. QED
    BY <1>3, <2>1 DEF CloseComplete
<1>4. CASE UNCHANGED vars
  BY <1>4 DEF vars
<1>5. QED
  BY <1>1, <1>2, <1>3, <1>4 DEF OnRsrcEvent, OnReleased, OnDenied

LEMMA DropIInv ==
  ASSUME IInv, DropAllSubscribers
  PROVE  IInv'
  BY DEF IInv, TypeOK, States, Listing, Views, ReleasedIsEmpty, ListMatchesState, ListedAreClients, Clients,
     OneSubscriber, GrantedIsServed, RequestedIsRemembered, ClosingIsAwaited,
     Listed, Active, Inactive, Tell, Remove, DropAllSubscribers

LEMMA TakeIInv ==
  ASSUME IInv, TakeRequest
  PROVE  IInv'
<1>1. outbox' \in Seq(Requests)
  BY DEF IInv, TypeOK, TakeRequest
<1>2. QED
  BY <1>1 DEF IInv, TypeOK, ReleasedIsEmpty, ListMatchesState, ListedAreClients, Clients, OneSubscriber,
     GrantedIsServed, RequestedIsRemembered, ClosingIsAwaited, TakeRequest

LEMMA NextIInv == IInv /\ [Next]_vars => IInv'
<1> SUFFICES ASSUME IInv, [Next]_vars
             PROVE  IInv'
  OBVIOUS
<1>1. CASE UNCHANGED vars
  BY <1>1 DEF vars, IInv, TypeOK, ReleasedIsEmpty, ListMatchesState, ListedAreClients, Clients, OneSubscriber,
     GrantedIsServed, RequestedIsRemembered, ClosingIsAwaited
<1>2. CASE Next
  BY <1>2, SubscribeIInv, UnsubscribeIInv, EventIInv, DropIInv, TakeIInv DEF Next, Clients
<1>3. QED
  BY <1>1, <1>2

\* Every reachable state of an AgpsStateMachine satisfies the inductive
\* invariant.
THEOREM Invariance == Spec => []IInv
  BY InitIInv, NextIInv, PTL DEF Spec

\* The state, the list and the views keep their types.
THEOREM TypeCorrect == Spec => []TypeOK
<1>1. IInv => TypeOK
  BY DEF IInv
<1>2. QED
  BY <1>1, Invariance, PTL

\* AgpsReleasedState never finds a subscriber in its list.
THEOREM ReleasedStaysEmpty == Spec => []ReleasedIsEmpty
<1>1. IInv => ReleasedIsEmpty
  BY DEF IInv
<1>2. QED
  BY <1>1, Invariance, PTL

\* Nobody is forgotten: whoever was granted the interface, waits for it or
\* waits for its close is in the list, and in a state that will reach it.
THEOREM NobodyForgotten == Spec => []NobodyIsForgotten
<1>1. IInv => NobodyIsForgotten
  BY DEF IInv, NobodyIsForgotten
<1>2. QED
  BY <1>1, Invariance, PTL

\* wifi_nif never lists two subscribers.
THEOREM AtMostOneSubscriber == Spec => []OneSubscriber
<1>1. IInv => OneSubscriber
  BY DEF IInv
<1>2. QED
  BY <1>1, Invariance, PTL

-----------------------------------------------------------------------------
\* Only UnsubscribeRsrc hands a RELEASE to the framework, and then nobody is
\* left in the list but subscribers that are closing.
LEMMA ReleaseStep ==
  ASSUME IInv, Next, outbox' = Append(outbox, "RELEASE")
  PROVE  \A s \in Ids : view'[s] \notin {"requested", "granted"}
<1>1. Len(outbox') = Len(outbox) + 1 /\ outbox'[Len(outbox')] = "RELEASE"
  BY DEF IInv, TypeOK, Requests
<1>2. ASSUME NEW s \in Ids, s \in Clients, SubscribeRsrc(s)
      PROVE  FALSE
  <2>1. outbox' = outbox \/ outbox' = Append(outbox, "REQUEST")
    BY <1>2 DEF SubscribeRsrc, Refuse, SubscribeReleased, SubscribeUnanswered,
       SubscribeAcquired, RsrcRequest
  <2>2. QED
    BY <1>1, <2>1 DEF IInv, TypeOK, Requests
<1>3. ASSUME NEW s \in Ids, s \in Clients, UnsubscribeRsrc(s)
      PROVE  \A t \in Ids : view'[t] \notin {"requested", "granted"}
  <2>1. IInv'
    BY <1>3, UnsubscribeIInv
  <2>2. outbox' # outbox
    BY <1>1 DEF IInv, TypeOK
  <2>3. Active(subs') = {}
    BY <1>3, <2>2 DEF UnsubscribeRsrc, Unused
  <2>4. QED
    BY <2>1, <2>3 DEF IInv, GrantedIsServed, RequestedIsRemembered, Active
<1>4. ASSUME NEW event \in {"GRANTED", "RELEASED", "DENIED"}, OnRsrcEvent(event)
      PROVE  FALSE
  <2>1. outbox' = outbox \/ outbox' = Append(outbox, "REQUEST")
    BY <1>4 DEF OnRsrcEvent, OnGranted, OnReleased, OnDenied, LoseAll,
       CloseComplete, RsrcRequest, vars
  <2>2. QED
    BY <1>1, <2>1 DEF IInv, TypeOK, Requests
<1>5. ~DropAllSubscribers
  BY <1>1 DEF DropAllSubscribers, IInv, TypeOK
<1>6. ~TakeRequest
  BY <1>1 DEF TakeRequest, IInv, TypeOK
<1>7. QED
  BY <1>2, <1>3, <1>4, <1>5, <1>6 DEF Next, Clients

\* The framework is told to release the interface only when nobody holds it or
\* waits for it any more.
THEOREM NeverReleasedInUse == Spec => ReleaseWhenUnused
<1>1. IInv /\ [Next]_vars
        => [outbox' = Append(outbox, "RELEASE")
              => \A s \in Ids : view'[s] \notin {"requested", "granted"}]_vars
  BY ReleaseStep
<1>2. QED
  BY <1>1, Invariance, PTL DEF Spec, ReleaseWhenUnused

-----------------------------------------------------------------------------
(***************************************************************************)
(* The machine implements AgpsPromise.                                     *)
(***************************************************************************)
LEMMA InitKeepsPromise == Init => Promise!Init
  BY DEF Init, Promise!Init

LEMMA SubscribeKeepsPromise ==
  ASSUME IInv, NEW s \in Ids, s \in Clients, SubscribeRsrc(s)
  PROVE  Promise!Ask(s)
  BY DEF SubscribeRsrc, Refuse, SubscribeReleased, SubscribeUnanswered,
     SubscribeAcquired, Tell, Promise!Ask, Promise!Told

LEMMA UnsubscribeKeepsPromise ==
  ASSUME IInv, NEW s \in Ids, s \in Clients, UnsubscribeRsrc(s)
  PROVE  Promise!Leave(s)
<1>1. IInv'
  BY UnsubscribeIInv
<1>2. \E word \in {"idle", "closing"} : Promise!Told({s}, word)
  BY DEF UnsubscribeRsrc, Unused, Tell, Promise!Told
<1>3. mState' # "Acquired" => \A t \in Ids : view'[t] # "granted"
  BY <1>1 DEF IInv, GrantedIsServed
<1>4. mState' = "Acquired" => mState = "Acquired"
  BY DEF UnsubscribeRsrc, Unused, AfterUnsubscribe
<1>5. QED
  BY <1>2, <1>3, <1>4 DEF Promise!Leave

LEMMA EventKeepsPromise ==
  ASSUME IInv, NEW event \in {"GRANTED", "RELEASED", "DENIED"}, OnRsrcEvent(event)
  PROVE  Promise!Grant \/ Promise!Lose \/ Promise!Closed \/ UNCHANGED vars
<1> USE DEF IInv, GrantedIsServed, RequestedIsRemembered, ClosingIsAwaited,
            Listed, Active, Inactive, Tell, Promise!Told, Promise!Who
<1>1. CASE OnGranted
  <2>1. Active(subs) \in SUBSET Ids
    OBVIOUS
  <2>2. Promise!Who({"requested"}) \subseteq Active(subs)
    OBVIOUS
  <2>3. Active(subs) \cap Promise!Who({"closing"}) = {}
    OBVIOUS
  <2>4. Promise!Told(Active(subs), "granted")
    BY <1>1 DEF OnGranted
  <2>5. QED
    BY <1>1, <2>1, <2>2, <2>3, <2>4 DEF OnGranted, Promise!Grant
<1>2. CASE LoseAll
  <2>1. Promise!Who({"requested", "granted"}) \subseteq Listed(subs)
    OBVIOUS
  <2>2. Promise!Told(Listed(subs), "idle") /\ Listed(subs) \in SUBSET Ids
    BY <1>2 DEF LoseAll
  <2>3. QED
    BY <1>2, <2>1, <2>2 DEF LoseAll, Promise!Lose
<1>3. CASE mState = "Releasing" /\ CloseComplete
  <2>1. Promise!Who({"closing"}) \subseteq Inactive(subs)
    OBVIOUS
  <2>2. Inactive(subs) \cap Promise!Who({"requested", "granted"}) = {}
    OBVIOUS
  <2>3. Promise!Told(Inactive(subs), "idle") /\ Inactive(subs) \in SUBSET Ids
    BY <1>3 DEF CloseComplete
  <2>4. mState' # "Acquired"
    BY <1>3 DEF CloseComplete
  <2>5. QED
    BY <1>3, <2>1, <2>2, <2>3, <2>4 DEF Promise!Closed
<1>4. QED
  BY <1>1, <1>2, <1>3 DEF OnRsrcEvent, OnReleased, OnDenied

LEMMA DropKeepsPromise ==
  ASSUME IInv, DropAllSubscribers
  PROVE  Promise!Restart
<1>1. Promise!Who({"requested", "granted", "closing"}) \subseteq Listed(subs)
  BY DEF IInv, GrantedIsServed, RequestedIsRemembered, ClosingIsAwaited, Listed,
     Promise!Who
<1>2. Promise!Told(Listed(subs), "dropped") /\ Listed(subs) \in SUBSET Ids
  BY DEF DropAllSubscribers, Tell, Listed, Promise!Told
<1>3. QED
  BY <1>1, <1>2 DEF DropAllSubscribers, Promise!Restart

LEMMA StepKeepsPromise ==
  IInv /\ [Next]_vars => [Promise!Next]_(Promise!pvars)
<1> SUFFICES ASSUME IInv, [Next]_vars
             PROVE  [Promise!Next]_(Promise!pvars)
  OBVIOUS
<1>1. UNCHANGED vars \/ TakeRequest => UNCHANGED Promise!pvars
  BY DEF vars, TakeRequest, Promise!pvars
<1>2. QED
  BY <1>1, SubscribeKeepsPromise, UnsubscribeKeepsPromise, EventKeepsPromise,
     DropKeepsPromise DEF Next, Clients, Promise!Next

\* An AgpsStateMachine, in any environment, implements the promise to its
\* subscribers: granted only while held, and every gain or loss of the
\* interface told in one step to everyone it concerns.
THEOREM PromiseKept == Spec => KeepsPromise
  BY InitKeepsPromise, StepKeepsPromise, Invariance, PTL
  DEF Spec, KeepsPromise, Promise!Spec
-----------------------------------------------------------------------------

\* A GRANTED in the queue speaks of an interface that is up, or a RELEASED
\* comes after it.
GrantIsBacked ==
  \A i \in 1..Len(answers) : answers[i] = "GRANTED" =>
    lease = "up" \/ \E j \in (i + 1)..Len(answers) : answers[j] = "RELEASED"

\* In Releasing, the RELEASE that is still to be taken will find an interface
\* to close, so that it is not passed over in silence.
ReleaseIsBacked ==
  mState = "Releasing" =>
    \/ InQueue(answers, {"RELEASED", "DENIED"})
    \/ \E i \in 1..Len(outbox) :
         outbox[i] = "RELEASE" /\ (lease = "up" \/ \E j \in 1..(i - 1) : outbox[j] = "REQUEST")

NIInv ==
  /\ IInv
  /\ NTypeOK
  /\ PendingIsAnswered
  /\ AcquiredIsLeased
  /\ GrantIsBacked
  /\ ReleaseIsBacked

(***************************************************************************)
(* Queues                                                                  *)
(***************************************************************************)
LEMMA InQueueAppend ==
  ASSUME NEW T, NEW q \in Seq(T), NEW x, x \in T, NEW S
  PROVE  InQueue(Append(q, x), S) <=> InQueue(q, S) \/ x \in S
<1> DEFINE r == Append(q, x)
<1>1. /\ Len(r) = Len(q) + 1 /\ r[Len(q) + 1] = x
      /\ \A i \in 1..Len(q) : r[i] = q[i]
  OBVIOUS
<1>2. Len(q) \in Nat /\ 1..(Len(q) + 1) = 1..Len(q) \cup {Len(q) + 1}
  OBVIOUS
<1> HIDE DEF r
<1>3. InQueue(r, S) <=> InQueue(q, S) \/ x \in S
  BY <1>1, <1>2 DEF InQueue
<1> QED BY <1>3 DEF r

LEMMA InQueueTail ==
  ASSUME NEW T, NEW q \in Seq(T), q # <<>>, NEW S, InQueue(q, S), Head(q) \notin S
  PROVE  InQueue(Tail(q), S)
<1>1. PICK i \in 1..Len(q) : q[i] \in S
  BY DEF InQueue
<1>2. i # 1
  BY <1>1
<1>3. i - 1 \in 1..Len(Tail(q)) /\ Tail(q)[i - 1] = q[i]
  BY <1>2
<1>4. QED
  BY <1>1, <1>3 DEF InQueue

(***************************************************************************)
(* Every step of the composition is a step of the machine or leaves it     *)
(* alone, so the machine's theorems hold of the composition.               *)
(***************************************************************************)
LEMMA NStep == [NNext]_nvars => [Next]_vars
<1> SUFFICES ASSUME [NNext]_nvars
             PROVE  [Next]_vars
  OBVIOUS
<1>1. Deliver => Next \/ UNCHANGED vars
  <2> SUFFICES ASSUME Deliver
               PROVE  Next \/ UNCHANGED vars
    OBVIOUS
  <2>1. CASE Head(answers) \in {"GRANTED", "RELEASED", "DENIED"}
    BY <2>1 DEF Deliver, Next
  <2>2. CASE Head(answers) \notin {"GRANTED", "RELEASED", "DENIED"}
    BY <2>2 DEF Deliver, OnRsrcEvent
  <2>3. QED
    BY <2>1, <2>2
<1>2. QED
  BY <1>1 DEF NNext, nvars, vars, Next, Ask, Leave, EngineUp, Grant, Deny, Close,
     CloseNothing, LoseLease, Answer

THEOREM Composition == NSpec => Spec
  BY NStep, PTL DEF NSpec, NInit, Spec

\* What the composed machine keeps of its component's theorems.
LEMMA NInvariance == NSpec => []IInv
  BY Composition, Invariance, PTL

(***************************************************************************)
(* The invariant of the composition.                                       *)
(***************************************************************************)
LEMMA NInitInv == NInit => NIInv
<1> SUFFICES ASSUME NInit
             PROVE  NIInv
  OBVIOUS
<1>1. IInv
  BY InitIInv DEF NInit
<1>2. NTypeOK
  BY <1>1 DEF NInit, NTypeOK, IInv, Answers
<1>3. PendingIsAnswered /\ AcquiredIsLeased /\ GrantIsBacked /\ ReleaseIsBacked
  BY DEF NInit, Init, PendingIsAnswered, AcquiredIsLeased, GrantIsBacked, ReleaseIsBacked
<1>4. QED
  BY <1>1, <1>2, <1>3 DEF NIInv

\* A subscriber's step: at most one request is added to the outbox.
LEMMA AskInv ==
  ASSUME NIInv, NEW s \in Ids, s \in Clients, Ask(s) \/ Leave(s)
  PROVE  NIInv'
<1> USE DEF NIInv, NTypeOK, Answers
<1>1. IInv' /\ TypeOK' /\ lease' = lease /\ answers' = answers
  BY SubscribeIInv, UnsubscribeIInv DEF Ask, Leave, IInv
<1>2. NTypeOK' /\ GrantIsBacked'
  BY <1>1 DEF GrantIsBacked
<1>3. \A S : InQueue(outbox, S) => InQueue(outbox', S)
  <2>1. \E r \in Requests : outbox' \in {outbox, Append(outbox, r)}
    BY DEF Ask, Leave, SubscribeRsrc, Refuse, SubscribeReleased,
       SubscribeUnanswered, SubscribeAcquired, UnsubscribeRsrc, RsrcRequest, Requests
  <2>2. ASSUME NEW r \in Requests, NEW S
        PROVE  InQueue(outbox, S) => InQueue(Append(outbox, r), S)
    BY InQueueAppend, outbox \in Seq(Requests) DEF TypeOK
  <2>3. QED
    BY <2>1, <2>2
<1>4. CASE Ask(s)
  <2>1. CASE SubscribeReleased(s)
    <3>1. outbox' = Append(outbox, "REQUEST") /\ mState' = "Pending"
      BY <2>1 DEF SubscribeReleased, RsrcRequest, AddSubscriber, Active, Listed,
         IInv, TypeOK, Listing, ReleasedIsEmpty
    <3>2. InQueue(outbox', {"REQUEST"})
      BY <3>1, InQueueAppend DEF TypeOK, Requests
    <3>3. QED
      BY <1>1, <1>2, <3>1, <3>2 DEF PendingIsAnswered, AcquiredIsLeased, ReleaseIsBacked
  <2>2. CASE mState' = mState /\ outbox' = outbox
    BY <1>1, <1>2, <2>2 DEF PendingIsAnswered, AcquiredIsLeased, ReleaseIsBacked, InQueue
  <2>3. QED
    BY <1>4, <2>1, <2>2 DEF Ask, SubscribeRsrc, Refuse, SubscribeUnanswered, SubscribeAcquired
<1>5. CASE Leave(s)
  <2>1. mState' = "Acquired" => mState = "Acquired"
    BY <1>5 DEF Leave, UnsubscribeRsrc, Unused, AfterUnsubscribe
  <2>2. mState' = "Pending" => mState = "Pending"
    BY <1>5 DEF Leave, UnsubscribeRsrc, Unused, AfterUnsubscribe
  <2>3. ReleaseIsBacked'
    <3>1. CASE mState = "Releasing"
      <4>1. outbox' = outbox
        BY <1>5, <3>1 DEF Leave, UnsubscribeRsrc, Unused
      <4>2. QED
        BY <1>1, <3>1, <4>1 DEF ReleaseIsBacked, InQueue
    <3>2. CASE mState # "Releasing" /\ mState' = "Releasing"
      <4>1. mState \in {"Pending", "Acquired"} /\ outbox' = Append(outbox, "RELEASE")
        BY <1>1, <1>5, <3>2
        DEF Leave, UnsubscribeRsrc, Unused, AfterUnsubscribe, RsrcRequest, IInv, TypeOK,
            States, ListMatchesState
      <4>2. /\ Len(outbox') = Len(outbox) + 1
            /\ outbox'[Len(outbox')] = "RELEASE"
            /\ \A i \in 1..Len(outbox) : outbox'[i] = outbox[i]
        BY <4>1 DEF TypeOK, Requests
      <4>3. Len(outbox) \in Nat
        BY DEF TypeOK
      <4>4. lease = "up" \/ InQueue(answers, {"RELEASED", "DENIED"}) \/ InQueue(outbox, {"REQUEST"})
        BY <4>1 DEF PendingIsAnswered, AcquiredIsLeased, GrantIsBacked, InQueue
      <4>5. QED
        BY <1>1, <4>2, <4>3, <4>4 DEF ReleaseIsBacked, InQueue
    <3>3. CASE mState' # "Releasing"
      BY <3>3 DEF ReleaseIsBacked
    <3>4. QED
      BY <3>1, <3>2, <3>3
  <2>4. QED
    BY <1>1, <1>2, <1>3, <2>1, <2>2, <2>3 DEF PendingIsAnswered, AcquiredIsLeased
<1>6. QED
  BY <1>4, <1>5

\* The modem restarts: the state, the requests and the answers stay.
LEMMA EngineUpInv ==
  ASSUME NIInv, EngineUp
  PROVE  NIInv'
<1>1. IInv'
  BY DropIInv DEF EngineUp, NIInv
<1>2. mState' = mState /\ outbox' = outbox /\ answers' = answers /\ lease' = lease
  BY DEF EngineUp, DropAllSubscribers
<1>3. QED
  BY <1>1, <1>2 DEF NIInv, NTypeOK, IInv, PendingIsAnswered, AcquiredIsLeased,
     GrantIsBacked, ReleaseIsBacked, InQueue

\* The service takes a request and perhaps answers it.
LEMMA ServiceInv ==
  ASSUME NIInv, Service
  PROVE  NIInv'
<1> USE DEF NIInv, NTypeOK, Answers
<1>1. IInv' /\ TypeOK'
  BY TakeIInv DEF Service, Grant, Deny, Close, CloseNothing, Answer, IInv
<1>2. mState' = mState /\ outbox # <<>> /\ outbox' = Tail(outbox)
  BY DEF Service, Grant, Deny, Close, CloseNothing, Answer, TakeRequest
<1>3. /\ Len(outbox) \in Nat \ {0}
      /\ Len(outbox') = Len(outbox) - 1
      /\ \A i \in 1..Len(outbox') : outbox'[i] = outbox[i + 1]
      /\ Head(outbox) = outbox[1]
  BY <1>2 DEF TypeOK
<1>4. ASSUME NEW a \in Answers, answers' = Append(answers, a)
      PROVE  /\ answers' \in Seq(Answers)
             /\ \A S : InQueue(answers', S) <=> InQueue(answers, S) \/ a \in S
             /\ Len(answers) \in Nat
             /\ Len(answers') = Len(answers) + 1
             /\ answers'[Len(answers')] = a
             /\ \A i \in 1..Len(answers) : answers'[i] = answers[i]
  BY <1>4, InQueueAppend
<1>5. CASE Grant
  <2>1. lease' = "up" /\ answers' = Append(answers, "GRANTED") /\ Head(outbox) = "REQUEST"
    BY <1>5 DEF Grant, Answer
  <2>2. NTypeOK'
    BY <1>1, <1>4, <2>1
  <2>3. PendingIsAnswered' /\ AcquiredIsLeased' /\ GrantIsBacked'
    BY <1>4, <2>1 DEF PendingIsAnswered, AcquiredIsLeased, GrantIsBacked
  <2>4. ReleaseIsBacked'
    <3> SUFFICES ASSUME mState = "Releasing",
                        ~InQueue(answers, {"RELEASED", "DENIED"})
                 PROVE  \E i \in 1..Len(outbox') : outbox'[i] = "RELEASE"
      BY <1>2, <1>4, <2>1 DEF ReleaseIsBacked
    <3>1. PICK i \in 1..Len(outbox) : outbox[i] = "RELEASE"
      BY DEF ReleaseIsBacked
    <3>2. i # 1
      BY <1>3, <2>1, <3>1
    <3>3. i - 1 \in 1..Len(outbox') /\ outbox'[i - 1] = "RELEASE"
      BY <1>3, <3>1, <3>2
    <3>4. QED
      BY <3>3
  <2>5. QED
    BY <1>1, <2>2, <2>3, <2>4
<1>6. CASE Deny
  <2>1. lease = "down" /\ lease' = "down" /\ answers' = Append(answers, "DENIED")
    BY <1>6 DEF Deny, Answer
  <2>2. NTypeOK'
    BY <1>1, <1>4, <2>1
  <2>3. PendingIsAnswered' /\ AcquiredIsLeased' /\ ReleaseIsBacked'
    BY <1>2, <1>4, <2>1 DEF PendingIsAnswered, AcquiredIsLeased, ReleaseIsBacked
  <2>4. GrantIsBacked'
    BY <1>4, <2>1 DEF GrantIsBacked
  <2>5. QED
    BY <1>1, <2>2, <2>3, <2>4
<1>7. CASE Close
  <2>1. lease' = "down" /\ answers' = Append(answers, "RELEASED") /\ Head(outbox) = "RELEASE"
    BY <1>7 DEF Close, Answer
  <2>2. NTypeOK'
    BY <1>1, <1>4, <2>1
  <2>3. AcquiredIsLeased' /\ ReleaseIsBacked'
    BY <1>2, <1>4, <2>1 DEF AcquiredIsLeased, ReleaseIsBacked
  <2>4. PendingIsAnswered'
    <3>1. InQueue(outbox, {"REQUEST"}) => InQueue(outbox', {"REQUEST"})
      BY <1>2, <2>1, InQueueTail DEF TypeOK
    <3>2. QED
      BY <1>2, <1>4, <2>1, <3>1 DEF PendingIsAnswered
  <2>5. GrantIsBacked'
    BY <1>4, <2>1 DEF GrantIsBacked
  <2>6. QED
    BY <1>1, <2>2, <2>3, <2>4, <2>5
<1>8. CASE CloseNothing
  <2>1. lease' = lease /\ lease = "down" /\ answers' = answers /\ Head(outbox) = "RELEASE"
    BY <1>8 DEF CloseNothing
  <2>2. NTypeOK' /\ AcquiredIsLeased' /\ GrantIsBacked'
    BY <1>1, <1>2, <2>1 DEF AcquiredIsLeased, GrantIsBacked
  <2>3. PendingIsAnswered'
    <3>1. InQueue(outbox, {"REQUEST"}) => InQueue(outbox', {"REQUEST"})
      BY <1>2, <2>1, InQueueTail DEF TypeOK
    <3>2. QED
      BY <1>2, <2>1, <3>1 DEF PendingIsAnswered
  <2>4. ReleaseIsBacked'
    <3> SUFFICES ASSUME mState = "Releasing",
                        ~InQueue(answers, {"RELEASED", "DENIED"})
                 PROVE  \E i \in 1..Len(outbox') :
                          /\ outbox'[i] = "RELEASE"
                          /\ \E j \in 1..(i - 1) : outbox'[j] = "REQUEST"
      BY <1>2, <2>1 DEF ReleaseIsBacked
    <3>0. PICK i \in 1..Len(outbox) :
            outbox[i] = "RELEASE" /\ \E k \in 1..(i - 1) : outbox[k] = "REQUEST"
      BY <2>1 DEF ReleaseIsBacked
    <3>1. PICK j \in 1..(i - 1) : outbox[i] = "RELEASE" /\ outbox[j] = "REQUEST"
      BY <3>0
    <3>2. j # 1 /\ i # 1
      BY <1>3, <2>1, <3>1
    <3>3. /\ i - 1 \in 1..Len(outbox') /\ outbox'[i - 1] = "RELEASE"
          /\ j - 1 \in 1..((i - 1) - 1) /\ outbox'[j - 1] = "REQUEST"
      BY <1>3, <3>1, <3>2
    <3>4. QED
      BY <3>3
  <2>5. QED
    BY <1>1, <2>2, <2>3, <2>4
<1>9. QED
  BY <1>5, <1>6, <1>7, <1>8 DEF Service

\* The service loses the interface, and says so.
LEMMA LoseLeaseInv ==
  ASSUME NIInv, LoseLease
  PROVE  NIInv'
<1> USE DEF NIInv, NTypeOK, Answers
<1>1. IInv' /\ TypeOK' /\ mState' = mState /\ outbox' = outbox
  BY NextIInv DEF LoseLease, vars, IInv
<1>2. lease' = "down" /\ answers' = Append(answers, "RELEASED")
  BY DEF LoseLease
<1>3. /\ answers' \in Seq(Answers)
      /\ \A S : InQueue(answers', S) <=> InQueue(answers, S) \/ "RELEASED" \in S
      /\ Len(answers) \in Nat
      /\ Len(answers') = Len(answers) + 1
      /\ answers'[Len(answers')] = "RELEASED"
      /\ \A i \in 1..Len(answers) : answers'[i] = answers[i]
  BY <1>2, InQueueAppend
<1>4. PendingIsAnswered' /\ AcquiredIsLeased' /\ ReleaseIsBacked'
  BY <1>1, <1>3 DEF PendingIsAnswered, AcquiredIsLeased, ReleaseIsBacked, InQueue
<1>5. GrantIsBacked'
  BY <1>2, <1>3 DEF GrantIsBacked
<1>6. QED
  BY <1>1, <1>2, <1>3, <1>4, <1>5

\* The adapter's thread processes the oldest answer.
LEMMA DeliverInv ==
  ASSUME NIInv, Deliver
  PROVE  NIInv'
<1> DEFINE h == Head(answers)
<1> USE DEF NIInv, NTypeOK, Answers
<1>1. /\ answers # <<>> /\ answers' = Tail(answers) /\ lease' = lease
      /\ h \in {"GRANTED", "RELEASED", "DENIED"} /\ OnRsrcEvent(h)
      /\ outbox \in Seq(Requests)
  BY DEF Deliver, TypeOK
<1>2. /\ answers' \in Seq(Answers)
      /\ Len(answers) \in Nat \ {0} /\ Len(answers') = Len(answers) - 1
      /\ \A i \in 1..Len(answers') : answers'[i] = answers[i + 1]
      /\ h = answers[1]
      /\ \A i \in 2..Len(answers) : i - 1 \in 1..Len(answers') /\ answers'[i - 1] = answers[i]
  BY <1>1
<1>3. ASSUME NEW S, InQueue(answers, S), h \notin S
      PROVE  InQueue(answers', S)
  BY <1>1, <1>3, InQueueTail
<1>4. IInv' /\ NTypeOK'
  <2>1. IInv'
    BY <1>1, EventIInv
  <2>2. QED
    BY <1>1, <1>2, <2>1 DEF IInv
<1>5. GrantIsBacked'
  <2> SUFFICES ASSUME NEW i \in 1..Len(answers'), answers'[i] = "GRANTED", lease # "up"
               PROVE  \E j \in (i + 1)..Len(answers') : answers'[j] = "RELEASED"
    BY <1>1 DEF GrantIsBacked
  <2>1. i + 1 \in 1..Len(answers) /\ answers[i + 1] = "GRANTED"
    BY <1>2
  <2>2. PICK j \in ((i + 1) + 1)..Len(answers) : answers[j] = "RELEASED"
    BY <2>1 DEF GrantIsBacked
  <2>3. j - 1 \in (i + 1)..Len(answers') /\ answers'[j - 1] = "RELEASED"
    BY <1>2, <2>2
  <2>4. QED
    BY <2>3
<1>6. CASE UNCHANGED vars /\ Ignores(h)
  <2>1. mState' = mState /\ outbox' = outbox
    BY <1>6 DEF vars
  <2>2. PendingIsAnswered'
    BY <1>1, <1>3, <1>6, <2>1 DEF PendingIsAnswered, Ignores
  <2>3. AcquiredIsLeased'
    BY <1>1, <1>3, <1>6, <2>1 DEF AcquiredIsLeased, Ignores
  <2>4. ReleaseIsBacked'
    <3>1. mState = "Releasing" => h = "GRANTED"
      BY <1>1, <1>6 DEF Ignores
    <3>2. mState = "Releasing" /\ InQueue(answers, {"RELEASED", "DENIED"})
            => InQueue(answers', {"RELEASED", "DENIED"})
      BY <1>3, <3>1
    <3>3. QED
      BY <1>1, <2>1, <3>2 DEF ReleaseIsBacked
  <2>5. QED
    BY <1>4, <1>5, <2>2, <2>3, <2>4
<1>7. CASE h = "GRANTED" /\ OnGranted
  <2>1. mState' = "Acquired"
    BY <1>7 DEF OnGranted
  <2>2. lease = "up" \/ \E j \in 2..Len(answers) : answers[j] = "RELEASED"
    BY <1>2, <1>7 DEF GrantIsBacked
  <2>3. AcquiredIsLeased'
    BY <1>1, <1>2, <2>2 DEF AcquiredIsLeased, InQueue
  <2>4. QED
    BY <1>4, <1>5, <2>1, <2>3 DEF PendingIsAnswered, ReleaseIsBacked
<1>8. CASE LoseAll \/ (mState = "Releasing" /\ CloseComplete)
  <2>1. mState' = "Released"
    BY <1>4, <1>8
    DEF LoseAll, CloseComplete, IInv, TypeOK, ListMatchesState, Active, Inactive, Remove
  <2>2. QED
    BY <1>4, <1>5, <2>1 DEF PendingIsAnswered, AcquiredIsLeased, ReleaseIsBacked
<1>9. QED
  BY <1>1, <1>6, <1>7, <1>8 DEF OnRsrcEvent, OnReleased, OnDenied

LEMMA NNextInv == NIInv /\ [NNext]_nvars => NIInv'
<1> SUFFICES ASSUME NIInv, [NNext]_nvars
             PROVE  NIInv'
  OBVIOUS
<1>1. CASE UNCHANGED nvars
  <2>1. UNCHANGED vars
    BY <1>1 DEF nvars
  <2>2. IInv'
    BY <2>1, NextIInv DEF NIInv
  <2>3. QED
    BY <1>1, <2>1, <2>2 DEF nvars, vars, NIInv, NTypeOK, IInv, PendingIsAnswered,
       AcquiredIsLeased, GrantIsBacked, ReleaseIsBacked, InQueue
<1>2. CASE NNext
  BY <1>2, AskInv, EngineUpInv, ServiceInv, LoseLeaseInv, DeliverInv DEF NNext, Service, Clients
<1>3. QED
  BY <1>1, <1>2

LEMMA NInductive == NSpec => []NIInv
  BY NInitInv, NNextInv, PTL DEF NSpec

\* The composition keeps its types.
THEOREM NTypeCorrect == NSpec => []NTypeOK
<1>1. NIInv => NTypeOK
  BY DEF NIInv
<1>2. QED
  BY <1>1, NInductive, PTL

\* A machine that is Pending or Releasing always has the answer that ends the
\* wait, or the request for it, in a queue: no crossing of stale answers and
\* new requests, and no engine restart, leaves it waiting for nothing.
THEOREM NeverStuck == NSpec => []WaitIsAnswered
<1>1. NIInv => WaitIsAnswered
  BY DEF NIInv, WaitIsAnswered, ReleaseIsBacked, ReleasingIsAnswered, InQueue
<1>2. QED
  BY <1>1, NInductive, PTL

\* A machine that believes it holds the interface is right, or the RELEASED
\* that tells it otherwise is already in its queue.
THEOREM NeverDeluded == NSpec => []AcquiredIsLeased
<1>1. NIInv => AcquiredIsLeased
  BY DEF NIInv
<1>2. QED
  BY <1>1, NInductive, PTL
=============================================================================
