----------------------- MODULE DSStateMachine_proofs -----------------------
(***************************************************************************)
(* Proofs about DSStateMachine, for any number of connections, retries and *)
(* messages.  The machine follows the call: what it believes of it and the *)
(* reports that wait in the inbox always add up to what the call is.       *)
(***************************************************************************)
EXTENDS DSStateMachine, WellFoundedInduction, TLAPS

Once(word) ==
  \A i, j \in 1..Len(inbox) : inbox[i].msg = word /\ inbox[j].msg = word => i = j

\* The reports that wait are of one call: that it is up, that it is no more.
ReportsInOrder ==
  /\ Once("opened") /\ Once("closed")
  /\ \A i, j \in 1..Len(inbox) : inbox[i].msg = "opened" /\ inbox[j].msg = "closed" => i < j

CallIsFollowed ==
  /\ ReportsInOrder
  /\ call = "starting" => mState = "Pending" /\ ~Coming("opened") /\ ~Coming("closed")
  /\ call = "up" => /\ ~Coming("closed")
                    /\ mState = IF Coming("opened") THEN "Pending" ELSE "Acquired"
  /\ call = "stopping" => mState = "Releasing" /\ ~Coming("closed")
  /\ call = "down" => /\ Coming("opened") => Coming("closed")
                      /\ mState = "Released" => ~Coming("closed")
                      /\ mState = "Acquired" => Coming("closed") /\ ~Coming("opened")

\* A call is waited for or held for somebody.
HeldForSomeone ==
  /\ mState \in {"Pending", "Acquired"} => Active # {}
  /\ mState = "Released" => inactive = {}

\* A release comes from a modem that has forgotten the connection.
ReleasedIsClosed ==
  /\ \A i \in 1..Len(inbox) : inbox[i].msg = "release" => view[inbox[i].id] = "closed"
  /\ \A s \in inactive : view[s] = "closed"

ReleaseComes(s) == \E i \in 1..Len(inbox) : inbox[i] = [msg |-> "release", id |-> s]

\* As long as every start succeeds, a connection is asked for once, before it is
\* released, ...
AskedOnce ==
  \A i \in 1..Len(inbox) : inbox[i].msg = "request" =>
    /\ inbox[i].id \notin Listed
    /\ \A j \in 1..Len(inbox) : inbox[j].msg = "request" /\ inbox[j].id = inbox[i].id => i = j
    /\ \/ view[inbox[i].id] = "requested"
       \/ \E j \in 1..Len(inbox) : i < j /\ inbox[j] = [msg |-> "release", id |-> inbox[i].id]

\* ... and one in the list is open, closing or inactive.
SmoothIsOpen ==
  smooth =>
    /\ timers = 0
    /\ mState = "Released" => Listed = {}
    /\ \A s \in Listed : view[s] # "idle"
    /\ \A s \in Active : view[s] \in {"requested", "open"} \/ ReleaseComes(s)
    /\ AskedOnce

IInv ==
  /\ TypeOK
  /\ CallIsFollowed /\ HeldForSomeone
  /\ ReleasedIsClosed /\ OpenIsServed
  /\ SmoothIsOpen

-----------------------------------------------------------------------------
\* Lists: a new subscriber, those that are kept, and the first one.
LEMMA AddedList ==
  ASSUME TypeOK, NEW s \in Ids
  PROVE  /\ Added(s) \in Seq(Ids) /\ IsInjective(Added(s))
         /\ ToSet(Added(s)) = Listed \cup {s}
<1>1. list \in Seq(Ids) /\ IsInjective(list)
  BY DEF TypeOK
<1>2. CASE s \in Listed
  BY <1>1, <1>2 DEF Added, Listed
<1>3. CASE s \notin Listed
  <2> DEFINE l == <<s>> \o list
  <2>1. /\ l \in Seq(Ids) /\ Len(l) = Len(list) + 1 /\ l[1] = s
        /\ \A i \in 1..Len(list) : l[i + 1] = list[i]
    BY <1>1
  <2>2. \A i \in 2..Len(l) : i - 1 \in 1..Len(list) /\ l[i] = list[i - 1]
    BY <1>1, <2>1
  <2>3. DOMAIN l = 1..Len(l) /\ DOMAIN list = 1..Len(list)
    BY <1>1, <2>1
  <2> HIDE DEF l
  <2>4. ToSet(l) = Listed \cup {s}
    BY <1>1, <2>1, <2>2, <2>3 DEF ToSet, Listed
  <2>5. IsInjective(l)
    <3> SUFFICES ASSUME NEW i \in 1..Len(l), NEW j \in 1..Len(l), l[i] = l[j] PROVE i = j
      BY <2>3 DEF IsInjective
    <3>1. \A k \in 2..Len(l) : l[k] # s
      BY <1>3, <2>2, <2>3 DEF Listed, ToSet
    <3>2. CASE i = 1 \/ j = 1
      BY <1>1, <2>1, <3>1, <3>2
    <3>3. CASE i # 1 /\ j # 1
      BY <1>1, <2>1, <2>2, <2>3, <3>3 DEF IsInjective
    <3> QED BY <3>2, <3>3
  <2> QED BY <1>3, <2>1, <2>4, <2>5 DEF Added, l
<1> QED BY <1>2, <1>3

LEMMA ListedIds ==
  ASSUME TypeOK
  PROVE  Listed \subseteq Ids
BY DEF TypeOK, Listed, ToSet

LEMMA KeptList ==
  ASSUME TypeOK, NEW l \in Kept
  PROVE  l \in Seq(Ids) /\ IsInjective(l) /\ ToSet(l) = Active
<1>1. list \in Seq(Ids) /\ IsInjective(list) /\ Active \subseteq Ids
  BY DEF TypeOK, Active, Listed, ToSet
<1>2. PICK n \in 0..Len(list) : l \in [1..n -> Active]
  BY DEF Kept, SeqOf
<1>3. l \in Seq(Ids) /\ DOMAIN l = 1..n /\ n \in Nat
  BY <1>1, <1>2
<1>4. ToSet(l) = Active /\ \A j \in 1..n : \A i \in 1..(j-1) : InOrder(l[i], l[j], list)
  BY <1>3 DEF Kept
<1>5. ASSUME NEW j \in 1..n, NEW i \in 1..(j-1) PROVE l[i] # l[j]
  <2>1. PICK a, b \in DOMAIN list : a < b /\ list[a] = l[i] /\ list[b] = l[j]
    BY <1>4 DEF InOrder
  <2> QED BY <1>1, <2>1 DEF IsInjective
<1>6. IsInjective(l)
  <2> SUFFICES ASSUME NEW i \in 1..n, NEW j \in 1..n, l[i] = l[j], i # j PROVE FALSE
    BY <1>3 DEF IsInjective
  <2>1. i \in 1..(j-1) \/ j \in 1..(i-1)
    BY <1>3
  <2> QED BY <1>5, <2>1
<1> QED BY <1>3, <1>4, <1>6

LEMMA FirstActive ==
  ASSUME NEW l \in Seq(Ids), ToSet(l) \ inactive # {}
  PROVE  First(l) \in ToSet(l) \ inactive
<1> DEFINE T == {i \in 1..Len(l) : l[i] \notin inactive}
<1>1. T \subseteq Nat /\ T # {} /\ DOMAIN l = 1..Len(l)
  BY DEF ToSet
<1>2. PICK i \in T : \A j \in T : ~ (<<j, i>> \in OpToRel(<, Nat))
  BY <1>1, WFMin, NatLessThanWellFounded
<1>3. \A j \in T : ~ (j < i)
  BY <1>1, <1>2 DEF OpToRel
<1>4. i \in DOMAIN l /\ l[i] \notin inactive /\ \A j \in 1..(i-1) : l[j] \in inactive
  BY <1>1, <1>3
<1>5. PICK k \in DOMAIN l :
        k = (CHOOSE i0 \in DOMAIN l : l[i0] \notin inactive /\ \A j \in 1..(i0-1) : l[j] \in inactive)
                            /\ l[k] \notin inactive
  BY <1>4
<1> QED BY <1>5 DEF First, ToSet

\* What is told: the modem is told nothing about what it has closed.
LEMMA Informed ==
  ASSUME TypeOK, NEW S, NEW word \in Views \ {"closed"}, view' = Inform(S, word)
  PROVE  /\ view' \in [Ids -> Views]
         /\ \A s \in Ids : view'[s] = IF s \in S /\ view[s] # "closed" THEN word ELSE view[s]
BY DEF Inform, TypeOK

\* A start of the call tells nobody that it is open, and succeeds or not.
LEMMA Started ==
  ASSUME TypeOK, NEW result \in Results, NEW l, StartCall(result, l)
  PROVE  /\ mRetries' \in 0..MaxRetries /\ timers' \in Nat
         /\ call' = IF result = "SUCCESS" THEN "starting" ELSE call
         /\ view' \in [Ids -> Views]
         /\ \A s \in Ids : /\ view'[s] \in {view[s], "fallback"}
                           /\ view[s] = "closed" => view'[s] = "closed"
         /\ calm' \in BOOLEAN /\ smooth' \in BOOLEAN
         /\ smooth' => smooth /\ result = "SUCCESS" /\ UNCHANGED <<view, timers>>
<1>1. calm' \in BOOLEAN /\ smooth' \in BOOLEAN /\ (smooth' => smooth /\ result = "SUCCESS")
  BY DEF StartCall, TypeOK
<1>2. CASE Dial(result, l)
  BY <1>1, <1>2 DEF Dial, TypeOK
<1>3. CASE RetryLater(result, l)
  BY <1>1, <1>3, DSAssumption DEF RetryLater, TypeOK
<1>4. CASE FallBack(result, l)
  <2>1. "fallback" \in Views \ {"closed"} /\ view' = Inform({First(l)}, "fallback")
    BY <1>4 DEF FallBack, Views
  <2>2. /\ view' \in [Ids -> Views]
        /\ \A s \in Ids : view'[s] \in {view[s], "fallback"}
        /\ \A s \in Ids : view[s] = "closed" => view'[s] = "closed"
    BY <2>1, Informed
  <2>3. result # "SUCCESS" /\ mRetries' = 0 /\ timers' = timers /\ call' = call
    BY <1>4 DEF FallBack, GivesUp
  <2>4. mRetries' \in 0..MaxRetries /\ timers' \in Nat
    BY <2>3, DSAssumption DEF TypeOK
  <2> QED BY <1>1, <2>2, <2>3, <2>4
<1>5. CASE result = "OTHER" /\ UNCHANGED <<mRetries, timers, call, view>>
  BY <1>1, <1>5 DEF TypeOK
<1> QED BY <1>2, <1>3, <1>4, <1>5 DEF StartCall

\* The oldest message is taken, or one is added.
Takes(word) == inbox # <<>> /\ Head(inbox).msg = word /\ inbox' = Tail(inbox)

LEMMA TakenTypes ==
  ASSUME TypeOK, inbox # <<>>, inbox' = Tail(inbox)
  PROVE  /\ inbox' \in Seq(Messages) /\ Len(inbox) \in Nat \ {0}
         /\ Len(inbox') = Len(inbox) - 1 /\ Head(inbox) = inbox[1]
         /\ \A i \in 1..Len(inbox') : i + 1 \in 2..Len(inbox) /\ inbox'[i] = inbox[i + 1]
         /\ \A i \in 2..Len(inbox) : i - 1 \in 1..Len(inbox') /\ inbox'[i - 1] = inbox[i]
         /\ Head(inbox) \in Messages
         /\ Head(inbox).msg \in {"request", "release"} => Head(inbox).id \in Ids
<1>1. inbox \in Seq(Messages)
  BY DEF TypeOK
<1>2. Head(inbox) \in Messages /\ Head(inbox) = inbox[1] /\ Len(inbox) \in Nat \ {0}
  BY <1>1
<1>3. inbox' \in Seq(Messages) /\ Len(inbox') = Len(inbox) - 1
  BY <1>1
<1>4. \A i \in 1..Len(inbox') : i + 1 \in 2..Len(inbox) /\ inbox'[i] = inbox[i + 1]
  BY <1>1, <1>2, <1>3
<1>5. \A i \in 2..Len(inbox) : i - 1 \in 1..Len(inbox') /\ inbox'[i - 1] = inbox[i]
  BY <1>1, <1>2, <1>3
<1>6. Head(inbox).msg \in {"request", "release"} => Head(inbox).id \in Ids
  BY <1>2 DEF Messages
<1> QED BY <1>2, <1>3, <1>4, <1>5, <1>6

LEMMA AddedTypes ==
  ASSUME TypeOK, NEW m \in Messages, inbox' = Append(inbox, m)
  PROVE  /\ inbox' \in Seq(Messages) /\ Len(inbox) \in Nat
         /\ Len(inbox') = Len(inbox) + 1 /\ inbox'[Len(inbox) + 1] = m
         /\ \A i \in 1..Len(inbox) : inbox'[i] = inbox[i]
<1>1. inbox \in Seq(Messages)
  BY DEF TypeOK
<1> QED BY <1>1

\* Taking a message and adding one, as far as the reports are concerned.
LEMMA ReportsTaken ==
  ASSUME TypeOK, ReportsInOrder, inbox # <<>>, inbox' = Tail(inbox)
  PROVE  /\ ReportsInOrder'
         /\ Coming("opened")' <=> Coming("opened") /\ Head(inbox).msg # "opened"
         /\ Coming("closed")' <=> Coming("closed") /\ Head(inbox).msg # "closed"
         /\ Head(inbox).msg = "opened" => Coming("opened")
         /\ Head(inbox).msg = "closed" => Coming("closed") /\ ~Coming("opened")
<1> DEFINE n == Len(inbox)
<1>1. /\ n \in Nat \ {0} /\ Len(inbox') = n - 1 /\ Head(inbox) = inbox[1]
      /\ \A i \in 1..(n-1) : inbox'[i] = inbox[i + 1]
      /\ \A i \in 2..n : i - 1 \in 1..(n-1) /\ inbox'[i - 1] = inbox[i]
  BY TakenTypes
<1> HIDE DEF n
<1>2. ReportsInOrder'
  BY <1>1 DEF ReportsInOrder, Once, n
<1>3. ASSUME NEW word \in {"opened", "closed"}
      PROVE  Coming(word)' <=> Coming(word) /\ Head(inbox).msg # word
  <2>1. ASSUME Coming(word), Head(inbox).msg # word PROVE Coming(word)'
    <3>1. PICK i \in 1..n : inbox[i].msg = word
      BY <2>1 DEF Coming, n
    <3>2. i - 1 \in 1..(n-1) /\ inbox'[i - 1].msg = word
      BY <1>1, <2>1, <3>1
    <3> QED BY <1>1, <3>2 DEF Coming
  <2>2. ASSUME Coming(word)' PROVE Coming(word) /\ Head(inbox).msg # word
    <3>1. PICK i \in 1..(n-1) : inbox'[i].msg = word
      BY <1>1, <2>2 DEF Coming
    <3>2. i + 1 \in 1..n /\ 1 \in 1..n /\ i + 1 # 1 /\ inbox[i + 1].msg = word
      BY <1>1, <3>1
    <3>3. inbox[1].msg # word
      BY <3>2 DEF ReportsInOrder, Once, n
    <3> QED BY <1>1, <3>2, <3>3 DEF Coming, n
  <2> QED BY <2>1, <2>2
<1>4. /\ Head(inbox).msg = "opened" => Coming("opened")
      /\ Head(inbox).msg = "closed" => Coming("closed") /\ ~Coming("opened")
  BY <1>1 DEF Coming, ReportsInOrder, n
<1> QED BY <1>2, <1>3, <1>4

LEMMA ReportsAdded ==
  ASSUME TypeOK, ReportsInOrder, NEW m \in Messages, inbox' = Append(inbox, m),
         m.msg = "opened" => ~Coming("opened") /\ ~Coming("closed"),
         m.msg = "closed" => ~Coming("closed")
  PROVE  /\ ReportsInOrder'
         /\ Coming("opened")' <=> Coming("opened") \/ m.msg = "opened"
         /\ Coming("closed")' <=> Coming("closed") \/ m.msg = "closed"
<1> DEFINE n == Len(inbox)
<1>1. /\ n \in Nat /\ Len(inbox') = n + 1 /\ inbox'[n + 1] = m
      /\ \A i \in 1..n : inbox'[i] = inbox[i]
      /\ \A i \in 1..(n+1) : i \in 1..n \/ i = n + 1
  BY AddedTypes
<1> HIDE DEF n
<1>2. ReportsInOrder'
  BY <1>1 DEF ReportsInOrder, Once, Coming, n
<1>3. \A word \in {"opened", "closed"} : Coming(word)' <=> Coming(word) \/ m.msg = word
  BY <1>1 DEF Coming, n
<1> QED BY <1>2, <1>3

-----------------------------------------------------------------------------
\* The oldest message and what is done with it.
LEMMA ProcessCases ==
  ASSUME TypeOK, Process
  PROVE  \/ /\ Takes("request")
            /\ \E s \in Ids : /\ s = Head(inbox).id
                              /\ SubscribeReleased(s) \/ SubscribeUnanswered(s) \/ SubscribeAcquired(s)
         \/ /\ Takes("release")
            /\ \E s \in Ids : /\ s = Head(inbox).id
                              /\ UnsubscribeIgnored(s) \/ UnsubscribeListed(s)
         \/ Takes("opened") /\ (OnOpened \/ Unexpected("opened"))
         \/ Takes("closed") /\ (ClosedPending \/ ClosedAcquired \/ ClosedReleasing \/ Unexpected("closed"))
<1>1. Head(inbox).msg \in {"request", "release"} => Head(inbox).id \in Ids
  BY TakenTypes DEF Process
<1> QED BY <1>1 DEF Process, Takes, Subscribe, Unsubscribe, OnClosed

\* Every step keeps the types; 1 to 6 are the modem, the service and the timer,
\* 7 to 16 the message that is processed.
LEMMA TypeStep ==
  TypeOK /\ [Next]_vars => TypeOK'
<1> SUFFICES ASSUME TypeOK, [Next]_vars PROVE TypeOK'
  OBVIOUS
<1>1. ASSUME NEW s \in Ids, RequestES(s) PROVE TypeOK'
  <2>1. view' \in [Ids -> Views]
    BY <1>1 DEF RequestES, TypeOK, Views
  <2>2. inbox' \in Seq(Messages)
    BY <1>1 DEF RequestES, TypeOK, Messages
  <2>3. /\ UNCHANGED <<mState, list, Listed, inactive, mRetries, timers, call>>
        /\ calm' \in BOOLEAN /\ smooth' \in BOOLEAN
    BY <1>1 DEF RequestES, TypeOK, Listed, past
  <2> QED BY <2>1, <2>2, <2>3 DEF TypeOK
<1>2. ASSUME NEW s \in Ids, CloseES(s) PROVE TypeOK'
  <2>1. view' \in [Ids -> Views]
    BY <1>2 DEF CloseES, TypeOK, Views
  <2>2. inbox' \in Seq(Messages)
    <3>1. [msg |-> "release", id |-> s] \in Messages /\ inbox \in Seq(Messages)
      BY DEF TypeOK, Messages
    <3> QED BY <1>2, <3>1, AddedTypes DEF CloseES
  <2>3. /\ UNCHANGED <<mState, list, Listed, inactive, mRetries, timers, call>>
        /\ calm' \in BOOLEAN /\ smooth' \in BOOLEAN
    BY <1>2 DEF CloseES, TypeOK, Listed, past
  <2> QED BY <2>1, <2>2, <2>3 DEF TypeOK
<1>3. ASSUME CallOpens PROVE TypeOK'
  <2>1. inbox' \in Seq(Messages)
    BY <1>3 DEF CallOpens, Report, TypeOK, Messages
  <2> QED BY <1>3, <2>1 DEF CallOpens, Report, TypeOK, Listed, past
<1>4. ASSUME CallEnds PROVE TypeOK'
  <2>1. inbox' \in Seq(Messages)
    BY <1>4 DEF CallEnds, Report, TypeOK, Messages
  <2> QED BY <1>4, <2>1 DEF CallEnds, Report, TypeOK, Listed, past
<1>5. ASSUME CallDrops PROVE TypeOK'
  <2>1. inbox' \in Seq(Messages)
    BY <1>5 DEF CallDrops, Report, TypeOK, Messages
  <2> QED BY <1>5, <2>1 DEF CallDrops, Report, TypeOK, Listed, past
<1>6. ASSUME TimerExpires PROVE TypeOK'
  <2>1. Active # {} => First(list) \in Ids
    BY FirstActive DEF TypeOK, Active, Listed, ToSet
  <2>2. inbox' \in Seq(Messages)
    BY <1>6, <2>1 DEF TimerExpires, TypeOK, Messages
  <2> QED BY <1>6, <2>2 DEF TimerExpires, TypeOK, Listed, past
<1>7. ASSUME NEW s \in Ids, s = Head(inbox).id, Takes("request"), SubscribeReleased(s)
      PROVE TypeOK'
  <2>1. inbox' \in Seq(Messages)
    BY <1>7, TakenTypes DEF Takes
  <2>2. list' \in Seq(Ids) /\ IsInjective(list') /\ inactive' \subseteq Listed'
    BY <1>7, AddedList DEF SubscribeReleased, Listed, TypeOK
  <2>3. PICK result \in Results : /\ StartCall(result, list')
                                  /\ mState' = IF result = "SUCCESS" THEN "Pending" ELSE "Released"
    BY <1>7 DEF SubscribeReleased
  <2>4. /\ mRetries' \in 0..MaxRetries /\ timers' \in Nat /\ view' \in [Ids -> Views]
        /\ call' \in {call, "starting"} /\ calm' \in BOOLEAN /\ smooth' \in BOOLEAN
    BY <2>3, Started
  <2> QED BY <2>1, <2>2, <2>3, <2>4 DEF TypeOK
<1>8. ASSUME NEW s \in Ids, s = Head(inbox).id, Takes("request"), SubscribeUnanswered(s)
      PROVE TypeOK'
  <2>1. inbox' \in Seq(Messages)
    BY <1>8, TakenTypes DEF Takes
  <2>2. list' \in Seq(Ids) /\ IsInjective(list') /\ inactive' \subseteq Listed'
    BY <1>8, AddedList DEF SubscribeUnanswered, Listed, TypeOK
  <2> QED BY <1>8, <2>1, <2>2 DEF SubscribeUnanswered, TypeOK, past
<1>9. ASSUME NEW s \in Ids, s = Head(inbox).id, Takes("request"), SubscribeAcquired(s)
      PROVE TypeOK'
  <2>1. inbox' \in Seq(Messages)
    BY <1>9, TakenTypes DEF Takes
  <2>2. list' \in Seq(Ids) /\ IsInjective(list') /\ inactive' \subseteq Listed'
    BY <1>9, AddedList DEF SubscribeAcquired, Listed, TypeOK
  <2>3. view' \in [Ids -> Views]
    BY <1>9, Informed DEF SubscribeAcquired, Views
  <2> QED BY <1>9, <2>1, <2>2, <2>3 DEF SubscribeAcquired, TypeOK, past
<1>10. ASSUME NEW s \in Ids, s = Head(inbox).id, Takes("release"), UnsubscribeIgnored(s)
       PROVE TypeOK'
  <2>1. inbox' \in Seq(Messages)
    BY <1>10, TakenTypes DEF Takes
  <2> QED BY <1>10, <2>1 DEF UnsubscribeIgnored, TypeOK, Listed, past
<1>11. ASSUME NEW s \in Ids, s = Head(inbox).id, Takes("release"), UnsubscribeListed(s)
       PROVE TypeOK'
  <2>1. inbox' \in Seq(Messages)
    BY <1>11, TakenTypes DEF Takes
  <2>2. call' \in {"down", "starting", "up", "stopping"} /\ mState' \in {mState, "Releasing"}
    BY <1>11 DEF UnsubscribeListed, Stopped, TypeOK
  <2> QED BY <1>11, <2>1, <2>2 DEF UnsubscribeListed, TypeOK, Listed, past
<1>12. ASSUME Takes("opened"), OnOpened PROVE TypeOK'
  <2>1. inbox' \in Seq(Messages)
    BY <1>12, TakenTypes DEF Takes
  <2>2. view' \in [Ids -> Views]
    BY <1>12, Informed DEF OnOpened, Views
  <2> QED BY <1>12, <2>1, <2>2 DEF OnOpened, TypeOK, Listed, past
<1>13. ASSUME Takes("closed"), ClosedPending PROVE TypeOK'
  <2>1. inbox' \in Seq(Messages)
    BY <1>13, TakenTypes DEF Takes
  <2>2. view' \in [Ids -> Views]
    BY <1>13, Informed DEF ClosedPending, Views
  <2>3. list' \in Seq(Ids) /\ IsInjective(list') /\ inactive' \subseteq Listed'
    BY <1>13 DEF ClosedPending, Listed, IsInjective
  <2> QED BY <1>13, <2>1, <2>2, <2>3, DSAssumption DEF ClosedPending, TypeOK, past
<1>14. ASSUME Takes("closed"), ClosedAcquired PROVE TypeOK'
  <2>1. inbox' \in Seq(Messages)
    BY <1>14, TakenTypes DEF Takes
  <2>2. view' \in [Ids -> Views]
    BY <1>14, Informed DEF ClosedAcquired, Views
  <2>3. list' \in Seq(Ids) /\ IsInjective(list') /\ inactive' \subseteq Listed'
    BY <1>14 DEF ClosedAcquired, Listed, IsInjective
  <2> QED BY <1>14, <2>1, <2>2, <2>3, DSAssumption DEF ClosedAcquired, TypeOK, past
<1>15. ASSUME Takes("closed"), ClosedReleasing PROVE TypeOK'
  <2>1. inbox' \in Seq(Messages)
    BY <1>15, TakenTypes DEF Takes
  <2>2. list' \in Seq(Ids) /\ IsInjective(list') /\ inactive' = {}
    BY <1>15, KeptList DEF ClosedReleasing
  <2>3. CASE Active = {}
    BY <1>15, <2>1, <2>2, <2>3 DEF ClosedReleasing, TypeOK, past
  <2>4. CASE Active # {}
    <3>1. mState' = "Pending" /\ \E result \in Results : StartCall(result, list)
      BY <1>15, <2>4 DEF ClosedReleasing
    <3>2. /\ mRetries' \in 0..MaxRetries /\ timers' \in Nat /\ view' \in [Ids -> Views]
          /\ call' \in {call, "starting"} /\ calm' \in BOOLEAN /\ smooth' \in BOOLEAN
      BY <3>1, Started
    <3> QED BY <2>1, <2>2, <3>1, <3>2 DEF TypeOK
  <2> QED BY <2>3, <2>4
<1>16. ASSUME NEW word \in {"opened", "closed"}, Takes(word), Unexpected(word) PROVE TypeOK'
  <2>1. inbox' \in Seq(Messages)
    BY <1>16, TakenTypes DEF Takes
  <2> QED BY <1>16, <2>1 DEF Unexpected, TypeOK, Listed, past
<1>17. ASSUME UNCHANGED vars PROVE TypeOK'
  BY <1>17 DEF vars, past, TypeOK, Listed
<1> QED BY ProcessCases, <1>1, <1>2, <1>3, <1>4, <1>5, <1>6, <1>7, <1>8, <1>9,
          <1>10, <1>11, <1>12, <1>13, <1>14, <1>15, <1>16, <1>17 DEF Next

\* The machine follows the call: what a message says is taken off the inbox as
\* the machine's state changes.
LEMMA FollowedStep ==
  TypeOK /\ CallIsFollowed /\ [Next]_vars => CallIsFollowed'
<1> SUFFICES ASSUME TypeOK, CallIsFollowed, [Next]_vars PROVE CallIsFollowed'
  OBVIOUS
<1>1. ASSUME NEW s \in Ids, RequestES(s) PROVE CallIsFollowed'
  <2>1. UNCHANGED <<mState, call>>
    BY <1>1 DEF RequestES
  <2>2. CASE inbox' = inbox
    BY <2>1, <2>2 DEF CallIsFollowed, ReportsInOrder, Once, Coming
  <2>3. CASE \E m \in Messages : inbox' = Append(inbox, m) /\ m.msg \in {"request", "release"}
    BY <2>1, <2>3, ReportsAdded DEF CallIsFollowed
  <2> QED BY <1>1, <2>2, <2>3 DEF RequestES, Messages
<1>2. ASSUME NEW s \in Ids, CloseES(s) PROVE CallIsFollowed'
  <2>1. UNCHANGED <<mState, call>>
    BY <1>2 DEF CloseES
  <2>2. CASE inbox' = inbox
    BY <2>1, <2>2 DEF CallIsFollowed, ReportsInOrder, Once, Coming
  <2>3. CASE \E m \in Messages : inbox' = Append(inbox, m) /\ m.msg \in {"request", "release"}
    BY <2>1, <2>3, ReportsAdded DEF CallIsFollowed
  <2> QED BY <1>2, <2>2, <2>3 DEF CloseES, Messages
<1>3. ASSUME CallOpens PROVE CallIsFollowed'
  <2> DEFINE m == [msg |-> "opened"]
  <2>1. m \in Messages /\ m.msg = "opened" /\ inbox' = Append(inbox, m) /\ mState' = mState
    BY <1>3 DEF CallOpens, Report, Messages
  <2> HIDE DEF m
  <2>2. ~Coming("opened") /\ ~Coming("closed")
    BY <1>3 DEF CallOpens, Report, CallIsFollowed
  <2>3. /\ ReportsInOrder'
        /\ Coming("opened")' <=> Coming("opened") \/ m.msg = "opened"
        /\ Coming("closed")' <=> Coming("closed") \/ m.msg = "closed"
    BY <2>1, <2>2, ReportsAdded DEF CallIsFollowed
  <2> QED BY <1>3, <2>1, <2>3 DEF CallOpens, Report, CallIsFollowed
<1>4. ASSUME CallEnds PROVE CallIsFollowed'
  <2> DEFINE m == [msg |-> "closed"]
  <2>1. m \in Messages /\ m.msg = "closed" /\ inbox' = Append(inbox, m) /\ mState' = mState
    BY <1>4 DEF CallEnds, Report, Messages
  <2> HIDE DEF m
  <2>2. ~Coming("closed")
    BY <1>4 DEF CallEnds, Report, CallIsFollowed
  <2>3. /\ ReportsInOrder'
        /\ Coming("opened")' <=> Coming("opened") \/ m.msg = "opened"
        /\ Coming("closed")' <=> Coming("closed") \/ m.msg = "closed"
    BY <2>1, <2>2, ReportsAdded DEF CallIsFollowed
  <2> QED BY <1>4, <2>1, <2>3 DEF CallEnds, Report, CallIsFollowed
<1>5. ASSUME CallDrops PROVE CallIsFollowed'
  <2> DEFINE m == [msg |-> "closed"]
  <2>1. m \in Messages /\ m.msg = "closed" /\ inbox' = Append(inbox, m) /\ mState' = mState
    BY <1>5 DEF CallDrops, Report, Messages
  <2> HIDE DEF m
  <2>2. ~Coming("closed")
    BY <1>5 DEF CallDrops, Report, CallIsFollowed
  <2>3. /\ ReportsInOrder'
        /\ Coming("opened")' <=> Coming("opened") \/ m.msg = "opened"
        /\ Coming("closed")' <=> Coming("closed") \/ m.msg = "closed"
    BY <2>1, <2>2, ReportsAdded DEF CallIsFollowed
  <2> QED BY <1>5, <2>1, <2>3 DEF CallDrops, Report, CallIsFollowed
<1>6. ASSUME TimerExpires PROVE CallIsFollowed'
  <2>1. UNCHANGED <<mState, call>>
    BY <1>6 DEF TimerExpires
  <2>2. CASE inbox' = inbox
    BY <2>1, <2>2 DEF CallIsFollowed, ReportsInOrder, Once, Coming
  <2>3. CASE \E m \in Messages : inbox' = Append(inbox, m) /\ m.msg = "request"
    BY <2>1, <2>3, ReportsAdded DEF CallIsFollowed
  <2>4. Active # {} => First(list) \in Ids
    BY FirstActive DEF TypeOK, Active, Listed, ToSet
  <2> QED BY <1>6, <2>2, <2>3, <2>4 DEF TimerExpires, Messages
<1>7. ASSUME NEW s \in Ids, s = Head(inbox).id, Takes("request"), SubscribeReleased(s)
      PROVE CallIsFollowed'
  <2>1. /\ ReportsInOrder'
        /\ Coming("opened")' <=> Coming("opened") /\ Head(inbox).msg # "opened"
        /\ Coming("closed")' <=> Coming("closed") /\ Head(inbox).msg # "closed"
        /\ Head(inbox).msg = "opened" => Coming("opened")
        /\ Head(inbox).msg = "closed" => Coming("closed") /\ ~Coming("opened")
    BY <1>7, ReportsTaken DEF Takes, CallIsFollowed
  <2>2. PICK result \in Results : /\ StartCall(result, list')
                                  /\ mState' = IF result = "SUCCESS" THEN "Pending" ELSE "Released"
    BY <1>7 DEF SubscribeReleased
  <2>3. call' = IF result = "SUCCESS" THEN "starting" ELSE call
    BY <2>2, Started
  <2> QED BY <1>7, <2>1, <2>2, <2>3 DEF SubscribeReleased, Takes, CallIsFollowed, TypeOK
<1>8. ASSUME NEW s \in Ids, s = Head(inbox).id, Takes("request"), SubscribeUnanswered(s)
      PROVE CallIsFollowed'
  <2>1. /\ ReportsInOrder'
        /\ Coming("opened")' <=> Coming("opened") /\ Head(inbox).msg # "opened"
        /\ Coming("closed")' <=> Coming("closed") /\ Head(inbox).msg # "closed"
        /\ Head(inbox).msg = "opened" => Coming("opened")
        /\ Head(inbox).msg = "closed" => Coming("closed") /\ ~Coming("opened")
    BY <1>8, ReportsTaken DEF Takes, CallIsFollowed
  <2> QED BY <1>8, <2>1 DEF SubscribeUnanswered, Takes, CallIsFollowed, TypeOK
<1>9. ASSUME NEW s \in Ids, s = Head(inbox).id, Takes("request"), SubscribeAcquired(s)
      PROVE CallIsFollowed'
  <2>1. /\ ReportsInOrder'
        /\ Coming("opened")' <=> Coming("opened") /\ Head(inbox).msg # "opened"
        /\ Coming("closed")' <=> Coming("closed") /\ Head(inbox).msg # "closed"
        /\ Head(inbox).msg = "opened" => Coming("opened")
        /\ Head(inbox).msg = "closed" => Coming("closed") /\ ~Coming("opened")
    BY <1>9, ReportsTaken DEF Takes, CallIsFollowed
  <2> QED BY <1>9, <2>1 DEF SubscribeAcquired, Takes, CallIsFollowed, TypeOK
<1>10. ASSUME NEW s \in Ids, s = Head(inbox).id, Takes("release"), UnsubscribeIgnored(s)
       PROVE CallIsFollowed'
  <2>1. /\ ReportsInOrder'
        /\ Coming("opened")' <=> Coming("opened") /\ Head(inbox).msg # "opened"
        /\ Coming("closed")' <=> Coming("closed") /\ Head(inbox).msg # "closed"
        /\ Head(inbox).msg = "opened" => Coming("opened")
        /\ Head(inbox).msg = "closed" => Coming("closed") /\ ~Coming("opened")
    BY <1>10, ReportsTaken DEF Takes, CallIsFollowed
  <2> QED BY <1>10, <2>1 DEF UnsubscribeIgnored, Takes, CallIsFollowed, TypeOK
<1>11. ASSUME NEW s \in Ids, s = Head(inbox).id, Takes("release"), UnsubscribeListed(s)
       PROVE CallIsFollowed'
  <2>1. /\ ReportsInOrder'
        /\ Coming("opened")' <=> Coming("opened") /\ Head(inbox).msg # "opened"
        /\ Coming("closed")' <=> Coming("closed") /\ Head(inbox).msg # "closed"
        /\ Head(inbox).msg = "opened" => Coming("opened")
        /\ Head(inbox).msg = "closed" => Coming("closed") /\ ~Coming("opened")
    BY <1>11, ReportsTaken DEF Takes, CallIsFollowed
  <2> QED BY <1>11, <2>1 DEF UnsubscribeListed, Takes, CallIsFollowed, TypeOK, Stopped
<1>12. ASSUME Takes("opened"), OnOpened PROVE CallIsFollowed'
  <2>1. /\ ReportsInOrder'
        /\ Coming("opened")' <=> Coming("opened") /\ Head(inbox).msg # "opened"
        /\ Coming("closed")' <=> Coming("closed") /\ Head(inbox).msg # "closed"
        /\ Head(inbox).msg = "opened" => Coming("opened")
        /\ Head(inbox).msg = "closed" => Coming("closed") /\ ~Coming("opened")
    BY <1>12, ReportsTaken DEF Takes, CallIsFollowed
  <2> QED BY <1>12, <2>1 DEF OnOpened, Takes, CallIsFollowed, TypeOK
<1>13. ASSUME Takes("closed"), ClosedPending PROVE CallIsFollowed'
  <2>1. /\ ReportsInOrder'
        /\ Coming("opened")' <=> Coming("opened") /\ Head(inbox).msg # "opened"
        /\ Coming("closed")' <=> Coming("closed") /\ Head(inbox).msg # "closed"
        /\ Head(inbox).msg = "opened" => Coming("opened")
        /\ Head(inbox).msg = "closed" => Coming("closed") /\ ~Coming("opened")
    BY <1>13, ReportsTaken DEF Takes, CallIsFollowed
  <2> QED BY <1>13, <2>1 DEF ClosedPending, Takes, CallIsFollowed, TypeOK
<1>14. ASSUME Takes("closed"), ClosedAcquired PROVE CallIsFollowed'
  <2>1. /\ ReportsInOrder'
        /\ Coming("opened")' <=> Coming("opened") /\ Head(inbox).msg # "opened"
        /\ Coming("closed")' <=> Coming("closed") /\ Head(inbox).msg # "closed"
        /\ Head(inbox).msg = "opened" => Coming("opened")
        /\ Head(inbox).msg = "closed" => Coming("closed") /\ ~Coming("opened")
    BY <1>14, ReportsTaken DEF Takes, CallIsFollowed
  <2> QED BY <1>14, <2>1 DEF ClosedAcquired, Takes, CallIsFollowed, TypeOK
<1>15. ASSUME Takes("closed"), ClosedReleasing PROVE CallIsFollowed'
  <2>1. /\ ReportsInOrder'
        /\ Coming("opened")' <=> Coming("opened") /\ Head(inbox).msg # "opened"
        /\ Coming("closed")' <=> Coming("closed") /\ Head(inbox).msg # "closed"
        /\ Head(inbox).msg = "opened" => Coming("opened")
        /\ Head(inbox).msg = "closed" => Coming("closed") /\ ~Coming("opened")
    BY <1>15, ReportsTaken DEF Takes, CallIsFollowed
  <2>2. call = "down" /\ ~Coming("opened") /\ ~Coming("closed")'
    BY <1>15, <2>1 DEF ClosedReleasing, Takes, CallIsFollowed, TypeOK
  <2>3. CASE Active = {}
    BY <1>15, <2>1, <2>2, <2>3 DEF ClosedReleasing, CallIsFollowed
  <2>4. CASE Active # {}
    <3>1. mState' = "Pending" /\ \E result \in Results : StartCall(result, list)
      BY <1>15, <2>4 DEF ClosedReleasing
    <3>2. call' \in {call, "starting"}
      BY <3>1, Started
    <3> QED BY <2>1, <2>2, <3>1, <3>2 DEF CallIsFollowed
  <2> QED BY <2>3, <2>4
<1>16. ASSUME NEW word \in {"opened", "closed"}, Takes(word), Unexpected(word)
       PROVE CallIsFollowed'
  <2>1. /\ ReportsInOrder'
        /\ Coming("opened")' <=> Coming("opened") /\ Head(inbox).msg # "opened"
        /\ Coming("closed")' <=> Coming("closed") /\ Head(inbox).msg # "closed"
        /\ Head(inbox).msg = "opened" => Coming("opened")
        /\ Head(inbox).msg = "closed" => Coming("closed") /\ ~Coming("opened")
    BY <1>16, ReportsTaken DEF Takes, CallIsFollowed
  <2> QED BY <1>16, <2>1 DEF Unexpected, Takes, CallIsFollowed, TypeOK
<1>17. ASSUME UNCHANGED vars PROVE CallIsFollowed'
  BY <1>17 DEF vars, CallIsFollowed, ReportsInOrder, Once, Coming
<1> QED BY ProcessCases, <1>1, <1>2, <1>3, <1>4, <1>5, <1>6, <1>7, <1>8, <1>9,
          <1>10, <1>11, <1>12, <1>13, <1>14, <1>15, <1>16, <1>17 DEF Next

\* The last active connection leaves only with the call.
LEMMA HeldStep ==
  TypeOK /\ HeldForSomeone /\ [Next]_vars => HeldForSomeone'
<1> SUFFICES ASSUME TypeOK, HeldForSomeone, [Next]_vars PROVE HeldForSomeone'
  OBVIOUS
<1>1. ASSUME NEW s \in Ids, RequestES(s) PROVE HeldForSomeone'
  BY <1>1 DEF RequestES, HeldForSomeone, Active, Listed
<1>2. ASSUME NEW s \in Ids, CloseES(s) PROVE HeldForSomeone'
  BY <1>2 DEF CloseES, HeldForSomeone, Active, Listed
<1>3. ASSUME CallOpens PROVE HeldForSomeone'
  BY <1>3 DEF CallOpens, Report, HeldForSomeone, Active, Listed
<1>4. ASSUME CallEnds PROVE HeldForSomeone'
  BY <1>4 DEF CallEnds, Report, HeldForSomeone, Active, Listed
<1>5. ASSUME CallDrops PROVE HeldForSomeone'
  BY <1>5 DEF CallDrops, Report, HeldForSomeone, Active, Listed
<1>6. ASSUME TimerExpires PROVE HeldForSomeone'
  BY <1>6 DEF TimerExpires, HeldForSomeone, Active, Listed
<1>7. ASSUME NEW s \in Ids, s = Head(inbox).id, Takes("request"), SubscribeReleased(s)
      PROVE HeldForSomeone'
  <2>1. Listed' = Listed \cup {s} /\ inactive' = inactive
    BY <1>7, AddedList DEF SubscribeReleased, Listed
  <2> QED BY <1>7, <2>1 DEF SubscribeReleased, HeldForSomeone, Active, TypeOK
<1>8. ASSUME NEW s \in Ids, s = Head(inbox).id, Takes("request"), SubscribeUnanswered(s)
      PROVE HeldForSomeone'
  <2>1. Listed' = Listed \cup {s} /\ inactive' = inactive
    BY <1>8, AddedList DEF SubscribeUnanswered, Listed
  <2> QED BY <1>8, <2>1 DEF SubscribeUnanswered, HeldForSomeone, Active, TypeOK
<1>9. ASSUME NEW s \in Ids, s = Head(inbox).id, Takes("request"), SubscribeAcquired(s)
      PROVE HeldForSomeone'
  <2>1. Listed' = Listed \cup {s} /\ inactive' = inactive
    BY <1>9, AddedList DEF SubscribeAcquired, Listed
  <2> QED BY <1>9, <2>1 DEF SubscribeAcquired, HeldForSomeone, Active, TypeOK
<1>10. ASSUME NEW s \in Ids, s = Head(inbox).id, Takes("release"), UnsubscribeIgnored(s)
       PROVE HeldForSomeone'
  BY <1>10 DEF UnsubscribeIgnored, HeldForSomeone, Active, Listed
<1>11. ASSUME NEW s \in Ids, s = Head(inbox).id, Takes("release"), UnsubscribeListed(s)
       PROVE HeldForSomeone'
  BY <1>11 DEF UnsubscribeListed, HeldForSomeone, Active, Listed, TypeOK
<1>12. ASSUME Takes("opened"), OnOpened PROVE HeldForSomeone'
  BY <1>12 DEF OnOpened, HeldForSomeone, Active, Listed
<1>13. ASSUME Takes("closed"), ClosedPending PROVE HeldForSomeone'
  BY <1>13 DEF ClosedPending, HeldForSomeone
<1>14. ASSUME Takes("closed"), ClosedAcquired PROVE HeldForSomeone'
  BY <1>14 DEF ClosedAcquired, HeldForSomeone
<1>15. ASSUME Takes("closed"), ClosedReleasing PROVE HeldForSomeone'
  <2>1. Listed' = Active /\ inactive' = {}
    BY <1>15, KeptList DEF ClosedReleasing, Listed
  <2> QED BY <1>15, <2>1 DEF ClosedReleasing, HeldForSomeone, Active
<1>16. ASSUME NEW word \in {"opened", "closed"}, Takes(word), Unexpected(word)
       PROVE HeldForSomeone'
  BY <1>16 DEF Unexpected, HeldForSomeone, Active, Listed
<1>17. ASSUME UNCHANGED vars PROVE HeldForSomeone'
  BY <1>17 DEF vars, past, HeldForSomeone, Active, Listed
<1> QED BY ProcessCases, <1>1, <1>2, <1>3, <1>4, <1>5, <1>6, <1>7, <1>8, <1>9,
          <1>10, <1>11, <1>12, <1>13, <1>14, <1>15, <1>16, <1>17 DEF Next

\* Requests and releases name connections.
LEMMA MessageIds ==
  ASSUME TypeOK
  PROVE  \A i \in 1..Len(inbox) : inbox[i].msg \in {"request", "release"} => inbox[i].id \in Ids
<1>1. \A i \in 1..Len(inbox) : inbox[i] \in Messages
  BY DEF TypeOK
<1> QED BY <1>1 DEF Messages

\* A message is taken, and the modem forgets no closed connection.
LEMMA ReleaseTaken ==
  ASSUME TypeOK, ReleasedIsClosed, inbox # <<>>, inbox' = Tail(inbox),
         \A t \in Ids : view[t] = "closed" => view'[t] = "closed",
         \A t \in inactive' : t \in inactive \/ (t = Head(inbox).id /\ Head(inbox).msg = "release")
  PROVE  ReleasedIsClosed'
<1>1. inactive \subseteq Ids
  BY DEF TypeOK, Listed, ToSet
<1>2. /\ Head(inbox) = inbox[1] /\ 1 \in 1..Len(inbox)
      /\ \A i \in 1..Len(inbox') : i + 1 \in 1..Len(inbox) /\ inbox'[i] = inbox[i + 1]
  BY TakenTypes
<1>3. \A i \in 1..Len(inbox) : inbox[i].msg = "release" => view[inbox[i].id] = "closed" /\ inbox[i].id \in Ids
  BY MessageIds DEF ReleasedIsClosed
<1>4. \A s \in inactive' : view'[s] = "closed"
  BY <1>1, <1>2, <1>3 DEF ReleasedIsClosed
<1>5. \A i \in 1..Len(inbox') : inbox'[i].msg = "release" => view'[inbox'[i].id] = "closed"
  BY <1>2, <1>3
<1> QED BY <1>4, <1>5 DEF ReleasedIsClosed

\* A message is added, and a release only for a closed connection.
LEMMA ReleaseAdded ==
  ASSUME TypeOK, ReleasedIsClosed, NEW m \in Messages, inbox' = Append(inbox, m),
         \A t \in Ids : view[t] = "closed" => view'[t] = "closed", inactive' = inactive,
         m.msg = "release" => m.id \in Ids /\ view'[m.id] = "closed"
  PROVE  ReleasedIsClosed'
<1> DEFINE n == Len(inbox)
<1>1. /\ n \in Nat /\ Len(inbox') = n + 1 /\ inbox'[n + 1] = m
      /\ \A i \in 1..n : inbox'[i] = inbox[i]
      /\ \A i \in 1..(n+1) : i \in 1..n \/ i = n + 1
  BY AddedTypes
<1>2. \A i \in 1..n : inbox[i].msg = "release" => view[inbox[i].id] = "closed" /\ inbox[i].id \in Ids
  BY MessageIds DEF ReleasedIsClosed
<1> HIDE DEF n
<1>3. \A i \in 1..(n+1) : inbox'[i].msg = "release" => view'[inbox'[i].id] = "closed"
  BY <1>1, <1>2
<1>4. inactive \subseteq Ids
  BY DEF TypeOK, Listed, ToSet
<1> QED BY <1>1, <1>3, <1>4 DEF ReleasedIsClosed, n

\* The machine marks as inactive only connections that the modem has closed.
LEMMA ReleasedStep ==
  TypeOK /\ ReleasedIsClosed /\ [Next]_vars => ReleasedIsClosed'
<1> SUFFICES ASSUME TypeOK, ReleasedIsClosed, [Next]_vars PROVE ReleasedIsClosed'
  OBVIOUS
<1>1. ASSUME NEW s \in Ids, RequestES(s) PROVE ReleasedIsClosed'
  <2>1. /\ \A t \in Ids : view[t] = "closed" => view'[t] = "closed"
        /\ inactive' = inactive /\ inactive \subseteq Ids
    BY <1>1 DEF RequestES, TypeOK, Views, Listed, ToSet
  <2>2. CASE inbox' = inbox
    BY <2>1, <2>2, MessageIds DEF ReleasedIsClosed
  <2>3. CASE \E m \in Messages :
         inbox' = Append(inbox, m) /\ (m.msg = "release" => m.id \in Ids /\ view'[m.id] = "closed")
    BY <2>1, <2>3, ReleaseAdded
  <2> QED BY <1>1, <2>2, <2>3 DEF RequestES, Messages, TypeOK
<1>2. ASSUME NEW s \in Ids, CloseES(s) PROVE ReleasedIsClosed'
  <2>1. /\ \A t \in Ids : view[t] = "closed" => view'[t] = "closed"
        /\ inactive' = inactive /\ inactive \subseteq Ids
    BY <1>2 DEF CloseES, TypeOK, Views, Listed, ToSet
  <2>2. CASE inbox' = inbox
    BY <2>1, <2>2, MessageIds DEF ReleasedIsClosed
  <2>3. CASE \E m \in Messages :
         inbox' = Append(inbox, m) /\ (m.msg = "release" => m.id \in Ids /\ view'[m.id] = "closed")
    BY <2>1, <2>3, ReleaseAdded
  <2> QED BY <1>2, <2>2, <2>3 DEF CloseES, Messages, TypeOK
<1>3. ASSUME CallOpens PROVE ReleasedIsClosed'
  <2>1. UNCHANGED <<view, inactive>> /\ \E m \in Messages : inbox' = Append(inbox, m) /\ m.msg # "release"
    BY <1>3 DEF CallOpens, Report, Messages
  <2> QED BY <2>1, AddedTypes, MessageIds DEF ReleasedIsClosed
<1>4. ASSUME CallEnds PROVE ReleasedIsClosed'
  <2>1. UNCHANGED <<view, inactive>> /\ \E m \in Messages : inbox' = Append(inbox, m) /\ m.msg # "release"
    BY <1>4 DEF CallEnds, Report, Messages
  <2> QED BY <2>1, AddedTypes, MessageIds DEF ReleasedIsClosed
<1>5. ASSUME CallDrops PROVE ReleasedIsClosed'
  <2>1. UNCHANGED <<view, inactive>> /\ \E m \in Messages : inbox' = Append(inbox, m) /\ m.msg # "release"
    BY <1>5 DEF CallDrops, Report, Messages
  <2> QED BY <2>1, AddedTypes, MessageIds DEF ReleasedIsClosed
<1>6. ASSUME TimerExpires PROVE ReleasedIsClosed'
  <2>1. /\ \A t \in Ids : view[t] = "closed" => view'[t] = "closed"
        /\ inactive' = inactive /\ inactive \subseteq Ids
    BY <1>6 DEF TimerExpires, TypeOK, Views, Listed, ToSet
  <2>2. CASE inbox' = inbox
    BY <2>1, <2>2, MessageIds DEF ReleasedIsClosed
  <2>3. CASE \E m \in Messages :
         inbox' = Append(inbox, m) /\ (m.msg = "release" => m.id \in Ids /\ view'[m.id] = "closed")
    BY <2>1, <2>3, ReleaseAdded
  <2>4. Active # {} => First(list) \in Ids
    BY FirstActive DEF TypeOK, Active, Listed, ToSet
  <2> QED BY <1>6, <2>2, <2>3, <2>4 DEF TimerExpires, Messages
<1>7. ASSUME NEW s \in Ids, s = Head(inbox).id, Takes("request"), SubscribeReleased(s)
      PROVE ReleasedIsClosed'
  <2>1. \A t \in Ids : view[t] = "closed" => view'[t] = "closed"
    BY <1>7, Started DEF SubscribeReleased
  <2>2. \A t \in inactive' : t \in inactive \/ (t = Head(inbox).id /\ Head(inbox).msg = "release")
    BY <1>7 DEF SubscribeReleased, past
  <2> QED BY <1>7, <2>1, <2>2, ReleaseTaken DEF Takes
<1>8. ASSUME NEW s \in Ids, s = Head(inbox).id, Takes("request"), SubscribeUnanswered(s)
      PROVE ReleasedIsClosed'
  <2>1. \A t \in Ids : view[t] = "closed" => view'[t] = "closed"
    BY <1>8 DEF SubscribeUnanswered
  <2>2. \A t \in inactive' : t \in inactive \/ (t = Head(inbox).id /\ Head(inbox).msg = "release")
    BY <1>8 DEF SubscribeUnanswered, past
  <2> QED BY <1>8, <2>1, <2>2, ReleaseTaken DEF Takes
<1>9. ASSUME NEW s \in Ids, s = Head(inbox).id, Takes("request"), SubscribeAcquired(s)
      PROVE ReleasedIsClosed'
  <2>1. \A t \in Ids : view[t] = "closed" => view'[t] = "closed"
    BY <1>9, Informed DEF SubscribeAcquired, Views
  <2>2. \A t \in inactive' : t \in inactive \/ (t = Head(inbox).id /\ Head(inbox).msg = "release")
    BY <1>9 DEF SubscribeAcquired, past
  <2> QED BY <1>9, <2>1, <2>2, ReleaseTaken DEF Takes
<1>10. ASSUME NEW s \in Ids, s = Head(inbox).id, Takes("release"), UnsubscribeIgnored(s)
       PROVE ReleasedIsClosed'
  <2>1. \A t \in Ids : view[t] = "closed" => view'[t] = "closed"
    BY <1>10 DEF UnsubscribeIgnored
  <2>2. \A t \in inactive' : t \in inactive \/ (t = Head(inbox).id /\ Head(inbox).msg = "release")
    BY <1>10 DEF UnsubscribeIgnored, past
  <2> QED BY <1>10, <2>1, <2>2, ReleaseTaken DEF Takes
<1>11. ASSUME NEW s \in Ids, s = Head(inbox).id, Takes("release"), UnsubscribeListed(s)
       PROVE ReleasedIsClosed'
  <2>1. \A t \in Ids : view[t] = "closed" => view'[t] = "closed"
    BY <1>11 DEF UnsubscribeListed
  <2>2. \A t \in inactive' : t \in inactive \/ (t = Head(inbox).id /\ Head(inbox).msg = "release")
    BY <1>11 DEF UnsubscribeListed, Takes
  <2> QED BY <1>11, <2>1, <2>2, ReleaseTaken DEF Takes
<1>12. ASSUME Takes("opened"), OnOpened PROVE ReleasedIsClosed'
  <2>1. \A t \in Ids : view[t] = "closed" => view'[t] = "closed"
    BY <1>12, Informed DEF OnOpened, Views
  <2>2. \A t \in inactive' : t \in inactive \/ (t = Head(inbox).id /\ Head(inbox).msg = "release")
    BY <1>12 DEF OnOpened, past
  <2> QED BY <1>12, <2>1, <2>2, ReleaseTaken DEF Takes
<1>13. ASSUME Takes("closed"), ClosedPending PROVE ReleasedIsClosed'
  <2>1. \A t \in Ids : view[t] = "closed" => view'[t] = "closed"
    BY <1>13, Informed DEF ClosedPending, Views
  <2>2. \A t \in inactive' : t \in inactive \/ (t = Head(inbox).id /\ Head(inbox).msg = "release")
    BY <1>13 DEF ClosedPending, past
  <2> QED BY <1>13, <2>1, <2>2, ReleaseTaken DEF Takes
<1>14. ASSUME Takes("closed"), ClosedAcquired PROVE ReleasedIsClosed'
  <2>1. \A t \in Ids : view[t] = "closed" => view'[t] = "closed"
    BY <1>14, Informed DEF ClosedAcquired, Views
  <2>2. \A t \in inactive' : t \in inactive \/ (t = Head(inbox).id /\ Head(inbox).msg = "release")
    BY <1>14 DEF ClosedAcquired, past
  <2> QED BY <1>14, <2>1, <2>2, ReleaseTaken DEF Takes
<1>15. ASSUME Takes("closed"), ClosedReleasing PROVE ReleasedIsClosed'
  <2>1. \A t \in Ids : view[t] = "closed" => view'[t] = "closed"
    <3>1. CASE Active = {}
      BY <1>15, <3>1 DEF ClosedReleasing
    <3>2. CASE Active # {}
      BY <1>15, <3>2, Started DEF ClosedReleasing
    <3> QED BY <3>1, <3>2
  <2>2. \A t \in inactive' : t \in inactive \/ (t = Head(inbox).id /\ Head(inbox).msg = "release")
    BY <1>15 DEF ClosedReleasing, past
  <2> QED BY <1>15, <2>1, <2>2, ReleaseTaken DEF Takes
<1>16. ASSUME NEW word \in {"opened", "closed"}, Takes(word), Unexpected(word)
       PROVE ReleasedIsClosed'
  <2>1. \A t \in Ids : view[t] = "closed" => view'[t] = "closed"
    BY <1>16 DEF Unexpected
  <2>2. \A t \in inactive' : t \in inactive \/ (t = Head(inbox).id /\ Head(inbox).msg = "release")
    BY <1>16 DEF Unexpected, past
  <2> QED BY <1>16, <2>1, <2>2, ReleaseTaken DEF Takes
<1>17. ASSUME UNCHANGED vars PROVE ReleasedIsClosed'
  BY <1>17 DEF vars, ReleasedIsClosed
<1> QED BY ProcessCases, <1>1, <1>2, <1>3, <1>4, <1>5, <1>6, <1>7, <1>8, <1>9,
          <1>10, <1>11, <1>12, <1>13, <1>14, <1>15, <1>16, <1>17 DEF Next

\* The connection whose release is processed is one that the modem has closed.
LEMMA ReleaseHeard ==
  ASSUME TypeOK, ReleasedIsClosed, Takes("release")
  PROVE  view[Head(inbox).id] = "closed"
BY TakenTypes DEF ReleasedIsClosed, Takes

\* When the call goes, every connection in the list is told.
LEMMA ServedStep ==
  TypeOK /\ ReleasedIsClosed /\ OpenIsServed /\ [Next]_vars => OpenIsServed'
<1> SUFFICES ASSUME TypeOK, ReleasedIsClosed, OpenIsServed, [Next]_vars PROVE OpenIsServed'
  OBVIOUS
<1>1. ASSUME NEW s \in Ids, RequestES(s) PROVE OpenIsServed'
  BY <1>1 DEF RequestES, OpenIsServed, Listed, TypeOK
<1>2. ASSUME NEW s \in Ids, CloseES(s) PROVE OpenIsServed'
  BY <1>2 DEF CloseES, OpenIsServed, Listed, TypeOK
<1>3. ASSUME CallOpens PROVE OpenIsServed'
  BY <1>3 DEF CallOpens, Report, OpenIsServed, Listed
<1>4. ASSUME CallEnds PROVE OpenIsServed'
  BY <1>4 DEF CallEnds, Report, OpenIsServed, Listed
<1>5. ASSUME CallDrops PROVE OpenIsServed'
  BY <1>5 DEF CallDrops, Report, OpenIsServed, Listed
<1>6. ASSUME TimerExpires PROVE OpenIsServed'
  BY <1>6 DEF TimerExpires, OpenIsServed, Listed
<1>7. ASSUME NEW s \in Ids, s = Head(inbox).id, Takes("request"), SubscribeReleased(s)
      PROVE OpenIsServed'
  <2>1. \A t \in Ids : view'[t] \in {view[t], "fallback"}
    BY <1>7, Started DEF SubscribeReleased
  <2> QED BY <1>7, <2>1 DEF SubscribeReleased, OpenIsServed
<1>8. ASSUME NEW s \in Ids, s = Head(inbox).id, Takes("request"), SubscribeUnanswered(s)
      PROVE OpenIsServed'
  <2>1. Listed' = Listed \cup {s} /\ UNCHANGED <<mState, view>>
    BY <1>8, AddedList DEF SubscribeUnanswered, Listed
  <2> QED BY <2>1 DEF OpenIsServed
<1>9. ASSUME NEW s \in Ids, s = Head(inbox).id, Takes("request"), SubscribeAcquired(s)
      PROVE OpenIsServed'
  <2>1. Listed' = Listed \cup {s} /\ mState = "Acquired" /\ mState' = mState
    BY <1>9, AddedList DEF SubscribeAcquired, Listed
  <2>2. \A t \in Ids : view'[t] = IF t = s /\ view[t] # "closed" THEN "open" ELSE view[t]
    BY <1>9, Informed DEF SubscribeAcquired, Views
  <2> QED BY <2>1, <2>2 DEF OpenIsServed
<1>10. ASSUME NEW s \in Ids, s = Head(inbox).id, Takes("release"), UnsubscribeIgnored(s)
       PROVE OpenIsServed'
  BY <1>10 DEF UnsubscribeIgnored, OpenIsServed, Listed
<1>11. ASSUME NEW s \in Ids, s = Head(inbox).id, Takes("release"), UnsubscribeListed(s)
       PROVE OpenIsServed'
  <2>1. Listed' = Listed /\ view' = view /\ inactive' = inactive \cup {s} /\ view[s] = "closed"
    BY <1>11, ReleaseHeard DEF UnsubscribeListed, Listed, Takes
  <2>2. CASE Listed \subseteq inactive' /\ mState # "Releasing"
    BY <2>1, <2>2 DEF OpenIsServed, ReleasedIsClosed
  <2>3. CASE ~(Listed \subseteq inactive' /\ mState # "Releasing")
    BY <1>11, <2>1, <2>3 DEF UnsubscribeListed, OpenIsServed
  <2> QED BY <2>2, <2>3
<1>12. ASSUME Takes("opened"), OnOpened PROVE OpenIsServed'
  <2>1. \A t \in Ids : view'[t] = IF t \in Active /\ view[t] # "closed" THEN "open" ELSE view[t]
    BY <1>12, Informed DEF OnOpened, Views
  <2> QED BY <1>12, <2>1 DEF OnOpened, OpenIsServed, Active, Listed
<1>13. ASSUME Takes("closed"), ClosedPending PROVE OpenIsServed'
  <2>1. \A t \in Ids : view'[t] = IF t \in Listed /\ view[t] # "closed" THEN "fallback" ELSE view[t]
    BY <1>13, Informed DEF ClosedPending, Views
  <2> QED BY <1>13, <2>1 DEF ClosedPending, OpenIsServed
<1>14. ASSUME Takes("closed"), ClosedAcquired PROVE OpenIsServed'
  <2>1. \A t \in Ids : view'[t] = IF t \in Listed /\ view[t] # "closed" THEN "lost" ELSE view[t]
    BY <1>14, Informed DEF ClosedAcquired, Views
  <2> QED BY <1>14, <2>1 DEF ClosedAcquired, OpenIsServed
<1>15. ASSUME Takes("closed"), ClosedReleasing PROVE OpenIsServed'
  <2>1. \A t \in Ids : view'[t] \in {view[t], "fallback"}
    <3>1. CASE Active = {}
      BY <1>15, <3>1 DEF ClosedReleasing
    <3>2. CASE Active # {}
      BY <1>15, <3>2, Started DEF ClosedReleasing
    <3> QED BY <3>1, <3>2
  <2> QED BY <1>15, <2>1 DEF ClosedReleasing, OpenIsServed
<1>16. ASSUME NEW word \in {"opened", "closed"}, Takes(word), Unexpected(word)
       PROVE OpenIsServed'
  BY <1>16 DEF Unexpected, OpenIsServed, Listed
<1>17. ASSUME UNCHANGED vars PROVE OpenIsServed'
  BY <1>17 DEF vars, OpenIsServed, Listed
<1> QED BY ProcessCases, <1>1, <1>2, <1>3, <1>4, <1>5, <1>6, <1>7, <1>8, <1>9,
          <1>10, <1>11, <1>12, <1>13, <1>14, <1>15, <1>16, <1>17 DEF Next

\* A message is taken: the first of a connection's two.
LEMMA CallTaken ==
  ASSUME TypeOK, inbox # <<>>, inbox' = Tail(inbox), NEW s \in Ids, ReleaseComes(s),
         ~(Head(inbox).msg = "release" /\ Head(inbox).id = s)
  PROVE  ReleaseComes(s)'
<1>1. PICK i \in 1..Len(inbox) : inbox[i] = [msg |-> "release", id |-> s]
  BY DEF ReleaseComes
<1>2. i # 1 /\ Head(inbox) = inbox[1]
  BY <1>1, TakenTypes
<1>3. i - 1 \in 1..Len(inbox') /\ inbox'[i - 1] = inbox[i]
  BY <1>1, <1>2, TakenTypes
<1> QED BY <1>1, <1>3 DEF ReleaseComes

LEMMA AskedTaken ==
  ASSUME TypeOK, AskedOnce, inbox # <<>>, inbox' = Tail(inbox),
         \A t \in Listed' : t \in Listed \/ (Head(inbox).msg = "request" /\ Head(inbox).id = t),
         \A t \in Ids : t \notin Listed \cup Listed' => view'[t] = view[t]
  PROVE  AskedOnce'
<1> DEFINE n == Len(inbox)
           Released(i) == \E j \in 1..n : i < j /\ inbox[j] = [msg |-> "release", id |-> inbox[i].id]
<1>1. /\ n \in Nat \ {0} /\ Len(inbox') = n - 1 /\ Head(inbox) = inbox[1]
      /\ \A i \in 1..(n-1) : inbox'[i] = inbox[i + 1]
  BY TakenTypes
<1> HIDE DEF n
<1>2. \A i \in 1..n : inbox[i].msg = "request" =>
         /\ inbox[i].id \in Ids /\ inbox[i].id \notin Listed
         /\ \A j \in 1..n : inbox[j].msg = "request" /\ inbox[j].id = inbox[i].id => i = j
         /\ view[inbox[i].id] = "requested" \/ Released(i)
  BY MessageIds DEF AskedOnce, n
<1>0. 1..Len(inbox') = 1..(n-1)
  BY <1>1
<1> SUFFICES ASSUME NEW i \in 1..(n-1), inbox'[i].msg = "request"
             PROVE  /\ inbox'[i].id \notin Listed'
                    /\ \A j \in 1..(n-1) : inbox'[j].msg = "request" /\ inbox'[j].id = inbox'[i].id => i = j
                    /\ \/ view'[inbox'[i].id] = "requested"
                       \/ \E j \in 1..(n-1) : i < j /\ inbox'[j] = [msg |-> "release", id |-> inbox'[i].id]
  BY <1>0, ZenonT(30) DEF AskedOnce
<1> DEFINE k == i + 1
<1>3. k \in 1..n /\ inbox'[i] = inbox[k] /\ k # 1 /\ 1 \in 1..n /\ k - 1 = i
  BY <1>1
<1> DEFINE t == inbox[k].id
<1>8. /\ t \in Ids /\ t \notin Listed
      /\ \A j \in 1..n : inbox[j].msg = "request" /\ inbox[j].id = t => k = j
      /\ view[t] = "requested" \/ Released(k)
  BY <1>2, <1>3
<1> HIDE DEF k, t, Released
<1>4. t \notin Listed'
  BY <1>1, <1>3, <1>8
<1>5. ASSUME NEW j \in 1..(n-1), inbox'[j].msg = "request", inbox'[j].id = t PROVE i = j
  <2>1. j + 1 \in 1..n /\ inbox[j + 1].msg = "request" /\ inbox[j + 1].id = t
    BY <1>1, <1>5
  <2>2. k = j + 1
    BY <1>8, <2>1
  <2> QED BY <1>3, <2>2
<1>9. inbox'[i].id = t
  BY <1>3 DEF t
<1>6. CASE view[t] = "requested"
  <2>1. view'[t] = "requested"
    BY <1>4, <1>6, <1>8
  <2> QED BY <1>4, <1>5, <1>9, <2>1
<1>7. CASE Released(k)
  <2>1. PICK j \in 1..n : k < j /\ inbox[j] = [msg |-> "release", id |-> t]
    BY <1>7 DEF Released, t
  <2>2. j - 1 \in 1..(n-1) /\ i < j - 1 /\ inbox'[j - 1] = inbox[j]
    BY <1>1, <1>3, <2>1
  <2> QED BY <1>4, <1>5, <1>9, <2>1, <2>2
<1> QED BY <1>6, <1>7, <1>8

\* A message that is not a request is added.
LEMMA CallAdded ==
  ASSUME TypeOK, NEW m \in Messages, inbox' = Append(inbox, m), NEW s \in Ids,
         ReleaseComes(s) \/ m = [msg |-> "release", id |-> s]
  PROVE  ReleaseComes(s)'
<1>1. /\ Len(inbox) \in Nat /\ Len(inbox') = Len(inbox) + 1 /\ inbox'[Len(inbox) + 1] = m
      /\ \A i \in 1..Len(inbox) : inbox'[i] = inbox[i]
  BY AddedTypes
<1>2. CASE ReleaseComes(s)
  BY <1>1, <1>2 DEF ReleaseComes
<1>3. CASE m = [msg |-> "release", id |-> s]
  BY <1>1, <1>3 DEF ReleaseComes
<1> QED BY <1>2, <1>3

LEMMA AskedAdded ==
  ASSUME TypeOK, AskedOnce, list' = list, NEW m \in Messages, inbox' = Append(inbox, m),
         \A t \in Ids : view[t] = "requested" => view'[t] = "requested" \/ m = [msg |-> "release", id |-> t],
         m.msg = "request" =>
           /\ m.id \in Ids /\ m.id \notin Listed /\ view'[m.id] = "requested"
           /\ \A i \in 1..Len(inbox) : inbox[i].msg = "request" => inbox[i].id # m.id
  PROVE  AskedOnce'
<1> DEFINE n == Len(inbox)
           Released(i) == \E j \in 1..n : i < j /\ inbox[j] = [msg |-> "release", id |-> inbox[i].id]
<1>1. /\ n \in Nat /\ n' = n + 1 /\ inbox'[n + 1] = m
      /\ \A i \in 1..n : inbox'[i] = inbox[i] /\ i \in 1..n'
      /\ \A i \in 1..n' : i \in 1..n \/ i = n + 1
      /\ Listed' = Listed
  BY AddedTypes DEF Listed
<1> HIDE DEF n
<1>2. \A i \in 1..n : inbox[i].msg = "request" =>
         /\ inbox[i].id \in Ids /\ inbox[i].id \notin Listed
         /\ \A j \in 1..n : inbox[j].msg = "request" /\ inbox[j].id = inbox[i].id => i = j
         /\ view[inbox[i].id] = "requested" \/ Released(i)
  BY MessageIds DEF AskedOnce, n
<1>3. \A i \in 1..n : inbox[i].msg = "request" => ~(m.msg = "request" /\ m.id = inbox[i].id)
  BY DEF n
<1> SUFFICES ASSUME NEW i \in 1..n', inbox'[i].msg = "request"
             PROVE  /\ inbox'[i].id \notin Listed
                    /\ \A j \in 1..n' : inbox'[j].msg = "request" /\ inbox'[j].id = inbox'[i].id => i = j
                    /\ \/ view'[inbox'[i].id] = "requested"
                       \/ \E j \in 1..n' : i < j /\ inbox'[j] = [msg |-> "release", id |-> inbox'[i].id]
  BY <1>1 DEF AskedOnce, n
<1>4. inbox'[i].id \notin Listed
  BY <1>1, <1>2
<1>5. ASSUME NEW j \in 1..n', inbox'[j].msg = "request", inbox'[j].id = inbox'[i].id
      PROVE i = j
  <2>1. CASE i \in 1..n /\ j \in 1..n
    <3>1. inbox[i].msg = "request" /\ inbox[j].msg = "request" /\ inbox[j].id = inbox[i].id
      BY <1>1, <1>5, <2>1
    <3> QED BY <1>2, <2>1, <3>1
  <2>2. CASE i = n + 1 /\ j \in 1..n
    BY <1>1, <1>3, <1>5, <2>2
  <2>3. CASE i \in 1..n /\ j = n + 1
    BY <1>1, <1>3, <1>5, <2>3
  <2> QED BY <1>1, <2>1, <2>2, <2>3
<1>6. CASE i = n + 1
  BY <1>1, <1>4, <1>5, <1>6
<1>7. CASE i \in 1..n /\ view[inbox[i].id] = "requested"
  <2>1. inbox[i].id \in Ids /\ inbox'[i] = inbox[i]
    BY <1>1, <1>2, <1>7
  <2>2. CASE view'[inbox[i].id] = "requested"
    BY <1>4, <1>5, <2>1, <2>2
  <2>3. CASE m = [msg |-> "release", id |-> inbox[i].id]
    <3>1. n + 1 \in 1..n' /\ i < n + 1 /\ inbox'[n + 1] = [msg |-> "release", id |-> inbox'[i].id]
      BY <1>1, <1>7, <2>1, <2>3
    <3> QED BY <1>4, <1>5, <3>1
  <2> QED BY <1>7, <2>1, <2>2, <2>3
<1>8. CASE i \in 1..n /\ Released(i)
  <2>1. PICK j \in 1..n : i < j /\ inbox[j] = [msg |-> "release", id |-> inbox[i].id]
    BY <1>8
  <2> QED BY <1>1, <1>4, <1>5, <1>8, <2>1
<1> QED BY <1>1, <1>2, <1>6, <1>7, <1>8

\* How a message is processed while every start succeeds.
LEMMA SmoothTaken ==
  ASSUME TypeOK, ReleasedIsClosed, SmoothIsOpen, inbox # <<>>, inbox' = Tail(inbox), smooth, timers' = timers,
         mState' = "Released" => Listed' = {}, Listed' \subseteq Ids,
         \A t \in Listed' : t \in Listed \/ (Head(inbox).msg = "request" /\ Head(inbox).id = t),
         \A t \in Ids : t \notin Listed \cup Listed' => view'[t] = view[t],
         \A t \in Listed' : view[t] # "idle" => view'[t] # "idle",
         \A t \in Active' : /\ t \in Active \/ t \notin Listed
                            /\ ~(Head(inbox).msg = "release" /\ Head(inbox).id = t)
                            /\ view[t] \in {"requested", "open"} => view'[t] \in {"requested", "open"}
  PROVE  SmoothIsOpen'
<1>1. /\ timers = 0 /\ AskedOnce
      /\ \A s \in Listed : view[s] # "idle"
      /\ \A s \in Active : view[s] \in {"requested", "open"} \/ ReleaseComes(s)
  BY DEF SmoothIsOpen
<1>2. AskedOnce'
  BY <1>1, AskedTaken
<1>3. ASSUME NEW t \in Ids, Head(inbox).msg = "request", Head(inbox).id = t
      PROVE  view[t] = "requested" \/ (view[t] # "idle" /\ ReleaseComes(t))
  <2>1. 1 \in 1..Len(inbox) /\ inbox[1].msg = "request" /\ inbox[1].id = t
    BY <1>3, TakenTypes
  <2>2. view[t] = "requested" \/ ReleaseComes(t)
    BY <1>1, <2>1 DEF AskedOnce, ReleaseComes
  <2>3. ReleaseComes(t) => view[t] = "closed"
    BY DEF ReleaseComes, ReleasedIsClosed
  <2> QED BY <2>2, <2>3
<1>4. \A t \in Listed' : view'[t] # "idle"
  BY <1>1, <1>3
<1>5. ASSUME NEW t \in Active' PROVE view'[t] \in {"requested", "open"} \/ ReleaseComes(t)'
  <2>1. t \in Ids /\ t \in Listed'
    BY DEF Active
  <2>2. view[t] \in {"requested", "open"} \/ ReleaseComes(t)
    BY <1>1, <1>3, <2>1
  <2> QED BY <2>1, <2>2, CallTaken
<1> QED BY <1>1, <1>2, <1>4, <1>5 DEF SmoothIsOpen

\* As long as every start succeeds, no connection outlives the list it is in.
LEMMA SmoothStep ==
  TypeOK /\ ReleasedIsClosed /\ SmoothIsOpen /\ [Next]_vars => SmoothIsOpen'
<1> SUFFICES ASSUME TypeOK, ReleasedIsClosed, SmoothIsOpen, [Next]_vars PROVE SmoothIsOpen'
  OBVIOUS
<1>1. ASSUME NEW s \in Ids, RequestES(s) PROVE SmoothIsOpen'
  <2> SUFFICES ASSUME smooth' PROVE SmoothIsOpen'
    BY DEF SmoothIsOpen
  <2>0. /\ smooth /\ timers = 0 /\ AskedOnce
        /\ mState = "Released" => Listed = {}
        /\ \A t \in Listed : view[t] # "idle"
        /\ \A t \in Active : view[t] \in {"requested", "open"} \/ ReleaseComes(t)
    BY <1>1 DEF SmoothIsOpen, past, RequestES
  <2> DEFINE m == [msg |-> "request", id |-> s]
  <2>1. /\ m \in Messages /\ m.msg = "request" /\ m.id = s /\ inbox' = Append(inbox, m)
        /\ UNCHANGED <<mState, list, Listed, Active, timers>>
        /\ view[s] = "idle" /\ \A t \in Ids : view'[t] = IF t = s THEN "requested" ELSE view[t]
    BY <1>1 DEF RequestES, Messages, Listed, Active, TypeOK
  <2> HIDE DEF m
  <2>2. \A t \in Listed : t \in Ids
    BY DEF TypeOK, Listed, ToSet
  <2>3. \A i \in 1..Len(inbox) : inbox[i].msg = "request" => inbox[i].id # s
    <3> SUFFICES ASSUME NEW i \in 1..Len(inbox), inbox[i].msg = "request", inbox[i].id = s PROVE FALSE
      OBVIOUS
    <3>1. view[s] = "requested" \/ ReleaseComes(s)
      BY <2>0 DEF AskedOnce, ReleaseComes
    <3> QED BY <2>1, <3>1 DEF ReleaseComes, ReleasedIsClosed
  <2>4. AskedOnce'
    BY <2>0, <2>1, <2>3, AskedAdded
  <2>5. \A t \in Active : ReleaseComes(t) => ReleaseComes(t)'
    BY <2>1, <2>2, CallAdded DEF Active
  <2> QED BY <2>0, <2>1, <2>2, <2>4, <2>5 DEF SmoothIsOpen, Active
<1>2. ASSUME NEW s \in Ids, CloseES(s) PROVE SmoothIsOpen'
  <2> SUFFICES ASSUME smooth' PROVE SmoothIsOpen'
    BY DEF SmoothIsOpen
  <2>0. /\ smooth /\ timers = 0 /\ AskedOnce
        /\ mState = "Released" => Listed = {}
        /\ \A t \in Listed : view[t] # "idle"
        /\ \A t \in Active : view[t] \in {"requested", "open"} \/ ReleaseComes(t)
    BY <1>2 DEF SmoothIsOpen, past, CloseES
  <2>1. /\ UNCHANGED <<mState, list, Listed, Active, timers>>
        /\ view[s] # "idle" /\ \A t \in Ids : view'[t] = IF t = s THEN "closed" ELSE view[t]
    BY <1>2 DEF CloseES, Listed, Active, TypeOK
  <2>2. \A t \in Listed : t \in Ids
    BY DEF TypeOK, Listed, ToSet
  <2> DEFINE m == [msg |-> "release", id |-> s]
  <2>3. CASE inbox' = Append(inbox, m)
    <3>1. m \in Messages /\ m.msg = "release"
      BY DEF Messages
    <3>2. \A t \in Ids : view[t] = "requested" => view'[t] = "requested" \/ m = [msg |-> "release", id |-> t]
      BY <2>1
    <3>3. AskedOnce'
      <4> HIDE DEF m
      <4> QED BY <2>0, <2>1, <2>3, <3>1, <3>2, AskedAdded
    <3>4. \A t \in Active : ReleaseComes(t) \/ t = s => ReleaseComes(t)'
      <4>1. \A t \in Active : ReleaseComes(t) \/ t = s => ReleaseComes(t) \/ m = [msg |-> "release", id |-> t]
        OBVIOUS
      <4> HIDE DEF m
      <4> QED BY <2>2, <2>3, <3>1, <4>1, CallAdded DEF Active
    <3> HIDE DEF m
    <3> QED BY <2>0, <2>1, <2>2, <3>3, <3>4 DEF SmoothIsOpen, Active
  <2>4. CASE view[s] = "fallback" /\ inbox' = inbox
    <3>1. \A i \in 1..Len(inbox) : inbox[i].msg = "request" => inbox[i].id \in Ids
      BY MessageIds
    <3>2. AskedOnce'
      BY <2>0, <2>1, <2>4, <3>1 DEF AskedOnce
    <3> QED BY <2>0, <2>1, <2>2, <2>4, <3>2 DEF SmoothIsOpen, Active, ReleaseComes
  <2> HIDE DEF m
  <2> QED BY <1>2, <2>3, <2>4 DEF CloseES, m
<1>3. ASSUME CallOpens PROVE SmoothIsOpen'
  <2> SUFFICES ASSUME smooth' PROVE SmoothIsOpen'
    BY DEF SmoothIsOpen
  <2>0. /\ smooth /\ timers = 0 /\ AskedOnce
        /\ mState = "Released" => Listed = {}
        /\ \A t \in Listed : view[t] # "idle"
        /\ \A t \in Active : view[t] \in {"requested", "open"} \/ ReleaseComes(t)
    BY <1>3 DEF SmoothIsOpen, past, CallOpens, Report
  <2>1. PICK m \in Messages : inbox' = Append(inbox, m) /\ m.msg \notin {"request", "release"}
    BY <1>3 DEF CallOpens, Report, Messages
  <2>2. UNCHANGED <<mState, list, Listed, Active, timers, view>>
    BY <1>3 DEF CallOpens, Report, Listed, Active
  <2>3. \A t \in Active : t \in Ids
    BY DEF TypeOK, Active, Listed, ToSet
  <2>4. AskedOnce'
    BY <2>0, <2>1, <2>2, AskedAdded
  <2>5. \A t \in Active : ReleaseComes(t) => ReleaseComes(t)'
    BY <2>1, <2>3, CallAdded
  <2> QED BY <2>0, <2>2, <2>4, <2>5 DEF SmoothIsOpen
<1>4. ASSUME CallEnds PROVE SmoothIsOpen'
  <2> SUFFICES ASSUME smooth' PROVE SmoothIsOpen'
    BY DEF SmoothIsOpen
  <2>0. /\ smooth /\ timers = 0 /\ AskedOnce
        /\ mState = "Released" => Listed = {}
        /\ \A t \in Listed : view[t] # "idle"
        /\ \A t \in Active : view[t] \in {"requested", "open"} \/ ReleaseComes(t)
    BY <1>4 DEF SmoothIsOpen, past, CallEnds, Report
  <2>1. PICK m \in Messages : inbox' = Append(inbox, m) /\ m.msg \notin {"request", "release"}
    BY <1>4 DEF CallEnds, Report, Messages
  <2>2. UNCHANGED <<mState, list, Listed, Active, timers, view>>
    BY <1>4 DEF CallEnds, Report, Listed, Active
  <2>3. \A t \in Active : t \in Ids
    BY DEF TypeOK, Active, Listed, ToSet
  <2>4. AskedOnce'
    BY <2>0, <2>1, <2>2, AskedAdded
  <2>5. \A t \in Active : ReleaseComes(t) => ReleaseComes(t)'
    BY <2>1, <2>3, CallAdded
  <2> QED BY <2>0, <2>2, <2>4, <2>5 DEF SmoothIsOpen
<1>5. ASSUME CallDrops PROVE SmoothIsOpen'
  <2> SUFFICES ASSUME smooth' PROVE SmoothIsOpen'
    BY DEF SmoothIsOpen
  <2>0. /\ smooth /\ timers = 0 /\ AskedOnce
        /\ mState = "Released" => Listed = {}
        /\ \A t \in Listed : view[t] # "idle"
        /\ \A t \in Active : view[t] \in {"requested", "open"} \/ ReleaseComes(t)
    BY <1>5 DEF SmoothIsOpen, past, CallDrops, Report
  <2>1. PICK m \in Messages : inbox' = Append(inbox, m) /\ m.msg \notin {"request", "release"}
    BY <1>5 DEF CallDrops, Report, Messages
  <2>2. UNCHANGED <<mState, list, Listed, Active, timers, view>>
    BY <1>5 DEF CallDrops, Report, Listed, Active
  <2>3. \A t \in Active : t \in Ids
    BY DEF TypeOK, Active, Listed, ToSet
  <2>4. AskedOnce'
    BY <2>0, <2>1, <2>2, AskedAdded
  <2>5. \A t \in Active : ReleaseComes(t) => ReleaseComes(t)'
    BY <2>1, <2>3, CallAdded
  <2> QED BY <2>0, <2>2, <2>4, <2>5 DEF SmoothIsOpen
<1>6. ASSUME TimerExpires PROVE SmoothIsOpen'
  BY <1>6 DEF TimerExpires, past, SmoothIsOpen, TypeOK
<1>7. ASSUME NEW s \in Ids, s = Head(inbox).id, Takes("request"), SubscribeReleased(s)
      PROVE SmoothIsOpen'
  <2> SUFFICES ASSUME smooth' PROVE SmoothIsOpen'
    BY DEF SmoothIsOpen
  <2>1. PICK result \in Results : /\ StartCall(result, list')
                                  /\ mState' = IF result = "SUCCESS" THEN "Pending" ELSE "Released"
    BY <1>7 DEF SubscribeReleased
  <2>2. smooth /\ result = "SUCCESS" /\ UNCHANGED <<view, timers>>
    BY <2>1, Started
  <2>0. Listed = {} /\ \A t \in Listed : view[t] # "idle"
    BY <1>7, <2>2 DEF SmoothIsOpen, SubscribeReleased
  <2>3. Listed' = Listed \cup {s} /\ mState' = "Pending" /\ inactive' = inactive
    BY <1>7, <2>1, <2>2, AddedList DEF SubscribeReleased, Listed
  <2> QED BY <1>7, <2>0, <2>2, <2>3, SmoothTaken DEF Takes, Active
<1>8. ASSUME NEW s \in Ids, s = Head(inbox).id, Takes("request"), SubscribeUnanswered(s)
      PROVE SmoothIsOpen'
  <2> SUFFICES ASSUME smooth' PROVE SmoothIsOpen'
    BY DEF SmoothIsOpen
  <2>0. /\ smooth /\ timers = 0 /\ AskedOnce
        /\ mState = "Released" => Listed = {}
        /\ \A t \in Listed : view[t] # "idle"
        /\ \A t \in Active : view[t] \in {"requested", "open"} \/ ReleaseComes(t)
    BY <1>8 DEF SmoothIsOpen, past, SubscribeUnanswered
  <2>1. Listed' = Listed \cup {s} /\ UNCHANGED <<mState, view, timers, inactive>> /\ mState' # "Released"
    BY <1>8, AddedList DEF SubscribeUnanswered, Listed
  <2>9. Listed \subseteq Ids /\ (Head(inbox).msg \in {"request", "release"} => Head(inbox).id \in Ids)
    BY <1>8, TakenTypes, ListedIds DEF Takes
  <2> QED BY <1>8, <2>0, <2>1, <2>9, SmoothTaken DEF Takes, Active
<1>9. ASSUME NEW s \in Ids, s = Head(inbox).id, Takes("request"), SubscribeAcquired(s)
      PROVE SmoothIsOpen'
  <2> SUFFICES ASSUME smooth' PROVE SmoothIsOpen'
    BY DEF SmoothIsOpen
  <2>0. /\ smooth /\ timers = 0 /\ AskedOnce
        /\ mState = "Released" => Listed = {}
        /\ \A t \in Listed : view[t] # "idle"
        /\ \A t \in Active : view[t] \in {"requested", "open"} \/ ReleaseComes(t)
    BY <1>9 DEF SmoothIsOpen, past, SubscribeAcquired
  <2>1. Listed' = Listed \cup {s} /\ UNCHANGED <<mState, timers, inactive>> /\ mState' # "Released"
    BY <1>9, AddedList DEF SubscribeAcquired, Listed
  <2>2. \A t \in Ids : view'[t] = IF t = s /\ view[t] # "closed" THEN "open" ELSE view[t]
    BY <1>9, Informed DEF SubscribeAcquired, Views
  <2>9. Listed \subseteq Ids /\ (Head(inbox).msg \in {"request", "release"} => Head(inbox).id \in Ids)
    BY <1>9, TakenTypes, ListedIds DEF Takes
  <2> QED BY <1>9, <2>0, <2>1, <2>2, <2>9, SmoothTaken DEF Takes, Active
<1>10. ASSUME NEW s \in Ids, s = Head(inbox).id, Takes("release"), UnsubscribeIgnored(s)
       PROVE SmoothIsOpen'
  <2> SUFFICES ASSUME smooth' PROVE SmoothIsOpen'
    BY DEF SmoothIsOpen
  <2>0. /\ smooth /\ timers = 0 /\ AskedOnce
        /\ mState = "Released" => Listed = {}
        /\ \A t \in Listed : view[t] # "idle"
        /\ \A t \in Active : view[t] \in {"requested", "open"} \/ ReleaseComes(t)
    BY <1>10 DEF SmoothIsOpen, past, UnsubscribeIgnored
  <2>1. UNCHANGED <<mState, view, timers, inactive, Listed>> /\ s \notin Listed
    BY <1>10, <2>0 DEF UnsubscribeIgnored, Listed
  <2>9. Listed \subseteq Ids /\ (Head(inbox).msg \in {"request", "release"} => Head(inbox).id \in Ids)
    BY <1>10, TakenTypes, ListedIds DEF Takes
  <2> QED BY <1>10, <2>0, <2>1, <2>9, SmoothTaken DEF Takes, Active
<1>11. ASSUME NEW s \in Ids, s = Head(inbox).id, Takes("release"), UnsubscribeListed(s)
       PROVE SmoothIsOpen'
  <2> SUFFICES ASSUME smooth' PROVE SmoothIsOpen'
    BY DEF SmoothIsOpen
  <2>0. /\ smooth /\ timers = 0 /\ AskedOnce
        /\ mState = "Released" => Listed = {}
        /\ \A t \in Listed : view[t] # "idle"
        /\ \A t \in Active : view[t] \in {"requested", "open"} \/ ReleaseComes(t)
    BY <1>11 DEF SmoothIsOpen, past, UnsubscribeListed
  <2>1. UNCHANGED <<view, timers, Listed>> /\ inactive' = inactive \cup {s} /\ mState' # "Released"
    BY <1>11 DEF UnsubscribeListed, Listed
  <2>9. Listed \subseteq Ids /\ (Head(inbox).msg \in {"request", "release"} => Head(inbox).id \in Ids)
    BY <1>11, TakenTypes, ListedIds DEF Takes
  <2> QED BY <1>11, <2>0, <2>1, <2>9, SmoothTaken DEF Takes, Active
<1>12. ASSUME Takes("opened"), OnOpened PROVE SmoothIsOpen'
  <2> SUFFICES ASSUME smooth' PROVE SmoothIsOpen'
    BY DEF SmoothIsOpen
  <2>0. /\ smooth /\ timers = 0 /\ AskedOnce
        /\ mState = "Released" => Listed = {}
        /\ \A t \in Listed : view[t] # "idle"
        /\ \A t \in Active : view[t] \in {"requested", "open"} \/ ReleaseComes(t)
    BY <1>12 DEF SmoothIsOpen, past, OnOpened
  <2>1. UNCHANGED <<timers, Listed, inactive>> /\ mState' = "Acquired"
    BY <1>12 DEF OnOpened, Listed
  <2>2. \A t \in Ids : view'[t] = IF t \in Active /\ view[t] # "closed" THEN "open" ELSE view[t]
    BY <1>12, Informed DEF OnOpened, Views
  <2>9. Listed \subseteq Ids /\ (Head(inbox).msg \in {"request", "release"} => Head(inbox).id \in Ids)
    BY <1>12, TakenTypes, ListedIds DEF Takes
  <2> QED BY <1>12, <2>0, <2>1, <2>2, <2>9, SmoothTaken DEF Takes, Active
<1>13. ASSUME Takes("closed"), ClosedPending PROVE SmoothIsOpen'
  <2> SUFFICES ASSUME smooth' PROVE SmoothIsOpen'
    BY DEF SmoothIsOpen
  <2>0. /\ smooth /\ timers = 0 /\ AskedOnce
        /\ mState = "Released" => Listed = {}
        /\ \A t \in Listed : view[t] # "idle"
        /\ \A t \in Active : view[t] \in {"requested", "open"} \/ ReleaseComes(t)
    BY <1>13 DEF SmoothIsOpen, past, ClosedPending
  <2>1. timers' = timers /\ Listed' = {} /\ Active' = {}
    BY <1>13 DEF ClosedPending, Listed, Active, ToSet
  <2>2. \A t \in Ids : t \notin Listed => view'[t] = view[t]
    BY <1>13, Informed DEF ClosedPending, Views
  <2> QED BY <1>13, <2>0, <2>1, <2>2, SmoothTaken DEF Takes
<1>14. ASSUME Takes("closed"), ClosedAcquired PROVE SmoothIsOpen'
  <2> SUFFICES ASSUME smooth' PROVE SmoothIsOpen'
    BY DEF SmoothIsOpen
  <2>0. /\ smooth /\ timers = 0 /\ AskedOnce
        /\ mState = "Released" => Listed = {}
        /\ \A t \in Listed : view[t] # "idle"
        /\ \A t \in Active : view[t] \in {"requested", "open"} \/ ReleaseComes(t)
    BY <1>14 DEF SmoothIsOpen, past, ClosedAcquired
  <2>1. timers' = timers /\ Listed' = {} /\ Active' = {}
    BY <1>14 DEF ClosedAcquired, Listed, Active, ToSet
  <2>2. \A t \in Ids : t \notin Listed => view'[t] = view[t]
    BY <1>14, Informed DEF ClosedAcquired, Views
  <2> QED BY <1>14, <2>0, <2>1, <2>2, SmoothTaken DEF Takes
<1>15. ASSUME Takes("closed"), ClosedReleasing PROVE SmoothIsOpen'
  <2> SUFFICES ASSUME smooth' PROVE SmoothIsOpen'
    BY DEF SmoothIsOpen
  <2>1. Listed' = Active /\ Active' = Active /\ Active \subseteq Listed
    BY <1>15, KeptList DEF ClosedReleasing, Listed, Active
  <2>2. smooth /\ UNCHANGED <<view, timers>> /\ (mState' = "Released" => Active = {})
    <3>1. CASE Active = {}
      BY <1>15, <3>1 DEF ClosedReleasing, past
    <3>2. CASE Active # {}
      BY <1>15, <3>2, Started DEF ClosedReleasing
    <3> QED BY <3>1, <3>2
  <2>0. \A t \in Listed : view[t] # "idle"
    BY <2>2 DEF SmoothIsOpen
  <2>3. Listed \subseteq Ids
    BY DEF TypeOK, Listed, ToSet
  <2> QED BY <1>15, <2>0, <2>1, <2>2, <2>3, SmoothTaken DEF Takes
<1>16. ASSUME NEW word \in {"opened", "closed"}, Takes(word), Unexpected(word)
       PROVE SmoothIsOpen'
  <2> SUFFICES ASSUME smooth' PROVE SmoothIsOpen'
    BY DEF SmoothIsOpen
  <2>0. /\ smooth /\ timers = 0 /\ AskedOnce
        /\ mState = "Released" => Listed = {}
        /\ \A t \in Listed : view[t] # "idle"
        /\ \A t \in Active : view[t] \in {"requested", "open"} \/ ReleaseComes(t)
    BY <1>16 DEF SmoothIsOpen, past, Unexpected
  <2>1. UNCHANGED <<mState, timers, view, Listed, Active>>
    BY <1>16 DEF Unexpected, Listed, Active
  <2>2. Listed \subseteq Ids
    BY DEF TypeOK, Listed, ToSet
  <2> QED BY <1>16, <2>0, <2>1, <2>2, SmoothTaken DEF Takes
<1>17. ASSUME UNCHANGED vars PROVE SmoothIsOpen'
  BY <1>17 DEF vars, past, SmoothIsOpen, Listed, Active, ReleaseComes, AskedOnce
<1> QED BY ProcessCases, <1>1, <1>2, <1>3, <1>4, <1>5, <1>6, <1>7, <1>8, <1>9,
          <1>10, <1>11, <1>12, <1>13, <1>14, <1>15, <1>16, <1>17 DEF Next

-----------------------------------------------------------------------------
\* The inductive invariant holds at first, is kept, and implies the properties.
LEMMA Initial == Init => IInv
<1> SUFFICES ASSUME Init PROVE IInv
  OBVIOUS
<1>1. list = <<>> /\ inbox = <<>> /\ Listed = {} /\ Active = {} /\ inactive = {}
  BY DEF Init, Listed, Active, ToSet
<1>2. TypeOK
  BY <1>1, DSAssumption DEF Init, TypeOK, IsInjective, Views
<1>3. Len(inbox) = 0 /\ 1..Len(inbox) = {}
  BY <1>1
<1>4. CallIsFollowed /\ ReleasedIsClosed
  BY <1>1, <1>3 DEF Init, CallIsFollowed, ReportsInOrder, Once, Coming, ReleasedIsClosed
<1>5. HeldForSomeone /\ OpenIsServed
  BY <1>1 DEF Init, HeldForSomeone, OpenIsServed
<1>6. SmoothIsOpen
  BY <1>1, <1>3 DEF Init, SmoothIsOpen, AskedOnce
<1> QED BY <1>2, <1>4, <1>5, <1>6 DEF IInv

LEMMA Inductive == IInv /\ [Next]_vars => IInv'
BY TypeStep, FollowedStep, HeldStep, ReleasedStep, ServedStep, SmoothStep DEF IInv

LEMMA Consequence == IInv => CallMatchesMachine /\ OpenIsServed
<1> SUFFICES ASSUME IInv PROVE CallMatchesMachine
  BY DEF IInv
<1>1. AcquiredHasCall
  BY DEF IInv, CallIsFollowed, AcquiredHasCall, TypeOK
<1>2. ASSUME call \in {"starting", "up"}
      PROVE Active # {} /\ (smooth => \E s \in Active : IsOpen(s))
  <2>1. mState \in {"Pending", "Acquired"}
    BY <1>2 DEF IInv, CallIsFollowed
  <2>2. PICK s \in Active : TRUE
    BY <2>1 DEF IInv, HeldForSomeone
  <2>3. smooth => view[s] \in {"requested", "open"} \/ ReleaseComes(s)
    BY DEF IInv, SmoothIsOpen
  <2> QED BY <2>2, <2>3 DEF IsOpen, ReleaseComes
<1> QED BY <1>1, <1>2 DEF IInv, CallMatchesMachine, CallIsWanted

-----------------------------------------------------------------------------
\* The machine and the data call agree, and as long as every start has been
\* answered by success a call is dialled and kept up only for a connection that
\* the modem can still close (onRsrcEvent, subscribeRsrc, unsubscribeRsrc).
THEOREM CallMatchesMachineAlways == Spec => []CallMatchesMachine
<1>1. Spec => []IInv
  BY Initial, Inductive, PTL DEF Spec
<1> QED BY <1>1, Consequence, PTL

\* A connection that the modem was told is open is in the list of a machine that
\* has acquired its call: it will be told when the call goes (informStatus,
\* onRsrcEvent).
THEOREM OpenIsServedAlways == Spec => []OpenIsServed
<1>1. Spec => []IInv
  BY Initial, Inductive, PTL DEF Spec
<1> QED BY <1>1, Consequence, PTL

=============================================================================
