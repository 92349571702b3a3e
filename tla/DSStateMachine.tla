--------------------------- MODULE DSStateMachine ---------------------------
(***************************************************************************)
(* The machine for emergency SUPL connections (DSStateMachine,             *)
(* gps/libloc_api_50001/loc_eng_agps.cpp).  It keeps a data call up for    *)
(* the modem's connections.  Unlike the machines of AgpsStateMachine:      *)
(*   - the start of the call answers at once, and a busy service is asked  *)
(*     again when a timer expires, at most MAX_START_DATA_CALL_RETRIES     *)
(*     times; the retry is a request that the timer's thread queues;       *)
(*   - the service reports a call that fails like one that ends;           *)
(*   - a connection that is not served falls back to the AGNSS machine;    *)
(*   - the order of the list matters: the first active one is served.      *)
(*                                                                         *)
(* The timer's thread reads the list without a lock; here it reads it      *)
(* between two messages.                                                   *)
(***************************************************************************)
EXTENDS Naturals, Sequences, SequencesExt

CONSTANTS
  Ids,         \* the connections of the modem, each used once
  Stays,       \* those that the modem never closes
  Results,     \* what the start of a data call may answer
  MaxRetries,  \* MAX_START_DATA_CALL_RETRIES
  MaxInbox,    \* bound: the modem is quiet while this many messages wait
  MaxTimers    \* bound: and while this many timers run

\* UNSUPPORTED stands for -1 too, OTHER for the values sendRsrcRequest does
\* not recognise.
ASSUME DSAssumption ==
  /\ Stays \subseteq Ids
  /\ Results \subseteq {"SUCCESS", "BUSY", "UNSUPPORTED", "OTHER"}
  /\ MaxRetries \in Nat \ {0}
  /\ MaxInbox \in Nat \ {0}
  /\ MaxTimers \in Nat \ {0}

VARIABLES
  mState,    \* mStatePtr
  list,      \* mSubscribers, newest first
  inactive,  \* those of them that are inactive
  mRetries,
  timers,    \* running retry timers
  inbox,     \* the adapter's messages for this machine, oldest first
  call,      \* external: the data call
  view,      \* what the modem knows of each connection
  calm,      \* history: the modem opened one connection at a time, and the
             \* service gave no answer that is not recognised
  smooth     \* history: and every call that was asked for has been started

past == <<calm, smooth>>
vars == <<mState, list, inactive, mRetries, timers, inbox, call, view, past>>

Views == {"idle", "requested", "open", "fallback", "lost", "closed"}

Messages == [msg : {"request", "release"}, id : Ids] \cup [msg : {"opened", "closed"}]

Init ==
  /\ mState = "Released"
  /\ list = <<>>
  /\ inactive = {}
  /\ mRetries = 0
  /\ timers = 0
  /\ inbox = <<>>
  /\ call = "down"
  /\ view = [s \in Ids |-> "idle"]
  /\ calm = TRUE /\ smooth = TRUE

Listed == ToSet(list)
Active == Listed \ inactive

\* addSubscriber: an equal subscriber already in the list is left as it is.
Added(s) == IF s \in Listed THEN list ELSE <<s>> \o list

\* The active subscriber that linked_list_search meets first in l.
First(l) ==
  LET i == CHOOSE i \in DOMAIN l : l[i] \notin inactive /\ \A j \in 1..(i-1) : l[j] \in inactive
  IN  l[i]

\* notifySubscribers deletes the inactive ones: the others keep their order.
InOrder(s, t, l) == \E i, j \in DOMAIN l : i < j /\ l[i] = s /\ l[j] = t

Kept ==
  {l \in SeqOf(Active, Len(list)) :
     ToSet(l) = Active /\ \A j \in DOMAIN l : \A i \in 1..(j-1) : InOrder(l[i], l[j], list)}

\* informStatus: the modem is told word about the connections in S; it has
\* forgotten those that it closed.
Inform(S, word) ==
  [s \in Ids |-> IF s \in S /\ view[s] # "closed" THEN word ELSE view[s]]

(***************************************************************************)
(* sendRsrcRequest(GPS_REQUEST_AGPS_DATA_CONN) with the list l, when       *)
(* openAndStartDataCall answers result.                                    *)
(***************************************************************************)
Dial(result, l) ==
  /\ result = "SUCCESS"
  /\ call' = "starting"
  /\ UNCHANGED <<mRetries, timers, view>>

GivesUp(result) == result = "UNSUPPORTED" \/ (result = "BUSY" /\ mRetries >= MaxRetries)

\* Mutant: no timer is started.
RetryLost(result, l) ==
  /\ result = "BUSY" /\ mRetries < MaxRetries
  /\ mRetries' = mRetries + 1
  /\ UNCHANGED <<timers, call, view>>

RetryLater(result, l) ==
  /\ result = "BUSY" /\ mRetries < MaxRetries
  /\ mRetries' = mRetries + 1
  /\ timers' = timers + 1
  /\ UNCHANGED <<call, view>>

\* informStatus(RSRC_DENIED, connHandle): one connection falls back.
FallBack(result, l) ==
  /\ GivesUp(result)
  /\ mRetries' = 0
  /\ view' = Inform({First(l)}, "fallback")
  /\ UNCHANGED <<timers, call>>

StartCall(result, l) ==
  /\ \/ Dial(result, l) \/ RetryLater(result, l) \/ FallBack(result, l)
     \/ result = "OTHER" /\ UNCHANGED <<mRetries, timers, call, view>>
  /\ calm' = (calm /\ result # "OTHER")
  /\ smooth' = (smooth /\ result = "SUCCESS")

\* sendRsrcRequest(GPS_RELEASE_AGPS_DATA_CONN): stopDataCall, always sent.
Stopped == IF call = "down" THEN "down" ELSE "stopping"

(***************************************************************************)
(* LocEngRequestSuplEs: subscribeRsrc.                                     *)
(***************************************************************************)
SubscribeReleased(s) ==
  /\ mState = "Released"
  /\ list' = Added(s)
  /\ \E result \in Results :
       /\ StartCall(result, list')
       /\ mState' = IF result = "SUCCESS" THEN "Pending" ELSE "Released"
  /\ UNCHANGED inactive

SubscribeUnanswered(s) ==
  /\ mState \in {"Pending", "Releasing"}
  /\ list' = Added(s)
  /\ UNCHANGED <<mState, inactive, mRetries, timers, call, view, past>>

\* Mutant: the subscriber is told but not added.
SubscribeAcquiredUnlisted(s) ==
  /\ mState = "Acquired"
  /\ view' = Inform({s}, "open")
  /\ UNCHANGED <<mState, list, inactive, mRetries, timers, call, past>>

SubscribeAcquired(s) ==
  /\ mState = "Acquired"
  /\ view' = Inform({s}, "open")
  /\ list' = Added(s)
  /\ UNCHANGED <<mState, inactive, mRetries, timers, call, past>>

Subscribe(s) == SubscribeReleased(s) \/ SubscribeUnanswered(s) \/ SubscribeAcquired(s)

(***************************************************************************)
(* LocEngReleaseATL, when no other machine knows the connection:           *)
(* unsubscribeRsrc.  The modem is told atlCloseStatus in each case.  In    *)
(* Released the subscriber stays in the list.                              *)
(***************************************************************************)
UnsubscribeIgnored(s) ==
  /\ s \notin Listed \/ mState = "Released"
  /\ UNCHANGED <<mState, list, inactive, mRetries, timers, call, view, past>>

UnsubscribeListed(s) ==
  /\ s \in Listed /\ mState # "Released"
  /\ inactive' = inactive \cup {s}
  /\ IF Listed \subseteq inactive' /\ mState # "Releasing"
       THEN mState' = "Releasing" /\ call' = Stopped
       ELSE UNCHANGED <<mState, call>>
  /\ UNCHANGED <<list, mRetries, timers, view, past>>

Unsubscribe(s) == UnsubscribeIgnored(s) \/ UnsubscribeListed(s)

(***************************************************************************)
(* LocEngSuplEsOpened and LocEngSuplEsClosed: onRsrcEvent.                 *)
(***************************************************************************)
OnOpened ==
  /\ mState = "Pending"
  /\ mState' = "Acquired"
  /\ view' = Inform(Active, "open")
  /\ UNCHANGED <<list, inactive, mRetries, timers, call, past>>

\* RELEASED changes nothing in Pending and is dispatched again as DENIED.
ClosedPending ==
  /\ mState = "Pending"
  /\ mState' = "Released"
  /\ view' = Inform(Listed, "fallback")
  /\ mRetries' = 0
  /\ list' = <<>> /\ inactive' = {}
  /\ UNCHANGED <<timers, call, past>>

\* Mutant: a forced release is not expected.
ClosedAcquiredKept ==
  /\ mState = "Acquired"
  /\ UNCHANGED <<mState, view, list, inactive, mRetries, timers, call, past>>

ClosedAcquired ==
  /\ mState = "Acquired"
  /\ mState' = "Released"
  /\ view' = Inform(Listed, "lost")
  /\ list' = <<>> /\ inactive' = {}
  /\ UNCHANGED <<mRetries, timers, call, past>>

\* The result of the new request is not looked at.
ClosedReleasing ==
  /\ mState = "Releasing"
  /\ list' \in Kept
  /\ inactive' = {}
  /\ IF Active # {}
       THEN mState' = "Pending" /\ \E result \in Results : StartCall(result, list)
       ELSE mState' = "Released" /\ UNCHANGED <<mRetries, timers, call, view, past>>

OnClosed == ClosedPending \/ ClosedAcquired \/ ClosedReleasing

Unexpected(word) ==
  /\ mState \notin (IF word = "opened" THEN {"Pending"} ELSE {"Pending", "Acquired", "Releasing"})
  /\ UNCHANGED <<mState, list, inactive, mRetries, timers, call, view, past>>

\* The adapter's thread processes the oldest message.
Process ==
  /\ inbox # <<>>
  /\ inbox' = Tail(inbox)
  /\ LET m == Head(inbox) IN
       \/ m.msg = "request" /\ Subscribe(m.id)
       \/ m.msg = "release" /\ Unsubscribe(m.id)
       \/ m.msg = "opened" /\ OnOpened
       \/ m.msg = "closed" /\ OnClosed
       \/ m.msg \in {"opened", "closed"} /\ Unexpected(m.msg)

\* retryCallback, on the timer's thread.
TimerExpires ==
  /\ timers > 0
  /\ timers' = timers - 1
  /\ inbox' = IF Active = {} THEN inbox
              ELSE Append(inbox, [msg |-> "request", id |-> First(list)])
  /\ UNCHANGED <<mState, list, inactive, mRetries, call, view, past>>

(***************************************************************************)
(* External: the modem.                                                    *)
(***************************************************************************)
Room == Len(inbox) < MaxInbox /\ timers < MaxTimers

Calm ==
  /\ mState # "Releasing" /\ inbox = <<>>
  /\ \A s \in Ids : view[s] \notin {"requested", "open"}

RequestES(s) ==
  /\ Room
  /\ view[s] = "idle"
  /\ calm' = (calm /\ Calm) /\ UNCHANGED smooth
  /\ view' = [view EXCEPT ![s] = "requested"]
  /\ inbox' = Append(inbox, [msg |-> "request", id |-> s])
  /\ UNCHANGED <<mState, list, inactive, mRetries, timers, call>>

\* The AGNSS machine takes the release of a connection that fell back to it,
\* unless it has refused it.
CloseES(s) ==
  /\ Room
  /\ s \notin Stays
  /\ view[s] \in {"requested", "open", "fallback", "lost"}
  /\ view' = [view EXCEPT ![s] = "closed"]
  /\ \/ inbox' = Append(inbox, [msg |-> "release", id |-> s])
     \/ view[s] = "fallback" /\ inbox' = inbox
  /\ UNCHANGED <<mState, list, inactive, mRetries, timers, call, past>>

(***************************************************************************)
(* External: the data service.  It reports when a call is up and when it   *)
(* is no more.                                                             *)
(***************************************************************************)
Report(before, after, word) ==
  /\ call \in before
  /\ call' = after
  /\ inbox' = Append(inbox, [msg |-> word])
  /\ UNCHANGED <<mState, list, inactive, mRetries, timers, view, past>>

CallOpens == Report({"starting"}, "up", "opened")
CallEnds  == Report({"starting", "stopping"}, "down", "closed")
CallDrops == Room /\ Report({"up"}, "down", "closed")

Next ==
  \/ \E s \in Ids : RequestES(s) \/ CloseES(s)
  \/ CallOpens \/ CallEnds \/ CallDrops
  \/ TimerExpires
  \/ Process

Spec == Init /\ [][Next]_vars

\* Timers expire, messages are processed, calls are put through or fail.
FairSpec ==
  Spec /\ WF_vars(TimerExpires) /\ WF_vars(Process) /\ WF_vars(CallOpens \/ CallEnds)

(***************************************************************************)
(* Properties                                                              *)
(***************************************************************************)
Coming(word) == \E i \in 1..Len(inbox) : inbox[i].msg = word

\* Types; the list has no duplicates, and mRetries stays within its limit
\* whatever answers and fallbacks came before.
TypeOK ==
  /\ mState \in {"Released", "Pending", "Acquired", "Releasing"}
  /\ list \in Seq(Ids) /\ IsInjective(list)
  /\ inactive \subseteq Listed
  /\ mRetries \in 0..MaxRetries
  /\ timers \in Nat
  /\ inbox \in Seq(Messages)
  /\ call \in {"down", "starting", "up", "stopping"}
  /\ view \in [Ids -> Views]
  /\ calm \in BOOLEAN /\ smooth \in BOOLEAN

\* The modem has not closed the connection, or its release is still to come.
IsOpen(s) == view[s] # "closed" \/ \E n \in 1..Len(inbox) : inbox[n] = [msg |-> "release", id |-> s]

\* A data call is dialled or kept up only while the list has an active
\* subscriber, and one that the modem can still close if every start has been
\* answered by success: nobody could stop the call of one that is closed.
\* Releases that come to nothing in Released leave such subscribers behind, and
\* retries ask for them again (README, known divergences).
CallIsWanted ==
  call \in {"starting", "up"} => Active # {} /\ (smooth => \E s \in Active : IsOpen(s))

\* The machine never believes it has a call that has ended, unless the news is
\* already queued.
AcquiredHasCall == mState = "Acquired" => call = "up" \/ Coming("closed")

\* A connection that the modem believes open is one that the machine will
\* close, or report lost, when the call goes.
OpenIsServed == \A s \in Ids : view[s] = "open" => mState = "Acquired" /\ s \in Listed

\* An emergency connection is opened or falls back, if it is the only one that
\* waits: the request is answered, however many retries it takes.
Answered == \A s \in Stays : view[s] = "requested" ~> view[s] # "requested" \/ ~calm

\* The machine and the data call agree: no call is up for nobody, none is
\* believed up that has ended, and retries stay within their limit.
CallMatchesMachine == TypeOK /\ CallIsWanted /\ AcquiredHasCall
=============================================================================
