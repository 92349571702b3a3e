-------------------------- MODULE AgpsStateMachine --------------------------
(***************************************************************************)
(* One AgpsStateMachine object (gps/libloc_api_50001/loc_eng_agps.cpp): it *)
(* leases one network interface (NIF) from the framework's connectivity    *)
(* service on behalf of any number of subscribers.  Every operation runs   *)
(* to completion on the adapter's single message thread, so an operation   *)
(* is one action.                                                          *)
(*                                                                         *)
(* The environment of this module is arbitrary: subscribers may ask or     *)
(* leave at any time and the service may say anything at any time.  Module *)
(* AgpsNif restricts the service to one that answers what it is asked.     *)
(*                                                                         *)
(* The linked list is abstracted to the state of each subscriber in it: in *)
(* an AgpsStateMachine nothing depends on the order of the list.           *)
(***************************************************************************)
EXTENDS Naturals, Sequences

CONSTANTS
  Ids,            \* the subscribers that may ever ask (Subscriber::ID)
  Waiters,        \* those whose waitForCloseComplete() is true (WIFISubscriber)
  MaxOutbox       \* bound: subscribers are quiet while this many requests wait

ASSUME WaitersAssumption == Waiters \subseteq Ids

ASSUME BoundAssumption == MaxOutbox \in Nat \ {0}

VARIABLES
  mState,   \* mStatePtr
  subs,     \* mSubscribers: is this subscriber listed, and how
  view,     \* what each subscriber was last told, or is waiting to be told
  outbox,   \* requests handed to the framework (agps_status_cb), oldest first
  mEnforceSingleSubscriber  \* TRUE for wifi_nif only; set by the constructor

vars == <<mState, subs, view, outbox, mEnforceSingleSubscriber>>

States   == {"Released", "Pending", "Acquired", "Releasing"}
Listing  == {"absent", "active", "inactive"}
Views    == {"idle", "requested", "granted", "closing", "dropped"}
Requests == {"REQUEST", "RELEASE"}

\* WIFISubscribers, the only ones that wait, are made for wifi_nif, which has
\* no others.
Clients == {s \in Ids : s \in Waiters <=> mEnforceSingleSubscriber}

Listed(l)   == {s \in Ids : l[s] # "absent"}

\* Mutant: isInactive() inverted.
ActiveInverted(l) == {s \in Ids : l[s] = "inactive"}

Active(l)   == {s \in Ids : l[s] = "active"}
Inactive(l) == {s \in Ids : l[s] = "inactive"}

\* notifySubscribers: the subscribers in S are told, nobody else is.
Tell(S, word) == [s \in Ids |-> IF s \in S THEN word ELSE view[s]]

\* The deletion loop of notifySubscribers (postNotifyDelete).  After a match it
\* goes on; for a receiver by name it then compares the others with one that it
\* has just deleted, whose name, as long as it is still there, nobody shares
\* (README, known divergences).
Remove(S) == [s \in Ids |-> IF s \in S THEN "absent" ELSE subs[s]]

\* addSubscriber: an equal subscriber already in the list is left as it is.
AddSubscriber(s) ==
  [subs EXCEPT ![s] = IF @ = "absent" THEN "active" ELSE @]

\* Mutant: "==" of the two conditions read as "and": no REQUEST is sent.
RsrcRequestAnd(action, l) ==
  IF action = "RELEASE" /\ Active(l) = {} THEN Append(outbox, action) ELSE outbox

\* sendRsrcRequest for a machine whose list is l: a REQUEST is sent only with
\* an active subscriber, a RELEASE only without one.
RsrcRequest(action, l) ==
  IF (action = "RELEASE") <=> (Active(l) = {}) THEN Append(outbox, action) ELSE outbox

Init ==
  /\ mState = "Released"
  /\ subs = [s \in Ids |-> "absent"]
  /\ view = [s \in Ids |-> "idle"]
  /\ outbox = <<>>
  /\ mEnforceSingleSubscriber \in BOOLEAN

(***************************************************************************)
(* subscribeRsrc                                                           *)
(***************************************************************************)
Room == Len(outbox) < MaxOutbox

\* wifi_nif serves one subscriber: anyone who asks while the list is not
\* empty, the listed subscriber included, is told DENIED.
Refuse(s) ==
  /\ Room
  /\ mEnforceSingleSubscriber /\ Listed(subs) # {}
  /\ view' = Tell({s}, "idle")
  /\ UNCHANGED <<mState, subs, outbox, mEnforceSingleSubscriber>>

Admitted(s) == Room /\ ~(mEnforceSingleSubscriber /\ Listed(subs) # {})

SubscribeReleased(s) ==
  /\ Admitted(s)
  /\ mState = "Released"
  /\ subs' = AddSubscriber(s)
  /\ view' = Tell({s}, "requested")
  /\ outbox' = RsrcRequest("REQUEST", subs')
  /\ mState' = "Pending"
  /\ UNCHANGED mEnforceSingleSubscriber

SubscribeUnanswered(s) ==
  /\ Admitted(s)
  /\ mState \in {"Pending", "Releasing"}
  /\ subs' = AddSubscriber(s)
  /\ view' = Tell({s}, "requested")
  /\ UNCHANGED <<mState, outbox, mEnforceSingleSubscriber>>

SubscribeAcquired(s) ==
  /\ Admitted(s)
  /\ mState = "Acquired"
  /\ view' = Tell({s}, "granted")
  /\ subs' = AddSubscriber(s)
  /\ UNCHANGED <<mState, outbox, mEnforceSingleSubscriber>>

SubscribeRsrc(s) ==
  Refuse(s) \/ SubscribeReleased(s) \/ SubscribeUnanswered(s) \/ SubscribeAcquired(s)

(***************************************************************************)
(* unsubscribeRsrc: a subscriber that is not in the list is ignored.  In   *)
(* Released the subscriber would be told and kept.                         *)
(***************************************************************************)
AfterUnsubscribe(l) ==
  IF Listed(l) = {} THEN "Released"
  ELSE IF Active(l) = {} /\ mState # "Releasing" THEN "Releasing"
  ELSE mState

Unsubscribed(s) ==
  CASE mState = "Released" -> subs
    [] mState # "Released" /\ s \in Waiters -> [subs EXCEPT ![s] = "inactive"]
    [] OTHER -> Remove({s})

\* Mutant: no RELEASE when inactive subscribers stay.
UnusedAndEmpty(l) == Listed(l) = {}

\* The list is empty, or none in it is active.
Unused(l) == Active(l) = {}

UnsubscribeRsrc(s) ==
  /\ Room
  /\ s \in Listed(subs)
  /\ subs' = Unsubscribed(s)
  /\ view' = Tell({s}, IF s \in Waiters THEN "closing" ELSE "idle")
  /\ mState' = IF mState = "Released" THEN mState ELSE AfterUnsubscribe(subs')
  /\ outbox' = IF mState \in {"Pending", "Acquired"} /\ Unused(subs')
               THEN RsrcRequest("RELEASE", subs') ELSE outbox
  /\ UNCHANGED mEnforceSingleSubscriber

(***************************************************************************)
(* onRsrcEvent: what the framework reports, once its message is processed. *)
(* An event that the current state does not expect changes nothing.        *)
(***************************************************************************)
\* Mutant: the search stops at the first subscriber it tells.
OnGrantedFirst ==
  /\ mState = "Pending"
  /\ mState' = "Acquired"
  /\ \E S \in SUBSET Active(subs) :
       (Active(subs) # {} => S # {}) /\ (\A s, t \in S : s = t) /\ view' = Tell(S, "granted")
  /\ UNCHANGED <<subs, outbox, mEnforceSingleSubscriber>>

OnGranted ==
  /\ mState = "Pending"
  /\ mState' = "Acquired"
  /\ view' = Tell(Active(subs), "granted")
  /\ UNCHANGED <<subs, outbox, mEnforceSingleSubscriber>>

\* Mutant: the subscribers are told but not deleted.
LoseAllKept ==
  /\ mState' = "Released"
  /\ view' = Tell(Listed(subs), "idle")
  /\ UNCHANGED <<subs, outbox, mEnforceSingleSubscriber>>

\* Everyone is told and leaves the list: DENIED in Pending, a forced RELEASED
\* in Acquired.
LoseAll ==
  /\ mState' = "Released"
  /\ view' = Tell(Listed(subs), "idle")
  /\ subs' = Remove(Listed(subs))
  /\ UNCHANGED <<outbox, mEnforceSingleSubscriber>>

\* Mutants: the list goes to the active subscribers; nextState keeps its
\* initial value, Acquired.
CloseCompleteActive ==
  /\ view' = Tell(Active(subs), "idle")
  /\ subs' = Remove(Active(subs))
  /\ mState' = "Released"
  /\ UNCHANGED <<outbox, mEnforceSingleSubscriber>>
CloseCompleteAcquired ==
  /\ view' = Tell(Inactive(subs), "idle")
  /\ subs' = Remove(Inactive(subs))
  /\ mState' = IF Active(subs') # {} THEN "Pending" ELSE "Acquired"
  /\ UNCHANGED <<outbox, mEnforceSingleSubscriber>>

\* RELEASED or DENIED in Releasing: those who waited for the close are told,
\* and the interface is requested again for those who came meanwhile.
CloseComplete ==
  /\ view' = Tell(Inactive(subs), "idle")
  /\ subs' = Remove(Inactive(subs))
  /\ mState' = IF Active(subs') # {} THEN "Pending" ELSE "Released"
  /\ outbox' = IF Active(subs') # {} THEN RsrcRequest("REQUEST", subs') ELSE outbox
  /\ UNCHANGED mEnforceSingleSubscriber

OnReleased ==
  \/ mState = "Acquired" /\ LoseAll
  \/ mState = "Releasing" /\ CloseComplete

OnDenied ==
  \/ mState = "Pending" /\ LoseAll
  \/ mState = "Releasing" /\ CloseComplete

\* An event in a state that ignores it.
Ignores(event) ==
  CASE event = "GRANTED"  -> mState # "Pending"
    [] event = "RELEASED" -> mState \notin {"Acquired", "Releasing"}
    [] event = "DENIED"   -> mState \notin {"Pending", "Releasing"}

OnRsrcEvent(event) ==
  \/ event = "GRANTED"  /\ OnGranted
  \/ event = "RELEASED" /\ OnReleased
  \/ event = "DENIED"   /\ OnDenied
  \/ Ignores(event) /\ UNCHANGED vars

\* loc_eng_handle_engine_up, when the modem has restarted: the lists of
\* agnss_nif and internet_nif (never that of wifi_nif) are flushed.  Nobody is
\* told, the state stays and no request is sent.
DropAllSubscribers ==
  /\ ~mEnforceSingleSubscriber
  /\ view' = Tell(Listed(subs), "dropped")
  /\ subs' = Remove(Ids)
  /\ UNCHANGED <<mState, outbox, mEnforceSingleSubscriber>>

\* External: the framework takes the oldest request.
TakeRequest ==
  /\ outbox # <<>>
  /\ outbox' = Tail(outbox)
  /\ UNCHANGED <<mState, subs, view, mEnforceSingleSubscriber>>

Next ==
  \/ \E s \in Clients : SubscribeRsrc(s) \/ UnsubscribeRsrc(s)
  \/ \E event \in {"GRANTED", "RELEASED", "DENIED"} : OnRsrcEvent(event)
  \/ DropAllSubscribers
  \/ TakeRequest

Spec == Init /\ [][Next]_vars

(***************************************************************************)
(* Properties                                                              *)
(***************************************************************************)

\* The state, the list and the subscribers' views have their types.
TypeOK ==
  /\ mState \in States
  /\ subs \in [Ids -> Listing]
  /\ view \in [Ids -> Views]
  /\ outbox \in Seq(Requests)
  /\ mEnforceSingleSubscriber \in BOOLEAN

\* "Error: subscriber list not empty!!!  I don't know how to recover from it"
\* (AgpsReleasedState::onRsrcEvent) is never logged: every way into Released,
\* from each of the other states, has emptied the list.
ReleasedIsEmpty == mState = "Released" => Listed(subs) = {}

\* A subscriber whose last word was GRANTED is still in the list, active, of a
\* machine that holds the interface: a later loss is bound to reach it.
GrantedIsServed ==
  \A s \in Ids : view[s] = "granted" => mState = "Acquired" /\ subs[s] = "active"

\* A subscriber that waits for its answer is in the list, active, and the
\* machine is in a state that an answer of the service leaves.
RequestedIsRemembered ==
  \A s \in Ids : view[s] = "requested" => mState \in {"Pending", "Releasing"} /\ subs[s] = "active"

\* A subscriber told to wait for the close complete is in the list, inactive,
\* and the machine is in the only state that tells inactive subscribers.
ClosingIsAwaited ==
  \A s \in Ids : view[s] = "closing" => mState = "Releasing" /\ subs[s] = "inactive"

\* No subscriber is forgotten: whatever it was last told, or is waiting to be
\* told, the list and the state are such that the next event reaches it.
NobodyIsForgotten == GrantedIsServed /\ RequestedIsRemembered /\ ClosingIsAwaited

\* mEnforceSingleSubscriber: one subscriber at most is ever in the list.
OneSubscriber ==
  mEnforceSingleSubscriber => \A s, t \in Listed(subs) : s = t

\* The framework is never told to release the interface in a step after which
\* some subscriber holds it or waits for it.
ReleaseWhenUnused ==
  [][outbox' = Append(outbox, "RELEASE")
       => \A s \in Ids : view'[s] \notin {"requested", "granted"}]_vars

\* The machine implements the promise to its subscribers (AgpsPromise) with
\* "the interface is held" standing for the Acquired state.
Promise == INSTANCE AgpsPromise
  WITH held <- (mState = "Acquired"), single <- mEnforceSingleSubscriber
KeepsPromise == Promise!Spec
=============================================================================
