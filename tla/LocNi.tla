------------------------------- MODULE LocNi -------------------------------
(***************************************************************************)
(* Network-initiated location requests (loc_eng_ni.cpp).  Three kinds of   *)
(* thread share the two sessions: the adapter's message thread accepts     *)
(* requests of the modem, resets them when the modem dies and delivers     *)
(* answers; the framework's thread records the user's response; and one    *)
(* NI thread per accepted request waits for the response or a timeout.     *)
(*                                                                         *)
(* Only part of the code holds the session's mutex tLock.  A step is what  *)
(* runs between two points where another thread can interfere, so the      *)
(* unlocked checks are steps of their own.  A value loaded for a check and *)
(* used again without an intervening lock or call is taken to be the one   *)
(* that was loaded (the compiler may keep it in a register).               *)
(*                                                                         *)
(* A request, its payload rawRequest, its reqID and the NI thread spawned  *)
(* for it are the same number, that of reqIDCounter; 0 is NULL, or no ID.  *)
(* There is no clock: a thread may time out as soon as it waits.           *)
(***************************************************************************)
EXTENDS Naturals, FiniteSets

CONSTANTS
  MaxRequests   \* bound: requests accepted in a behaviour

Sessions == {"session", "sessionEs"}

ASSUME NiAssumption == MaxRequests \in Nat \ {0}

VARIABLES
  rawRequest, reqID, resp, respRecvd,  \* loc_eng_ni_session_s_type
  reqIDCounter,
  holder,        \* the NI thread that holds tLock, or 0
  thread,        \* NI threads: where each is
  taken,         \* NI threads: the rawRequest each has taken
  heap,          \* payloads: not yet there, live, freed, freed or used again
  adapter,       \* the message thread: idle, or inside a handler
  responder,     \* the framework's thread: idle, or inside loc_eng_ni_respond
  answers,       \* answers sent to the modem: by which thread, for what
  given,         \* history: the responses that the user gave, by request
  reset,         \* history: the requests freed because the modem restarted
  crossed        \* history: a response has crossed the end of the wait that
                 \* it answers, by a timeout or another word

vars ==
  <<rawRequest, reqID, resp, respRecvd, reqIDCounter, holder,
    thread, taken, heap, adapter, responder, answers, given,
    reset, crossed>>

Requests  == 1..MaxRequests
Responses == {"ACCEPT", "DENY"}
Idle      == [at |-> "idle", in |-> "session", id |-> 0, say |-> "none"]
Unborn    == [at |-> "unborn", in |-> "session", say |-> "none"]

\* The argument of ni_thread_proc.
SessionOf(t) == thread[t].in

At(t, pc) == thread[t].at = pc
Goes(t, pc) == thread' = [thread EXCEPT ![t].at = pc]

\* free(): releasing or using a payload that is not live is recorded.
Freed(r) ==
  [p \in Requests |-> IF p # r THEN heap[p]
                      ELSE IF heap[p] = "live" THEN "freed" ELSE "misused"]

Init ==
  /\ rawRequest = [s \in Sessions |-> 0]
  /\ reqID = [s \in Sessions |-> 0]
  /\ resp = [s \in Sessions |-> "none"]
  /\ respRecvd = [s \in Sessions |-> FALSE]
  /\ reqIDCounter = 0
  /\ holder = [s \in Sessions |-> 0]
  /\ thread = [r \in Requests |-> Unborn]
  /\ taken = [r \in Requests |-> 0]
  /\ heap = [r \in Requests |-> "absent"]
  /\ adapter = Idle
  /\ responder = Idle
  /\ answers = {}
  /\ given = {}
  /\ reset = {}
  /\ crossed = FALSE

(***************************************************************************)
(* loc_eng_ni_request_handler, on the message thread.  A request that      *)
(* finds a session in progress is freed at once and changes nothing.       *)
(***************************************************************************)
Free(s) ==
  /\ rawRequest[s] = 0
  /\ s = "session" => rawRequest["sessionEs"] = 0

RequestSaved(s) ==
  /\ adapter = Idle
  /\ reqIDCounter < MaxRequests
  /\ Free(s)
  /\ rawRequest' = [rawRequest EXCEPT ![s] = reqIDCounter + 1]
  /\ heap' = [heap EXCEPT ![reqIDCounter + 1] = "live"]
  /\ adapter' = [Idle EXCEPT !.at = "request", !.in = s]
  /\ UNCHANGED <<reqID, resp, respRecvd, reqIDCounter, holder, thread, taken,
                 responder, answers, given, reset, crossed>>

\* The rest of the handler: the ID, the NI thread, and the user is notified.
RequestShown ==
  /\ adapter.at = "request"
  /\ reqIDCounter' = reqIDCounter + 1
  /\ reqID' = [reqID EXCEPT ![adapter.in] = reqIDCounter']
  /\ thread' = [thread EXCEPT ![reqIDCounter'] = [Unborn EXCEPT !.at = "start", !.in = adapter.in]]
  /\ adapter' = Idle
  /\ UNCHANGED <<rawRequest, resp, respRecvd, holder, taken, heap, responder,
                 answers, given, reset, crossed>>

(***************************************************************************)
(* loc_eng_ni_reset_on_engine_restart, on the message thread: sessionEs,   *)
(* then session.  Only the signal is given under the lock.                 *)
(***************************************************************************)
Resets(s) == [Idle EXCEPT !.at = "free", !.in = s, !.id = rawRequest[s]]

ModemDown ==
  /\ adapter = Idle
  /\ \E s \in Sessions :
       /\ rawRequest[s] # 0
       /\ s = "session" => rawRequest["sessionEs"] = 0
       /\ adapter' = Resets(s)
  /\ UNCHANGED <<rawRequest, reqID, resp, respRecvd, reqIDCounter, holder,
                 thread, taken, heap, responder, answers, given, reset, crossed>>

\* What is freed is what was checked, or what rawRequest holds by now.
ResetFrees ==
  /\ adapter.at = "free"
  /\ \E r \in {adapter.id, rawRequest[adapter.in]} : heap' = Freed(r)
  /\ reset' = reset \cup {adapter.id}
  /\ adapter' = [adapter EXCEPT !.at = "clear"]
  /\ UNCHANGED <<rawRequest, reqID, resp, respRecvd, reqIDCounter, holder,
                 thread, taken, responder, answers, given, crossed>>

ResetClears ==
  /\ adapter.at = "clear"
  /\ rawRequest' = [rawRequest EXCEPT ![adapter.in] = 0]
  /\ adapter' = [adapter EXCEPT !.at = "signal"]
  /\ UNCHANGED <<reqID, resp, respRecvd, reqIDCounter, holder, thread, taken,
                 heap, responder, answers, given, reset, crossed>>

ResetSignals ==
  /\ adapter.at = "signal"
  /\ holder[adapter.in] = 0
  /\ respRecvd' = [respRecvd EXCEPT ![adapter.in] = TRUE]
  /\ adapter' = IF adapter.in = "sessionEs" /\ rawRequest["session"] # 0
                THEN Resets("session") ELSE Idle
  /\ UNCHANGED <<rawRequest, reqID, resp, reqIDCounter, holder, thread, taken,
                 heap, responder, answers, given, reset, crossed>>

(***************************************************************************)
(* loc_eng_ni_respond, on the framework's thread.  The user responds once  *)
(* to what was shown.                                                      *)
(***************************************************************************)
Active(s, id) == id = reqID[s] /\ rawRequest[s] # 0

\* Mutant: the other session is told to give way whatever the response is.
GivesWayAlways(response) == rawRequest["session"] # 0

GivesWay(response) == response = "ACCEPT" /\ rawRequest["session"] # 0

\* The unlocked checks.
RespondChecks(id, response) ==
  LET going(pc, s) == [at |-> pc, in |-> s, id |-> id, say |-> response] IN
  /\ responder = Idle
  /\ id \in 1..reqIDCounter
  /\ \A g \in given : g.id # id
  /\ given' = given \cup {[id |-> id, say |-> response]}
  /\ crossed' = (crossed \/ thread[id].at \notin {"start", "wait"})
  /\ responder' = IF Active("sessionEs", id)
                  THEN going(IF GivesWay(response) THEN "ignore" ELSE "write", "sessionEs")
                  ELSE IF Active("session", id) THEN going("write", "session") ELSE Idle
  /\ UNCHANGED <<rawRequest, reqID, resp, respRecvd, reqIDCounter, holder,
                 thread, taken, heap, adapter, answers, reset>>

\* An accepted emergency makes the other session ignore its request.
RespondIgnores ==
  /\ responder.at = "ignore"
  /\ holder["session"] = 0
  /\ resp' = [resp EXCEPT !["session"] = "IGNORE"]
  /\ respRecvd' = [respRecvd EXCEPT !["session"] = TRUE]
  /\ responder' = [responder EXCEPT !.at = "write"]
  /\ UNCHANGED <<rawRequest, reqID, reqIDCounter, holder, thread, taken, heap,
                 adapter, answers, given, reset, crossed>>

RespondWrites ==
  /\ responder.at = "write"
  /\ holder[responder.in] = 0
  /\ resp' = [resp EXCEPT ![responder.in] = responder.say]
  /\ respRecvd' = [respRecvd EXCEPT ![responder.in] = TRUE]
  /\ responder' = Idle
  /\ UNCHANGED <<rawRequest, reqID, reqIDCounter, holder, thread, taken, heap,
                 adapter, answers, given, reset, crossed>>

(***************************************************************************)
(* ni_thread_proc                                                          *)
(***************************************************************************)
\* The thread locks, computes its expire time and waits, unlocking.
NiWaits(t) ==
  /\ At(t, "start")
  /\ holder[SessionOf(t)] = 0
  /\ Goes(t, "wait")
  /\ UNCHANGED <<rawRequest, reqID, resp, respRecvd, reqIDCounter, holder, taken,
                 heap, adapter, responder, answers, given, reset, crossed>>

\* Mutant: the user response flag is not reset for the next session.
LeavesFlagged(t, word) ==
  /\ At(t, "wait")
  /\ holder[SessionOf(t)] = 0
  /\ holder' = [holder EXCEPT ![SessionOf(t)] = t]
  /\ taken' = [taken EXCEPT ![t] = rawRequest[SessionOf(t)]]
  /\ thread' = [thread EXCEPT ![t].at = "leave", ![t].say = word]
  /\ UNCHANGED <<rawRequest, reqID, respRecvd, reqIDCounter, heap, adapter,
                 responder, answers, given, reset>>

\* It has the lock again, leaves the loop with this word, checks rawRequest.
Leaves(t, word) ==
  /\ At(t, "wait")
  /\ holder[SessionOf(t)] = 0
  /\ holder' = [holder EXCEPT ![SessionOf(t)] = t]
  /\ respRecvd' = [respRecvd EXCEPT ![SessionOf(t)] = FALSE]
  /\ taken' = [taken EXCEPT ![t] = rawRequest[SessionOf(t)]]
  /\ thread' = [thread EXCEPT ![t].at = "leave", ![t].say = word]
  /\ UNCHANGED <<rawRequest, reqID, reqIDCounter, heap, adapter, responder,
                 answers, given, reset>>

NiResponded(t) ==
  /\ respRecvd[SessionOf(t)]
  /\ crossed' = (crossed \/ (responder # Idle /\ responder.in = SessionOf(t)))
  /\ Leaves(t, resp[SessionOf(t)])
  /\ UNCHANGED resp

\* ETIMEDOUT, even if a response has come meanwhile.
NiTimesOut(t) ==
  /\ crossed' = (crossed \/ responder # Idle \/ respRecvd[SessionOf(t)])
  /\ resp' = [resp EXCEPT ![SessionOf(t)] = "NORESP"]
  /\ Leaves(t, "NORESP")

\* Mutant: an ignored payload is left to nobody.
IgnoredKept(t) == heap

\* Mutant: the payload is freed here although its message will free it too.
FreedAlways(t) == Freed(taken[t])

\* The payload that is ignored is freed.
IgnoredFreed(t) == IF thread[t].say = "IGNORE" THEN Freed(taken[t]) ELSE heap

\* Mutant: the thread leaves with the lock.
KeepsLock(s) == holder

Unlocked(s) == [holder EXCEPT ![s] = 0]

\* The message is made or the payload freed, and the lock released.  The
\* session's reqID and respTimeLeft are cleared later.
NiTakes(t) ==
  LET s == SessionOf(t) IN
  /\ At(t, "leave")
  /\ rawRequest' = [rawRequest EXCEPT ![s] = IF taken[t] # 0 THEN 0 ELSE @]
  /\ heap' = IgnoredFreed(t)
  /\ taken' = [taken EXCEPT ![t] = IF thread[t].say = "IGNORE" THEN 0 ELSE @]
  /\ Goes(t, "unlocked")
  /\ holder' = Unlocked(s)
  /\ UNCHANGED <<reqID, resp, respRecvd, reqIDCounter, adapter, responder,
                 answers, given, reset, crossed>>

\* Without the lock: the session's fields are cleared and the message sent.
NiSends(t) ==
  /\ At(t, "unlocked")
  /\ reqID' = [reqID EXCEPT ![SessionOf(t)] = 0]
  /\ answers' = answers \cup
       {[by |-> t, id |-> r, say |-> thread[t].say] : r \in {taken[t]} \ {0}}
  /\ Goes(t, "done")
  /\ UNCHANGED <<rawRequest, resp, respRecvd, reqIDCounter, holder, taken, heap,
                 adapter, responder, given, reset, crossed>>

\* LocEngInformNiResponse on the message thread: the modem is informed, and
\* the message frees the payload.
Inform(t) ==
  /\ adapter = Idle
  /\ At(t, "done") /\ taken[t] # 0
  /\ heap' = Freed(taken[t])
  /\ taken' = [taken EXCEPT ![t] = 0]
  /\ UNCHANGED <<rawRequest, reqID, resp, respRecvd, reqIDCounter, holder, thread,
                 adapter, responder, answers, given, reset, crossed>>

-----------------------------------------------------------------------------
Adapter == RequestShown \/ ResetFrees \/ ResetClears \/ ResetSignals
Responder == RespondIgnores \/ RespondWrites
NiThread(t) == NiWaits(t) \/ NiResponded(t) \/ NiTimesOut(t) \/ NiTakes(t) \/ NiSends(t)

Next ==
  \/ \E s \in Sessions : RequestSaved(s)
  \/ ModemDown
  \/ Adapter
  \/ \E id \in Requests, response \in Responses : RespondChecks(id, response)
  \/ Responder
  \/ \E t \in Requests : NiThread(t) \/ Inform(t)

Spec == Init /\ [][Next]_vars

\* Threads that may run do run, a wait ends at its timeout at the latest, and
\* messages are taken off the queue.  Nobody has to ask or to respond.
Fairness ==
  /\ WF_vars(Adapter)
  /\ WF_vars(Responder)
  /\ \A t \in Requests : WF_vars(NiThread(t)) /\ WF_vars(Inform(t))

FairSpec == Spec /\ Fairness

-----------------------------------------------------------------------------
Pcs == {"start", "wait", "leave", "unlocked", "done"}

\* Every variable stays in its type, and tLock is held by a thread of its
\* session that is between its wait and its unlock.
TypeOK ==
  /\ rawRequest \in [Sessions -> 0..MaxRequests]
  /\ reqID \in [Sessions -> 0..reqIDCounter]
  /\ resp \in [Sessions -> Responses \cup {"none", "NORESP", "IGNORE"}]
  /\ respRecvd \in [Sessions -> BOOLEAN]
  /\ reqIDCounter \in 0..MaxRequests
  /\ \A s \in Sessions : holder[s] # 0 => At(holder[s], "leave") /\ SessionOf(holder[s]) = s
  /\ \A t \in Requests : thread[t].at \in IF t <= reqIDCounter THEN Pcs ELSE {"unborn"}
  /\ heap \in [Requests -> {"absent", "live", "freed", "misused"}]
  /\ \A m \in answers : m.by \in Requests /\ m.id \in Requests

\* Without a modem restart an NI thread answers the request it was spawned
\* for and no other, and no request is answered twice, however responses,
\* timeouts and new requests interleave.
AnswersOwnRequest ==
  reset = {} =>
    \A m \in answers : m.id = m.by /\ \A n \in answers : n.id = m.id => n = m

\* Without a modem restart the payload of a request is freed once, by one of
\* its owners in turn, and is not used after that.
FreedOnce == reset = {} => \A r \in Requests : heap[r] # "misused"

\* A request that no reset freed is dropped without an answer only when the
\* user has accepted an emergency request (the IGNORE reply of
\* loc_eng_ni_respond).
SilenceMeansEmergency ==
  \A r \in Requests \ reset :
    heap[r] = "freed" /\ (\A m \in answers : m.id # r)
      => \E g \in given : g.say = "ACCEPT" /\ thread[g.id].in = "sessionEs"

\* "Displays the NI request and awaits user input" (loc_eng_ni.cpp:105): the
\* answer sent for a request is the one the user gave to it, or no response,
\* unless a response has crossed the end of a wait or a restart came in between.
AwaitsUser ==
  reset = {} /\ ~crossed =>
    \A m \in answers : m.say = "NORESP" \/ [id |-> m.id, say |-> m.say] \in given

\* "we need the thread to exit without calling sending data. We made sure that
\* rawRequest is NULL" (loc_eng_ni.cpp:239): the thread of a request that was
\* reset sends nothing (its own answer may have been sent just before).
ResetIsSilent == \A m \in answers : m.by \in reset => m.id = m.by

\* Every payload is freed in the end, by the thread that took it, by its
\* message or by a reset: none is dropped from rawRequest and forgotten, even
\* when the modem restarts in the middle.
NoLeak == \A r \in Requests : heap[r] = "live" ~> heap[r] # "live"

\* Every NI thread gets its lock back and exits, whoever cleared, reused or
\* signalled its session meanwhile.
ThreadsExit == \A t \in Requests : At(t, "start") ~> At(t, "done")

\* A request, its payload, its answer and tLock have one owner at a time.
OneOwner == TypeOK /\ AnswersOwnRequest /\ FreedOnce
=============================================================================
