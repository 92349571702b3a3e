---------------------------- MODULE LocNi_proofs ----------------------------
(***************************************************************************)
(* Proofs about LocNi, for any number of requests.  What makes a request   *)
(* have one owner is that rawRequest, the NI thread and the payload move   *)
(* together as long as no restart of the modem comes in between.           *)
(***************************************************************************)
EXTENDS LocNi, TLAPS

Words  == Responses \cup {"none", "NORESP", "IGNORE"}
Places == Pcs \cup {"unborn"}
Threads == [Requests -> [at : Places, in : Sessions, say : Words]]

\* What TypeOK leaves open: what the threads carry, and the histories.
ThreadsTyped ==
  /\ holder \in [Sessions -> 0..MaxRequests]
  /\ thread \in Threads
  /\ taken \in [Requests -> 0..MaxRequests]
  /\ adapter \in [at : {"idle", "request", "free", "clear", "signal"}, in : Sessions,
                  id : 0..MaxRequests, say : {"none"}]
  /\ responder \in [at : {"idle", "ignore", "write"}, in : Sessions,
                    id : 0..MaxRequests, say : Responses \cup {"none"}]
  /\ given \subseteq [id : 1..reqIDCounter, say : Responses]
  /\ reset \subseteq Requests
  /\ answers \subseteq [by : Requests, id : Requests, say : Words]

\* There is an ID for a request that is being accepted; one that is reset is in
\* rawRequest until its thread takes it.
AdapterSound ==
  /\ adapter.at = "request" => reqIDCounter < MaxRequests
  /\ adapter.at = "free" => adapter.id # 0 /\ rawRequest[adapter.in] \in {0, adapter.id}
  /\ adapter.at \in {"clear", "signal"} => reset # {}

Typed == TypeOK /\ ThreadsTyped /\ AdapterSound

\* A session is a thread's own from its start until it has taken the request.
Waits(t) == thread[t].at \in {"start", "wait"}
Owns(t) == Waits(t) \/ At(t, "leave")

\* Without a restart the session's rawRequest and the payload are the thread's,
\* which takes nothing else and answers nothing else; before there is a thread
\* they are the adapter's.
SessionIsOwned ==
  reset = {} =>
    /\ adapter.at = "request" =>
         rawRequest[adapter.in] = reqIDCounter + 1 /\ heap[reqIDCounter + 1] = "live"
    /\ \A t \in Requests : Owns(t) => rawRequest[SessionOf(t)] = t /\ heap[t] = "live"
    /\ \A t \in Requests : taken[t] \in {0, t} /\ (taken[t] # 0 => heap[t] = "live")
    /\ \A t \in Requests : At(t, "leave") => taken[t] = t
    /\ \A m \in answers : m.id = m.by /\ At(m.by, "done") /\ m.say = thread[m.by].say

\* What a thread has taken and not given up is in an answer once it is done.
DoneIsAnswered ==
  \A t \in Requests :
    At(t, "done") /\ taken[t] # 0 => \E m \in answers : m.id = taken[t]

\* reqID names a request of its session.
ShownInSession == \A s \in Sessions : reqID[s] # 0 => SessionOf(reqID[s]) = s

Emergency == \E g \in given : g.say = "ACCEPT" /\ SessionOf(g.id) = "sessionEs"

\* IGNORE is said only after an emergency request was accepted.
IgnoreMeansEmergency ==
  /\ \A s \in Sessions : resp[s] = "IGNORE" => Emergency
  /\ \A t \in Requests : thread[t].say = "IGNORE" => Emergency
  /\ responder.at = "ignore" => Emergency

Given(t, word) == [id |-> t, say |-> word] \in given
Uncrossed == reset = {} /\ ~crossed

\* A response on its way is one that the user gave to a request whose thread
\* still waits for it, ...
ResponseIsAwaited ==
  Uncrossed /\ responder # Idle =>
    /\ responder.id \in Requests /\ Waits(responder.id)
    /\ SessionOf(responder.id) = responder.in
    /\ Given(responder.id, responder.say)

\* ... so is one that was recorded, ...
FlagIsOwn ==
  Uncrossed => \A s \in Sessions : respRecvd[s] /\ resp[s] # "IGNORE" =>
    \E t \in Requests : Waits(t) /\ SessionOf(t) = s /\ Given(t, resp[s])

\* ... and one that a thread has left with was given to its request; a payload
\* that is ignored is not kept.
WordIsOwn ==
  Uncrossed => \A t \in Requests :
    /\ ~Waits(t) /\ ~At(t, "unborn") =>
         thread[t].say \in {"NORESP", "IGNORE"} \/ Given(t, thread[t].say)
    /\ thread[t].say = "IGNORE" /\ taken[t] # 0 => At(t, "leave")

IgnoredIsSilent == Uncrossed => \A m \in answers : m.say # "IGNORE"

IInv ==
  /\ Typed
  /\ SessionIsOwned /\ FreedOnce /\ DoneIsAnswered
  /\ ShownInSession /\ IgnoreMeansEmergency /\ SilenceMeansEmergency
  /\ ResponseIsAwaited /\ FlagIsOwn /\ WordIsOwn /\ IgnoredIsSilent

-----------------------------------------------------------------------------
\* Where a thread goes, and with what word; the others stay.
LEMMA ThreadMoves ==
  ASSUME thread \in Threads, NEW t \in Requests, NEW pc \in Places, NEW word \in Words, NEW new,
         \/ new = [thread EXCEPT ![t].at = pc]
         \/ new = [thread EXCEPT ![t].at = pc, ![t].say = word]
  PROVE  /\ new \in Threads
         /\ new[t].at = pc /\ new[t].say \in {thread[t].say, word}
         /\ \A x \in Requests : new[x].in = thread[x].in
         /\ \A x \in Requests \ {t} : new[x] = thread[x]
<1> DEFINE Record == [at : Places, in : Sessions, say : Words]
<1>1. CASE new = [thread EXCEPT ![t].at = pc]
  <2>1. new = [thread EXCEPT ![t] = [thread[t] EXCEPT !.at = pc]]
    BY <1>1
  <2>2. [thread[t] EXCEPT !.at = pc] \in Record
    BY DEF Threads
  <2> QED BY <2>1, <2>2 DEF Threads
<1>2. CASE new = [thread EXCEPT ![t].at = pc, ![t].say = word]
  <2> DEFINE r == [thread[t] EXCEPT !.at = pc, !.say = word]
  <2>1. new = [thread EXCEPT ![t] = r]
    BY <1>2 DEF Threads
  <2>2. r \in Record /\ r.at = pc /\ r.say = word /\ r.in = thread[t].in
    BY DEF Threads
  <2> HIDE DEF r
  <2> QED BY <2>1, <2>2 DEF Threads
<1> QED BY <1>1, <1>2

LEMMA InitIInv == Init => IInv
<1> SUFFICES ASSUME Init PROVE IInv
  OBVIOUS
<1> USE NiAssumption DEF Init, Requests, Sessions, Responses, Words, Pcs, Places, Threads,
                         Idle, Unborn, At, SessionOf, Waits, Owns
<1>1. Typed
  BY DEF Typed, TypeOK, ThreadsTyped, AdapterSound
<1>2. SessionIsOwned /\ FreedOnce /\ DoneIsAnswered
  BY DEF SessionIsOwned, FreedOnce, DoneIsAnswered
<1>3. ShownInSession /\ IgnoreMeansEmergency /\ SilenceMeansEmergency
  BY DEF ShownInSession, IgnoreMeansEmergency, SilenceMeansEmergency
<1>4. ResponseIsAwaited /\ FlagIsOwn /\ WordIsOwn /\ IgnoredIsSilent
  BY DEF ResponseIsAwaited, FlagIsOwn, WordIsOwn, IgnoredIsSilent
<1> QED BY <1>1, <1>2, <1>3, <1>4 DEF IInv

-----------------------------------------------------------------------------
\* Every step stays in the types.
LEMMA TypedStep == Typed /\ [Next]_vars => Typed'
<1> SUFFICES ASSUME Typed, [Next]_vars PROVE Typed'
  OBVIOUS
<1> USE NiAssumption DEF Sessions, Requests, Responses, Words, Places, Pcs, At, SessionOf
<1>1. ASSUME NEW s \in Sessions, RequestSaved(s) PROVE Typed'
  <2>1. TypeOK'
    BY <1>1 DEF RequestSaved, Free, Idle, Typed, TypeOK, ThreadsTyped, Threads
  <2>2. ThreadsTyped'
    BY <1>1 DEF RequestSaved, Free, Idle, Typed, TypeOK, ThreadsTyped, Threads
  <2>3. AdapterSound'
    BY <1>1 DEF RequestSaved, Free, Idle, Typed, TypeOK, ThreadsTyped, AdapterSound
  <2> QED BY <2>1, <2>2, <2>3 DEF Typed
<1>2. ASSUME ModemDown PROVE Typed'
  <2>1. PICK s \in Sessions : /\ rawRequest[s] # 0
                              /\ adapter' = [at |-> "free", in |-> s,
                                             id |-> rawRequest[s], say |-> "none"]
    BY <1>2 DEF ModemDown, Resets, Idle
  <2>2. UNCHANGED <<rawRequest, reqID, resp, respRecvd, reqIDCounter, holder, thread, taken,
                    heap, responder, answers, given, reset>>
    BY <1>2 DEF ModemDown
  <2> QED BY <2>1, <2>2 DEF Typed, TypeOK, ThreadsTyped, AdapterSound
<1>3. ASSUME RequestShown PROVE Typed'
  <2> DEFINE c == reqIDCounter + 1
             new == [Unborn EXCEPT !.at = "start", !.in = adapter.in]
  <2>1. c \in Requests /\ reqIDCounter' = c /\ thread' = [thread EXCEPT ![c] = new]
    BY <1>3 DEF RequestShown, Typed, TypeOK, ThreadsTyped, AdapterSound
  <2>2. adapter.in \in Sessions /\ adapter' = Idle /\ reqID' = [reqID EXCEPT ![adapter.in] = c]
    BY <1>3, <2>1 DEF RequestShown, Typed, TypeOK, ThreadsTyped, AdapterSound
  <2>3. new \in [at : Places, in : Sessions, say : Words] /\ new.at = "start"
    BY <2>2 DEF Unborn
  <2>4. thread[c].at = "unborn"
    BY <2>1 DEF Typed, TypeOK, ThreadsTyped, AdapterSound
  <2> HIDE DEF new
  <2>5. UNCHANGED <<rawRequest, resp, respRecvd, holder, taken, heap, responder, answers,
                    given, reset>>
    BY <1>3 DEF RequestShown
  <2>6. \A s \in Sessions : holder'[s] # 0 => holder[s] # c /\ holder[s] \in Requests
    <3>1. \A s \in Sessions : /\ holder[s] \in 0..MaxRequests
                              /\ holder[s] # 0 => thread[holder[s]].at = "leave"
      BY DEF Typed, TypeOK, ThreadsTyped
    <3>2. holder' = holder
      BY <2>5
    <3> HIDE DEF c
    <3> QED BY <2>4, <3>1, <3>2, NiAssumption
  <2>7. /\ thread' \in Threads
        /\ \A t \in Requests : thread'[t] = IF t = c THEN new ELSE thread[t]
    BY <2>1, <2>3 DEF Threads, Typed, ThreadsTyped
  <2>8. \A t \in Requests : thread'[t].at \in IF t <= c THEN Pcs ELSE {"unborn"}
    BY <2>1, <2>3, <2>7 DEF Typed, TypeOK
  <2>9. \A s \in Sessions : holder'[s] # 0 => /\ thread'[holder'[s]].at = "leave"
                                             /\ thread'[holder'[s]].in = s
    BY <2>5, <2>6, <2>7 DEF Typed, TypeOK
  <2>10. reqID' \in [Sessions -> 0..reqIDCounter']
    BY <2>1, <2>2 DEF Typed, TypeOK
  <2>11. TypeOK'
    BY <2>1, <2>5, <2>8, <2>9, <2>10 DEF Typed, TypeOK
  <2>12. given' \subseteq [id : 1..reqIDCounter', say : Responses]
    BY <2>1, <2>5 DEF Typed, TypeOK, ThreadsTyped
  <2>13. ThreadsTyped' /\ AdapterSound'
    BY <2>2, <2>5, <2>7, <2>12 DEF Typed, ThreadsTyped, AdapterSound, Idle
  <2> QED BY <2>11, <2>13 DEF Typed
<1>4. ASSUME ResetFrees PROVE Typed'
  <2>1. /\ adapter.at = "free" /\ adapter' = [adapter EXCEPT !.at = "clear"]
        /\ reset' = reset \cup {adapter.id}
        /\ UNCHANGED <<rawRequest, reqID, resp, respRecvd, reqIDCounter, holder, thread, taken,
                       responder, answers, given>>
    BY <1>4 DEF ResetFrees
  <2>2. heap' \in [Requests -> {"absent", "live", "freed", "misused"}]
    BY <1>4 DEF ResetFrees, Freed, Typed, TypeOK
  <2>3. adapter.id \in Requests
    BY <2>1 DEF Typed, TypeOK, ThreadsTyped, AdapterSound
  <2>4. TypeOK'
    BY <2>1, <2>2 DEF Typed, TypeOK
  <2>5. ThreadsTyped' /\ AdapterSound'
    BY <2>1, <2>3 DEF Typed, ThreadsTyped, AdapterSound
  <2> QED BY <2>4, <2>5 DEF Typed
<1>5. ASSUME ResetClears PROVE Typed'
  <2>1. TypeOK'
    BY <1>5 DEF ResetClears, Typed, TypeOK, ThreadsTyped, Threads
  <2>2. ThreadsTyped'
    BY <1>5 DEF ResetClears, Typed, TypeOK, ThreadsTyped, Threads
  <2>3. AdapterSound'
    BY <1>5 DEF ResetClears, Typed, TypeOK, ThreadsTyped, AdapterSound
  <2> QED BY <2>1, <2>2, <2>3 DEF Typed
<1>6. ASSUME ResetSignals PROVE Typed'
  <2>1. TypeOK'
    BY <1>6 DEF ResetSignals, Resets, Idle, Typed, TypeOK, ThreadsTyped, Threads
  <2>2. ThreadsTyped'
    BY <1>6 DEF ResetSignals, Resets, Idle, Typed, TypeOK, ThreadsTyped, Threads
  <2>3. AdapterSound'
    BY <1>6 DEF ResetSignals, Resets, Idle, Typed, TypeOK, ThreadsTyped, AdapterSound
  <2> QED BY <2>1, <2>2, <2>3 DEF Typed
<1>7. ASSUME NEW id \in Requests, NEW response \in Responses, RespondChecks(id, response)
      PROVE  Typed'
  <2>1. TypeOK'
    BY <1>7 DEF RespondChecks, Active, GivesWay, Idle, Typed, TypeOK, ThreadsTyped,
       Threads
  <2>2. ThreadsTyped'
    <3>1. given' \subseteq [id : 1..reqIDCounter, say : Responses] /\ id \in 0..MaxRequests
      BY <1>7 DEF RespondChecks, Typed, TypeOK, ThreadsTyped
    <3>2. \/ responder' = Idle
          \/ \E at \in {"ignore", "write"}, s \in Sessions :
               responder' = [at |-> at, in |-> s, id |-> id, say |-> response]
      BY <1>7 DEF RespondChecks
    <3> QED BY <1>7, <3>1, <3>2 DEF RespondChecks, Idle, Typed, ThreadsTyped
  <2>3. AdapterSound'
    BY <1>7 DEF RespondChecks, Active, GivesWay, Idle, Typed, TypeOK, ThreadsTyped,
       AdapterSound
  <2> QED BY <2>1, <2>2, <2>3 DEF Typed
<1>8. ASSUME RespondIgnores PROVE Typed'
  <2>1. TypeOK'
    BY <1>8 DEF RespondIgnores, Typed, TypeOK, ThreadsTyped, Threads
  <2>2. ThreadsTyped'
    BY <1>8 DEF RespondIgnores, Typed, TypeOK, ThreadsTyped, Threads
  <2>3. AdapterSound'
    BY <1>8 DEF RespondIgnores, Typed, TypeOK, ThreadsTyped, AdapterSound
  <2> QED BY <2>1, <2>2, <2>3 DEF Typed
<1>9. ASSUME RespondWrites PROVE Typed'
  <2>1. TypeOK'
    BY <1>9 DEF RespondWrites, Idle, Typed, TypeOK, ThreadsTyped, Threads
  <2>2. ThreadsTyped'
    BY <1>9 DEF RespondWrites, Idle, Typed, TypeOK, ThreadsTyped, Threads
  <2>3. AdapterSound'
    BY <1>9 DEF RespondWrites, Idle, Typed, TypeOK, ThreadsTyped, AdapterSound
  <2> QED BY <2>1, <2>2, <2>3 DEF Typed
<1>10. ASSUME NEW t \in Requests, NiWaits(t) PROVE Typed'
  <2>1. thread' \in Threads
    BY <1>10, ThreadMoves DEF NiWaits, Goes, Typed, ThreadsTyped
  <2>2. TypeOK'
    BY <1>10, <2>1 DEF NiWaits, Goes, Typed, TypeOK, ThreadsTyped, Threads
  <2>3. ThreadsTyped'
    BY <1>10, <2>1 DEF NiWaits, Goes, Typed, TypeOK, ThreadsTyped
  <2>4. AdapterSound'
    BY <1>10, <2>1 DEF NiWaits, Goes, Typed, TypeOK, ThreadsTyped, AdapterSound
  <2> QED BY <2>2, <2>3, <2>4 DEF Typed
<1>11. ASSUME NEW t \in Requests, NiResponded(t) PROVE Typed'
  <2>1. SessionOf(t) \in Sessions /\ resp[SessionOf(t)] \in Words
    BY DEF Typed, TypeOK, ThreadsTyped, Threads
  <2>2. thread' \in Threads
    BY <1>11, <2>1, ThreadMoves DEF NiResponded, Leaves, Typed, ThreadsTyped
  <2>3. holder' \in [Sessions -> 0..MaxRequests] /\ taken' \in [Requests -> 0..MaxRequests]
    BY <1>11, <2>1 DEF NiResponded, Leaves, Typed, TypeOK, ThreadsTyped
  <2>4. TypeOK'
    BY <1>11, <2>1, <2>2, <2>3 DEF NiResponded, Leaves, Typed, TypeOK, ThreadsTyped,
       Threads
  <2>5. ThreadsTyped'
    BY <1>11, <2>1, <2>2, <2>3 DEF NiResponded, Leaves, Typed, TypeOK, ThreadsTyped
  <2>6. AdapterSound'
    BY <1>11, <2>1, <2>2, <2>3 DEF NiResponded, Leaves, Typed, TypeOK, ThreadsTyped,
       AdapterSound
  <2> QED BY <2>4, <2>5, <2>6 DEF Typed
<1>12. ASSUME NEW t \in Requests, NiTimesOut(t) PROVE Typed'
  <2>1. SessionOf(t) \in Sessions
    BY DEF Typed, ThreadsTyped, Threads
  <2>2. thread' \in Threads
    BY <1>12, <2>1, ThreadMoves DEF NiTimesOut, Leaves, Typed, ThreadsTyped
  <2>3. holder' \in [Sessions -> 0..MaxRequests] /\ taken' \in [Requests -> 0..MaxRequests]
    BY <1>12, <2>1 DEF NiTimesOut, Leaves, Typed, TypeOK, ThreadsTyped
  <2>4. TypeOK'
    BY <1>12, <2>1, <2>2, <2>3 DEF NiTimesOut, Leaves, Typed, TypeOK, ThreadsTyped,
       Threads
  <2>5. ThreadsTyped'
    BY <1>12, <2>1, <2>2, <2>3 DEF NiTimesOut, Leaves, Typed, TypeOK, ThreadsTyped
  <2>6. AdapterSound'
    BY <1>12, <2>1, <2>2, <2>3 DEF NiTimesOut, Leaves, Typed, TypeOK, ThreadsTyped,
       AdapterSound
  <2> QED BY <2>4, <2>5, <2>6 DEF Typed
<1>13. ASSUME NEW t \in Requests, NiTakes(t) PROVE Typed'
  <2>1. thread' \in Threads /\ SessionOf(t) \in Sessions
    <3>1. thread' \in Threads
      BY <1>13, ThreadMoves DEF NiTakes, Goes, Typed, ThreadsTyped
    <3> QED BY <3>1 DEF Typed, ThreadsTyped, Threads
  <2>2. taken' \in [Requests -> 0..MaxRequests] /\ holder' \in [Sessions -> 0..MaxRequests]
    BY <1>13, <2>1 DEF NiTakes, Unlocked, Typed, ThreadsTyped
  <2>3. TypeOK'
    BY <1>13, <2>1, <2>2 DEF NiTakes, Goes, IgnoredFreed, Freed, Unlocked, Typed,
       TypeOK, ThreadsTyped, Threads
  <2>4. ThreadsTyped'
    BY <1>13, <2>1, <2>2 DEF NiTakes, Goes, IgnoredFreed, Freed, Unlocked, Typed,
       TypeOK, ThreadsTyped
  <2>5. AdapterSound'
    BY <1>13, <2>1, <2>2 DEF NiTakes, Goes, IgnoredFreed, Freed, Unlocked, Typed,
       TypeOK, ThreadsTyped, AdapterSound, Threads
  <2> QED BY <2>3, <2>4, <2>5 DEF Typed
<1>14. ASSUME NEW t \in Requests, NiSends(t) PROVE Typed'
  <2>1. thread' \in Threads
    BY <1>14, ThreadMoves DEF NiSends, Goes, Typed, ThreadsTyped
  <2>2. thread[t].say \in Words
    BY DEF Typed, ThreadsTyped, Threads
  <2>3. TypeOK'
    BY <1>14, <2>1, <2>2 DEF NiSends, Goes, Typed, TypeOK, ThreadsTyped, Threads
  <2>4. ThreadsTyped'
    <3>1. answers' \subseteq [by : Requests, id : Requests, say : Words]
      BY <1>14, <2>2 DEF NiSends, Typed, ThreadsTyped
    <3> QED BY <1>14, <2>1, <3>1 DEF NiSends, Typed, ThreadsTyped
  <2>5. AdapterSound'
    BY <1>14, <2>1, <2>2 DEF NiSends, Goes, Typed, TypeOK, ThreadsTyped, AdapterSound
  <2> QED BY <2>3, <2>4, <2>5 DEF Typed
<1>15. ASSUME NEW t \in Requests, Inform(t) PROVE Typed'
  <2>1. TypeOK'
    BY <1>15 DEF Inform, Freed, Idle, Typed, TypeOK, ThreadsTyped, Threads
  <2>2. ThreadsTyped'
    BY <1>15 DEF Inform, Freed, Idle, Typed, TypeOK, ThreadsTyped, Threads
  <2>3. AdapterSound'
    BY <1>15 DEF Inform, Freed, Idle, Typed, TypeOK, ThreadsTyped, AdapterSound
  <2> QED BY <2>1, <2>2, <2>3 DEF Typed
<1>16. ASSUME UNCHANGED vars PROVE Typed'
  <2>1. TypeOK'
    BY <1>16 DEF vars, Typed, TypeOK, ThreadsTyped, Threads
  <2>2. ThreadsTyped'
    BY <1>16 DEF vars, Typed, TypeOK, ThreadsTyped, Threads
  <2>3. AdapterSound'
    BY <1>16 DEF vars, Typed, TypeOK, ThreadsTyped, AdapterSound
  <2> QED BY <2>1, <2>2, <2>3 DEF Typed
<1> QED BY <1>1, <1>2, <1>3, <1>4, <1>5, <1>6, <1>7, <1>8, <1>9, <1>10, <1>11, <1>12,
   <1>13, <1>14, <1>15, <1>16 DEF Next, Adapter, Responder, NiThread

\* Sessions are handed from owner to owner.
LEMMA OwnedStep == Typed /\ SessionIsOwned /\ Typed' /\ [Next]_vars => SessionIsOwned'
<1> SUFFICES ASSUME Typed, SessionIsOwned, Typed', [Next]_vars PROVE SessionIsOwned'
  OBVIOUS
<1> USE DEF Sessions, Requests, Responses, Words, Places, Pcs, At, SessionOf, Owns,
   Waits
<1>1. ASSUME NEW s \in Sessions, RequestSaved(s) PROVE SessionIsOwned'
  BY <1>1 DEF RequestSaved, Free, Idle, Typed, TypeOK, ThreadsTyped, AdapterSound,
     Threads, SessionIsOwned
<1>2. ASSUME ModemDown PROVE SessionIsOwned'
  BY <1>2 DEF ModemDown, Resets, Idle, Typed, TypeOK, ThreadsTyped, AdapterSound,
     Threads, SessionIsOwned
<1>3. ASSUME RequestShown PROVE SessionIsOwned'
  BY <1>3 DEF RequestShown, Idle, Unborn, Typed, TypeOK, ThreadsTyped, AdapterSound,
     Threads, SessionIsOwned
<1>4. ASSUME ResetFrees PROVE SessionIsOwned'
  BY <1>4 DEF ResetFrees, Freed, Typed, TypeOK, ThreadsTyped, AdapterSound, Threads,
     SessionIsOwned
<1>5. ASSUME ResetClears PROVE SessionIsOwned'
  BY <1>5 DEF ResetClears, Typed, TypeOK, ThreadsTyped, AdapterSound, Threads,
     SessionIsOwned
<1>6. ASSUME ResetSignals PROVE SessionIsOwned'
  BY <1>6 DEF ResetSignals, Resets, Idle, Typed, TypeOK, ThreadsTyped, AdapterSound,
     Threads, SessionIsOwned
<1>7. ASSUME NEW id \in Requests, NEW response \in Responses, RespondChecks(id, response)
      PROVE  SessionIsOwned'
  BY <1>7 DEF RespondChecks, Active, GivesWay, Idle, Typed, TypeOK, ThreadsTyped,
     AdapterSound, Threads, SessionIsOwned
<1>8. ASSUME RespondIgnores PROVE SessionIsOwned'
  BY <1>8 DEF RespondIgnores, Typed, TypeOK, ThreadsTyped, AdapterSound, Threads,
     SessionIsOwned
<1>9. ASSUME RespondWrites PROVE SessionIsOwned'
  BY <1>9 DEF RespondWrites, Idle, Typed, TypeOK, ThreadsTyped, AdapterSound, Threads,
     SessionIsOwned
<1>10. ASSUME NEW t \in Requests, NiWaits(t) PROVE SessionIsOwned'
  BY <1>10 DEF NiWaits, Goes, Typed, TypeOK, ThreadsTyped, AdapterSound, Threads,
     SessionIsOwned
<1>11. ASSUME NEW t \in Requests, NiResponded(t) PROVE SessionIsOwned'
  <2>1. SessionOf(t) \in Sessions
    BY DEF Typed, ThreadsTyped, Threads
  <2>2. /\ \A x \in Requests \ {t} : thread'[x] = thread[x] /\ taken'[x] = taken[x]
        /\ thread'[t].at = "leave" /\ thread'[t].in = SessionOf(t)
        /\ taken'[t] = rawRequest[SessionOf(t)]
    BY <1>11, <2>1 DEF NiResponded, Leaves, Typed, ThreadsTyped, Threads
  <2>3. /\ UNCHANGED <<rawRequest, heap, adapter, reqIDCounter, answers, reset>>
        /\ thread[t].at = "wait"
    BY <1>11 DEF NiResponded, Leaves
  <2>4. ASSUME reset = {}
       PROVE  taken'[t] = t /\ rawRequest[SessionOf(t)] = t /\ heap[t] = "live"
    BY <2>2, <2>3, <2>4 DEF SessionIsOwned
  <2>5. \A m \in answers : reset = {} => thread'[m.by] = thread[m.by]
    BY <2>2, <2>3 DEF SessionIsOwned, Typed, TypeOK
  <2> QED BY <2>2, <2>3, <2>4, <2>5 DEF SessionIsOwned
<1>12. ASSUME NEW t \in Requests, NiTimesOut(t) PROVE SessionIsOwned'
  <2>1. SessionOf(t) \in Sessions
    BY DEF Typed, ThreadsTyped, Threads
  <2>2. /\ \A x \in Requests \ {t} : thread'[x] = thread[x] /\ taken'[x] = taken[x]
        /\ thread'[t].at = "leave" /\ thread'[t].in = SessionOf(t)
        /\ taken'[t] = rawRequest[SessionOf(t)]
    BY <1>12, <2>1 DEF NiTimesOut, Leaves, Typed, ThreadsTyped, Threads
  <2>3. /\ UNCHANGED <<rawRequest, heap, adapter, reqIDCounter, answers, reset>>
        /\ thread[t].at = "wait"
    BY <1>12 DEF NiTimesOut, Leaves
  <2>4. ASSUME reset = {}
       PROVE  taken'[t] = t /\ rawRequest[SessionOf(t)] = t /\ heap[t] = "live"
    BY <2>2, <2>3, <2>4 DEF SessionIsOwned
  <2>5. \A m \in answers : reset = {} => thread'[m.by] = thread[m.by]
    BY <2>2, <2>3 DEF SessionIsOwned, Typed, TypeOK
  <2> QED BY <2>2, <2>3, <2>4, <2>5 DEF SessionIsOwned
<1>13. ASSUME NEW t \in Requests, NiTakes(t) PROVE SessionIsOwned'
  BY <1>13 DEF NiTakes, Goes, IgnoredFreed, Freed, Unlocked, Typed, TypeOK,
     ThreadsTyped, AdapterSound, Threads, SessionIsOwned
<1>14. ASSUME NEW t \in Requests, NiSends(t) PROVE SessionIsOwned'
  BY <1>14 DEF NiSends, Goes, Typed, TypeOK, ThreadsTyped, AdapterSound, Threads,
     SessionIsOwned
<1>15. ASSUME NEW t \in Requests, Inform(t) PROVE SessionIsOwned'
  BY <1>15 DEF Inform, Freed, Idle, Typed, TypeOK, ThreadsTyped, AdapterSound, Threads,
     SessionIsOwned
<1>16. ASSUME UNCHANGED vars PROVE SessionIsOwned'
  BY <1>16 DEF vars, Typed, TypeOK, ThreadsTyped, AdapterSound, Threads, SessionIsOwned
<1> HIDE DEF Sessions, Requests, Responses, Words, Places, Pcs, At, SessionOf, Owns,
   Waits
<1> QED BY <1>1, <1>2, <1>3, <1>4, <1>5, <1>6, <1>7, <1>8, <1>9, <1>10, <1>11, <1>12,
   <1>13, <1>14, <1>15, <1>16 DEF Next, Adapter, Responder, NiThread

\* Only the owner frees.
LEMMA FreedStep ==
  Typed /\ SessionIsOwned /\ FreedOnce /\ Typed' /\ [Next]_vars => FreedOnce'
<1> SUFFICES ASSUME Typed, SessionIsOwned, FreedOnce, Typed', [Next]_vars
             PROVE  FreedOnce'
  OBVIOUS
<1> USE DEF Sessions, Requests, Responses, Words, Places, Pcs, At, SessionOf
<1>1. ASSUME UNCHANGED <<heap, reset>> PROVE FreedOnce'
  BY <1>1 DEF Typed, TypeOK, ThreadsTyped, AdapterSound, Threads, SessionIsOwned, Owns,
     Waits, FreedOnce
<1>2. ASSUME \/ ModemDown
             \/ RequestShown
             \/ ResetClears
             \/ ResetSignals
             \/ \E id \in Requests, response \in Responses : RespondChecks(id, response)
             \/ RespondIgnores
             \/ RespondWrites
             \/ \E t \in Requests : NiWaits(t)
             \/ \E t \in Requests : NiResponded(t)
             \/ \E t \in Requests : NiTimesOut(t)
             \/ \E t \in Requests : NiSends(t)
             \/ UNCHANGED vars
      PROVE  FreedOnce'
  BY <1>1, <1>2 DEF ModemDown, RequestShown, ResetClears, ResetSignals, RespondChecks,
     RespondIgnores, RespondWrites, NiWaits, NiResponded, Leaves, NiTimesOut,
     NiSends, vars
<1>3. ASSUME NEW s \in Sessions, RequestSaved(s) PROVE FreedOnce'
  BY <1>3 DEF RequestSaved, Free, Idle, Typed, TypeOK, ThreadsTyped, AdapterSound,
     Threads, SessionIsOwned, Owns, Waits, FreedOnce
<1>4. ASSUME ResetFrees PROVE FreedOnce'
  BY <1>4 DEF ResetFrees, Freed, Typed, TypeOK, ThreadsTyped, AdapterSound, Threads,
     SessionIsOwned, Owns, Waits, FreedOnce
<1>5. ASSUME NEW t \in Requests, NiTakes(t) PROVE FreedOnce'
  BY <1>5 DEF NiTakes, Goes, IgnoredFreed, Freed, Unlocked, Typed, TypeOK,
     ThreadsTyped, AdapterSound, Threads, SessionIsOwned, Owns, Waits, FreedOnce
<1>6. ASSUME NEW t \in Requests, Inform(t) PROVE FreedOnce'
  BY <1>6 DEF Inform, Freed, Idle, Typed, TypeOK, ThreadsTyped, AdapterSound, Threads,
     SessionIsOwned, Owns, Waits, FreedOnce
<1> HIDE DEF Sessions, Requests, Responses, Words, Places, Pcs, At, SessionOf
<1> QED BY <1>2, <1>3, <1>4, <1>5, <1>6 DEF Next, Adapter, Responder, NiThread

\* A thread that is done has sent what it took.
LEMMA DoneStep == Typed /\ DoneIsAnswered /\ Typed' /\ [Next]_vars => DoneIsAnswered'
<1> SUFFICES ASSUME Typed, DoneIsAnswered, Typed', [Next]_vars PROVE DoneIsAnswered'
  OBVIOUS
<1> USE DEF Sessions, Requests, Responses, Words, Places, Pcs, At, SessionOf
<1>1. ASSUME UNCHANGED <<thread, taken, answers>> PROVE DoneIsAnswered'
  BY <1>1 DEF DoneIsAnswered
<1>2. ASSUME \/ \E s \in Sessions : RequestSaved(s)
             \/ ModemDown
             \/ ResetFrees
             \/ ResetClears
             \/ ResetSignals
             \/ \E id \in Requests, response \in Responses : RespondChecks(id, response)
             \/ RespondIgnores
             \/ RespondWrites
             \/ UNCHANGED vars
      PROVE  DoneIsAnswered'
  BY <1>1, <1>2 DEF RequestSaved, ModemDown, ResetFrees, ResetClears, ResetSignals,
     RespondChecks, RespondIgnores, RespondWrites, vars
<1>3. ASSUME RequestShown PROVE DoneIsAnswered'
  BY <1>3 DEF RequestShown, Idle, Unborn, Typed, TypeOK, ThreadsTyped, AdapterSound,
     Threads, DoneIsAnswered
<1>4. ASSUME NEW t \in Requests, NiWaits(t) PROVE DoneIsAnswered'
  BY <1>4 DEF NiWaits, Goes, Typed, TypeOK, ThreadsTyped, AdapterSound, Threads,
     DoneIsAnswered
<1>5. ASSUME NEW t \in Requests, NiResponded(t) PROVE DoneIsAnswered'
  BY <1>5 DEF NiResponded, Leaves, Typed, TypeOK, ThreadsTyped, AdapterSound, Threads,
     DoneIsAnswered
<1>6. ASSUME NEW t \in Requests, NiTimesOut(t) PROVE DoneIsAnswered'
  BY <1>6 DEF NiTimesOut, Leaves, Typed, TypeOK, ThreadsTyped, AdapterSound, Threads,
     DoneIsAnswered
<1>7. ASSUME NEW t \in Requests, NiTakes(t) PROVE DoneIsAnswered'
  BY <1>7 DEF NiTakes, Goes, IgnoredFreed, Freed, Unlocked, Typed, TypeOK,
     ThreadsTyped, AdapterSound, Threads, DoneIsAnswered
<1>8. ASSUME NEW t \in Requests, NiSends(t) PROVE DoneIsAnswered'
  <2> DEFINE m == [by |-> t, id |-> taken[t], say |-> thread[t].say]
  <2>1. taken[t] # 0 => m \in answers' /\ m.id = taken'[t]
    BY <1>8 DEF NiSends
  <2>2. answers \subseteq answers' /\ taken' = taken
    BY <1>8 DEF NiSends
  <2>3. \A x \in Requests \ {t} : thread'[x].at = thread[x].at
    BY <1>8 DEF NiSends, Goes, Typed, ThreadsTyped, Threads
  <2> QED BY <2>1, <2>2, <2>3 DEF DoneIsAnswered
<1>9. ASSUME NEW t \in Requests, Inform(t) PROVE DoneIsAnswered'
  BY <1>9 DEF Inform, Freed, Idle, Typed, TypeOK, ThreadsTyped, AdapterSound, Threads,
     DoneIsAnswered
<1> HIDE DEF Sessions, Requests, Responses, Words, Places, Pcs, At, SessionOf
<1> QED BY <1>2, <1>3, <1>4, <1>5, <1>6, <1>7, <1>8, <1>9 DEF Next, Adapter, Responder,
   NiThread

\* History only grows, and a request stays in its session.
Grows ==
  /\ given \subseteq given' /\ answers \subseteq answers' /\ reset \subseteq reset'
  /\ crossed => crossed'
  /\ \A t \in 1..reqIDCounter : SessionOf(t)' = SessionOf(t)

LEMMA OnlyGrows == Typed /\ [Next]_vars => Grows
<1> SUFFICES ASSUME Typed, [Next]_vars PROVE Grows
  OBVIOUS
<1> USE DEF Requests, At, SessionOf, Grows
<1>1. ASSUME UNCHANGED <<given, answers, crossed, thread>>, reset \subseteq reset'
      PROVE  Grows
  BY <1>1
<1>2. ASSUME \/ \E s \in Sessions : RequestSaved(s)
             \/ ModemDown
             \/ ResetFrees
             \/ ResetClears
             \/ ResetSignals
             \/ RespondIgnores
             \/ RespondWrites
             \/ \E t \in Requests : Inform(t)
             \/ UNCHANGED vars
      PROVE  Grows
  BY <1>1, <1>2 DEF RequestSaved, ModemDown, ResetFrees, ResetClears, ResetSignals,
     RespondIgnores, RespondWrites, Inform, vars
<1>3. ASSUME RequestShown PROVE Grows
  BY <1>3 DEF RequestShown, Typed, TypeOK, ThreadsTyped, Threads
<1>4. ASSUME NEW id \in Requests, NEW response \in Responses, RespondChecks(id, response)
      PROVE  Grows
  BY <1>4 DEF RespondChecks, Typed, TypeOK, ThreadsTyped, Threads
<1>5. ASSUME NEW t \in Requests, NiWaits(t) PROVE Grows
  <2>1. \A x \in Requests : thread'[x].in = thread[x].in
    BY <1>5 DEF NiWaits, Goes, Typed, ThreadsTyped, Threads
  <2>2. /\ given \subseteq given' /\ answers \subseteq answers' /\ reset \subseteq reset'
        /\ crossed => crossed'
    BY <1>5 DEF NiWaits
  <2>3. 1..reqIDCounter \subseteq Requests
    BY NiAssumption DEF Typed, TypeOK
  <2> QED BY <2>1, <2>2, <2>3
<1>6. ASSUME NEW t \in Requests, NiResponded(t) PROVE Grows
  <2>1. \A x \in Requests : thread'[x].in = thread[x].in
    BY <1>6 DEF NiResponded, Leaves, Typed, ThreadsTyped, Threads
  <2>2. /\ given \subseteq given' /\ answers \subseteq answers' /\ reset \subseteq reset'
        /\ crossed => crossed'
    BY <1>6 DEF NiResponded, Leaves
  <2>3. 1..reqIDCounter \subseteq Requests
    BY NiAssumption DEF Typed, TypeOK
  <2> QED BY <2>1, <2>2, <2>3
<1>7. ASSUME NEW t \in Requests, NiTimesOut(t) PROVE Grows
  <2>1. \A x \in Requests : thread'[x].in = thread[x].in
    BY <1>7 DEF NiTimesOut, Leaves, Typed, ThreadsTyped, Threads
  <2>2. /\ given \subseteq given' /\ answers \subseteq answers' /\ reset \subseteq reset'
        /\ crossed => crossed'
    BY <1>7 DEF NiTimesOut, Leaves
  <2>3. 1..reqIDCounter \subseteq Requests
    BY NiAssumption DEF Typed, TypeOK
  <2> QED BY <2>1, <2>2, <2>3
<1>8. ASSUME NEW t \in Requests, NiTakes(t) PROVE Grows
  <2>1. \A x \in Requests : thread'[x].in = thread[x].in
    BY <1>8 DEF NiTakes, Goes, Typed, ThreadsTyped, Threads
  <2>2. /\ given \subseteq given' /\ answers \subseteq answers' /\ reset \subseteq reset'
        /\ crossed => crossed'
    BY <1>8 DEF NiTakes
  <2>3. 1..reqIDCounter \subseteq Requests
    BY NiAssumption DEF Typed, TypeOK
  <2> QED BY <2>1, <2>2, <2>3
<1>9. ASSUME NEW t \in Requests, NiSends(t) PROVE Grows
  <2>1. \A x \in Requests : thread'[x].in = thread[x].in
    BY <1>9 DEF NiSends, Goes, Typed, ThreadsTyped, Threads
  <2>2. /\ given \subseteq given' /\ answers \subseteq answers' /\ reset \subseteq reset'
        /\ crossed => crossed'
    BY <1>9 DEF NiSends
  <2>3. 1..reqIDCounter \subseteq Requests
    BY NiAssumption DEF Typed, TypeOK
  <2> QED BY <2>1, <2>2, <2>3
<1> QED BY <1>2, <1>3, <1>4, <1>5, <1>6, <1>7, <1>8, <1>9 DEF Next, Adapter, Responder,
   NiThread

\* What the user accepted stays accepted.
LEMMA EmergencyStays == Typed /\ Grows /\ Emergency => Emergency'
<1> SUFFICES ASSUME Typed, Grows, Emergency PROVE Emergency'
  OBVIOUS
<1>1. PICK g \in given : g.say = "ACCEPT" /\ SessionOf(g.id) = "sessionEs"
  BY DEF Emergency
<1>2. g.id \in 1..reqIDCounter /\ g \in given'
  BY DEF Typed, ThreadsTyped, Grows
<1> QED BY <1>1, <1>2 DEF Emergency, Grows

\* An ID is written into the session of its thread, or cleared.
LEMMA ShownStep ==
  Typed /\ Grows /\ ShownInSession /\ Typed' /\ [Next]_vars => ShownInSession'
<1> SUFFICES ASSUME Typed, Grows, ShownInSession, Typed', [Next]_vars
             PROVE  ShownInSession'
  OBVIOUS
<1> USE DEF Sessions, Requests, Responses, Words, Places, Pcs, At, SessionOf
<1>1. ASSUME UNCHANGED <<reqID>> PROVE ShownInSession'
  BY <1>1 DEF Typed, TypeOK, Grows, ShownInSession
<1>2. ASSUME \/ \E s \in Sessions : RequestSaved(s)
             \/ ModemDown
             \/ ResetFrees
             \/ ResetClears
             \/ ResetSignals
             \/ \E id \in Requests, response \in Responses : RespondChecks(id, response)
             \/ RespondIgnores
             \/ RespondWrites
             \/ \E t \in Requests : NiWaits(t)
             \/ \E t \in Requests : NiResponded(t)
             \/ \E t \in Requests : NiTimesOut(t)
             \/ \E t \in Requests : NiTakes(t)
             \/ \E t \in Requests : Inform(t)
             \/ UNCHANGED vars
      PROVE  ShownInSession'
  BY <1>1, <1>2 DEF RequestSaved, ModemDown, ResetFrees, ResetClears, ResetSignals,
     RespondChecks, RespondIgnores, RespondWrites, NiWaits, NiResponded, Leaves,
     NiTimesOut, NiTakes, Inform, vars
<1>3. ASSUME RequestShown PROVE ShownInSession'
  <2> DEFINE c == reqIDCounter + 1
             new == [Unborn EXCEPT !.at = "start", !.in = adapter.in]
  <2>1. /\ reqIDCounter' = c /\ thread' = [thread EXCEPT ![c] = new]
        /\ reqID' = [reqID EXCEPT ![adapter.in] = c]
    BY <1>3 DEF RequestShown
  <2>2. new.in = adapter.in
    BY DEF Unborn
  <2>3. c \in Requests /\ thread \in Threads
    BY <1>3 DEF RequestShown, Typed, TypeOK, ThreadsTyped, AdapterSound
  <2>4. thread'[c].in = adapter.in
    BY <2>1, <2>2, <2>3 DEF Threads
  <2>5. \A s \in Sessions : reqID'[s] = IF s = adapter.in THEN c ELSE reqID[s]
    BY <2>1 DEF Typed, TypeOK
  <2>6. \A s \in Sessions : reqID[s] \in 0..reqIDCounter
    BY DEF Typed, TypeOK
  <2> HIDE DEF c
  <2> QED BY <2>4, <2>5, <2>6 DEF ShownInSession, Grows
<1>4. ASSUME NEW t \in Requests, NiSends(t) PROVE ShownInSession'
  <2>1. \A s \in Sessions : reqID'[s] \in {0, reqID[s]} /\ reqID[s] \in 0..reqIDCounter
    BY <1>4 DEF NiSends, Typed, TypeOK
  <2> QED BY <2>1 DEF ShownInSession, Grows
<1> HIDE DEF Sessions, Requests, Responses, Words, Places, Pcs, At, SessionOf
<1> QED BY <1>2, <1>3, <1>4 DEF Next, Adapter, Responder, NiThread

\* IGNORE comes from loc_eng_ni_respond alone.
LEMMA IgnoreStep ==
  Typed /\ Grows /\ ShownInSession /\ IgnoreMeansEmergency /\ Typed' /\ [Next]_vars
  => IgnoreMeansEmergency'
<1> SUFFICES ASSUME Typed, Grows, ShownInSession, IgnoreMeansEmergency, Typed',
                    [Next]_vars
             PROVE  IgnoreMeansEmergency'
  OBVIOUS
<1> USE DEF Sessions, Requests, Responses, Words, Places, Pcs, At, SessionOf
<1>1. ASSUME UNCHANGED <<resp, thread, responder>> PROVE IgnoreMeansEmergency'
  BY <1>1, EmergencyStays DEF Typed, TypeOK, ThreadsTyped, AdapterSound, Threads,
     ShownInSession, IgnoreMeansEmergency
<1>2. ASSUME \/ \E s \in Sessions : RequestSaved(s)
             \/ ModemDown
             \/ ResetFrees
             \/ ResetClears
             \/ ResetSignals
             \/ \E t \in Requests : Inform(t)
             \/ UNCHANGED vars
      PROVE  IgnoreMeansEmergency'
  BY <1>1, <1>2 DEF RequestSaved, ModemDown, ResetFrees, ResetClears, ResetSignals,
     Inform, vars
<1>3. ASSUME RequestShown PROVE IgnoreMeansEmergency'
  <2>1. reqIDCounter + 1 \in Requests /\ thread \in Threads
    BY <1>3, NiAssumption DEF RequestShown, Typed, TypeOK, ThreadsTyped, AdapterSound
  <2>2. \A x \in Requests : thread'[x].say \in {"none", thread[x].say}
    BY <1>3, <2>1 DEF RequestShown, Unborn, Threads
  <2> QED BY <1>3, <2>2, EmergencyStays DEF RequestShown, IgnoreMeansEmergency
<1>4. ASSUME NEW id \in Requests, NEW response \in Responses, RespondChecks(id, response)
      PROVE  IgnoreMeansEmergency'
  <2>1. UNCHANGED <<resp, thread>>
    BY <1>4 DEF RespondChecks
  <2>2. ASSUME responder'.at = "ignore" PROVE Emergency'
    <3>1. response = "ACCEPT" /\ id = reqID["sessionEs"]
      BY <1>4, <2>2 DEF RespondChecks, Active, GivesWay, Idle
    <3>2. SessionOf(id) = "sessionEs"
      BY <3>1 DEF ShownInSession
    <3>3. [id |-> id, say |-> response] \in given'
      BY <1>4 DEF RespondChecks
    <3> QED BY <2>1, <3>1, <3>2, <3>3 DEF Emergency
  <2> QED BY <2>1, <2>2, EmergencyStays DEF IgnoreMeansEmergency
<1>5. ASSUME RespondIgnores PROVE IgnoreMeansEmergency'
  BY <1>5, EmergencyStays DEF RespondIgnores, Typed, TypeOK, ThreadsTyped, AdapterSound,
     Threads, ShownInSession, IgnoreMeansEmergency
<1>6. ASSUME RespondWrites PROVE IgnoreMeansEmergency'
  <2>1. responder.say # "IGNORE" /\ thread' = thread /\ responder' = Idle
    BY <1>6 DEF RespondWrites, Typed, ThreadsTyped
  <2>2. \A s \in Sessions : resp'[s] \in {responder.say, resp[s]}
    BY <1>6 DEF RespondWrites, Typed, TypeOK
  <2> QED BY <2>1, <2>2, EmergencyStays DEF Idle, IgnoreMeansEmergency
<1>7. ASSUME NEW t \in Requests, NiWaits(t) PROVE IgnoreMeansEmergency'
  <2>1. thread' \in Threads /\ \A x \in Requests : thread'[x].say = thread[x].say
    BY <1>7 DEF NiWaits, Goes, Typed, ThreadsTyped, Threads
  <2> QED BY <1>7, <2>1, EmergencyStays DEF NiWaits, IgnoreMeansEmergency
<1>8. ASSUME NEW t \in Requests, NiResponded(t) PROVE IgnoreMeansEmergency'
  <2>1. SessionOf(t) \in Sessions /\ thread \in Threads
    BY DEF Typed, ThreadsTyped, Threads
  <2>2. \A x \in Requests : thread'[x].say \in {resp[SessionOf(t)], thread[x].say}
    BY <1>8, <2>1 DEF NiResponded, Leaves, Threads
  <2> QED BY <1>8, <2>1, <2>2, EmergencyStays DEF NiResponded, Leaves, IgnoreMeansEmergency
<1>9. ASSUME NEW t \in Requests, NiTimesOut(t) PROVE IgnoreMeansEmergency'
  <2>1. SessionOf(t) \in Sessions /\ thread \in Threads
    BY DEF Typed, ThreadsTyped, Threads
  <2>2. \A x \in Requests : thread'[x].say \in {"NORESP", thread[x].say}
    BY <1>9, <2>1 DEF NiTimesOut, Leaves, Threads
  <2>3. \A s \in Sessions : resp'[s] \in {"NORESP", resp[s]}
    BY <1>9 DEF NiTimesOut, Typed, TypeOK
  <2> QED BY <1>9, <2>2, <2>3, EmergencyStays
          DEF NiTimesOut, Leaves, IgnoreMeansEmergency
<1>10. ASSUME NEW t \in Requests, NiTakes(t) PROVE IgnoreMeansEmergency'
  <2>1. \A x \in Requests : thread'[x].say = thread[x].say
    BY <1>10 DEF NiTakes, Goes, Typed, ThreadsTyped, Threads
  <2> QED BY <1>10, <2>1, EmergencyStays DEF NiTakes, IgnoreMeansEmergency
<1>11. ASSUME NEW t \in Requests, NiSends(t) PROVE IgnoreMeansEmergency'
  <2>1. \A x \in Requests : thread'[x].say = thread[x].say
    BY <1>11 DEF NiSends, Goes, Typed, ThreadsTyped, Threads
  <2> QED BY <1>11, <2>1, EmergencyStays DEF NiSends, IgnoreMeansEmergency
<1> HIDE DEF Sessions, Requests, Responses, Words, Places, Pcs, At, SessionOf
<1> QED BY <1>2, <1>3, <1>4, <1>5, <1>6, <1>7, <1>8, <1>9, <1>10, <1>11 DEF Next,
   Adapter, Responder, NiThread

\* A payload is freed unanswered by a thread that was told IGNORE.
LEMMA SilenceStep ==
  /\ Typed /\ Grows /\ DoneIsAnswered /\ IgnoreMeansEmergency /\ SilenceMeansEmergency
  /\ Typed' /\ [Next]_vars
  => SilenceMeansEmergency'
<1> SUFFICES ASSUME Typed, Grows, DoneIsAnswered, IgnoreMeansEmergency,
                    SilenceMeansEmergency, Typed', [Next]_vars
             PROVE  SilenceMeansEmergency'
  OBVIOUS
<1> USE DEF Sessions, Requests, Responses, Words, Places, Pcs, At, SessionOf
<1>1. ASSUME UNCHANGED heap PROVE SilenceMeansEmergency'
  <2> SUFFICES ASSUME NEW r \in Requests \ reset', heap'[r] = "freed",
                      \A m \in answers' : m.id # r
               PROVE  Emergency'
    BY DEF SilenceMeansEmergency, Emergency
  <2>1. r \in Requests \ reset /\ \A m \in answers : m.id # r
    BY DEF Grows
  <2>2. Emergency
    BY <1>1, <2>1 DEF SilenceMeansEmergency, Emergency
  <2> QED BY <2>2, EmergencyStays
<1>2. ASSUME \/ ModemDown
             \/ RequestShown
             \/ ResetClears
             \/ ResetSignals
             \/ \E id \in Requests, response \in Responses : RespondChecks(id, response)
             \/ RespondIgnores
             \/ RespondWrites
             \/ \E t \in Requests : NiWaits(t)
             \/ \E t \in Requests : NiResponded(t)
             \/ \E t \in Requests : NiTimesOut(t)
             \/ \E t \in Requests : NiSends(t)
             \/ UNCHANGED vars
      PROVE  SilenceMeansEmergency'
  BY <1>1, <1>2 DEF ModemDown, RequestShown, ResetClears, ResetSignals, RespondChecks,
     RespondIgnores, RespondWrites, NiWaits, NiResponded, Leaves, NiTimesOut,
     NiSends, vars
<1>3. ASSUME NEW s \in Sessions, RequestSaved(s) PROVE SilenceMeansEmergency'
  BY <1>3, EmergencyStays DEF RequestSaved, Free, Idle, Typed, TypeOK, ThreadsTyped,
     AdapterSound, Threads, Emergency, DoneIsAnswered, IgnoreMeansEmergency, Grows,
     SilenceMeansEmergency
<1>4. ASSUME ResetFrees PROVE SilenceMeansEmergency'
  BY <1>4, EmergencyStays DEF ResetFrees, Freed, Typed, TypeOK, ThreadsTyped,
     AdapterSound, Threads, Emergency, DoneIsAnswered, IgnoreMeansEmergency, Grows,
     SilenceMeansEmergency
<1>5. ASSUME NEW t \in Requests, NiTakes(t) PROVE SilenceMeansEmergency'
  <2>1. ASSUME thread[t].say = "IGNORE" PROVE Emergency'
    BY <2>1, EmergencyStays DEF IgnoreMeansEmergency
  <2>2. heap' = heap \/ thread[t].say = "IGNORE"
    BY <1>5 DEF NiTakes, IgnoredFreed
  <2> QED BY <1>1, <2>1, <2>2 DEF SilenceMeansEmergency, Emergency
<1>6. ASSUME NEW t \in Requests, Inform(t) PROVE SilenceMeansEmergency'
  BY <1>6, EmergencyStays DEF Inform, Freed, Idle, Typed, TypeOK, ThreadsTyped,
     AdapterSound, Threads, Emergency, DoneIsAnswered, IgnoreMeansEmergency, Grows,
     SilenceMeansEmergency
<1> HIDE DEF Sessions, Requests, Responses, Words, Places, Pcs, At, SessionOf
<1> QED BY <1>2, <1>3, <1>4, <1>5, <1>6 DEF Next, Adapter, Responder, NiThread

\* The unlocked checks find the session of the request that they answer.
LEMMA ResponseStep ==
  Typed /\ Grows /\ ShownInSession /\ ResponseIsAwaited /\ Typed' /\ [Next]_vars
  => ResponseIsAwaited'
<1> SUFFICES ASSUME Typed, Grows, ShownInSession, ResponseIsAwaited, Typed', [Next]_vars
             PROVE  ResponseIsAwaited'
  OBVIOUS
<1> USE DEF Sessions, Requests, Responses, Words, Places, Pcs, At, SessionOf, Waits,
   Uncrossed, Given
<1>1. ASSUME UNCHANGED <<responder, thread, given>> PROVE ResponseIsAwaited'
  BY <1>1 DEF Typed, TypeOK, ThreadsTyped, AdapterSound, Threads, Grows,
     ResponseIsAwaited
<1>2. ASSUME \/ \E s \in Sessions : RequestSaved(s)
             \/ ModemDown
             \/ ResetFrees
             \/ ResetClears
             \/ ResetSignals
             \/ \E t \in Requests : Inform(t)
             \/ UNCHANGED vars
      PROVE  ResponseIsAwaited'
  BY <1>1, <1>2 DEF RequestSaved, ModemDown, ResetFrees, ResetClears, ResetSignals,
     Inform, vars
<1>3. ASSUME RequestShown PROVE ResponseIsAwaited'
  BY <1>3 DEF RequestShown, Idle, Unborn, Typed, TypeOK, ThreadsTyped, AdapterSound,
     Threads, Grows, ResponseIsAwaited
<1>4. ASSUME NEW id \in Requests, NEW response \in Responses, RespondChecks(id, response)
      PROVE  ResponseIsAwaited'
  <2>1. responder' # Idle => id = reqID[responder'.in] /\ responder'.in \in Sessions
    BY <1>4 DEF RespondChecks, Active, Idle
  <2>2. ~crossed' => Waits(id)
    BY <1>4 DEF RespondChecks
  <2>3. responder' # Idle => responder'.id = id /\ responder'.say = response
    BY <1>4 DEF RespondChecks, Idle
  <2>4. [id |-> id, say |-> response] \in given' /\ thread' = thread
    BY <1>4 DEF RespondChecks
  <2> QED BY <2>1, <2>2, <2>3, <2>4, NiAssumption DEF ResponseIsAwaited, ShownInSession
<1>5. ASSUME RespondIgnores PROVE ResponseIsAwaited'
  <2>1. responder # Idle /\ responder'.id = responder.id /\ responder'.in = responder.in
        /\ responder'.say = responder.say
    BY <1>5 DEF RespondIgnores, Idle, Typed, ThreadsTyped
  <2> QED BY <1>5, <2>1 DEF RespondIgnores, ResponseIsAwaited
<1>6. ASSUME RespondWrites PROVE ResponseIsAwaited'
  BY <1>6 DEF RespondWrites, Idle, Typed, TypeOK, ThreadsTyped, AdapterSound, Threads,
     Grows, ResponseIsAwaited
<1>7. ASSUME NEW t \in Requests, NiWaits(t) PROVE ResponseIsAwaited'
  BY <1>7 DEF NiWaits, Goes, Typed, TypeOK, ThreadsTyped, AdapterSound, Threads, Grows,
     ResponseIsAwaited
<1>8. ASSUME NEW t \in Requests, NiResponded(t) PROVE ResponseIsAwaited'
  BY <1>8 DEF NiResponded, Leaves, Typed, TypeOK, ThreadsTyped, AdapterSound, Threads,
     Grows, ResponseIsAwaited
<1>9. ASSUME NEW t \in Requests, NiTimesOut(t) PROVE ResponseIsAwaited'
  BY <1>9 DEF NiTimesOut, Leaves, Typed, TypeOK, ThreadsTyped, AdapterSound, Threads,
     Grows, ResponseIsAwaited
<1>10. ASSUME NEW t \in Requests, NiTakes(t) PROVE ResponseIsAwaited'
  BY <1>10 DEF NiTakes, Goes, IgnoredFreed, Freed, Unlocked, Typed, TypeOK,
     ThreadsTyped, AdapterSound, Threads, Grows, ResponseIsAwaited
<1>11. ASSUME NEW t \in Requests, NiSends(t) PROVE ResponseIsAwaited'
  BY <1>11 DEF NiSends, Goes, Typed, TypeOK, ThreadsTyped, AdapterSound, Threads, Grows,
     ResponseIsAwaited
<1> HIDE DEF Sessions, Requests, Responses, Words, Places, Pcs, At, SessionOf, Waits,
   Uncrossed, Given
<1> QED BY <1>2, <1>3, <1>4, <1>5, <1>6, <1>7, <1>8, <1>9, <1>10, <1>11 DEF Next,
   Adapter, Responder, NiThread

\* A response that was recorded stays recorded while its thread waits.
LEMMA FlagKept ==
  ASSUME Grows, FlagIsOwn, NEW s \in Sessions, Uncrossed, respRecvd[s], resp[s] # "IGNORE",
         resp'[s] = resp[s],
         \A t \in Requests : Waits(t) /\ SessionOf(t) = s => Waits(t)' /\ SessionOf(t)' = s
  PROVE  \E t \in Requests : Waits(t)' /\ SessionOf(t)' = s /\ Given(t, resp[s])'
<1>1. PICK t \in Requests : Waits(t) /\ SessionOf(t) = s /\ Given(t, resp[s])
  BY DEF FlagIsOwn
<1>2. Given(t, resp[s])'
  BY <1>1 DEF Given, Grows
<1> QED BY <1>1, <1>2

\* A response is recorded for a thread that waits, and stays while it waits.
LEMMA FlagStep ==
  Typed /\ Grows /\ ResponseIsAwaited /\ FlagIsOwn /\ Typed' /\ [Next]_vars => FlagIsOwn'
<1> SUFFICES ASSUME Typed, Grows, ResponseIsAwaited, FlagIsOwn, Typed', [Next]_vars,
                    Uncrossed', NEW s \in Sessions, respRecvd'[s], resp'[s] # "IGNORE"
             PROVE  \E t \in Requests : Waits(t)' /\ SessionOf(t)' = s /\ Given(t, resp[s])'
  BY DEF FlagIsOwn
<1> DEFINE Goal == \E t \in Requests : Waits(t)' /\ SessionOf(t)' = s /\ Given(t, resp[s])'
           Kept == \A t \in Requests :
                     Waits(t) /\ SessionOf(t) = s => Waits(t)' /\ SessionOf(t)' = s
<1>1. Uncrossed
  BY DEF Uncrossed, Grows
<1>2. ASSUME respRecvd'[s] = respRecvd[s], resp'[s] = resp[s], Kept PROVE Goal
  BY <1>1, <1>2, FlagKept
<1> HIDE DEF Goal
<1>3. ASSUME UNCHANGED <<resp, respRecvd, thread>> PROVE Goal
  BY <1>3, <1>2 DEF Waits, SessionOf
<1>4. ASSUME \/ \E c \in Sessions : RequestSaved(c)
             \/ ModemDown
             \/ ResetFrees
             \/ ResetClears
             \/ \E id \in Requests, response \in Responses : RespondChecks(id, response)
             \/ \E t \in Requests : Inform(t)
             \/ UNCHANGED vars
      PROVE  Goal
  BY <1>3, <1>4 DEF RequestSaved, ModemDown, ResetFrees, ResetClears, RespondChecks,
     Inform, vars
<1>5. ASSUME RequestShown PROVE Goal
  <2>1. reqIDCounter + 1 \in Requests
    BY <1>5, NiAssumption DEF RequestShown, Typed, TypeOK, AdapterSound, Requests
  <2>2. At(reqIDCounter + 1, "unborn")
    BY <2>1 DEF Typed, TypeOK, At
  <2>3. \A t \in Requests : Waits(t) => thread'[t] = thread[t]
    BY <1>5, <2>1, <2>2 DEF RequestShown, Waits, At, Typed, ThreadsTyped, Threads
  <2> QED BY <1>5, <1>2, <2>3 DEF RequestShown, Waits, SessionOf
<1>6. ASSUME ResetSignals PROVE Goal
  BY <1>6 DEF ResetSignals, Typed, AdapterSound, Uncrossed
<1>7. ASSUME RespondIgnores PROVE Goal
  <2>1. /\ s # "session" /\ thread' = thread
        /\ resp'[s] = resp[s] /\ respRecvd'[s] = respRecvd[s]
    BY <1>7 DEF RespondIgnores, Typed, TypeOK
  <2> QED BY <1>2, <2>1 DEF Waits, SessionOf
<1>8. ASSUME RespondWrites PROVE Goal
  <2>1. thread' = thread /\ given' = given /\ responder # Idle
    BY <1>8 DEF RespondWrites, Idle
  <2>2. CASE s = responder.in
    <3>1. resp'[s] = responder.say
      BY <1>8, <2>2 DEF RespondWrites, Typed, TypeOK
    <3> QED BY <1>1, <2>1, <2>2, <3>1 DEF Goal, ResponseIsAwaited, Waits, SessionOf, Given
  <2>3. CASE s # responder.in
    <3>1. resp'[s] = resp[s] /\ respRecvd'[s] = respRecvd[s]
      BY <1>8, <2>3 DEF RespondWrites, Typed, TypeOK
    <3> QED BY <1>2, <2>1, <3>1 DEF Waits, SessionOf
  <2> QED BY <2>2, <2>3
<1>9. ASSUME NEW t \in Requests, NiWaits(t) PROVE Goal
  <2>1. \A x \in Requests : Waits(x) => /\ thread'[x].at \in {"start", "wait"}
                                       /\ thread'[x].in = thread[x].in
    BY <1>9 DEF NiWaits, Goes, At, Waits, Typed, ThreadsTyped, Threads
  <2> QED BY <1>9, <1>2, <2>1 DEF NiWaits, Waits, SessionOf
<1>10. ASSUME NEW t \in Requests, NiResponded(t) PROVE Goal
  <2>1. SessionOf(t) \in Sessions /\ resp[SessionOf(t)] \in Words
    BY DEF Typed, TypeOK, ThreadsTyped, Threads, Words, SessionOf
  <2>2. \A x \in Requests \ {t} : thread'[x] = thread[x]
    BY <1>10, <2>1 DEF NiResponded, Leaves, Typed, ThreadsTyped, Threads
  <2>3. s # SessionOf(t) /\ respRecvd'[s] = respRecvd[s] /\ resp'[s] = resp[s]
    BY <1>10, <2>1 DEF NiResponded, Leaves, Typed, TypeOK
  <2> QED BY <1>2, <2>2, <2>3 DEF Waits, SessionOf
<1>11. ASSUME NEW t \in Requests, NiTimesOut(t) PROVE Goal
  <2>1. SessionOf(t) \in Sessions /\ resp[SessionOf(t)] \in Words
    BY DEF Typed, TypeOK, ThreadsTyped, Threads, Words, SessionOf
  <2>2. \A x \in Requests \ {t} : thread'[x] = thread[x]
    BY <1>11, <2>1 DEF NiTimesOut, Leaves, Typed, ThreadsTyped, Threads
  <2>3. s # SessionOf(t) /\ respRecvd'[s] = respRecvd[s] /\ resp'[s] = resp[s]
    BY <1>11, <2>1 DEF NiTimesOut, Leaves, Typed, TypeOK
  <2> QED BY <1>2, <2>2, <2>3 DEF Waits, SessionOf
<1>12. ASSUME NEW t \in Requests, NiTakes(t) PROVE Goal
  <2>1. \A x \in Requests : Waits(x) => thread'[x] = thread[x]
    BY <1>12 DEF NiTakes, Goes, At, Waits, Typed, ThreadsTyped, Threads
  <2> QED BY <1>12, <1>2, <2>1 DEF NiTakes, Waits, SessionOf
<1>13. ASSUME NEW t \in Requests, NiSends(t) PROVE Goal
  <2>1. \A x \in Requests : Waits(x) => thread'[x] = thread[x]
    BY <1>13 DEF NiSends, Goes, At, Waits, Typed, ThreadsTyped, Threads
  <2> QED BY <1>13, <1>2, <2>1 DEF NiSends, Waits, SessionOf
<1> QED BY <1>4, <1>5, <1>6, <1>7, <1>8, <1>9, <1>10, <1>11, <1>12, <1>13
        DEF Goal, Next, Adapter, Responder, NiThread

\* A thread leaves with the response to its own request: the session is its own.
LEMMA WordStep ==
  Typed /\ Grows /\ SessionIsOwned /\ FlagIsOwn /\ WordIsOwn /\ Typed' /\ [Next]_vars
  => WordIsOwn'
<1> SUFFICES ASSUME Typed, Grows, SessionIsOwned, FlagIsOwn, WordIsOwn, Typed',
                    [Next]_vars
             PROVE  WordIsOwn'
  OBVIOUS
<1> USE DEF Sessions, Requests, Responses, Words, Places, Pcs, At, SessionOf, Waits,
   Uncrossed, Given
<1>1. Uncrossed' => Uncrossed
  BY DEF Grows
<1>2. ASSUME UNCHANGED <<thread, taken>> PROVE WordIsOwn'
  <2>1. \A t \in Requests, word \in Words : Given(t, word) => Given(t, word)'
    BY DEF Grows
  <2>2. \A t \in Requests : thread[t].say \in Words
    BY DEF Typed, ThreadsTyped, Threads
  <2> QED BY <1>2, <1>1, <2>1, <2>2 DEF WordIsOwn
<1>3. ASSUME \/ \E s \in Sessions : RequestSaved(s)
             \/ ModemDown
             \/ ResetFrees
             \/ ResetClears
             \/ ResetSignals
             \/ \E id \in Requests, response \in Responses : RespondChecks(id, response)
             \/ RespondIgnores
             \/ RespondWrites
             \/ UNCHANGED vars
      PROVE  WordIsOwn'
  BY <1>2, <1>3 DEF RequestSaved, ModemDown, ResetFrees, ResetClears, ResetSignals,
     RespondChecks, RespondIgnores, RespondWrites, vars
<1>4. ASSUME RequestShown PROVE WordIsOwn'
  <2>1. reqIDCounter + 1 \in Requests
    BY <1>4, NiAssumption DEF RequestShown, Typed, TypeOK, AdapterSound
  <2>2. \A t \in Requests \ {reqIDCounter + 1} : thread'[t] = thread[t]
    BY <1>4, <2>1 DEF RequestShown, Typed, ThreadsTyped, Threads
  <2>3. thread'[reqIDCounter + 1].at = "start" /\ thread'[reqIDCounter + 1].say = "none"
    BY <1>4, <2>1 DEF RequestShown, Unborn, Typed, ThreadsTyped, Threads
  <2> QED BY <1>4, <2>2, <2>3 DEF RequestShown, WordIsOwn, Grows
<1>5. ASSUME NEW t \in Requests, NiWaits(t) PROVE WordIsOwn'
  BY <1>5, <1>1 DEF NiWaits, Goes, Typed, TypeOK, ThreadsTyped, AdapterSound, Threads,
     Grows, WordIsOwn
<1>6. ASSUME NEW t \in Requests, NiResponded(t) PROVE WordIsOwn'
  <2> DEFINE s == SessionOf(t)
  <2>1. s \in Sessions
    BY DEF Typed, ThreadsTyped, Threads
  <2>2. s \in Sessions /\ resp[s] \in Words
    BY <2>1 DEF Typed, TypeOK
  <2>3. /\ \A x \in Requests \ {t} : thread'[x] = thread[x] /\ taken'[x] = taken[x]
        /\ thread'[t].at = "leave" /\ thread'[t].say = resp[s]
    BY <1>6, <2>2 DEF NiResponded, Leaves, Typed, ThreadsTyped, Threads
  <2>4. ASSUME Uncrossed, resp[s] # "IGNORE" PROVE Given(t, resp[s])
    <3>1. PICK x \in Requests : Waits(x) /\ SessionOf(x) = s /\ Given(x, resp[s])
      BY <1>6, <2>2, <2>4 DEF NiResponded, FlagIsOwn
    <3>2. rawRequest[s] = x /\ rawRequest[s] = t
      BY <1>6, <2>4, <3>1 DEF NiResponded, Leaves, SessionIsOwned, Owns
    <3> QED BY <3>1, <3>2
  <2> HIDE DEF s
  <2> QED BY <2>3, <2>4 DEF WordIsOwn, Grows
<1>7. ASSUME NEW t \in Requests, NiTimesOut(t) PROVE WordIsOwn'
  <2>1. /\ \A x \in Requests \ {t} : thread'[x] = thread[x] /\ taken'[x] = taken[x]
        /\ thread'[t].at = "leave" /\ thread'[t].say = "NORESP"
    BY <1>7 DEF NiTimesOut, Leaves, Typed, ThreadsTyped, Threads
  <2> QED BY <2>1 DEF WordIsOwn, Grows
<1>8. ASSUME NEW t \in Requests, NiTakes(t) PROVE WordIsOwn'
  <2>1. \A x \in Requests : /\ thread'[x].say = thread[x].say
                           /\ thread'[x].at = IF x = t THEN "unlocked" ELSE thread[x].at
    BY <1>8 DEF NiTakes, Goes, Typed, ThreadsTyped, Threads
  <2>2. /\ given' = given /\ thread[t].at = "leave"
        /\ \A x \in Requests :
             taken'[x] = IF x = t /\ thread[t].say = "IGNORE" THEN 0 ELSE taken[x]
    BY <1>8 DEF NiTakes, Typed, ThreadsTyped
  <2> QED BY <1>1, <2>1, <2>2 DEF WordIsOwn
<1>9. ASSUME NEW t \in Requests, NiSends(t) PROVE WordIsOwn'
  <2>1. \A x \in Requests : /\ thread'[x].say = thread[x].say
                           /\ thread'[x].at = IF x = t THEN "done" ELSE thread[x].at
    BY <1>9 DEF NiSends, Goes, Typed, ThreadsTyped, Threads
  <2>2. taken' = taken /\ given' = given /\ thread[t].at = "unlocked"
    BY <1>9 DEF NiSends
  <2> QED BY <1>1, <2>1, <2>2 DEF WordIsOwn
<1>10. ASSUME NEW t \in Requests, Inform(t) PROVE WordIsOwn'
  BY <1>10, <1>1 DEF Inform, Typed, ThreadsTyped, Threads, Grows, WordIsOwn
<1> HIDE DEF Sessions, Requests, Responses, Words, Places, Pcs, At, SessionOf, Waits,
   Uncrossed, Given
<1> QED BY <1>3, <1>4, <1>5, <1>6, <1>7, <1>8, <1>9, <1>10 DEF Next, Adapter, Responder,
   NiThread

\* A thread that was told IGNORE has nothing left to send.
LEMMA QuietStep ==
  Typed /\ Grows /\ WordIsOwn /\ IgnoredIsSilent /\ Typed' /\ [Next]_vars
  => IgnoredIsSilent'
<1> SUFFICES ASSUME Typed, Grows, WordIsOwn, IgnoredIsSilent, Typed', [Next]_vars
             PROVE  IgnoredIsSilent'
  OBVIOUS
<1> USE DEF Sessions, Requests, Responses, Words, Places, Pcs, At, SessionOf, Waits,
   Uncrossed, Given
<1>1. Uncrossed' => Uncrossed
  BY DEF Grows
<1>2. ASSUME UNCHANGED <<answers>> PROVE IgnoredIsSilent'
  BY <1>2, <1>1 DEF Typed, TypeOK, ThreadsTyped, AdapterSound, Threads, WordIsOwn,
     Grows, IgnoredIsSilent
<1>3. ASSUME \/ \E s \in Sessions : RequestSaved(s)
             \/ ModemDown
             \/ RequestShown
             \/ ResetFrees
             \/ ResetClears
             \/ ResetSignals
             \/ \E id \in Requests, response \in Responses : RespondChecks(id, response)
             \/ RespondIgnores
             \/ RespondWrites
             \/ \E t \in Requests : NiWaits(t)
             \/ \E t \in Requests : NiResponded(t)
             \/ \E t \in Requests : NiTimesOut(t)
             \/ \E t \in Requests : NiTakes(t)
             \/ \E t \in Requests : Inform(t)
             \/ UNCHANGED vars
      PROVE  IgnoredIsSilent'
  BY <1>2, <1>3 DEF RequestSaved, ModemDown, RequestShown, ResetFrees, ResetClears,
     ResetSignals, RespondChecks, RespondIgnores, RespondWrites, NiWaits, NiResponded,
     Leaves, NiTimesOut, NiTakes, Inform, vars
<1>4. ASSUME NEW t \in Requests, NiSends(t) PROVE IgnoredIsSilent'
  <2>1. thread[t].say = "IGNORE" /\ Uncrossed => taken[t] = 0
    BY <1>4 DEF NiSends, WordIsOwn
  <2> QED BY <1>1, <1>4, <2>1 DEF NiSends, IgnoredIsSilent
<1> HIDE DEF Sessions, Requests, Responses, Words, Places, Pcs, At, SessionOf, Waits,
   Uncrossed, Given
<1> QED BY <1>3, <1>4 DEF Next, Adapter, Responder, NiThread

-----------------------------------------------------------------------------
LEMMA NextIInv == IInv /\ [Next]_vars => IInv'
<1> SUFFICES ASSUME IInv, [Next]_vars PROVE IInv'
  OBVIOUS
<1>1. Typed' /\ Grows
  BY TypedStep, OnlyGrows DEF IInv
<1>2. SessionIsOwned' /\ FreedOnce' /\ DoneIsAnswered'
  BY <1>1, OwnedStep, FreedStep, DoneStep DEF IInv
<1>3. ShownInSession' /\ IgnoreMeansEmergency' /\ SilenceMeansEmergency'
  BY <1>1, ShownStep, IgnoreStep, SilenceStep DEF IInv
<1>4. ResponseIsAwaited' /\ FlagIsOwn' /\ WordIsOwn' /\ IgnoredIsSilent'
  BY <1>1, ResponseStep, FlagStep, WordStep, QuietStep DEF IInv
<1> QED BY <1>1, <1>2, <1>3, <1>4 DEF IInv

\* What follows from the invariant.
LEMMA OwnedAnswers == Typed /\ SessionIsOwned => AnswersOwnRequest
<1> SUFFICES ASSUME Typed, SessionIsOwned, reset = {}, NEW m \in answers
             PROVE  m.id = m.by /\ \A n \in answers : n.id = m.id => n = m
  BY DEF AnswersOwnRequest
<1>1. m.id = m.by
  BY DEF SessionIsOwned
<1>2. ASSUME NEW n \in answers, n.id = m.id PROVE n = m
  <2>1. n.by = m.by /\ n.say = m.say
    BY <1>2 DEF SessionIsOwned
  <2>2. /\ n = [by |-> n.by, id |-> n.id, say |-> n.say]
        /\ m = [by |-> m.by, id |-> m.id, say |-> m.say]
    BY DEF Typed, ThreadsTyped
  <2> QED BY <1>2, <2>1, <2>2
<1> QED BY <1>1, <1>2

LEMMA WordsAreAwaited ==
  Typed /\ SessionIsOwned /\ WordIsOwn /\ IgnoredIsSilent => AwaitsUser
<1> SUFFICES ASSUME Typed, SessionIsOwned, WordIsOwn, IgnoredIsSilent, Uncrossed,
                    NEW m \in answers, m.say # "NORESP"
             PROVE  [id |-> m.id, say |-> m.say] \in given
  BY DEF AwaitsUser, Uncrossed
<1>1. m.id = m.by /\ At(m.by, "done") /\ m.say = thread[m.by].say /\ m.by \in Requests
  BY DEF SessionIsOwned, Uncrossed, Typed, TypeOK
<1>2. m.say # "IGNORE"
  BY DEF IgnoredIsSilent
<1> QED BY <1>1, <1>2 DEF WordIsOwn, Waits, At, Given

LEMMA SpecIInv == Spec => []IInv
<1>1. Init => IInv
  BY InitIInv
<1>2. IInv /\ [Next]_vars => IInv'
  BY NextIInv
<1> QED BY <1>1, <1>2, PTL DEF Spec

\* The locks, the sessions, the payloads and the answers are as typed, and while the
\* modem has not restarted a thread of loc_eng_ni.cpp answers its own request, once, and
\* its payload is freed once, whatever responses, timeouts and requests come in between.
THEOREM OneOwnerAlways == Spec => []OneOwner
<1>1. IInv => OneOwner
  BY OwnedAnswers DEF IInv, Typed, OneOwner
<1> QED BY <1>1, SpecIInv, PTL

\* A request goes unanswered only after an accepted emergency, or by a restart.
THEOREM SilenceIsJustified == Spec => []SilenceMeansEmergency
<1>1. IInv => SilenceMeansEmergency
  BY DEF IInv
<1> QED BY <1>1, SpecIInv, PTL

\* The answer to a request is the user's response to it, or none, unless a restart came
\* in between or a response has crossed the end of the wait that it answers.
THEOREM UserIsAwaited == Spec => []AwaitsUser
<1>1. IInv => AwaitsUser
  BY WordsAreAwaited DEF IInv
<1> QED BY <1>1, SpecIInv, PTL

=============================================================================
