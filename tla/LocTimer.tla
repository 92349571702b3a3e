------------------------------ MODULE LocTimer ------------------------------
(***************************************************************************)
(* One timer of gps/utils/loc_timer.c: the detached thread that waits for  *)
(* its delay, calls back and frees the record, and the threads that stop   *)
(* it, which share nothing with it but that record.                        *)
(*                                                                         *)
(* A step of a thread reads or writes the record once, or does what it     *)
(* does between a lock and the next unlock or wait.                        *)
(***************************************************************************)
EXTENDS Naturals

CONSTANTS
  Stoppers   \* threads that may call loc_timer_stop, once each

Nobody == "nobody"

ASSUME TimerAssumption == Nobody \notin Stoppers

VARIABLES
  state,    \* timer_data.state
  mutex,    \* who holds timer_mutex
  memory,   \* the record: absent, live, freed, misused
  handle,   \* what loc_timer_start returned: none, timer
  pc,       \* the timer's thread
  ret,      \* its result: 0, ETIMEDOUT, -ETIMEDOUT
  tries,    \* its attempts to destroy the mutex
  stop,     \* each thread inside loc_timer_stop
  fired,    \* history: callback_func was called
  stopped   \* history: a stop took effect, before the wait timed out or after

timerVars == <<state, mutex, memory, handle, pc, ret, tries, stop, fired, stopped>>

TimerInit ==
  /\ state = "READY"
  /\ mutex = Nobody
  /\ memory = "absent" /\ handle = "none"
  /\ pc = "unborn" /\ ret = "-ETIMEDOUT"
  /\ tries = 0
  /\ stop = [s \in Stoppers |-> "out"]
  /\ fired = FALSE /\ stopped = "no"

\* loc_timer_start.
Start ==
  /\ pc = "unborn" /\ handle = "none"
  /\ memory' = "live" /\ handle' = "timer" /\ pc' = "start"
  /\ UNCHANGED <<state, mutex, ret, tries, stop, fired, stopped>>

\* The error paths free the record, and fall through to "return t".
StartFails ==
  /\ pc = "unborn" /\ handle = "none"
  /\ memory' = "freed" /\ handle' = "timer"
  /\ UNCHANGED <<state, mutex, pc, ret, tries, stop, fired, stopped>>

(***************************************************************************)
(* timer_thread                                                            *)
(***************************************************************************)
Enter ==
  /\ pc = "start" /\ mutex = Nobody
  /\ IF state = "READY" THEN state' = "WAITING" /\ pc' = "wait"
     ELSE pc' = "unlocked" /\ UNCHANGED state
  /\ UNCHANGED <<mutex, memory, handle, ret, tries, stop, fired, stopped>>

\* The delay has passed, or pthread_cond_timedwait returns without a signal.
WaitEnds(result) ==
  /\ pc = "wait"
  /\ ret' = result
  /\ pc' = "woken"
  /\ UNCHANGED <<state, mutex, memory, handle, tries, stop, fired, stopped>>

TimesOut == WaitEnds("ETIMEDOUT")
WakesSpuriously == WaitEnds("0")

Woken ==
  /\ pc = "woken" /\ mutex = Nobody
  /\ state' = "DONE"
  /\ pc' = "unlocked"
  /\ UNCHANGED <<mutex, memory, handle, ret, tries, stop, fired, stopped>>

\* Mutant: the callback is for a wait that was ended.
CallsBackStopped == ret = "0"
CallsBack == ret = "ETIMEDOUT"

Callback ==
  /\ pc = "unlocked"
  /\ IF CallsBack THEN fired' = TRUE /\ pc' = "callback"
     ELSE pc' = "destroy" /\ UNCHANGED fired
  /\ UNCHANGED <<state, mutex, memory, handle, ret, tries, stop, stopped>>

CallbackReturns ==
  /\ pc = "callback" /\ pc' = "destroy"
  /\ UNCHANGED <<state, mutex, memory, handle, ret, tries, stop, fired, stopped>>

\* EBUSY: five times the thread sleeps, for seconds in all; the sixth time it
\* unlocks the mutex.
Busy ==
  /\ pc = "destroy" /\ mutex # Nobody /\ tries <= 5
  /\ tries' = tries + 1
  /\ mutex' = IF tries = 5 THEN Nobody ELSE mutex
  /\ UNCHANGED <<state, memory, handle, pc, ret, stop, fired, stopped>>

\* Mutant: the result of pthread_mutex_destroy is not looked at.
DestroyedAnyhow == TRUE
Destroyed == mutex = Nobody \/ tries = 6

Free ==
  /\ pc = "destroy" /\ Destroyed
  /\ memory' = IF memory = "misused" THEN memory ELSE "freed"
  /\ pc' = "exited"
  /\ UNCHANGED <<state, mutex, handle, ret, tries, stop, fired, stopped>>

TimerThread == Enter \/ Woken \/ Callback \/ CallbackReturns \/ Busy \/ Free

(***************************************************************************)
(* loc_timer_stop.  "handle becomes invalid upon the return of the         *)
(* callback" (loc_timer.h:55): nobody stops a timer after that.            *)
(***************************************************************************)
StopGoes(s, there) == stop' = [stop EXCEPT ![s] = there]

Touched == IF memory = "live" THEN memory ELSE "misused"

Armed == state \in {"READY", "WAITING"}

\* The state is read without the lock; that of a freed record may be anything.
StopChecks(s) ==
  /\ stop[s] = "out" /\ handle = "timer"
  /\ fired => pc = "callback"
  /\ memory' = Touched
  /\ \/ (Armed \/ memory # "live") /\ StopGoes(s, "lock")
     \/ (~Armed \/ memory # "live") /\ StopGoes(s, "done")
  /\ UNCHANGED <<state, mutex, handle, pc, ret, tries, fired, stopped>>

StopLocks(s) ==
  /\ stop[s] = "lock" /\ mutex = Nobody
  /\ memory' = Touched
  /\ IF memory = "live" THEN mutex' = s /\ StopGoes(s, "locked")
     ELSE StopGoes(s, "done") /\ UNCHANGED mutex
  /\ UNCHANGED <<state, handle, pc, ret, tries, fired, stopped>>

\* Mutant: a timer that does not wait yet is left alone.
AbortedWaiting == IF pc = "wait" THEN "ABORT" ELSE state

Aborted == "ABORT"

\* The signal ends a wait that has not timed out.
StopSignals(s) ==
  /\ stop[s] = "locked"
  /\ memory' = Touched
  /\ IF Armed
       THEN /\ state' = Aborted
            /\ stopped' = IF pc \in {"start", "wait"} THEN "early" ELSE "late"
            /\ IF pc = "wait" THEN pc' = "woken" /\ ret' = "0" ELSE UNCHANGED <<pc, ret>>
       ELSE UNCHANGED <<state, stopped, pc, ret>>
  /\ StopGoes(s, "unlock")
  /\ UNCHANGED <<mutex, handle, tries, fired>>

Unlocked(s) == IF mutex = s THEN Nobody ELSE mutex

StopUnlocks(s) ==
  /\ stop[s] = "unlock"
  /\ memory' = Touched
  /\ mutex' = Unlocked(s)
  /\ StopGoes(s, "done")
  /\ UNCHANGED <<state, handle, pc, ret, tries, fired, stopped>>

Stop(s) == StopChecks(s) \/ StopLocks(s) \/ StopSignals(s) \/ StopUnlocks(s)

TimerNext ==
  \/ Start \/ StartFails
  \/ TimerThread \/ TimesOut \/ WakesSpuriously
  \/ \E s \in Stoppers : Stop(s)

TimerSpec == TimerInit /\ [][TimerNext]_timerVars

\* The delay passes, threads run, and whoever holds the mutex lets it go.
TimerFairSpec ==
  /\ TimerSpec /\ WF_timerVars(Start) /\ WF_timerVars(TimesOut) /\ SF_timerVars(TimerThread)
  /\ \A s \in Stoppers : WF_timerVars(StopSignals(s) \/ StopUnlocks(s))

(***************************************************************************)
(* Properties                                                              *)
(***************************************************************************)
\* Types; the mutex is held by a thread that is between its lock and its unlock.
TimerTypeOK ==
  /\ state \in {"READY", "WAITING", "DONE", "ABORT"}
  /\ mutex \in Stoppers \cup {Nobody}
  /\ memory \in {"absent", "live", "freed", "misused"} /\ handle \in {"none", "timer"}
  /\ pc \in {"unborn", "start", "wait", "woken", "unlocked", "callback", "destroy", "exited"}
  /\ ret \in {"0", "ETIMEDOUT", "-ETIMEDOUT"} /\ tries \in 0..6
  /\ mutex # Nobody => stop[mutex] \in {"locked", "unlock"}
  /\ stop \in [Stoppers -> {"out", "lock", "locked", "unlock", "done"}]
  /\ fired \in BOOLEAN /\ stopped \in {"no", "early", "late"}

\* A timer that was stopped before its wait timed out, even before its thread
\* came to wait, never calls back.
EarlyStopIsSilent == stopped = "early" => ~fired

\* "(should be rare) race condition" (loc_timer.c:107): a thread that has the
\* mutex inside loc_timer_stop finds the record alive until it unlocks, as the
\* timer's thread does not free it before the last of its tries.
HolderIsSafe ==
  \A s \in Stoppers : stop[s] \in {"locked", "unlock"} /\ tries < 6 => memory # "freed"

\* A timer that has started calls back, unless somebody stopped it or its wait
\* ended without a signal.
FiresUnlessStopped == pc = "start" ~> fired \/ stopped # "no" \/ ret = "0"

\* The record is sound for whoever is inside loc_timer_stop.
RecordIsSafe == TimerTypeOK /\ HolderIsSafe
=============================================================================
