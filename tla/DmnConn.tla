------------------------------- MODULE DmnConn -------------------------------
(***************************************************************************)
(* The thread that serves the daemons' pipe (loc_eng_dmn_conn.cpp), run by *)
(* the thread helper (loc_eng_dmn_conn_thread_helper.c), from its launch   *)
(* by an owner to its end.  The owner waits until the thread is ready;     *)
(* later it asks it to stop, by a flag that the thread reads between two   *)
(* messages and by a message that wakes it, and joins it.                  *)
(*                                                                         *)
(* A request of a daemon becomes a message of the adapter, unless its      *)
(* control, type or sender is unknown.  The adapter makes a subscriber of  *)
(* it (AgpsStateMachine says when it is told something), and what that is  *)
(* told goes back to the daemon's own pipe (loc_eng_agps.cpp).  The helper *)
(* also handles failures of proc_init and proc_pre, which never report one *)
(* in this server.                                                         *)
(***************************************************************************)
EXTENDS Naturals, Sequences

CONSTANTS
  Daemons,     \* those that run
  MaxRequests  \* bound: requests of the daemons

\* ctrl_if_req_sender_id_e_type, but for MODEM, which the handlers refuse.
Senders == {"QUIPC", "MSAPM", "MSAPU", "GPSONE_DAEMON"}

ASSUME DmnAssumption == Daemons \subseteq Senders /\ MaxRequests \in Nat

VARIABLES
  thread_exit, thread_ready,
  owner,     \* the thread that launches, stops and joins
  result,    \* what loc_eng_dmn_conn_launch_thelper returned
  server,    \* the thread of thelper_main
  queues,    \* the pipes: absent, open, removed
  pipe,      \* what waits in the server's pipe, oldest first
  sent,      \* requests written by the daemons
  box,       \* requests that became messages of the adapter, oldest first
  served,    \* requests that the adapter has processed
  refused,   \* requests that were dropped
  asked,     \* history: what each daemon has asked for
  told,      \* what has been written to the daemons' pipes
  troubles   \* history: what has gone wrong

flags == <<thread_exit, thread_ready>>
Daemon == <<sent, box, served, refused, asked, told>>
dmnVars == <<flags, owner, result, server, queues, pipe, Daemon, troubles>>

Types    == {"SUPL", "WIFI", "ANY"}
Controls == {"REQUEST", "RELEASE"}
Results  == {"REQUEST_SUCCESS", "RELEASE_SUCCESS", "FAILURE"}
Messages == [ctrl : Controls \cup {"UNBLOCK", "other"}, type : Types \cup {"other"},
             sender : Senders \cup {"MODEM"}]

\* thelper_signal_init.
DmnInit ==
  /\ thread_exit = 0 /\ thread_ready = 0
  /\ owner = "launch" /\ result = "none"
  /\ server = "unborn"
  /\ queues = "absent"
  /\ pipe = <<>>
  /\ sent = 0 /\ box = <<>> /\ served = 0 /\ refused = 0
  /\ asked = [d \in Daemons |-> {}] /\ told = [d \in Daemons |-> {}]
  /\ troubles = {}

(***************************************************************************)
(* loc_eng_dmn_conn_launch_thelper and thelper_signal_wait.                *)
(***************************************************************************)
Trouble(what) == troubles' = troubles \cup {what}

\* The thread is made, pthread_create fails, or the platform's create_thread_cb
\* makes none: what it returns is taken for a thread.
Create ==
  /\ owner = "launch"
  /\ \/ owner' = "wait" /\ server' = "init" /\ UNCHANGED <<result, troubles>>
     \/ owner' = "failed" /\ result' = "error" /\ UNCHANGED <<server, troubles>>
     \/ owner' = "wait" /\ Trouble("unmade") /\ UNCHANGED <<server, result>>
  /\ UNCHANGED <<flags, queues, pipe, Daemon>>

\* Mutants: the test is inverted; it is left out.
NotReadyInverted == thread_ready = 1
NotReadyIgnored == TRUE
NotReady == thread_ready = 0 /\ thread_exit = 0

\* Under the lock, up to the wait.
SignalWait ==
  /\ owner = "wait"
  /\ owner' = IF NotReady THEN "waiting" ELSE "woken"
  /\ UNCHANGED <<flags, result, server, queues, pipe, Daemon, troubles>>

\* pthread_cond_wait returns without a signal: the flags are not looked at again.
OwnerWakes ==
  /\ owner = "waiting" /\ owner' = "woken"
  /\ Trouble("spurious")
  /\ UNCHANGED <<flags, result, server, queues, pipe, Daemon>>

Launched ==
  /\ owner = "woken"
  /\ result' = IF thread_exit = 0 THEN "success" ELSE "error"
  /\ owner' = IF thread_exit = 0 THEN "running" ELSE "failed"
  /\ UNCHANGED <<flags, server, queues, pipe, Daemon, troubles>>

(***************************************************************************)
(* thelper_main, with the procedures of the server.                        *)
(***************************************************************************)
\* thelper_signal_ready.
SignalReady ==
  /\ thread_ready' = 1
  /\ owner' = IF owner = "waiting" THEN "woken" ELSE owner

\* loc_api_server_proc_init makes the pipes; that one could not be made is not
\* looked at.  After an error the flag is set, without the lock, before the
\* signal.
ProcInit ==
  /\ server = "init"
  /\ \/ queues' = "open" /\ server' = "signal" /\ UNCHANGED <<thread_exit, troubles>>
     \/ Trouble("pipe") /\ server' = "signal" /\ UNCHANGED <<queues, thread_exit>>
     \/ server' = "fail" /\ thread_exit' = 1 /\ UNCHANGED <<queues, troubles>>
  /\ UNCHANGED <<thread_ready, owner, result, pipe, Daemon>>

ProcInitFailed ==
  /\ server = "fail" /\ server' = "ended"
  /\ SignalReady
  /\ UNCHANGED <<thread_exit, result, queues, pipe, Daemon, troubles>>

Ready ==
  /\ server = "signal" /\ server' = "pre"
  /\ SignalReady
  /\ UNCHANGED <<thread_exit, result, queues, pipe, Daemon, troubles>>

\* An error here ends the thread without proc_post.
ProcPre ==
  /\ server = "pre"
  /\ \/ server' = "proc" /\ UNCHANGED <<thread_exit, troubles>>
     \/ server' = "ended" /\ thread_exit' = 1 /\ Trouble("pre")
  /\ UNCHANGED <<thread_ready, owner, result, queues, pipe, Daemon>>

\* The request and the release handler make a message of the same kinds.
IsKnown(m) == m.ctrl \in Controls /\ m.type \in Types /\ m.sender \in Senders

\* Mutant: the request of an unknown sender ends the thread.
ProcResultRefused(m) == IF IsKnown(m) \/ m.ctrl = "UNBLOCK" THEN thread_exit ELSE 1

\* The handlers' results are not passed on.
ProcResult(m) == thread_exit

Rest == Tail(pipe)

\* LocEngReqRelBIT for the GPS daemon, which is not named in it, else
\* LocEngReqRelWifi.
Made(m) ==
  [ctrl |-> m.ctrl, made |-> IF m.sender = "GPSONE_DAEMON" THEN "BIT" ELSE "WIFI",
   sender |-> m.sender]

\* loc_api_server_proc: a message is read and handled.
ServerProc ==
  /\ server = "proc" /\ pipe # <<>>
  /\ pipe' = Rest
  /\ LET m == Head(pipe) IN
       /\ box' = IF IsKnown(m) THEN Append(box, Made(m)) ELSE box
       /\ refused' = IF IsKnown(m) \/ m.ctrl = "UNBLOCK" THEN refused ELSE refused + 1
       /\ thread_exit' = ProcResult(m)
  /\ server' = "test"
  /\ UNCHANGED <<thread_ready, owner, result, queues, sent, served, asked, told, troubles>>

\* The read of the size or of the rest fails, is interrupted or falls short, as
\* it does when there is no pipe.
ProcFails ==
  /\ server = "proc"
  /\ thread_exit' = 1
  /\ server' = "test"
  /\ Trouble("receive")
  /\ UNCHANGED <<thread_ready, owner, result, queues, pipe, Daemon>>

\* while (thread_exit == 0)
Loop ==
  /\ server = "test"
  /\ server' = IF thread_exit = 0 THEN "proc" ELSE "post"
  /\ UNCHANGED <<flags, owner, result, queues, pipe, Daemon, troubles>>

\* loc_api_server_proc_post removes the pipes.
ProcPost ==
  /\ server = "post" /\ server' = "ended"
  /\ queues' = "removed" /\ pipe' = <<>>
  /\ UNCHANGED <<flags, owner, result, Daemon, troubles>>

ThelperMain ==
  \/ ProcInit \/ ProcInitFailed \/ Ready \/ ProcPre
  \/ ServerProc \/ (queues = "absent" /\ ProcFails)
  \/ Loop \/ ProcPost

(***************************************************************************)
(* loc_eng_dmn_conn_loc_api_server_unblock and _join.  The calls of them   *)
(* in loc_eng_cleanup are switched off at present.                         *)
(***************************************************************************)
Written(m) == IF queues = "open" THEN Append(pipe, m) ELSE pipe

UnblockThelper ==
  /\ owner = "running" /\ owner' = "exiting"
  /\ thread_exit' = 1
  /\ UNCHANGED pipe

\* Mutant: the wake-up is left out.
UnblockNothing ==
  /\ owner = "exiting" /\ owner' = "joining"
  /\ UNCHANGED <<thread_exit, pipe>>

\* A message to a pipe that is not open is lost.
UnblockProc ==
  /\ owner = "exiting" /\ owner' = "joining"
  /\ pipe' = Written([ctrl |-> "UNBLOCK", type |-> "other", sender |-> "MODEM"])
  /\ UNCHANGED thread_exit

ServerUnblock ==
  /\ UnblockThelper \/ UnblockProc
  /\ UNCHANGED <<thread_ready, result, server, queues, Daemon, troubles>>

Join ==
  /\ owner = "joining" /\ server = "ended"
  /\ owner' = "joined"
  /\ UNCHANGED <<flags, result, server, queues, pipe, Daemon, troubles>>

(***************************************************************************)
(* The adapter processes a request.  Its subscriber is told, sooner or     *)
(* later, by notifyRsrcStatus.                                             *)
(***************************************************************************)
\* What a subscriber may be told; an interface may be lost again, and a release
\* of nothing, or a request before there is a Wifi machine, passes in silence.
Statuses(ctrl) ==
  IF ctrl = "REQUEST" THEN {"GRANTED", "DENIED", "RELEASED", "none"}
                      ELSE {"UNSUBSCRIBE", "RELEASED", "none"}

\* BITSubscriber and WIFISubscriber; the latter waits for the close.
Words(m, status) ==
  CASE status = "GRANTED"     -> {"REQUEST_SUCCESS"}
    [] status = "DENIED"      -> {"FAILURE"}
    [] status = "RELEASED"    -> {"RELEASE_SUCCESS"}
    [] status = "none"        -> {}
    [] status = "UNSUBSCRIBE" -> IF m.made = "WIFI" THEN {} ELSE {"RELEASE_SUCCESS"}

Recipient(m) == IF m.made = "BIT" THEN "GPSONE_DAEMON" ELSE m.sender

\* loc_eng_dmn_conn_loc_api_server_data_conn: a daemon whose pipe is gone is
\* not told.
DataConn(d, words) ==
  told' = IF queues = "open" THEN [told EXCEPT ![d] = @ \cup words] ELSE told

Serve ==
  /\ box # <<>>
  /\ box' = Tail(box)
  /\ served' = served + 1
  /\ LET m == Head(box) IN
       \E status \in Statuses(m.ctrl) : DataConn(Recipient(m), Words(m, status))
  /\ UNCHANGED <<flags, owner, result, server, queues, pipe, sent, refused, asked, troubles>>

\* A request of which one part is unknown.
Unknown(ctrl, d) ==
  {[ctrl |-> ctrl,    type |-> "other", sender |-> d],
   [ctrl |-> ctrl,    type |-> "ANY",   sender |-> "MODEM"],
   [ctrl |-> "other", type |-> "ANY",   sender |-> d]}

\* External: a daemon writes a request, which may not be a known one.
Request(d) ==
  /\ queues = "open" /\ sent < MaxRequests
  /\ \E ctrl \in Controls :
       \/ /\ pipe' = Append(pipe, [ctrl |-> ctrl, type |-> "ANY", sender |-> d])
          /\ asked' = [asked EXCEPT ![d] = @ \cup {ctrl}]
       \/ /\ \E m \in Unknown(ctrl, d) : pipe' = Append(pipe, m)
          /\ UNCHANGED asked
  /\ sent' = sent + 1
  /\ UNCHANGED <<flags, owner, result, server, queues, box, served, refused, told, troubles>>

DmnNext ==
  \/ Create \/ SignalWait \/ OwnerWakes \/ Launched
  \/ ThelperMain \/ ProcFails
  \/ ServerUnblock \/ Join
  \/ Serve
  \/ \E d \in Daemons : Request(d)

DmnSpec == DmnInit /\ [][DmnNext]_dmnVars

\* Threads run; whether the owner ever stops the server is its own affair, but
\* once it has set the flag it goes on.
DmnFairSpec ==
  /\ DmnSpec
  /\ WF_dmnVars(Create \/ SignalWait \/ Launched)
  /\ WF_dmnVars(ThelperMain) /\ WF_dmnVars(Serve)
  /\ WF_dmnVars(owner = "exiting" /\ ServerUnblock) /\ WF_dmnVars(Join)

(***************************************************************************)
(* Properties                                                              *)
(***************************************************************************)
\* Types; what was read of the pipe is what was written and does not wait.
DmnTypeOK ==
  /\ thread_exit \in {0, 1} /\ thread_ready \in {0, 1}
  /\ owner \in {"launch", "wait", "waiting", "woken", "running", "failed", "exiting", "joining", "joined"}
  /\ result \in {"none", "success", "error"}
  /\ server \in {"unborn", "init", "fail", "signal", "pre", "proc", "test", "post", "ended"}
  /\ queues \in {"absent", "open", "removed"}
  /\ pipe \in Seq(Messages)
  /\ Len(box) + served + refused <= sent /\ sent <= MaxRequests
  /\ asked \in [Daemons -> SUBSET Controls] /\ told \in [Daemons -> SUBSET Results]
  /\ troubles \subseteq {"unmade", "spurious", "pipe", "pre", "receive"}

\* "This function will be blocked on the conditional variable until
\* thelper_signal_ready is called" (loc_eng_dmn_conn_thread_helper.c:108): a
\* launch that succeeded has a server that is ready, and whose pipes exist if
\* they could be made, unless the condition woke by itself.
LaunchedIsReady ==
  result = "success" /\ "spurious" \notin troubles =>
    thread_ready = 1 /\ (queues # "absent" \/ "pipe" \in troubles)

\* No signal is lost: the launch returns, whatever the order of the threads, if
\* there are two.
LaunchReturns == <>(result # "none" \/ "unmade" \in troubles)

\* A server that is told to stop ends, even one that waits for a message, and
\* removes its pipes unless proc_pre failed; the owner's join returns.  Only an
\* owner that woke by itself may come before the pipe, and wait for ever.
StopsAndJoins ==
  owner = "exiting" ~>
    \/ owner = "joined" /\ (queues = "removed" \/ "pre" \in troubles)
    \/ "spurious" \in troubles

\* A daemon is told only about what it has asked for itself, and that an
\* interface is there or refused only if it has requested one: answers, which
\* carry no name, find the pipe of the daemon whose request they are for.
AnswersAreOwn ==
  \A d \in Daemons :
    /\ told[d] # {} => asked[d] # {}
    /\ told[d] \cap {"REQUEST_SUCCESS", "FAILURE"} # {} => "REQUEST" \in asked[d]

\* While nobody stops the server and no read fails, every request is processed
\* by the adapter or refused, whatever unknown requests came before.
RequestsAreServed ==
  sent = MaxRequests ~>
    \/ served + refused = sent
    \/ owner \in {"exiting", "joining", "joined"} \/ troubles \cap {"pre", "receive"} # {}

\* What was read of the pipe was written to it once, a launch that succeeded
\* has its pipe, and answers go where they belong.
LaunchIsSound == DmnTypeOK /\ LaunchedIsReady /\ AnswersAreOwn
=============================================================================
