---------------------------- MODULE LocEngConfig ----------------------------
(***************************************************************************)
(* Start of the engine and its settings (libloc_api_50001/loc_eng.cpp,     *)
(* loc.cpp, LocEngAdapter).  The settings live in globals that only the    *)
(* framework's thread writes; the adapter's thread reads them without a    *)
(* lock when it renews the modem's (loc_eng_reinit), and each read is a    *)
(* step apart from the sending of what was read.  An update parses its     *)
(* text into the global gps_conf, tells the modem, and only then puts back *)
(* what a carrier may not change.  The callbacks to the framework, the     *)
(* sensors' constants and the certificates are left out.                   *)
(***************************************************************************)
EXTENDS Naturals, Sequences, FiniteSets

CONSTANTS
  Modes,       \* MSA and MSB, bits of SUPL_MODE and of CAPABILITIES
  Servers,     \* names the framework may give
  Targets,     \* kinds of chip, of "msm", "gss" and "qca1530"
  MaxCalls,    \* bound: calls of the framework
  Restarts,    \* bound: crashes of the modem
  MaxInbox,    \* bound: nobody calls or crashes while as many messages wait
  None         \* no value

ASSUME ConfigAssumption == 
  /\ Targets \subseteq {"msm", "gss", "qca1530"}
  /\ MaxCalls \in Nat /\ Restarts \in Nat /\ MaxInbox \in Nat

VARIABLES
  target,      \* kind of chip
  gps_conf,    \* the global record
  configAlreadyRead,
  agpsStatus,  \* data is available
  adapter,     \* there is a LocEngAdapter: it is made once and stays
  agps,        \* agps_status_cb is set
  supl_host,   \* the buffer for a server that comes before the adapter
  powerOn,     \* POWER_VOTE_VALUE of mPowerVote
  fw,          \* the framework's thread in loc_eng_configuration_update
  inbox,       \* messages of the adapter's thread, oldest first
  todo,        \* items that the adapter's thread has still to renew,
  held,        \*   and the value it has read for the first of them
  mUlp,        \* the adapter's ULP proxy, "base" or "vendor"
  up, modem,   \* external: the modem runs, and what it was told
  lbs, ulp,    \* external: a proxy is asked for, and its capabilities
  asked,       \* history: lock and server that the framework asked for
  untold,      \* history: items whose last value was overtaken or lost
  calls, crashes

conf    == <<gps_conf, fw>>
engine  == <<agpsStatus, adapter, agps, supl_host, powerOn, asked>>
thread  == <<todo, held>>
outside == <<up, modem, lbs, ulp, mUlp>>
start   == <<target, configAlreadyRead>>
vars == <<start, conf, engine, inbox, thread, outside, untold, calls, crashes>>

\* SUPL_VER stands for LPP_PROFILE and A_GLONASS_POS_PROTOCOL_SELECT too,
\* XTRA_VERSION_CHECK for all that is read later and restored by an update.
Carrier == {"SUPL_VER", "SUPL_MODE"}
Own == {"CAPABILITIES", "XTRA_VERSION_CHECK"}
Params == Carrier \cup Own
Domain(p) == IF p \in {"SUPL_MODE", "CAPABILITIES"} THEN SUBSET Modes ELSE {0, 1}

\* What the modem is told.
Items == {"SUPL_VER", "XTRA_VERSION_CHECK", "data", "power", "lock", "server"}

SetMsg(i, v) == [msg |-> "set", item |-> i, value |-> v]
ReinitMsg(engineUp) == [msg |-> "reinit", engineUp |-> engineUp]
SuplModeMsg(u) == [msg |-> "supl_mode", ulp |-> u]
SetUlpMsg(caps) == [msg |-> "set_ulp", caps |-> caps]

Idle == [op |-> "idle"]

Init ==
  /\ target \in Targets
  /\ gps_conf = [p \in Params |-> IF p \in {"SUPL_MODE", "CAPABILITIES"} THEN {} ELSE 0]
  /\ configAlreadyRead = FALSE
  /\ agpsStatus = 0 /\ adapter = FALSE /\ agps = FALSE
  /\ supl_host = None /\ powerOn = FALSE
  /\ fw = Idle /\ inbox = <<>> /\ todo = <<>> /\ held = None
  /\ mUlp = "base" /\ lbs = None /\ ulp = None
  /\ up = TRUE /\ modem = [i \in Items |-> None]
  /\ asked = [lock |-> None, server |-> None]
  /\ untold = {} /\ calls = 0 /\ crashes = 0

\* The settings that are meant to last while an update runs.
Settled ==
  IF fw = Idle THEN gps_conf
  ELSE [p \in Params |-> IF p \in Own THEN fw.old[p] ELSE gps_conf[p]]

\* getCarrierCapabilities.
Capabilities(c) == c["CAPABILITIES"] \cap c["SUPL_MODE"]

MayVote == adapter /\ target = "qca1530"   \* getPowerVoteRight

\* What the adapter's thread reads for an item, and what is wanted for it.
ReadNow ==
  [SUPL_VER |-> gps_conf["SUPL_VER"],
   XTRA_VERSION_CHECK |-> gps_conf["XTRA_VERSION_CHECK"],
   data |-> agpsStatus, power |-> powerOn, server |-> supl_host]
Wanted ==
  [SUPL_VER |-> gps_conf["SUPL_VER"],
   XTRA_VERSION_CHECK |-> Settled["XTRA_VERSION_CHECK"],
   data |-> agpsStatus, power |-> IF MayVote THEN powerOn ELSE None,
   lock |-> asked.lock, server |-> asked.server]

-----------------------------------------------------------------------------
\* The framework's thread.

Send(ms) == inbox' = inbox \o ms

Call ==
  /\ configAlreadyRead /\ fw = Idle
  /\ Len(inbox) < MaxInbox /\ calls < MaxCalls /\ calls' = calls + 1

\* get_gps_interface: loc_eng_read_config reads the file once (the values are
\* those of loc_default_parameters), and a chip without modem has no modes.
Loaded ==
  [SUPL_VER |-> 0, SUPL_MODE |-> Modes, XTRA_VERSION_CHECK |-> 0,
   CAPABILITIES |-> IF target = "msm" THEN Modes ELSE {}]
ReadConfig == ~configAlreadyRead /\ configAlreadyRead' = TRUE
GetInterface ==
  /\ ReadConfig
  /\ gps_conf' = Loaded
  /\ UNCHANGED <<target, fw, engine, inbox, thread, outside, untold, calls, crashes>>

\* setPowerVote and requestPowerVote, on the caller's thread.
VoteFor(on, told) == IF target = "qca1530" /\ up THEN [told EXCEPT !["power"] = on] ELSE told

\* setGpsLockMsg.
LockMsg(v) == SetMsg("lock", v)

\* loc_eng_init: the first call clears the record, with the buffer in it.
EngineInit(ms) ==
  /\ adapter' = TRUE
  /\ supl_host' = IF adapter THEN supl_host ELSE None
  /\ Send((IF adapter THEN <<>> ELSE <<ReinitMsg(FALSE)>>) \o ms)

\* loc_init.  Of several calls only the first asks for a proxy: the library
\* gives the same one again.
LocInit ==
  /\ Call
  /\ EngineInit(<<LockMsg("open")>>)
  /\ untold' = (untold \ {"lock"}) \cup {i \in {"server"} : supl_host' # supl_host}
  /\ asked' = [asked EXCEPT !.lock = "open"]
  /\ lbs' = IF adapter THEN lbs ELSE Capabilities(gps_conf)
  /\ powerOn' = TRUE
  /\ modem' = VoteFor(TRUE, modem)
  /\ UNCHANGED <<start, conf, agpsStatus, agps, thread, up, ulp, mUlp, crashes>>

\* loc_cleanup: the adapter stays.
LocCleanup ==
  /\ Call /\ adapter
  /\ powerOn' = FALSE
  /\ modem' = VoteFor(FALSE, modem)
  /\ asked' = [asked EXCEPT !.lock = "locked"]
  /\ Send(<<LockMsg("locked")>>)
  /\ untold' = untold \ {"lock"}
  /\ UNCHANGED <<start, conf, agpsStatus, adapter, agps, supl_host, thread,
                 up, lbs, ulp, mUlp, crashes>>

\* loc_eng_set_server, of a SUPL server.
ServerMsg(s) == SetMsg("server", s)

\* loc_eng_agps_init, and loc_eng_agps_reinit, which sends a buffered server.
Buffered == IF supl_host = None THEN <<>> ELSE <<ServerMsg(supl_host)>>
AgpsInit ==
  /\ Call /\ adapter /\ ~agps
  /\ agps' = TRUE
  /\ Send(IF target = "msm" THEN Buffered ELSE <<>>)
  /\ UNCHANGED <<start, conf, agpsStatus, adapter, supl_host, powerOn, asked,
                 thread, outside, untold, crashes>>

\* loc_eng_set_server_proxy.
SetServer ==
  /\ Call
  /\ \E s \in Servers :
       /\ asked' = [asked EXCEPT !.server = s]
       /\ supl_host' = IF adapter THEN supl_host ELSE s
       /\ Send(IF adapter THEN <<ServerMsg(s)>> ELSE <<>>)
  /\ untold' = untold \ {"server"}
  /\ UNCHANGED <<start, conf, agpsStatus, adapter, agps, powerOn, thread,
                 outside, crashes>>

\* loc_eng_agps_ril_update_network_availability, with a name or without.
UpdateAvailability ==
  /\ Call
  /\ \E available \in {0, 1}, apn \in BOOLEAN :
       /\ agpsStatus' = available
       /\ Send(IF adapter /\ apn THEN <<SetMsg("data", available)>> ELSE <<>>)
       /\ untold' = IF adapter /\ apn THEN untold \ {"data"}
                    ELSE untold \cup {i \in {"data"} : adapter}
  /\ UNCHANGED <<start, conf, adapter, agps, supl_host, powerOn, asked, thread,
                 outside, crashes>>

\* loc_eng_configuration_update: the old record is kept, ...
UpdateStarts ==
  /\ Call
  /\ fw' = [op |-> "parse", old |-> gps_conf]
  /\ UNCHANGED <<start, gps_conf, engine, inbox, thread, outside, untold, crashes>>

\* ... loc_update_conf fills the global one line by line, in any order and none
\* twice (lines that change nothing are left out), and stops one record short
\* of the table, ...
Same(old, c) == {p \in Params : old[p] = c[p]}
SetConfigEntry(c, p, v) == [c EXCEPT ![p] = v]
FillConfItem ==
  \E p \in Same(fw.old, gps_conf) : \E v \in Domain(p) \ {fw.old[p]} :
    gps_conf' = SetConfigEntry(gps_conf, p, v)
ParseLine ==
  /\ fw.op = "parse" /\ Cardinality(Same(fw.old, gps_conf)) > 1
  /\ FillConfItem
  /\ UNCHANGED <<start, fw, engine, inbox, thread, outside, untold, calls, crashes>>

\* ... what a carrier changed is passed on, ...
Changed(old, c) == {p \in Carrier : old[p] # c[p]}
UpdateSends ==
  /\ fw.op = "parse"
  /\ LET changed == IF adapter THEN Changed(fw.old, gps_conf) ELSE {}
     IN /\ Send((IF "SUPL_VER" \in changed
                  THEN <<SetMsg("SUPL_VER", gps_conf["SUPL_VER"])>> ELSE <<>>) \o
                (IF "SUPL_MODE" \in changed THEN <<SuplModeMsg(mUlp)>> ELSE <<>>))
        /\ untold' = untold \ changed
  /\ fw' = [op |-> "restore", old |-> fw.old]
  /\ UNCHANGED <<start, gps_conf, engine, thread, outside, calls, crashes>>

\* ... and everything else is put back.
\* Mutants: the mode is put back too; the capabilities stay as they were sent.
RestoredAlike(old, c) == [p \in Params |-> IF p = "SUPL_VER" THEN c[p] ELSE old[p]]
RestoredLess(old, c) ==
  [p \in Params |-> IF p = "XTRA_VERSION_CHECK" THEN old[p] ELSE c[p]]
Restored(old, c) == [p \in Params |-> IF p \in Carrier THEN c[p] ELSE old[p]]
UpdateRestores ==
  /\ fw.op = "restore"
  /\ gps_conf' = Restored(fw.old, gps_conf)
  /\ fw' = Idle
  /\ UNCHANGED <<start, engine, inbox, thread, outside, untold, calls, crashes>>

-----------------------------------------------------------------------------
\* The adapter's thread.

\* Mutant: after a restart only what follows loc_eng_reinit is renewed.
RenewalsOnce(engineUp) ==
  IF engineUp THEN (IF MayVote THEN <<"power">> ELSE <<>>)
  ELSE <<"SUPL_VER", "data", "XTRA_VERSION_CHECK">>

\* loc_eng_reinit, then requestPowerVote and loc_eng_agps_reinit of
\* loc_eng_handle_engine_up.
Renewals(engineUp) ==
  <<"SUPL_VER", "data", "XTRA_VERSION_CHECK">> \o
  (IF ~engineUp THEN <<>>
   ELSE (IF MayVote THEN <<"power">> ELSE <<>>) \o
        (IF agps /\ supl_host # None THEN <<"server">> ELSE <<>>))

Takes(kind) ==
  /\ todo = <<>> /\ inbox # <<>> /\ Head(inbox).msg = kind
  /\ inbox' = Tail(inbox)

\* A call into the modem; what is said to one that is down is lost.
Tell(i, v) == modem' = IF up THEN [modem EXCEPT ![i] = v] ELSE modem

ProcessSet ==
  /\ Takes("set")
  /\ LET m == Head(inbox)
     IN /\ Tell(m.item, m.value)
        /\ untold' = untold \cup {i \in {m.item} \cap {"lock", "server"} : ~up}
  /\ UNCHANGED <<start, conf, engine, thread, up, lbs, ulp, mUlp, calls, crashes>>

ProcessReinit ==
  /\ Takes("reinit")
  /\ todo' = Renewals(Head(inbox).engineUp)
  /\ UNCHANGED <<start, conf, engine, held, outside, untold, calls, crashes>>

ReinitReads ==
  /\ todo # <<>> /\ held = None
  /\ held' = ReadNow[Head(todo)]
  /\ UNCHANGED <<start, conf, engine, inbox, todo, outside, untold, calls, crashes>>

ReinitSends ==
  /\ held # None
  /\ LET i == Head(todo)
     IN /\ IF i = "power" THEN Tell(i, held) /\ UNCHANGED inbox
           ELSE Send(<<SetMsg(i, held)>>) /\ UNCHANGED modem
        /\ untold' = IF held = Wanted[i] THEN untold \ {i} ELSE untold \cup {i}
  /\ todo' = Tail(todo) /\ held' = None
  /\ UNCHANGED <<start, conf, engine, up, lbs, ulp, mUlp, calls, crashes>>

\* LocEngSuplMode: the proxy is the one that was there when it was sent.
ProcessSuplMode ==
  /\ Takes("supl_mode")
  /\ LET mine == Head(inbox).ulp = "vendor"
         fresh == gps_conf["CAPABILITIES"] = Settled["CAPABILITIES"]
     IN /\ ulp' = IF mine THEN Capabilities(gps_conf) ELSE ulp
        /\ untold' = IF mine /\ fresh THEN untold \ {"ulp"} ELSE untold \cup {"ulp"}
  /\ UNCHANGED <<start, conf, engine, thread, up, modem, lbs, mUlp, calls, crashes>>

\* LocEngAdapter::setUlpProxy.
ProcessSetUlp ==
  /\ Takes("set_ulp")
  /\ mUlp' = "vendor" /\ ulp' = Head(inbox).caps
  /\ UNCHANGED <<start, conf, engine, thread, up, modem, lbs, untold, calls, crashes>>

-----------------------------------------------------------------------------
\* External: the vendor's library makes the proxy it was asked for, once, ...
UlpMade ==
  /\ lbs # None
  /\ Send(<<SetUlpMsg(lbs)>>) /\ lbs' = None
  /\ UNCHANGED <<start, conf, engine, thread, up, modem, ulp, mUlp, untold, calls, crashes>>

\* ... and the modem forgets in a crash what it was told, and tells the
\* adapter when it is back.
Crash ==
  /\ up /\ Len(inbox) < MaxInbox /\ crashes < Restarts /\ crashes' = crashes + 1
  /\ up' = FALSE
  /\ modem' = [i \in Items |-> None]
  /\ untold' = untold \cup {"lock", "server"}
  /\ UNCHANGED <<start, conf, engine, inbox, thread, lbs, ulp, mUlp, calls>>

Restart ==
  /\ ~up /\ up' = TRUE
  /\ Send(IF adapter THEN <<ReinitMsg(TRUE)>> ELSE <<>>)
  /\ UNCHANGED <<start, conf, engine, thread, modem, lbs, ulp, mUlp, untold, calls, crashes>>

Next ==
  \/ GetInterface \/ LocInit \/ LocCleanup \/ AgpsInit \/ SetServer
  \/ UpdateAvailability
  \/ UpdateStarts \/ ParseLine \/ UpdateSends \/ UpdateRestores
  \/ ProcessSet \/ ProcessReinit \/ ReinitReads \/ ReinitSends
  \/ ProcessSuplMode \/ ProcessSetUlp
  \/ UlpMade \/ Crash \/ Restart

Spec == Init /\ [][Next]_vars

-----------------------------------------------------------------------------
Quiet == fw = Idle /\ inbox = <<>> /\ todo = <<>> /\ up

\* Once nothing is on its way, a running modem has the last value of every
\* setting, through updates, calls before the start, renewals and restarts
\* in any order, but for those of which a read was overtaken (untold).
ModemIsConfigured ==
  Quiet /\ adapter => \A i \in Items \ untold : modem[i] = Wanted[i]

\* The ULP has the capabilities that the carrier leaves of those the files
\* gave, unless it was told before it was there or while an update ran.
UlpAgrees ==
  Quiet /\ mUlp = "vendor" /\ "ulp" \notin untold => ulp = Capabilities(gps_conf)

\* No update, however it is cut or crosses others, leaves a parameter
\* changed that is not the carrier's.
OwnIsKept ==
  fw = Idle /\ configAlreadyRead => \A p \in Own : gps_conf[p] = Loaded[p]
=============================================================================
