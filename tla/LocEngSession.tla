---------------------------- MODULE LocEngSession ----------------------------
(***************************************************************************)
(* The positioning session of the location engine                          *)
(* (gps/libloc_api_50001/loc_eng.cpp, LocEngAdapter.cpp): the framework    *)
(* starts and stops it, the modem reports its engine, its sessions and its *)
(* fixes, restarts, and takes deletions of aiding data only while its      *)
(* engine is off.  Everything but the entry points is a message that the   *)
(* adapter's thread processes to the end, so processing one is one action. *)
(* A fix goes to the framework and is put into NMEA sentences, with what a *)
(* report of satellites has left in a cache (LocEngNmea).                  *)
(*                                                                         *)
(* What the model tells apart of a fix is what decides whether it is       *)
(* reported and whether it gets sentences: "coarse" is an intermediate fix *)
(* beyond ACCURACY_THRES, "cell" a final one without satellites or sensors,*)
(* "failure" none at all.                                                  *)
(***************************************************************************)
EXTENDS Naturals, Sequences, LocEngNmea

CONSTANTS
  Recurrences,         \* GpsPositionRecurrence: subset of {"single", "periodic"}
  Modes,               \* position modes the framework may set
  Fixes,               \* kinds of fixes the modem may report
  Results,             \* what startFix may answer while the modem is up
  Aids,                \* kinds of aiding data
  AcceptIntermediate,  \* intermediateFix = LOC_SESS_INTERMEDIATE (gps.conf)
  Restarts,            \* how often the modem may crash
  Mutes,               \* TRUE: emergency requests may mute one session
  MaxInbox,            \* bound: messages that wait, less one for each crash so far
  MaxBefore            \* bound: messages that a deletion or a mute may find queued

\* OFFLINE stands for PHONE_OFFLINE and INTERNAL, GENERAL for every answer
\* that does not open a session.
ASSUME SessionAssumption ==
  /\ Recurrences \subseteq {"single", "periodic"}
  /\ Modes \subseteq {"STANDALONE", "MS_BASED"}
  /\ Fixes \subseteq {"intermediate", "coarse", "final", "cell", "failure"}
  /\ Results \subseteq {"SUCCESS", "OFFLINE", "GENERAL"}
  /\ AcceptIntermediate \in BOOLEAN
  /\ Restarts \in Nat
  /\ Mutes \in BOOLEAN
  /\ MaxInbox \in Nat \ {0} /\ MaxBefore \in Nat

VARIABLES
  inbox,          \* messages of the adapter, oldest first
  mFixCriteria,   \* mode, and recurrence
  mNavigating,
  mute,           \* mute_session_state
  engine_status,
  fix_session_status,
  aiding,         \* aiding_data_for_deletion, a mask
  told,           \* what the framework was last told of its session
  nmea,           \* the caches for NMEA sentences
  client,         \* external: does the framework want a session
  owed,           \* external: aiding data it asked to delete, and still has
  modem,          \* external: up, fixing, mode, single, and what it has reported
  crashes,        \* external: restarts so far
  past            \* history: "single" was asked for, "offline" answered, a
                  \* session that is muted was muted again ("remuted"), a
                  \* pending deletion was "replaced" by one of less

locEng == <<mFixCriteria, mNavigating, mute, engine_status, fix_session_status, aiding, told, nmea>>
vars == <<inbox, locEng, client, owed, modem, crashes, past>>

Statuses == {"BEGIN", "END", "ON", "OFF"}
Messages ==
  [msg : {"start", "stop", "mute", "down", "up"}]
    \cup [msg : {"mode"}, mode : Modes, recurrence : Recurrences]
    \cup [msg : {"status"}, status : Statuses]
    \cup [msg : {"svs"}, used : BOOLEAN]
    \cup [msg : {"fix"}, fix : Fixes]
    \cup [msg : {"delete"}, mask : SUBSET Aids]

\* loc_eng_init clears the record: nothing is pending, no engine status known.
Init ==
  /\ inbox = <<>>
  /\ mFixCriteria = [mode |-> "INVALID", recurrence |-> "periodic"]
  /\ mNavigating = FALSE
  /\ mute = "NONE"
  /\ engine_status = "NONE" /\ fix_session_status = "NONE"
  /\ aiding = {}
  /\ told = "end"
  /\ nmea = Empty
  /\ client = "idle" /\ owed = {}
  /\ modem = [up |-> TRUE, fixing |-> FALSE, single |-> FALSE, mode |-> "INVALID", said |-> "off"]
  /\ crashes = 0
  /\ past = {}

(***************************************************************************)
(* LocEngPositionMode, LocEngStartFix, LocEngStopFix.                      *)
(***************************************************************************)
PositionMode(mode, r) ==
  /\ mFixCriteria' = [mode |-> mode, recurrence |-> r]
  /\ modem' = IF modem.up THEN [modem EXCEPT !.mode = mode] ELSE modem
  /\ UNCHANGED <<mNavigating, mute, engine_status, fix_session_status, aiding, told, nmea, owed, past>>

\* setInSession(false) resets the mode and leaves the rest of the criteria.
Invalid == [mFixCriteria EXCEPT !.mode = "INVALID"]

Answers == IF ~modem.up THEN {"ENGINE_DOWN"}
           ELSE IF modem.fixing THEN {"SUCCESS"} ELSE Results

\* loc_eng_start_handler outside a session, with the modem in state m.
StartNavigating(m) ==
  \E answer \in Answers :
    /\ modem' = IF answer = "SUCCESS"
                THEN [m EXCEPT !.fixing = TRUE, !.single = (mFixCriteria.recurrence = "single")]
                ELSE m
    /\ mNavigating' = (answer # "GENERAL")
    /\ told' = IF answer = "GENERAL" THEN told ELSE "begin"
    /\ past' = IF answer = "OFFLINE" THEN past \cup {"offline"} ELSE past

StartFix ==
  /\ IF mNavigating THEN UNCHANGED <<modem, mNavigating, told, past>> ELSE StartNavigating(modem)
  /\ UNCHANGED <<mFixCriteria, mute, engine_status, fix_session_status, aiding, nmea, owed>>

Halted == [modem EXCEPT !.fixing = FALSE]

\* Mutant: the end is left to the report of the modem.
StopFixUntold ==
  /\ modem' = Halted /\ mNavigating' = FALSE /\ mFixCriteria' = Invalid
  /\ UNCHANGED <<told, mute, engine_status, fix_session_status, aiding, nmea, owed, past>>

\* stopFix fails while the modem is down; the session ends all the same.
StopFix ==
  /\ IF mNavigating
       THEN /\ modem' = Halted
            /\ told' = IF modem.up THEN "end" ELSE told
            /\ mNavigating' = FALSE
            /\ mFixCriteria' = Invalid
       ELSE UNCHANGED <<modem, told, mNavigating, mFixCriteria>>
  /\ UNCHANGED <<mute, engine_status, fix_session_status, aiding, nmea, owed, past>>

(***************************************************************************)
(* loc_eng_report_status and update_aiding_data_for_deletion.              *)
(***************************************************************************)
\* Mutant: only the end of a session ends the mute.
MutedUntilEnd(status) ==
  LET m == IF mute = "WAIT" /\ status \in {"BEGIN", "ON"} THEN "IN_SESSION" ELSE mute
  IN  IF m = "IN_SESSION" /\ status = "END" THEN "NONE" ELSE m

Muted(status) ==
  LET m == IF mute = "WAIT" /\ status \in {"BEGIN", "ON"} THEN "IN_SESSION" ELSE mute
  IN  IF m = "IN_SESSION" /\ status \in {"END", "OFF"} THEN "NONE" ELSE m

\* Only what agrees with mNavigating is passed on.
Told(status) ==
  IF mute' = "IN_SESSION" THEN told
  ELSE IF status = "END" /\ ~mNavigating THEN "end"
  ELSE IF status = "BEGIN" /\ mNavigating THEN "begin"
  ELSE told

ReportStatus(status) ==
  /\ mute' = Muted(status)
  /\ engine_status' = IF status \in {"ON", "OFF"} THEN status ELSE engine_status
  /\ fix_session_status' = IF status \in {"BEGIN", "END"} THEN status ELSE fix_session_status

\* Mutant: the mask is forgotten without a call.
UpdateAidingForget(mask) ==
  /\ aiding' = {}
  /\ owed' = IF engine_status' # "ON" THEN owed \ mask ELSE owed

\* With the mask that is pending.  The modem's answer is not looked at.
UpdateAiding(mask) ==
  IF engine_status' # "ON"
    THEN aiding' = {} /\ owed' = IF modem.up THEN owed \ mask ELSE owed
    ELSE aiding' = mask /\ UNCHANGED owed

Status(status) ==
  /\ ReportStatus(status)
  /\ told' = Told(status)
  /\ UpdateAiding(aiding)
  /\ UNCHANGED <<mFixCriteria, mNavigating, nmea, modem, past>>

\* LocEngDelAidData: the mask replaces the pending one.
DelAidData(mask) ==
  /\ engine_status' = engine_status
  /\ UpdateAiding(mask)
  /\ past' = IF aiding \subseteq mask THEN past ELSE past \cup {"replaced"}
  /\ UNCHANGED <<mFixCriteria, mNavigating, mute, fix_session_status, told, nmea, modem>>

(***************************************************************************)
(* LocEngReportSv and LocEngReportPosition.                                *)
(***************************************************************************)
\* Without used satellites there are blank sentences and no change.
SvReport(used) ==
  /\ nmea' = IF mute # "IN_SESSION" /\ used THEN Cached(nmea) ELSE nmea
  /\ UNCHANGED <<mFixCriteria, mNavigating, mute, engine_status, fix_session_status, aiding, told, owed, modem, past>>

\* A final fix by satellites, and a failure, always.
Reported(fix) ==
  /\ mute # "IN_SESSION"
  /\ \/ fix \in {"final", "failure"}
     \/ fix \in {"intermediate", "cell"} /\ AcceptIntermediate

\* The technologies of the fix are among those that get sentences.
HasSentences(fix) == mute # "IN_SESSION" /\ fix # "cell"

IsFull(fix) == Reported(fix) /\ fix # "failure"

\* A fix that is reported ends a session for one fix, in the adapter.
Ends(fix) == Reported(fix) /\ mFixCriteria.recurrence = "single"
Criteria(fix) == IF Ends(fix) THEN Invalid ELSE mFixCriteria

\* The sentences are made last, when the session may be over.
Sentences(fix) == IF IsFull(fix) THEN Full(TRUE, Criteria(fix).mode, nmea) ELSE Blank

Position(fix) ==
  /\ modem' = IF Ends(fix) /\ fix = "intermediate" THEN Halted ELSE modem
  /\ mNavigating' = (mNavigating /\ ~Ends(fix))
  /\ mFixCriteria' = Criteria(fix)
  /\ nmea' = IF ~HasSentences(fix) THEN Aged(nmea)
             ELSE IF IsFull(fix) THEN AfterFull ELSE AfterBlank(nmea)
  /\ UNCHANGED <<mute, engine_status, fix_session_status, aiding, told, owed, past>>

\* loc_eng_mute_one_session, from loc_eng_ni_request_handler.
Mute ==
  /\ mute' = "WAIT"
  /\ past' = IF mute = "IN_SESSION" THEN past \cup {"remuted"} ELSE past
  /\ UNCHANGED <<mFixCriteria, mNavigating, engine_status, fix_session_status, aiding, told, nmea, owed, modem>>

(***************************************************************************)
(* loc_eng_handle_engine_down and loc_eng_handle_engine_up.                *)
(***************************************************************************)
EngineDown ==
  /\ ReportStatus("OFF")
  /\ UNCHANGED <<mFixCriteria, mNavigating, aiding, told, nmea, owed, modem, past>>

\* Mutant: the mode is not sent again.
EngineUpUnset ==
  /\ ReportStatus("ON")
  /\ IF mNavigating THEN StartNavigating(modem) /\ mFixCriteria' = Invalid
                    ELSE UNCHANGED <<modem, mNavigating, told, mFixCriteria, past>>
  /\ UNCHANGED <<aiding, nmea, owed>>

\* A session that was open is started again, in the mode of mFixCriteria.
EngineUp ==
  /\ ReportStatus("ON")
  /\ IF mNavigating
       THEN /\ StartNavigating(IF modem.up THEN [modem EXCEPT !.mode = mFixCriteria.mode] ELSE modem)
            /\ mFixCriteria' = Invalid
       ELSE UNCHANGED <<modem, mNavigating, told, mFixCriteria, past>>
  /\ UNCHANGED <<aiding, nmea, owed>>

Process ==
  /\ inbox # <<>>
  /\ inbox' = Tail(inbox)
  /\ LET m == Head(inbox) IN
       \/ m.msg = "mode" /\ PositionMode(m.mode, m.recurrence)
       \/ m.msg = "start" /\ StartFix
       \/ m.msg = "stop" /\ StopFix
       \/ m.msg = "status" /\ Status(m.status)
       \/ m.msg = "svs" /\ SvReport(m.used)
       \/ m.msg = "fix" /\ Position(m.fix)
       \/ m.msg = "delete" /\ DelAidData(m.mask)
       \/ m.msg = "mute" /\ Mute
       \/ m.msg = "down" /\ EngineDown
       \/ m.msg = "up" /\ EngineUp
  /\ UNCHANGED <<client, crashes>>

(***************************************************************************)
(* External: the framework.  It sets the mode before each start, and may   *)
(* start a session that runs again, for periodic fixes only.               *)
(***************************************************************************)
Room == Len(inbox) + crashes < MaxInbox
Aside == Room /\ Len(inbox) <= MaxBefore

Start(mode, r) ==
  /\ Room /\ (client = "running" => r = "periodic")
  /\ client' = "running"
  /\ inbox' = inbox \o <<[msg |-> "mode", mode |-> mode, recurrence |-> r], [msg |-> "start"]>>
  /\ past' = IF r = "single" THEN past \cup {"single"} ELSE past
  /\ UNCHANGED <<locEng, owed, modem, crashes>>

Stop ==
  /\ Room /\ client = "running"
  /\ client' = "idle"
  /\ inbox' = Append(inbox, [msg |-> "stop"])
  /\ UNCHANGED <<locEng, owed, modem, crashes, past>>

DeleteAidingData(mask) ==
  /\ Aside
  /\ owed' = owed \cup mask
  /\ inbox' = Append(inbox, [msg |-> "delete", mask |-> mask])
  /\ UNCHANGED <<locEng, client, modem, crashes, past>>

(***************************************************************************)
(* External: the modem.  It says when its engine goes on and a session     *)
(* begins, before the first fix, and when they end.  A fix by satellites   *)
(* comes after a report of those it uses: "No sv used, so there will be no *)
(* position report" (loc_eng_nmea.cpp:793).  A fix that is not an          *)
(* intermediate one ends a session for one fix.                            *)
(***************************************************************************)
Say(before, after, status, busy) ==
  /\ Room /\ modem.fixing = busy /\ modem.said \in before
  /\ modem' = [modem EXCEPT !.said = after]
  /\ inbox' = Append(inbox, [msg |-> "status", status |-> status])
  /\ UNCHANGED <<locEng, client, owed, crashes, past>>

Says ==
  \/ Say({"off"}, "on", "ON", TRUE) \/ Say({"on"}, "begun", "BEGIN", TRUE)
  \/ Say({"begun", "seen"}, "on", "END", FALSE) \/ Say({"on"}, "off", "OFF", FALSE)

Satellites(used) ==
  /\ Room /\ modem.fixing /\ modem.said = "begun"
  /\ modem' = [modem EXCEPT !.said = IF used THEN "seen" ELSE "begun"]
  /\ inbox' = Append(inbox, [msg |-> "svs", used |-> used])
  /\ UNCHANGED <<locEng, client, owed, crashes, past>>

Intermediate == {"intermediate", "coarse"}

Fix(fix) ==
  /\ Room /\ modem.fixing
  /\ modem.said = (IF fix \in Intermediate \cup {"final"} THEN "seen" ELSE "begun")
  /\ modem' = [modem EXCEPT !.said = "begun", !.fixing = ~(fix \notin Intermediate /\ modem.single)]
  /\ inbox' = Append(inbox, [msg |-> "fix", fix |-> fix])
  /\ UNCHANGED <<locEng, client, owed, crashes, past>>

EmergencyRequest ==
  /\ Aside /\ Mutes
  /\ inbox' = Append(inbox, [msg |-> "mute"])
  /\ UNCHANGED <<locEng, client, owed, modem, crashes, past>>

Crash ==
  /\ Room /\ modem.up /\ crashes < Restarts
  /\ crashes' = crashes + 1
  /\ modem' = [up |-> FALSE, fixing |-> FALSE, single |-> FALSE, mode |-> "INVALID", said |-> "off"]
  /\ inbox' = Append(inbox, [msg |-> "down"])
  /\ UNCHANGED <<locEng, client, owed, past>>

Recover ==
  /\ Room /\ ~modem.up
  /\ modem' = [modem EXCEPT !.up = TRUE]
  /\ inbox' = Append(inbox, [msg |-> "up"])
  /\ UNCHANGED <<locEng, client, owed, crashes, past>>

Next ==
  \/ Process
  \/ \E mode \in Modes, r \in Recurrences : Start(mode, r)
  \/ Stop
  \/ \E mask \in SUBSET Aids : mask # {} /\ DeleteAidingData(mask)
  \/ Says
  \/ \E used \in BOOLEAN : Satellites(used)
  \/ \E fix \in Fixes : Fix(fix)
  \/ EmergencyRequest \/ Crash \/ Recover

Spec == Init /\ [][Next]_vars

(***************************************************************************)
(* Properties                                                              *)
(***************************************************************************)

\* The record, the messages and the modem have their types.
TypeOK ==
  /\ inbox \in Seq(Messages)
  /\ mFixCriteria \in [mode : Modes \cup {"INVALID"}, recurrence : Recurrences \cup {"periodic"}]
  /\ mNavigating \in BOOLEAN
  /\ mute \in {"NONE", "WAIT", "IN_SESSION"}
  /\ engine_status \in {"NONE", "ON", "OFF"} /\ fix_session_status \in {"NONE", "BEGIN", "END"}
  /\ aiding \subseteq Aids /\ owed \subseteq Aids
  /\ nmea \in Caches
  /\ told \in {"begin", "end"} /\ client \in {"idle", "running"}
  /\ modem \in [up : BOOLEAN, fixing : BOOLEAN, single : BOOLEAN, mode : Modes \cup {"INVALID"},
               said : {"off", "on", "begun", "seen"}]
  /\ crashes \in 0..Restarts

\* While the engine navigates, the framework believes so: no late end of an
\* earlier session and no restart of the modem makes it give the session up.
NavigatingIsTold == mNavigating => told = "begin"

\* A mute hides positions only while an engine or a session is known to run:
\* it does not outlive the one session it is for.
MutedForSession == mute = "IN_SESSION" => engine_status = "ON" \/ fix_session_status = "BEGIN"

\* Nothing is on its way and the modem has said all there is to say.
Quiet == inbox = <<>> /\ modem.said \in (IF modem.fixing THEN {"begun", "seen"} ELSE {"off"})

\* When the modem has stopped and all is said, and it has not crashed, the
\* framework does not believe in a session that is over.  A fix of an earlier
\* session may end a session for one fix that the modem then goes on with.
EndIsTold == crashes = 0 => (Quiet /\ ~modem.fixing /\ ~mNavigating => told = "end")

\* "If the GPS engine is off, the aiding data will be deleted.  Otherwise, the
\* actual action will happen when gps engine is turned off."
\* (loc_eng_delete_aiding_data, loc_eng.cpp:2052): what was asked for has been
\* carried out, unless the modem crashed before it was, or a later deletion took
\* the place of one that was waiting (README, known divergences).
DeletedWhenOff ==
  crashes = 0 /\ "replaced" \notin past => (Quiet /\ modem.said = "off" => owed = {})

\* The modem never goes on fixing for a session that the engine has ended,
\* across any crash and restart; sessions for one fix are left out, which end
\* when a fix is reported and not when the modem stops.
NoLeakedFix == "single" \notin past => (Quiet /\ ~mNavigating => ~modem.fixing)

\* Every session was for periodic fixes, and the phone was never offline.
Periodic == "single" \notin past /\ "offline" \notin past

\* "If we crashed in the middle of navigating, we restart." (loc_eng.cpp:2794)
\* A session for periodic fixes that the engine counts as open runs in the
\* modem, unless startFix said that the phone is offline.
SessionRuns == Periodic => (Quiet /\ modem.up /\ mNavigating => modem.fixing)

\* "This sets the copy in adapter to modem" (loc_eng.cpp:2796): a session that
\* runs, runs in the mode the framework set, also when one crash interrupted it.
SessionHasMode ==
  Periodic /\ crashes <= 1 => (Quiet /\ modem.fixing => modem.mode \in Modes)

\* The next message is a fix that gets sentences.
GivesSentences == inbox # <<>> /\ Head(inbox).msg = "fix" /\ HasSentences(Head(inbox).fix)

\* "clear the cache so they can't be used again" (loc_eng_nmea.cpp:154): GSA and
\* GGA never show the satellites or the precision of an earlier fix, over
\* rejected fixes, mutes, crashes and new sessions; a second mute in a session
\* that is muted is left out (README, known divergences).
ShowsOwn ==
  GivesSentences /\ "remuted" \notin past =>
    LET s == Sentences(Head(inbox).fix) IN
      s.gsa.used # "old" /\ s.gsa.dop # "old" /\ s.gga.used # "old" /\ s.gga.dop # "old"

\* "A means autonomous": the sentences of a fix say in what mode the modem is,
\* and say it alike, while a periodic session runs and the modem has not
\* crashed; of a session for one fix, see AutonomousIsSaid.
LabelsMode ==
  GivesSentences /\ IsFull(Head(inbox).fix) /\ "single" \notin past /\ crashes = 0 /\ mNavigating =>
    LET s == Sentences(Head(inbox).fix) IN
      s.vtg.label = Label(TRUE, modem.mode) /\ s.rmc.label = s.vtg.label
        /\ s.gga.quality = Quality(TRUE, modem.mode)

\* The sentences of a fix agree with its satellites and with the session.
NmeaAgrees == ShowsOwn /\ LabelsMode

\* "A means autonomous" (loc_eng_nmea.cpp:270): a fix that comes while the engine
\* navigates in standalone mode is called autonomous, also when it is the only
\* one of its session.
AutonomousIsSaid ==
  GivesSentences /\ IsFull(Head(inbox).fix) /\ mNavigating /\ modem.mode = "STANDALONE" =>
    Sentences(Head(inbox).fix).vtg.label = "A"

\* The framework believes in a session exactly when the engine navigates.
FrameworkAgrees == TypeOK /\ NavigatingIsTold /\ EndIsTold

\* The modem fixes exactly when the engine navigates, in the mode that was set.
ModemAgrees == NoLeakedFix /\ SessionRuns /\ SessionHasMode
=============================================================================
