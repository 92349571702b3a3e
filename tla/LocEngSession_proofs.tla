------------------------- MODULE LocEngSession_proofs -------------------------
(***************************************************************************)
(* Proofs about LocEngSession, for any kinds of fixes, modes and aiding    *)
(* data, any number of restarts and queues of any length: what the engine  *)
(* and the framework believe of a session, how long a mute lasts, and that *)
(* aiding data are deleted.                                                *)
(*                                                                         *)
(* The last two of these speak of a time when nothing is on its way.  What *)
(* carries them is that an answer is behind: a fix, a begun session and an *)
(* engine that is on are followed in the queue by the report of their end, *)
(* unless the modem has still to say it.                                   *)
(*                                                                         *)
(* Then, by a second invariant on top of the first: that the session in    *)
(* the modem is the engine's, and that sentences are made of the right     *)
(* satellites.  What carries these is what stands in the queue before a    *)
(* start, before a fix, and between a restart and its being handled.       *)
(***************************************************************************)
EXTENDS LocEngSession, SequenceTheorems, TLAPS

\* A queue has a message of a set; each of a set S has one of a set T behind it.
InSeq(q, S) == \E i \in 1..Len(q) : q[i] \in S
Followed(q, S, T) ==
  \A i \in 1..Len(q) : q[i] \in S => \E j \in 1..Len(q) : j > i /\ q[j] \in T

Report(status) == {[msg |-> "status", status |-> status]}
FixReports == [msg : {"fix"}, fix : Fixes]
Restarting == [msg : {"down", "up"}]
Deletions(a) == [msg : {"delete"}, mask : {mask \in SUBSET Aids : a \in mask}]

ModemStates == [up : BOOLEAN, fixing : BOOLEAN, single : BOOLEAN, mode : Modes \cup {"INVALID"},
                said : {"off", "on", "begun", "seen"}]
USE DEF ModemStates

\* Before its first crash the modem is up, and nobody says otherwise.
Uncrashed == modem.up /\ ~InSeq(inbox, Restarting)

\* A fix is followed by the end of the session it comes from.
FixesEnd == modem.said \in {"begun", "seen"} \/ Followed(inbox, FixReports, Report("END"))

\* A session that is over, and that the framework believes in, has its end ahead.
UntoldEnds ==
  told = "begin" /\ ~mNavigating =>
    modem.said \in {"begun", "seen"} \/ InSeq(inbox, Report("END"))

\* An engine that is on, or is reported so, has its going off ahead.
OnEnds == modem.said # "off" \/ Followed(inbox, Report("ON"), Report("OFF"))
EngineEnds == engine_status = "ON" => modem.said # "off" \/ InSeq(inbox, Report("OFF"))

\* What is to be deleted waits in the engine for its going off, or in the queue.
AidsWait == aiding # {} => engine_status = "ON"
OwedIsKnown ==
  "replaced" \notin past => \A a \in owed : a \in aiding \/ InSeq(inbox, Deletions(a))

IInv ==
  /\ TypeOK
  /\ NavigatingIsTold
  /\ MutedForSession
  /\ crashes = 0 =>
       Uncrashed /\ FixesEnd /\ UntoldEnds /\ OnEnds /\ EngineEnds /\ AidsWait /\ OwedIsKnown

(***************************************************************************)
(* Queues.                                                                 *)
(***************************************************************************)
LEMMA InAppend ==
  ASSUME NEW M, NEW q \in Seq(M), NEW m \in M, NEW S
  PROVE  InSeq(Append(q, m), S) <=> InSeq(q, S) \/ m \in S
  BY DEF InSeq

LEMMA InTail ==
  ASSUME NEW M, NEW q \in Seq(M), q # <<>>, NEW S
  PROVE  InSeq(q, S) => Head(q) \in S \/ InSeq(Tail(q), S)
  <1> SUFFICES ASSUME NEW i \in 1..Len(q), q[i] \in S, Head(q) \notin S
               PROVE  InSeq(Tail(q), S)
    BY DEF InSeq
  <1>1. i # 1 /\ i - 1 \in 1..Len(Tail(q)) /\ Tail(q)[i - 1] = q[i]
    OBVIOUS
  <1>2. QED
    BY <1>1 DEF InSeq

LEMMA OfTail ==
  ASSUME NEW M, NEW q \in Seq(M), q # <<>>, NEW S
  PROVE  (Head(q) \in S => InSeq(q, S)) /\ (InSeq(Tail(q), S) => InSeq(q, S))
  <1>1. ASSUME Head(q) \in S PROVE InSeq(q, S)
    <2>1. 1 \in 1..Len(q) /\ q[1] = Head(q)
      OBVIOUS
    <2>2. QED
      BY <1>1, <2>1 DEF InSeq
  <1>2. ASSUME NEW i \in 1..Len(Tail(q)), Tail(q)[i] \in S PROVE InSeq(q, S)
    <2>1. i + 1 \in 1..Len(q) /\ q[i + 1] = Tail(q)[i]
      OBVIOUS
    <2>2. QED
      BY <1>2, <2>1 DEF InSeq
  <1>3. QED
    BY <1>1, <1>2 DEF InSeq

LEMMA FollowedAppend ==
  ASSUME NEW M, NEW q \in Seq(M), NEW m \in M, NEW S, NEW T, m \notin S
  PROVE  Followed(q, S, T) \/ m \in T => Followed(Append(q, m), S, T)
  <1> DEFINE r == Append(q, m)
  <1> SUFFICES ASSUME Followed(q, S, T) \/ m \in T, NEW i \in 1..Len(r), r[i] \in S
               PROVE  \E j \in 1..Len(r) : j > i /\ r[j] \in T
    BY DEF Followed
  <1>1. i \in 1..Len(q) /\ q[i] \in S /\ Len(r) = Len(q) + 1 /\ r[Len(r)] = m
    OBVIOUS
  <1>2. CASE m \in T
    BY <1>1, <1>2
  <1>3. CASE Followed(q, S, T)
    <2>1. PICK j \in 1..Len(q) : j > i /\ q[j] \in T
      BY <1>1, <1>3 DEF Followed
    <2>2. j \in 1..Len(r) /\ r[j] = q[j]
      BY <1>1
    <2>3. QED
      BY <2>1, <2>2
  <1>4. QED
    BY <1>2, <1>3

LEMMA FollowedTail ==
  ASSUME NEW M, NEW q \in Seq(M), q # <<>>, NEW S, NEW T, Followed(q, S, T)
  PROVE  Followed(Tail(q), S, T) /\ (Head(q) \in S => InSeq(Tail(q), T))
  <1> DEFINE r == Tail(q)
  <1>0. Len(r) = Len(q) - 1 /\ Len(q) >= 1 /\ Head(q) = q[1] /\ \A k \in 1..Len(r) : r[k] = q[k + 1]
    OBVIOUS
  <1>1. ASSUME NEW i \in 1..Len(r), r[i] \in S
        PROVE  \E j \in 1..Len(r) : j > i /\ r[j] \in T
    <2>1. i + 1 \in 1..Len(q) /\ q[i + 1] \in S
      BY <1>0, <1>1
    <2>2. PICK j \in 1..Len(q) : j > i + 1 /\ q[j] \in T
      BY <2>1 DEF Followed
    <2>3. j - 1 \in 1..Len(r) /\ r[j - 1] = q[j] /\ j - 1 > i
      BY <1>0, <2>2
    <2>4. QED
      BY <2>2, <2>3
  <1>2. ASSUME Head(q) \in S PROVE InSeq(r, T)
    <2>1. 1 \in 1..Len(q) /\ q[1] \in S
      BY <1>0, <1>2
    <2>2. PICK j \in 1..Len(q) : j > 1 /\ q[j] \in T
      BY <2>1 DEF Followed
    <2>3. j - 1 \in 1..Len(r) /\ r[j - 1] = q[j]
      BY <1>0, <2>2
    <2>4. QED
      BY <2>2, <2>3 DEF InSeq
  <1>3. QED
    BY <1>1, <1>2 DEF Followed

(***************************************************************************)
(* The initial states.                                                     *)
(***************************************************************************)
LEMMA InitIInv == Init => IInv
  <1> SUFFICES ASSUME Init PROVE IInv
    OBVIOUS
  <1> USE SessionAssumption DEF Init
  <1>1. TypeOK
    <2>1. inbox \in Seq(Messages)
      OBVIOUS
    <2>2. nmea \in Caches
      BY DEF Caches, Empty
    <2>3. mFixCriteria \in [mode : Modes \cup {"INVALID"}, recurrence : Recurrences \cup {"periodic"}]
      OBVIOUS
    <2>4. modem \in ModemStates
      OBVIOUS
    <2>5. crashes \in 0..Restarts
      BY DEF SessionAssumption
    <2>6. QED
      BY <2>1, <2>2, <2>3, <2>4, <2>5 DEF TypeOK
  <1>2. NavigatingIsTold /\ MutedForSession
    BY DEF NavigatingIsTold, MutedForSession
  <1>3. Uncrashed /\ FixesEnd /\ UntoldEnds /\ OnEnds /\ EngineEnds /\ AidsWait /\ OwedIsKnown
    BY DEF Uncrashed, FixesEnd, UntoldEnds, OnEnds, EngineEnds, AidsWait, OwedIsKnown, InSeq, Followed
  <1>4. QED
    BY <1>1, <1>2, <1>3 DEF IInv

(***************************************************************************)
(* What the framework and the modem do adds messages to the queue.         *)
(***************************************************************************)
LEMMA MessageTypes ==
  /\ \A m \in {"start", "stop", "mute", "down", "up"} : [msg |-> m] \in Messages
  /\ \A mode \in Modes, r \in Recurrences : [msg |-> "mode", mode |-> mode, recurrence |-> r] \in Messages
  /\ \A status \in Statuses : [msg |-> "status", status |-> status] \in Messages
  /\ \A used \in BOOLEAN : [msg |-> "svs", used |-> used] \in Messages
  /\ \A fix \in Fixes : [msg |-> "fix", fix |-> fix] \in Messages
  /\ \A mask \in SUBSET Aids : [msg |-> "delete", mask |-> mask] \in Messages
  BY DEF Messages

\* What is believed of session and mute does not depend on the queue.
LEMMA BeliefsKept ==
  ASSUME IInv, UNCHANGED <<mNavigating, mute, engine_status, fix_session_status, told>>
  PROVE  NavigatingIsTold' /\ MutedForSession'
  BY DEF IInv, NavigatingIsTold, MutedForSession

\* A message that reports no status adds nothing that must be followed, but a
\* fix, which comes of a session that has begun.
LEMMA Sent ==
  ASSUME TypeOK, Uncrashed, FixesEnd, UntoldEnds, OnEnds, EngineEnds, AidsWait,
         NEW m \in Messages, inbox' = Append(inbox, m), m \notin Restarting, m \notin Report("ON"),
         modem'.up = modem.up, UNCHANGED <<told, mNavigating, engine_status, aiding>>,
         modem'.said = modem.said \/ modem'.said \in {"begun", "seen"},
         m \in FixReports => modem'.said \in {"begun", "seen"}
  PROVE  Uncrashed' /\ FixesEnd' /\ UntoldEnds' /\ OnEnds' /\ EngineEnds' /\ AidsWait'
  <1>0. inbox \in Seq(Messages)
    BY DEF TypeOK
  <1>1. \A S : InSeq(inbox', S) <=> InSeq(inbox, S) \/ m \in S
    BY <1>0, InAppend
  <1>2. \A S, T : m \notin S /\ Followed(inbox, S, T) => Followed(inbox', S, T)
    BY <1>0, FollowedAppend
  <1>3. Uncrashed' /\ AidsWait'
    BY <1>1 DEF Uncrashed, AidsWait
  <1>4. FixesEnd'
    BY <1>2 DEF FixesEnd
  <1>5. OnEnds' /\ EngineEnds' /\ UntoldEnds'
    BY <1>1, <1>2 DEF OnEnds, EngineEnds, UntoldEnds
  <1>6. QED
    BY <1>3, <1>4, <1>5

\* Aiding data that are owed are known, when nothing but a deletion adds to them.
LEMMA OwedKept ==
  ASSUME TypeOK, OwedIsKnown, NEW m \in Messages, inbox' = Append(inbox, m), aiding' = aiding,
         past \subseteq past', \A a \in owed' : a \in owed \/ m \in Deletions(a)
  PROVE  OwedIsKnown'
  <1>1. \A S : InSeq(inbox', S) <=> InSeq(inbox, S) \/ m \in S
    BY InAppend DEF TypeOK
  <1>2. QED
    BY <1>1 DEF OwedIsKnown

LEMMA StartKeeps ==
  ASSUME IInv, NEW mode \in Modes, NEW r \in Recurrences, Start(mode, r)
  PROVE  IInv'
  <1> DEFINE a == [msg |-> "mode", mode |-> mode, recurrence |-> r]
             b == [msg |-> "start"]
             q == Append(inbox, a)
  <1>1. a \in Messages /\ b \in Messages
    BY MessageTypes
  <1>2. inbox \in Seq(Messages) /\ q \in Seq(Messages)
    BY <1>1 DEF IInv, TypeOK
  <1>3. inbox' = Append(q, b)
    <2>1. inbox' = inbox \o <<a, b>>
      BY DEF Start
    <2>2. QED
      BY <1>1, <1>2, <2>1
  <1>4. TypeOK' /\ NavigatingIsTold' /\ MutedForSession'
    <2>1. inbox' \in Seq(Messages)
      BY <1>1, <1>2, <1>3
    <2>2. QED
      BY <2>1, BeliefsKept DEF IInv, TypeOK, Start, locEng
  <1>5. ASSUME crashes = 0
        PROVE  (Uncrashed /\ FixesEnd /\ UntoldEnds /\ OnEnds /\ EngineEnds /\ AidsWait /\ OwedIsKnown)'
    <2>1. \A S : InSeq(inbox', S) <=> InSeq(inbox, S) \/ a \in S \/ b \in S
      <3> SUFFICES ASSUME NEW S PROVE InSeq(inbox', S) <=> InSeq(inbox, S) \/ a \in S \/ b \in S
        OBVIOUS
      <3>1. InSeq(q, S) <=> InSeq(inbox, S) \/ a \in S
        BY <1>1, <1>2, InAppend
      <3>2. InSeq(inbox', S) <=> InSeq(q, S) \/ b \in S
        BY <1>1, <1>2, <1>3, InAppend
      <3> HIDE DEF a, b, q
      <3>3. QED
        BY <3>1, <3>2
    <2>2. \A S, T : a \notin S /\ b \notin S /\ Followed(inbox, S, T) => Followed(inbox', S, T)
      <3> SUFFICES ASSUME NEW S, NEW T, a \notin S, b \notin S, Followed(inbox, S, T)
                   PROVE  Followed(inbox', S, T)
        OBVIOUS
      <3>1. Followed(q, S, T)
        BY <1>1, <1>2, FollowedAppend
      <3>2. QED
        BY <1>1, <1>2, <1>3, <3>1, FollowedAppend
    <2>3. a \notin Restarting /\ b \notin Restarting
      BY DEF Restarting
    <2>4. a \notin FixReports /\ b \notin FixReports /\ a \notin Report("ON") /\ b \notin Report("ON")
      BY DEF FixReports, Report
    <2>5. UNCHANGED <<modem, told, mNavigating, engine_status, aiding, owed>> /\ past \subseteq past'
      BY DEF Start, locEng
    <2>6. QED
      BY <1>5, <2>1, <2>2, <2>3, <2>4, <2>5
         DEF IInv, Uncrashed, FixesEnd, UntoldEnds, OnEnds, EngineEnds, AidsWait, OwedIsKnown
  <1>6. crashes' = crashes
    BY DEF Start
  <1>7. QED
    BY <1>4, <1>5, <1>6 DEF IInv

\* A stop, a deletion, an emergency, and what the modem reports of satellites
\* and fixes.
LEMMA RequestKeeps ==
  ASSUME IInv, Stop \/ EmergencyRequest
                 \/ (\E mask \in SUBSET Aids : DeleteAidingData(mask))
                 \/ (\E used \in BOOLEAN : Satellites(used))
                 \/ (\E fix \in Fixes : Fix(fix))
  PROVE  IInv'
  <1>1. PICK m \in Messages :
          /\ inbox' = Append(inbox, m)
          /\ m.msg \in {"stop", "mute", "delete", "svs", "fix"}
          /\ m \in FixReports => modem'.said \in {"begun", "seen"}
          /\ \A a \in owed' : a \in owed \/ m \in Deletions(a)
    <2>1. CASE Stop
      BY <2>1, MessageTypes DEF Stop, FixReports
    <2>2. CASE EmergencyRequest
      BY <2>2, MessageTypes DEF EmergencyRequest, FixReports
    <2>3. ASSUME NEW mask \in SUBSET Aids, DeleteAidingData(mask)
          PROVE  \E m \in Messages :
                   /\ inbox' = Append(inbox, m)
                   /\ m.msg \in {"stop", "mute", "delete", "svs", "fix"}
                   /\ m \in FixReports => modem'.said \in {"begun", "seen"}
                   /\ \A a \in owed' : a \in owed \/ m \in Deletions(a)
      <3> DEFINE m == [msg |-> "delete", mask |-> mask]
      <3>1. m \in Messages /\ m.msg = "delete" /\ m \notin FixReports
        BY MessageTypes DEF FixReports
      <3>2. \A a \in mask : m \in Deletions(a)
        BY DEF Deletions
      <3>3. QED
        BY <2>3, <3>1, <3>2 DEF DeleteAidingData
    <2>4. ASSUME NEW used \in BOOLEAN, Satellites(used)
          PROVE  [msg |-> "svs", used |-> used] \in Messages
                   /\ [msg |-> "svs", used |-> used] \notin FixReports
                   /\ inbox' = Append(inbox, [msg |-> "svs", used |-> used]) /\ owed' = owed
      BY <2>4, MessageTypes DEF Satellites, FixReports
    <2>5. ASSUME NEW fix \in Fixes, Fix(fix)
          PROVE  [msg |-> "fix", fix |-> fix] \in Messages /\ modem'.said = "begun"
                   /\ inbox' = Append(inbox, [msg |-> "fix", fix |-> fix]) /\ owed' = owed
      BY <2>5, MessageTypes DEF Fix, IInv, TypeOK
    <2>6. QED
      BY <2>1, <2>2, <2>3, <2>4, <2>5
  <1>2. /\ UNCHANGED <<locEng, crashes, past>> /\ owed' \subseteq Aids /\ modem'.up = modem.up
        /\ modem'.said = modem.said \/ modem'.said \in {"begun", "seen"}
    BY DEF IInv, TypeOK, Stop, EmergencyRequest, DeleteAidingData, Satellites, Fix
  <1>3. client' \in {"idle", "running"} /\ modem' \in ModemStates
    BY DEF IInv, TypeOK, Stop, EmergencyRequest, DeleteAidingData, Satellites, Fix
  <1>4. inbox' \in Seq(Messages)
    BY <1>1 DEF IInv, TypeOK
  <1>5. TypeOK' /\ NavigatingIsTold' /\ MutedForSession'
    BY <1>2, <1>3, <1>4, BeliefsKept DEF IInv, TypeOK, locEng
  <1>6. ASSUME crashes = 0
        PROVE  (Uncrashed /\ FixesEnd /\ UntoldEnds /\ OnEnds /\ EngineEnds /\ AidsWait /\ OwedIsKnown)'
    <2>1. UNCHANGED <<told, mNavigating, engine_status, aiding>>
      BY <1>2 DEF locEng
    <2>2. TypeOK /\ Uncrashed /\ FixesEnd /\ UntoldEnds /\ OnEnds /\ EngineEnds /\ AidsWait /\ OwedIsKnown
      BY <1>6 DEF IInv
    <2>3. m \notin Restarting /\ m \notin Report("ON")
      BY <1>1 DEF Restarting, Report
    <2>4. (Uncrashed /\ FixesEnd /\ UntoldEnds /\ OnEnds /\ EngineEnds /\ AidsWait)'
      BY <1>1, <1>2, <2>1, <2>2, <2>3, Sent
    <2>5. OwedIsKnown'
      BY <1>1, <1>2, <2>1, <2>2, OwedKept
    <2>6. QED
      BY <2>4, <2>5
  <1>7. QED
    BY <1>2, <1>5, <1>6 DEF IInv

\* The modem's reports of engine and session.
LEMMA SayKeeps ==
  ASSUME IInv, Says
  PROVE  IInv'
  <1>1. PICK status \in Statuses :
          /\ inbox' = Append(inbox, [msg |-> "status", status |-> status])
          /\ \/ status = "ON"    /\ modem.said = "off" /\ modem'.said = "on"
             \/ status = "BEGIN" /\ modem.said = "on" /\ modem'.said = "begun"
             \/ status = "END"   /\ modem.said \in {"begun", "seen"} /\ modem'.said = "on"
             \/ status = "OFF"   /\ modem.said = "on" /\ modem'.said = "off"
    BY DEF Says, Say, Statuses, IInv, TypeOK
  <1>2. UNCHANGED <<locEng, client, owed, crashes, past>> /\ modem' = [modem EXCEPT !.said = modem'.said]
    BY DEF Says, Say, IInv, TypeOK
  <1> DEFINE m == [msg |-> "status", status |-> status]
  <1>3. m \in Messages /\ inbox \in Seq(Messages)
    BY MessageTypes DEF IInv, TypeOK
  <1>4. modem' \in ModemStates /\ modem'.up = modem.up
    BY <1>1, <1>2 DEF IInv, TypeOK
  <1>5. TypeOK' /\ NavigatingIsTold' /\ MutedForSession'
    <2>1. inbox' \in Seq(Messages)
      BY <1>1, <1>3
    <2>2. QED
      BY <1>2, <1>4, <2>1, BeliefsKept DEF IInv, TypeOK, locEng
  <1>6. ASSUME crashes = 0
        PROVE  (Uncrashed /\ FixesEnd /\ UntoldEnds /\ OnEnds /\ EngineEnds /\ AidsWait /\ OwedIsKnown)'
    <2>1. UNCHANGED <<told, mNavigating, engine_status, aiding, owed, past>>
      BY <1>2 DEF locEng
    <2>2. TypeOK /\ Uncrashed /\ FixesEnd /\ UntoldEnds /\ OnEnds /\ EngineEnds /\ AidsWait /\ OwedIsKnown
      BY <1>6 DEF IInv
    <2>3. \A S : InSeq(inbox', S) <=> InSeq(inbox, S) \/ m \in S
      BY <1>1, <1>3, InAppend
    <2>4. m \notin Restarting /\ m \notin FixReports /\ (m \in Report("ON") => status = "ON")
      BY DEF Restarting, FixReports, Report
    <2>5. (status = "END" => m \in Report("END")) /\ (status = "OFF" => m \in Report("OFF"))
      BY DEF Report
    <2>6. Uncrashed' /\ AidsWait' /\ OwedIsKnown'
      BY <1>4, <2>1, <2>2, <2>3, <2>4 DEF Uncrashed, AidsWait, OwedIsKnown
    <2>7. FixesEnd' /\ UntoldEnds'
      <3>1. modem'.said \in {"begun", "seen"} \/ Followed(inbox', FixReports, Report("END"))
        BY <1>1, <1>3, <2>2, <2>4, <2>5, FollowedAppend DEF FixesEnd
      <3>2. QED
        BY <1>1, <2>1, <2>2, <2>3, <2>5, <3>1 DEF FixesEnd, UntoldEnds
    <2>8. OnEnds' /\ EngineEnds'
      <3>1. CASE status = "OFF"
        <4>1. Followed(inbox', Report("ON"), Report("OFF"))
          BY <1>1, <1>3, <2>4, <2>5, <3>1, FollowedAppend
        <4>2. QED
          BY <1>1, <2>3, <2>5, <3>1, <4>1 DEF OnEnds, EngineEnds
      <3>2. CASE status # "OFF"
        BY <1>1, <3>2 DEF OnEnds, EngineEnds
      <3>3. QED
        BY <3>1, <3>2
    <2>9. QED
      BY <2>6, <2>7, <2>8
  <1>7. QED
    BY <1>2, <1>5, <1>6 DEF IInv

\* A crash ends what is known of the queue.
LEMMA CrashKeeps ==
  ASSUME IInv, Crash \/ Recover
  PROVE  IInv'
  <1>1. PICK m \in Messages : inbox' = Append(inbox, m)
    BY MessageTypes DEF Crash, Recover
  <1>2. inbox' \in Seq(Messages)
    BY <1>1 DEF IInv, TypeOK
  <1>3. UNCHANGED <<locEng, client, owed, past>>
    BY DEF Crash, Recover
  <1>4. modem' \in ModemStates
    <2>1. CASE Crash
      BY <2>1 DEF Crash
    <2>2. CASE Recover
      BY <2>2 DEF Recover, IInv, TypeOK
    <2>3. QED
      BY <2>1, <2>2
  <1>5. crashes' \in 0..Restarts
    <2>1. crashes \in 0..Restarts /\ Restarts \in Nat
      BY SessionAssumption DEF IInv, TypeOK, SessionAssumption
    <2>2. QED
      BY <2>1 DEF Crash, Recover
  <1>6. TypeOK' /\ NavigatingIsTold' /\ MutedForSession'
    BY <1>2, <1>3, <1>4, <1>5, BeliefsKept DEF IInv, TypeOK, locEng
  <1>7. crashes' # 0
    BY SessionAssumption DEF Crash, Recover, IInv, TypeOK, Uncrashed
  <1>8. QED
    BY <1>6, <1>7 DEF IInv

(***************************************************************************)
(* The adapter's thread takes the first message.                           *)
(***************************************************************************)
LEMMA Taken ==
  ASSUME TypeOK, inbox # <<>>, inbox' = Tail(inbox)
  PROVE  /\ inbox' \in Seq(Messages) /\ Head(inbox) \in Messages
         /\ \A S : InSeq(inbox, S) => Head(inbox) \in S \/ InSeq(inbox', S)
         /\ \A S : Head(inbox) \in S \/ InSeq(inbox', S) => InSeq(inbox, S)
         /\ \A S, T : Followed(inbox, S, T) =>
              Followed(inbox', S, T) /\ (Head(inbox) \in S => InSeq(inbox', T))
  <1>1. inbox \in Seq(Messages)
    BY DEF TypeOK
  <1>2. inbox' \in Seq(Messages) /\ Head(inbox) \in Messages
    BY <1>1
  <1>3. \A S : InSeq(inbox, S) => Head(inbox) \in S \/ InSeq(inbox', S)
    BY <1>1, InTail
  <1>4. \A S : Head(inbox) \in S \/ InSeq(inbox', S) => InSeq(inbox, S)
    BY <1>1, OfTail
  <1>5. \A S, T : Followed(inbox, S, T) =>
          Followed(inbox', S, T) /\ (Head(inbox) \in S => InSeq(inbox', T))
    BY <1>1, FollowedTail
  <1>6. QED
    BY <1>2, <1>3, <1>4, <1>5

\* What a message carries.
LEMMA Carried ==
  ASSUME NEW m \in Messages
  PROVE  /\ m.msg = "mode" => m.mode \in Modes /\ m.recurrence \in Recurrences
         /\ m.msg = "status" => m.status \in Statuses /\ m = [msg |-> "status", status |-> m.status]
         /\ m.msg = "svs" => m.used \in BOOLEAN
         /\ m.msg = "fix" => m.fix \in Fixes /\ m \in FixReports
         /\ m.msg = "delete" => m.mask \in SUBSET Aids
         /\ \A status : m \in Report(status) <=> m.msg = "status" /\ m.status = status
         /\ \A a : m \in Deletions(a) <=> m.msg = "delete" /\ a \in m.mask
         /\ m.msg \in {"down", "up"} => m \in Restarting
  <1>1. CASE m \in [msg : {"start", "stop", "mute", "down", "up"}]
    BY <1>1 DEF Report, Deletions, Restarting
  <1>2. CASE m \in [msg : {"mode"}, mode : Modes, recurrence : Recurrences]
    BY <1>2 DEF Report, Deletions
  <1>3. CASE m \in [msg : {"status"}, status : Statuses]
    BY <1>3 DEF Report, Deletions
  <1>4. CASE m \in [msg : {"svs"}, used : BOOLEAN]
    BY <1>4 DEF Report, Deletions
  <1>5. CASE m \in [msg : {"fix"}, fix : Fixes]
    BY <1>5 DEF Report, Deletions, FixReports
  <1>6. CASE m \in [msg : {"delete"}, mask : SUBSET Aids]
    BY <1>6 DEF Report, Deletions
  <1>7. QED
    BY <1>1, <1>2, <1>3, <1>4, <1>5, <1>6 DEF Messages

\* What stays of the queue's part of the invariant.
LEMMA TakenKeeps ==
  ASSUME IInv, crashes = 0, inbox # <<>>, inbox' = Tail(inbox),
         modem'.said = modem.said, modem'.up = modem.up
  PROVE  /\ Uncrashed' /\ FixesEnd' /\ OnEnds'
         /\ engine_status' = engine_status /\ Head(inbox) \notin Report("OFF") => EngineEnds'
         /\ told' = told /\ mNavigating' = mNavigating /\ Head(inbox) \notin Report("END") => UntoldEnds'
         /\ engine_status' = engine_status /\ aiding' = aiding => AidsWait'
         /\ aiding' = aiding /\ owed' = owed /\ past \subseteq past' /\ Head(inbox).msg # "delete"
              => OwedIsKnown'
  <1>1. TypeOK /\ Uncrashed /\ FixesEnd /\ UntoldEnds /\ OnEnds /\ EngineEnds /\ AidsWait /\ OwedIsKnown
    BY DEF IInv
  <1>2. Uncrashed'
    BY <1>1, Taken DEF Uncrashed
  <1>3. FixesEnd' /\ OnEnds'
    BY <1>1, Taken DEF FixesEnd, OnEnds
  <1>4. engine_status' = engine_status /\ Head(inbox) \notin Report("OFF") => EngineEnds'
    BY <1>1, Taken DEF EngineEnds
  <1>5. told' = told /\ mNavigating' = mNavigating /\ Head(inbox) \notin Report("END") => UntoldEnds'
    BY <1>1, Taken DEF UntoldEnds
  <1>6. engine_status' = engine_status /\ aiding' = aiding => AidsWait'
    BY <1>1 DEF AidsWait
  <1>7. aiding' = aiding /\ owed' = owed /\ past \subseteq past' /\ Head(inbox).msg # "delete" => OwedIsKnown'
    BY <1>1, Taken, Carried DEF OwedIsKnown
  <1>8. QED
    BY <1>2, <1>3, <1>4, <1>5, <1>6, <1>7

(***************************************************************************)
(* The messages, one at a time.                                            *)
(***************************************************************************)
\* The part of the invariant that speaks of a modem that has not crashed.
UncrashedInv ==
  Uncrashed /\ FixesEnd /\ UntoldEnds /\ OnEnds /\ EngineEnds /\ AidsWait /\ OwedIsKnown

LEMMA Starting ==
  ASSUME TypeOK, NavigatingIsTold, NEW m \in ModemStates, StartNavigating(m)
  PROVE  /\ modem' \in ModemStates /\ modem'.said = m.said /\ modem'.up = m.up
         /\ mNavigating' \in BOOLEAN /\ told' \in {"begin", "end"}
         /\ mNavigating' => told' = "begin"
         /\ ~mNavigating' => told' = told
         /\ past \subseteq past'
  <1>1. PICK answer \in Answers :
          /\ modem' = IF answer = "SUCCESS"
                      THEN [m EXCEPT !.fixing = TRUE, !.single = (mFixCriteria.recurrence = "single")]
                      ELSE m
          /\ mNavigating' = (answer # "GENERAL")
          /\ told' = IF answer = "GENERAL" THEN told ELSE "begin"
          /\ past' = IF answer = "OFFLINE" THEN past \cup {"offline"} ELSE past
    BY DEF StartNavigating
  <1>2. modem' \in ModemStates /\ modem'.said = m.said /\ modem'.up = m.up
    BY <1>1
  <1>3. QED
    BY <1>1, <1>2 DEF TypeOK

\* What a message leaves of the types, for those that change little.
LEMMA RestTyped ==
  ASSUME IInv, inbox # <<>>, inbox' = Tail(inbox), UNCHANGED <<client, crashes>>,
         modem' \in ModemStates, owed' \subseteq Aids, aiding' \subseteq Aids,
         mNavigating' \in BOOLEAN, told' \in {"begin", "end"}, nmea' \in Caches,
         mute' \in {"NONE", "WAIT", "IN_SESSION"},
         engine_status' \in {"NONE", "ON", "OFF"}, fix_session_status' \in {"NONE", "BEGIN", "END"},
         mFixCriteria' \in [mode : Modes \cup {"INVALID"}, recurrence : Recurrences \cup {"periodic"}]
  PROVE  TypeOK'
  BY Taken DEF IInv, TypeOK

LEMMA ModeKeeps ==
  ASSUME IInv, inbox # <<>>, inbox' = Tail(inbox), UNCHANGED <<client, crashes>>,
         Head(inbox).msg = "mode", PositionMode(Head(inbox).mode, Head(inbox).recurrence)
  PROVE  IInv'
  <1>1. TypeOK /\ Head(inbox) \in Messages
    BY Taken DEF IInv
  <1>2. Head(inbox).mode \in Modes /\ Head(inbox).recurrence \in Recurrences
    BY <1>1, Carried
  <1>3. modem' \in ModemStates /\ modem'.said = modem.said /\ modem'.up = modem.up
    BY <1>1, <1>2 DEF PositionMode, TypeOK
  <1>4. TypeOK'
    BY <1>1, <1>2, <1>3, RestTyped DEF PositionMode, TypeOK
  <1>5. NavigatingIsTold' /\ MutedForSession'
    BY BeliefsKept DEF PositionMode
  <1>6. crashes = 0 => UncrashedInv'
    BY <1>1, <1>3, TakenKeeps, Carried DEF PositionMode, UncrashedInv
  <1>7. QED
    BY <1>4, <1>5, <1>6 DEF IInv, UncrashedInv

LEMMA StartFixKeeps ==
  ASSUME IInv, inbox # <<>>, inbox' = Tail(inbox), UNCHANGED <<client, crashes>>,
         Head(inbox).msg = "start", StartFix
  PROVE  IInv'
  <1>1. TypeOK /\ NavigatingIsTold /\ Head(inbox) \in Messages
    BY Taken DEF IInv
  <1>2. /\ modem' \in ModemStates /\ modem'.said = modem.said /\ modem'.up = modem.up
        /\ mNavigating' \in BOOLEAN /\ told' \in {"begin", "end"}
        /\ mNavigating' => told' = "begin"
        /\ ~mNavigating' => told' = told /\ ~mNavigating
        /\ past \subseteq past'
    <2>1. CASE mNavigating
      BY <1>1, <2>1 DEF StartFix, TypeOK, NavigatingIsTold
    <2>2. CASE ~mNavigating
      BY <1>1, <2>2, Starting DEF StartFix, TypeOK
    <2>3. QED
      BY <2>1, <2>2
  <1>3. TypeOK'
    BY <1>1, <1>2, RestTyped DEF StartFix, TypeOK
  <1>4. NavigatingIsTold' /\ MutedForSession'
    BY <1>2 DEF IInv, NavigatingIsTold, MutedForSession, StartFix
  <1>5. ASSUME crashes = 0 PROVE UncrashedInv'
    <2>1. (Uncrashed /\ FixesEnd /\ OnEnds /\ EngineEnds /\ AidsWait /\ OwedIsKnown)'
      BY <1>1, <1>2, <1>5, TakenKeeps, Carried DEF StartFix
    <2>2. UntoldEnds'
      BY <1>1, <1>2, <1>5, Taken, Carried DEF UntoldEnds, IInv
    <2>3. QED
      BY <2>1, <2>2 DEF UncrashedInv
  <1>6. QED
    BY <1>3, <1>4, <1>5 DEF IInv, UncrashedInv

LEMMA StopFixKeeps ==
  ASSUME IInv, inbox # <<>>, inbox' = Tail(inbox), UNCHANGED <<client, crashes>>,
         Head(inbox).msg = "stop", StopFix
  PROVE  IInv'
  <1>1. TypeOK /\ Head(inbox) \in Messages
    BY Taken DEF IInv
  <1>2. /\ modem' \in ModemStates /\ modem'.said = modem.said /\ modem'.up = modem.up
        /\ mNavigating' = FALSE /\ told' \in {"begin", "end"}
        /\ told' # "end" => told' = told /\ (mNavigating => ~modem.up)
        /\ mFixCriteria' \in [mode : Modes \cup {"INVALID"}, recurrence : Recurrences \cup {"periodic"}]
    BY <1>1 DEF StopFix, Halted, Invalid, TypeOK
  <1>3. TypeOK'
    BY <1>1, <1>2, RestTyped DEF StopFix, TypeOK
  <1>4. NavigatingIsTold' /\ MutedForSession'
    BY <1>2 DEF IInv, NavigatingIsTold, MutedForSession, StopFix
  <1>5. ASSUME crashes = 0 PROVE UncrashedInv'
    <2>1. (Uncrashed /\ FixesEnd /\ OnEnds /\ EngineEnds /\ AidsWait /\ OwedIsKnown)'
      BY <1>1, <1>2, <1>5, TakenKeeps, Carried DEF StopFix
    <2>2. UntoldEnds'
      BY <1>1, <1>2, <1>5, Taken, Carried DEF UntoldEnds, Uncrashed, IInv
    <2>3. QED
      BY <2>1, <2>2 DEF UncrashedInv
  <1>6. QED
    BY <1>3, <1>4, <1>5 DEF IInv, UncrashedInv

\* A report of the status, with or without the deletion that follows it.
LEMMA Statused ==
  ASSUME TypeOK, MutedForSession, NEW status \in Statuses, ReportStatus(status)
  PROVE  /\ MutedForSession'
         /\ mute' \in {"NONE", "WAIT", "IN_SESSION"}
         /\ engine_status' \in {"NONE", "ON", "OFF"} /\ fix_session_status' \in {"NONE", "BEGIN", "END"}
         /\ status = "END" => mute' # "IN_SESSION"
  BY DEF TypeOK, MutedForSession, Statuses, ReportStatus, Muted

LEMMA StatusKeeps ==
  ASSUME IInv, inbox # <<>>, inbox' = Tail(inbox), UNCHANGED <<client, crashes>>,
         Head(inbox).msg = "status", Status(Head(inbox).status)
  PROVE  IInv'
  <1> DEFINE status == Head(inbox).status
  <1>1. TypeOK /\ NavigatingIsTold /\ MutedForSession /\ Head(inbox) \in Messages
    BY Taken DEF IInv
  <1>2. status \in Statuses /\ ReportStatus(status)
    BY <1>1, Carried DEF Status
  <1>3. /\ aiding' \subseteq Aids /\ owed' \subseteq Aids
        /\ aiding' # {} => engine_status' = "ON"
        /\ \A a \in owed' : a \in owed
        /\ modem.up => \A a \in owed' : a \in aiding => a \in aiding'
    BY <1>1 DEF Status, UpdateAiding, TypeOK
  <1>4. told' \in {"begin", "end"} /\ (mNavigating' => told' = "begin")
        /\ (~mNavigating => told' \in {told, "end"} /\ (status = "END" => told' = "end"))
    BY <1>1, <1>2, Statused DEF Status, Told, NavigatingIsTold, TypeOK
  <1>5. TypeOK'
    BY <1>1, <1>2, <1>3, <1>4, Statused, RestTyped DEF Status, TypeOK
  <1>6. NavigatingIsTold' /\ MutedForSession'
    BY <1>1, <1>2, <1>4, Statused DEF NavigatingIsTold
  <1>7. ASSUME crashes = 0 PROVE UncrashedInv'
    <2>1. UncrashedInv /\ UNCHANGED <<mNavigating, modem, past>>
      BY <1>7 DEF IInv, UncrashedInv, Status
    <2>2. (Uncrashed /\ FixesEnd /\ OnEnds)'
      BY <1>7, <2>1, TakenKeeps
    <2>3. UntoldEnds'
      BY <1>1, <1>4, <2>1, Taken, Carried DEF UncrashedInv, UntoldEnds
    <2>4. EngineEnds'
      <3>1. CASE status = "ON"
        BY <1>1, <2>1, <3>1, Taken, Carried DEF UncrashedInv, OnEnds, EngineEnds
      <3>2. CASE status = "OFF"
        BY <1>2, <3>2 DEF ReportStatus, EngineEnds
      <3>3. CASE status \notin {"ON", "OFF"}
        BY <1>1, <1>2, <1>7, <2>1, <3>3, TakenKeeps, Carried DEF ReportStatus
      <3>4. QED
        BY <3>1, <3>2, <3>3
    <2>5. AidsWait' /\ OwedIsKnown'
      BY <1>1, <1>3, <2>1, Taken, Carried DEF UncrashedInv, Uncrashed, AidsWait, OwedIsKnown
    <2>6. QED
      BY <2>2, <2>3, <2>4, <2>5 DEF UncrashedInv
  <1>8. QED
    BY <1>5, <1>6, <1>7 DEF IInv, UncrashedInv

LEMMA DeleteKeeps ==
  ASSUME IInv, inbox # <<>>, inbox' = Tail(inbox), UNCHANGED <<client, crashes>>,
         Head(inbox).msg = "delete", DelAidData(Head(inbox).mask)
  PROVE  IInv'
  <1> DEFINE mask == Head(inbox).mask
  <1>1. TypeOK /\ Head(inbox) \in Messages /\ mask \subseteq Aids
    BY Taken, Carried DEF IInv
  <1>2. /\ aiding' \subseteq Aids /\ owed' \subseteq Aids
        /\ aiding' # {} => engine_status' = "ON"
        /\ \A a \in owed' : a \in owed
        /\ modem.up => \A a \in owed' : a \in mask => a \in aiding'
        /\ "replaced" \notin past' => "replaced" \notin past /\ aiding \subseteq mask
    BY <1>1 DEF DelAidData, UpdateAiding, TypeOK
  <1>3. TypeOK'
    BY <1>1, <1>2, RestTyped DEF DelAidData, TypeOK
  <1>4. NavigatingIsTold' /\ MutedForSession'
    BY BeliefsKept DEF DelAidData
  <1>5. ASSUME crashes = 0 PROVE UncrashedInv'
    <2>1. UncrashedInv /\ UNCHANGED <<told, mNavigating, engine_status, modem>>
      BY <1>5 DEF IInv, UncrashedInv, DelAidData
    <2>2. (Uncrashed /\ FixesEnd /\ UntoldEnds /\ OnEnds /\ EngineEnds)'
      BY <1>1, <1>5, <2>1, TakenKeeps, Carried
    <2>3. AidsWait' /\ OwedIsKnown'
      BY <1>1, <1>2, <2>1, Taken, Carried DEF UncrashedInv, Uncrashed, AidsWait, OwedIsKnown
    <2>4. QED
      BY <2>2, <2>3 DEF UncrashedInv
  <1>6. QED
    BY <1>3, <1>4, <1>5 DEF IInv, UncrashedInv

LEMMA CachesKept ==
  ASSUME TypeOK
  PROVE  Cached(nmea) \in Caches /\ Aged(nmea) \in Caches /\ AfterBlank(nmea) \in Caches
           /\ AfterFull \in Caches
  <1>1. nmea \in [used : {"none", "own", "old"}, dop : {"none", "own", "old"}]
    BY DEF TypeOK, Caches
  <1>2. Aged(nmea) = [used |-> IF nmea.used = "own" THEN "old" ELSE nmea.used,
                      dop |-> IF nmea.dop = "own" THEN "old" ELSE nmea.dop]
    BY <1>1 DEF Aged
  <1>3. QED
    BY <1>1, <1>2 DEF Cached, AfterBlank, AfterFull, Empty, Caches

LEMMA SvKeeps ==
  ASSUME IInv, inbox # <<>>, inbox' = Tail(inbox), UNCHANGED <<client, crashes>>,
         \/ Head(inbox).msg = "svs" /\ SvReport(Head(inbox).used)
         \/ Head(inbox).msg = "mute" /\ Mute
  PROVE  IInv'
  <1>1. TypeOK /\ Head(inbox) \in Messages
    BY Taken DEF IInv
  <1>2. UNCHANGED <<modem, owed, aiding, mNavigating, told, engine_status, fix_session_status, mFixCriteria>>
          /\ past \subseteq past' /\ mute' \in {mute, "WAIT"} /\ nmea' \in Caches
    BY <1>1, CachesKept DEF SvReport, Mute, TypeOK
  <1>3. TypeOK'
    BY <1>1, <1>2, RestTyped DEF TypeOK
  <1>4. NavigatingIsTold' /\ MutedForSession'
    BY <1>2 DEF IInv, NavigatingIsTold, MutedForSession
  <1>5. crashes = 0 => UncrashedInv'
    BY <1>1, <1>2, TakenKeeps, Carried DEF UncrashedInv
  <1>6. QED
    BY <1>3, <1>4, <1>5 DEF IInv, UncrashedInv

LEMMA PositionKeeps ==
  ASSUME IInv, inbox # <<>>, inbox' = Tail(inbox), UNCHANGED <<client, crashes>>,
         Head(inbox).msg = "fix", Position(Head(inbox).fix)
  PROVE  IInv'
  <1>1. TypeOK /\ Head(inbox) \in Messages
    BY Taken DEF IInv
  <1>2. /\ modem' \in ModemStates /\ modem'.said = modem.said /\ modem'.up = modem.up
        /\ mFixCriteria' \in [mode : Modes \cup {"INVALID"}, recurrence : Recurrences \cup {"periodic"}]
        /\ mNavigating' \in BOOLEAN /\ (mNavigating' => mNavigating) /\ nmea' \in Caches
        /\ UNCHANGED <<mute, engine_status, fix_session_status, aiding, told, owed, past>>
    BY <1>1, CachesKept DEF Position, Criteria, Halted, Invalid, TypeOK
  <1>3. TypeOK'
    BY <1>1, <1>2, RestTyped DEF TypeOK
  <1>4. NavigatingIsTold' /\ MutedForSession'
    BY <1>2 DEF IInv, NavigatingIsTold, MutedForSession
  <1>5. ASSUME crashes = 0 PROVE UncrashedInv'
    <2>1. (Uncrashed /\ FixesEnd /\ OnEnds /\ EngineEnds /\ AidsWait /\ OwedIsKnown)'
      BY <1>1, <1>2, <1>5, TakenKeeps, Carried
    <2>2. Head(inbox) \in FixReports /\ FixesEnd
      BY <1>1, <1>5, Carried DEF IInv
    <2>3. modem'.said \in {"begun", "seen"} \/ InSeq(inbox', Report("END"))
      BY <1>1, <1>2, <2>2, Taken DEF FixesEnd
    <2>4. QED
      BY <2>1, <2>3 DEF UncrashedInv, UntoldEnds
  <1>6. QED
    BY <1>3, <1>4, <1>5 DEF IInv, UncrashedInv

\* These come of a crash only.
LEMMA RestartKeeps ==
  ASSUME IInv, inbox # <<>>, inbox' = Tail(inbox), UNCHANGED <<client, crashes>>,
         \/ Head(inbox).msg = "down" /\ EngineDown
         \/ Head(inbox).msg = "up" /\ EngineUp
  PROVE  IInv'
  <1>1. TypeOK /\ NavigatingIsTold /\ MutedForSession /\ Head(inbox) \in Messages
    BY Taken DEF IInv
  <1>2. crashes # 0
    BY <1>1, Taken, Carried DEF IInv, Uncrashed
  <1>3. /\ MutedForSession'
        /\ mute' \in {"NONE", "WAIT", "IN_SESSION"}
        /\ engine_status' \in {"NONE", "ON", "OFF"} /\ fix_session_status' \in {"NONE", "BEGIN", "END"}
    BY <1>1, Statused DEF EngineDown, EngineUp, Statuses
  <1>4. /\ modem' \in ModemStates /\ mNavigating' \in BOOLEAN /\ told' \in {"begin", "end"}
        /\ mNavigating' => told' = "begin"
        /\ mFixCriteria' \in [mode : Modes \cup {"INVALID"}, recurrence : Recurrences \cup {"periodic"}]
        /\ UNCHANGED <<aiding, nmea, owed>>
    <2>1. CASE EngineDown
      BY <1>1, <2>1 DEF EngineDown, TypeOK, NavigatingIsTold
    <2>2. CASE EngineUp /\ mNavigating
      <3>1. (IF modem.up THEN [modem EXCEPT !.mode = mFixCriteria.mode] ELSE modem) \in ModemStates
        BY <1>1 DEF TypeOK
      <3>2. QED
        BY <1>1, <2>2, <3>1, Starting DEF EngineUp, Invalid, TypeOK
    <2>3. CASE EngineUp /\ ~mNavigating
      BY <1>1, <2>3 DEF EngineUp, TypeOK
    <2>4. QED
      BY <2>1, <2>2, <2>3
  <1>5. TypeOK'
    BY <1>1, <1>3, <1>4, RestTyped DEF TypeOK
  <1>6. QED
    BY <1>2, <1>3, <1>4, <1>5 DEF IInv, NavigatingIsTold

(***************************************************************************)
(* The theorems.                                                           *)
(***************************************************************************)
LEMMA NextIInv == IInv /\ [Next]_vars => IInv'
  <1> SUFFICES ASSUME IInv, [Next]_vars PROVE IInv'
    OBVIOUS
  <1>1. CASE Process
    BY <1>1, ModeKeeps, StartFixKeeps, StopFixKeeps, StatusKeeps, SvKeeps, PositionKeeps,
       DeleteKeeps, RestartKeeps DEF Process
  <1>2. CASE \E mode \in Modes, r \in Recurrences : Start(mode, r)
    BY <1>2, StartKeeps
  <1>3. CASE Stop \/ EmergencyRequest \/ (\E mask \in SUBSET Aids : mask # {} /\ DeleteAidingData(mask))
               \/ (\E used \in BOOLEAN : Satellites(used)) \/ (\E fix \in Fixes : Fix(fix))
    BY <1>3, RequestKeeps
  <1>4. CASE Says
    BY <1>4, SayKeeps
  <1>5. CASE Crash \/ Recover
    BY <1>5, CrashKeeps
  <1>6. CASE UNCHANGED vars
    BY <1>6 DEF vars, locEng, IInv, TypeOK, NavigatingIsTold, MutedForSession, Uncrashed, FixesEnd,
       UntoldEnds, OnEnds, EngineEnds, AidsWait, OwedIsKnown, InSeq, Followed
  <1>7. QED
    BY <1>1, <1>2, <1>3, <1>4, <1>5, <1>6 DEF Next

LEMMA Invariance == Spec => []IInv
  BY InitIInv, NextIInv, PTL DEF Spec

\* Nothing is in an empty queue.
LEMMA QuietIsEmpty == Quiet => \A S : ~InSeq(inbox, S)
  BY DEF Quiet, InSeq

\* The framework believes in a session while the engine navigates, over any
\* reports, mutes and restarts, and stops believing in it with the modem.
THEOREM FrameworkStaysInAgreement == Spec => []FrameworkAgrees
  <1>1. IInv => FrameworkAgrees
    BY QuietIsEmpty DEF IInv, FrameworkAgrees, EndIsTold, UntoldEnds, Quiet, TypeOK
  <1>2. QED
    BY <1>1, Invariance, PTL

\* A mute never outlives the session it is for.
THEOREM MuteIsForSession == Spec => []MutedForSession
  <1>1. IInv => MutedForSession
    BY DEF IInv
  <1>2. QED
    BY <1>1, Invariance, PTL

\* Aiding data of every kind that were to be deleted are deleted when the engine
\* is off, if no deletion took the place of a larger one.
THEOREM AidsAreDeleted == Spec => []DeletedWhenOff
  <1>1. IInv => DeletedWhenOff
    BY QuietIsEmpty DEF IInv, DeletedWhenOff, EngineEnds, AidsWait, OwedIsKnown, Quiet, TypeOK
  <1>2. QED
    BY <1>1, Invariance, PTL

(***************************************************************************)
(* The session of the modem is the engine's.  Sessions for one fix are     *)
(* left out, which a fix ends.  A start is sent right behind the mode, and *)
(* the modem has that mode, or has still to be told by the engine, which   *)
(* handles the modem's coming up.                                          *)
(***************************************************************************)
\* Kinds of messages.
OfKind(kinds) == {m \in Messages : m.msg \in kinds}
Singles == {m \in OfKind({"mode"}) : m.recurrence = "single"}
NotMode == Messages \ OfKind({"mode"})
Used == {m \in OfKind({"svs"}) : m.used}
Breaks == OfKind({"fix", "down"}) \cup {m \in OfKind({"status"}) : m.status \in {"END", "OFF"}}
SatFixes == {m \in OfKind({"fix"}) : m.fix \in {"intermediate", "coarse", "final"}}

\* Before place i of a queue is nothing of a set B; or nothing behind one of a set S.
Clear(q, i, B) == \A k \in 1..(i-1) : q[k] \notin B
After(q, i, S, B) == \E j \in 1..(i-1) : q[j] \in S /\ \A k \in (j+1)..(i-1) : q[k] \notin B
Once(q, S) == \A i, j \in 1..Len(q) : q[i] \in S /\ q[j] \in S => i = j

OnlyPeriodic ==
  "single" \notin past =>
    mFixCriteria.recurrence # "single" /\ ~modem.single /\ ~InSeq(inbox, Singles)
DownStops == ~modem.up => ~modem.fixing
NotLeaked == "single" \notin past /\ ~mNavigating => ~modem.fixing

\* The engine has still to handle that the modem is down, or up again.
UpAhead == InSeq(inbox, OfKind({"up"}))
Restarts1 == ~modem.up \/ UpAhead
OneUp ==
  crashes <= 1 /\ UpAhead => modem.up /\ crashes = 1 /\ Once(inbox, OfKind({"up"}))
Runs == Periodic /\ mNavigating /\ modem.up => modem.fixing \/ UpAhead

\* What a start finds.
Ready == mFixCriteria.mode \in Modes /\ (modem.mode = mFixCriteria.mode \/ Restarts1)
StartsFollow ==
  \A i \in 1..Len(inbox) : inbox[i].msg = "start" =>
    (Ready /\ Clear(inbox, i, NotMode)) \/ After(inbox, i, OfKind({"mode"}), NotMode)

SameMode == crashes = 0 /\ mNavigating => modem.mode = mFixCriteria.mode
KnownMode ==
  crashes <= 1 /\ mNavigating /\ (crashes = 0 \/ Restarts1) => mFixCriteria.mode \in Modes
HasMode == Periodic /\ crashes <= 1 /\ modem.fixing => modem.mode \in Modes \/ UpAhead

ModemInv ==
  OnlyPeriodic /\ DownStops /\ NotLeaked /\ OneUp /\ Runs /\ StartsFollow /\ SameMode
    /\ KnownMode /\ HasMode

(***************************************************************************)
(* The satellites of a fix are reported right before it, and are in the    *)
(* cache when it comes, or the session is muted and so is the fix.         *)
(***************************************************************************)
Fresh == (nmea.used = "own" /\ nmea.dop = "own") \/ mute = "IN_SESSION" \/ "remuted" \in past
Backed(i) == (Fresh /\ Clear(inbox, i, Breaks)) \/ After(inbox, i, Used, Breaks)
FixBacked ==
  /\ \A i \in 1..Len(inbox) : inbox[i] \in SatFixes => Backed(i)
  /\ modem.said = "seen" => Backed(Len(inbox) + 1)

(***************************************************************************)
(* Queues, by place.                                                       *)
(***************************************************************************)
LEMMA PlaceFirst ==
  ASSUME NEW q, NEW S, NEW B
  PROVE  Clear(q, 1, B) /\ ~After(q, 1, S, B)
  BY DEF Clear, After

LEMMA PlaceAppend ==
  ASSUME NEW M, NEW q \in Seq(M), NEW m \in M, NEW S, NEW B
  PROVE  /\ Len(q) \in Nat /\ Len(Append(q, m)) = Len(q) + 1
         /\ Append(q, m)[Len(q) + 1] = m /\ \A i \in 1..Len(q) : Append(q, m)[i] = q[i]
         /\ \A i \in 1..(Len(q) + 1) : /\ Clear(q, i, B) => Clear(Append(q, m), i, B)
                                       /\ After(q, i, S, B) => After(Append(q, m), i, S, B)
         /\ Clear(q, Len(q) + 1, B) /\ m \notin B => Clear(Append(q, m), Len(q) + 2, B)
         /\ After(q, Len(q) + 1, S, B) /\ m \notin B => After(Append(q, m), Len(q) + 2, S, B)
         /\ m \in S => After(Append(q, m), Len(q) + 2, S, B)
         /\ m \notin S /\ Once(q, S) => Once(Append(q, m), S)
         /\ ~InSeq(q, S) => Once(Append(q, m), S)
  <1> DEFINE c == Append(q, m)
             n == Len(q)
  <1>1. n \in Nat /\ Len(c) = n + 1 /\ c[n + 1] = m /\ \A i \in 1..n : c[i] = q[i]
    OBVIOUS
  <1> HIDE DEF c, n
  <1>2. ASSUME NEW i \in 1..(n + 1)
        PROVE  /\ Clear(q, i, B) => Clear(c, i, B)
               /\ After(q, i, S, B) => After(c, i, S, B)
    <2>1. \A k \in 1..(i-1) : k \in 1..n /\ c[k] = q[k]
      BY <1>1
    <2>2. ASSUME NEW j \in 1..(i-1), NEW k \in (j+1)..(i-1) PROVE k \in 1..(i-1)
      BY <1>1
    <2>3. QED
      BY <2>1, <2>2 DEF Clear, After
  <1>3. \A k \in 1..(n + 1) : k \in 1..n \/ k = n + 1
    BY <1>1
  <1>4. n + 2 - 1 = n + 1 /\ n + 1 - 1 = n /\ n + 1 \in 1..(n + 1) /\ \A j \in 1..n : j \in 1..(n + 1)
    BY <1>1
  <1>5. Clear(q, n + 1, B) /\ m \notin B => Clear(c, n + 2, B)
    BY <1>1, <1>3, <1>4 DEF Clear
  <1>6. After(q, n + 1, S, B) /\ m \notin B => After(c, n + 2, S, B)
    <2> SUFFICES ASSUME m \notin B, After(q, n + 1, S, B) PROVE After(c, n + 2, S, B)
      OBVIOUS
    <2> DEFINE p == n + 1
               l == n + 2
    <2>1. p - 1 = n /\ l - 1 = n + 1 /\ After(q, p, S, B)
      BY <1>1
    <2> HIDE DEF p, l
    <2>2. PICK j \in 1..n : q[j] \in S /\ \A k \in (j+1)..n : q[k] \notin B
      BY <2>1 DEF After
    <2>3. \A k \in (j+1)..(n + 1) : (k \in 1..n /\ k \in (j+1)..n) \/ k = n + 1
      BY <1>1, <2>2
    <2>4. \A k \in (j+1)..(n + 1) : c[k] \notin B
      BY <1>1, <2>2, <2>3
    <2>5. j \in 1..(n + 1) /\ c[j] \in S
      BY <1>1, <2>2
    <2>6. After(c, l, S, B)
      BY <2>1, <2>4, <2>5 DEF After
    <2>7. QED
      BY <2>6 DEF l
  <1>7. m \in S => After(c, n + 2, S, B)
    <2>1. (n + 1 + 1)..(n + 1) = {}
      BY <1>1
    <2>2. QED
      BY <1>1, <1>4, <2>1 DEF After
  <1>8. m \notin S /\ Once(q, S) => Once(c, S)
    BY <1>1, <1>3 DEF Once, n
  <1>9. ~InSeq(q, S) => Once(c, S)
    BY <1>1, <1>3 DEF Once, InSeq, n
  <1>10. QED
    BY <1>1, <1>2, <1>5, <1>6, <1>7, <1>8, <1>9 DEF c, n

LEMMA PlaceTail ==
  ASSUME NEW M, NEW q \in Seq(M), q # <<>>, NEW S, NEW B
  PROVE  /\ Len(q) \in Nat \ {0} /\ Len(Tail(q)) = Len(q) - 1 /\ q[1] = Head(q)
         /\ \A i \in 1..(Len(q) - 1) : Tail(q)[i] = q[i + 1] /\ i + 1 \in 1..Len(q)
         /\ \A i \in 1..Len(q) :
              /\ Clear(q, i + 1, B) => Head(q) \notin B /\ Clear(Tail(q), i, B)
              /\ After(q, i + 1, S, B) =>
                   (Head(q) \in S /\ Clear(Tail(q), i, B)) \/ After(Tail(q), i, S, B)
         /\ Once(q, S) => Once(Tail(q), S) /\ (Head(q) \in S => ~InSeq(Tail(q), S))
  <1> DEFINE r == Tail(q)
             n == Len(q)
  <1>1. n \in Nat \ {0} /\ Len(r) = n - 1 /\ q[1] = Head(q) /\ \A i \in 1..(n - 1) : r[i] = q[i + 1]
    OBVIOUS
  <1> HIDE DEF r, n
  <1>2. \A i \in 1..(n - 1) : i + 1 \in 1..n /\ i + 1 # 1
    BY <1>1
  <1>3. ASSUME NEW i \in 1..n
        PROVE  /\ Clear(q, i + 1, B) => Head(q) \notin B /\ Clear(r, i, B)
               /\ After(q, i + 1, S, B) => (Head(q) \in S /\ Clear(r, i, B)) \/ After(r, i, S, B)
    <2>1. i + 1 - 1 = i /\ 1 \in 1..i
      BY <1>1
    <2>2. \A k \in 1..(i-1) : r[k] = q[k + 1] /\ k + 1 \in 1..i /\ k + 1 \in 2..i
      BY <1>1
    <2>3. Clear(q, i + 1, B) => Head(q) \notin B /\ Clear(r, i, B)
      BY <1>1, <2>1, <2>2 DEF Clear
    <2>4. ASSUME NEW j \in 1..i, q[j] \in S, \A k \in (j+1)..i : q[k] \notin B
          PROVE  (Head(q) \in S /\ Clear(r, i, B)) \/ After(r, i, S, B)
      <3>1. CASE j = 1
        BY <1>1, <2>2, <2>4, <3>1 DEF Clear
      <3>2. CASE j # 1
        <4>1. j - 1 \in 1..(i-1) /\ (j - 1) + 1 = j
          BY <1>1, <3>2
        <4>2. r[j - 1] \in S
          BY <2>2, <2>4, <4>1
        <4>3. ASSUME NEW k \in ((j-1)+1)..(i-1) PROVE r[k] \notin B
          <5>1. k \in 1..(i-1) /\ k + 1 \in (j+1)..i
            BY <1>1, <4>1
          <5>2. QED
            BY <2>2, <2>4, <5>1
        <4>4. QED
          BY <4>1, <4>2, <4>3 DEF After
      <3>3. QED
        BY <3>1, <3>2
    <2>5. QED
      BY <2>1, <2>3, <2>4 DEF After
  <1>4. ASSUME Once(q, S) PROVE Once(r, S) /\ (Head(q) \in S => ~InSeq(r, S))
    <2>1. ASSUME NEW i \in 1..Len(r), NEW j \in 1..Len(r), r[i] \in S, r[j] \in S PROVE i = j
      <3>1. i + 1 \in 1..n /\ j + 1 \in 1..n /\ q[i + 1] \in S /\ q[j + 1] \in S
        BY <1>1, <1>2, <2>1
      <3>2. i + 1 = j + 1
        BY <1>4, <3>1 DEF Once, n
      <3>3. QED
        BY <1>1, <3>2
    <2>2. ASSUME Head(q) \in S, NEW i \in 1..Len(r), r[i] \in S PROVE FALSE
      <3>1. 1 \in 1..n /\ i + 1 \in 1..n /\ i + 1 # 1 /\ q[i + 1] \in S /\ q[1] \in S
        BY <1>1, <1>2, <2>2
      <3>2. QED
        BY <1>4, <3>1 DEF Once, n
    <2>3. QED
      BY <2>1, <2>2 DEF Once, InSeq
  <1>5. QED
    BY <1>1, <1>2, <1>3, <1>4 DEF r, n

(***************************************************************************)
(* The modem's session while messages are added.                           *)
(***************************************************************************)
\* The queue holds messages, and one more.
LEMMA Added ==
  ASSUME TypeOK, NEW m \in Messages, inbox' = Append(inbox, m)
  PROVE  /\ inbox \in Seq(Messages)
         /\ \A S : InSeq(inbox', S) <=> InSeq(inbox, S) \/ m \in S
  BY InAppend DEF TypeOK

\* Before a crash the modem is up and nothing is to be handled.
LEMMA BeforeCrash ==
  ASSUME IInv, crashes = 0
  PROVE  ~Restarts1 /\ ~UpAhead /\ modem.up
  <1>1. modem.up /\ ~InSeq(inbox, Restarting)
    BY DEF IInv, Uncrashed
  <1>2. ASSUME UpAhead PROVE FALSE
    <2>1. PICK i \in 1..Len(inbox) : inbox[i] \in OfKind({"up"})
      BY <1>2 DEF UpAhead, InSeq
    <2>2. inbox[i] \in Restarting
      BY <2>1, Carried DEF OfKind
    <2>3. QED
      BY <1>1, <2>2 DEF InSeq
  <1>3. QED
    BY <1>1, <1>2 DEF Restarts1

LEMMA LenAdded ==
  ASSUME NEW q \in Seq(Messages), NEW m \in Messages, NEW c, c = Append(q, m)
  PROVE  /\ Len(q) \in Nat /\ Len(c) = Len(q) + 1 /\ c[Len(q) + 1] = m
         /\ \A i \in 1..Len(q) : c[i] = q[i]
  OBVIOUS

LEMMA ClearAdded ==
  ASSUME NEW q \in Seq(Messages), NEW m \in Messages, NEW c, c = Append(q, m), NEW B
  PROVE  /\ \A i \in 1..(Len(q) + 1) : Clear(q, i, B) => Clear(c, i, B)
         /\ Clear(q, Len(q) + 1, B) /\ m \notin B => Clear(c, Len(q) + 2, B)
  <1>1. \A i \in 1..(Len(q) + 1) : Clear(q, i, B) => Clear(c, i, B)
    BY PlaceAppend
  <1>2. Clear(q, Len(q) + 1, B) /\ m \notin B => Clear(c, Len(q) + 2, B)
    BY PlaceAppend
  <1>3. QED
    BY <1>1, <1>2

LEMMA AfterAdded ==
  ASSUME NEW q \in Seq(Messages), NEW m \in Messages, NEW c, c = Append(q, m), NEW S, NEW B
  PROVE  /\ \A i \in 1..(Len(q) + 1) : After(q, i, S, B) => After(c, i, S, B)
         /\ After(q, Len(q) + 1, S, B) /\ m \notin B => After(c, Len(q) + 2, S, B)
         /\ m \in S => After(c, Len(q) + 2, S, B)
  <1>1. \A i \in 1..(Len(q) + 1) : After(q, i, S, B) => After(c, i, S, B)
    BY PlaceAppend
  <1>2. After(q, Len(q) + 1, S, B) /\ m \notin B => After(c, Len(q) + 2, S, B)
    BY PlaceAppend
  <1>3. m \in S => After(c, Len(q) + 2, S, B)
    BY PlaceAppend
  <1>4. QED
    BY <1>1, <1>2, <1>3

LEMMA StartsSent ==
  ASSUME TypeOK, StartsFollow, NEW m \in Messages, inbox' = Append(inbox, m),
         m.msg # "start", Ready => Ready'
  PROVE  StartsFollow'
  <1> SUFFICES ASSUME NEW i \in 1..Len(inbox'), inbox'[i].msg = "start"
               PROVE  (Ready' /\ Clear(inbox', i, NotMode)) \/ After(inbox', i, OfKind({"mode"}), NotMode)
    BY DEF StartsFollow
  <1> DEFINE S == OfKind({"mode"})
             n == Len(inbox)
  <1>1. inbox \in Seq(Messages)
    BY DEF TypeOK
  <1>2. /\ n \in Nat /\ Len(inbox') = n + 1 /\ inbox'[n + 1] = m
        /\ \A k \in 1..n : inbox'[k] = inbox[k]
        /\ \A k \in 1..(n + 1) : /\ Clear(inbox, k, NotMode) => Clear(inbox', k, NotMode)
                                 /\ After(inbox, k, S, NotMode) => After(inbox', k, S, NotMode)
    <2> HIDE DEF S
    <2>1. n \in Nat /\ Len(inbox') = n + 1 /\ inbox'[n + 1] = m /\ \A k \in 1..n : inbox'[k] = inbox[k]
      BY <1>1, LenAdded
    <2>2. \A k \in 1..(n + 1) : Clear(inbox, k, NotMode) => Clear(inbox', k, NotMode)
      BY <1>1, ClearAdded
    <2>3. \A k \in 1..(n + 1) : After(inbox, k, S, NotMode) => After(inbox', k, S, NotMode)
      BY <1>1, AfterAdded
    <2>4. QED
      BY <2>1, <2>2, <2>3
  <1> HIDE DEF n
  <1>3. i \in 1..n /\ i \in 1..(n + 1)
    BY <1>2
  <1>4. inbox[i].msg = "start"
    BY <1>2, <1>3
  <1>5. QED
    BY <1>2, <1>3, <1>4 DEF StartsFollow, n

\* A message that is neither the framework's start nor the modem's coming up.
LEMMA ModemSent ==
  ASSUME TypeOK, ModemInv, NEW m \in Messages, inbox' = Append(inbox, m),
         m.msg \notin {"mode", "start", "up"},
         UNCHANGED <<mFixCriteria, mNavigating, crashes, past>>,
         modem'.up = modem.up, modem'.mode = modem.mode, modem'.single = modem.single,
         modem'.fixing = modem.fixing \/ (modem.single /\ ~modem'.fixing)
  PROVE  ModemInv'
  <1>1. m \notin Singles /\ m \notin OfKind({"up"})
    BY DEF Singles, OfKind
  <1>2. (InSeq(inbox', Singles) <=> InSeq(inbox, Singles)) /\ (UpAhead' <=> UpAhead)
    <2>1. \A S : m \notin S => (InSeq(inbox', S) <=> InSeq(inbox, S))
      BY Added
    <2>2. UpAhead' <=> UpAhead
      BY <1>1, <2>1 DEF UpAhead
    <2>3. QED
      BY <1>1, <2>1, <2>2
  <1>3. Once(inbox, OfKind({"up"})) => Once(inbox', OfKind({"up"}))
    BY <1>1, PlaceAppend DEF TypeOK
  <1>4. (Restarts1' <=> Restarts1) /\ (Ready' <=> Ready)
    BY <1>2 DEF Restarts1, Ready
  <1>5. StartsFollow'
    BY <1>4, StartsSent DEF ModemInv
  <1>6. OnlyPeriodic' /\ DownStops' /\ NotLeaked' /\ OneUp'
    BY <1>2, <1>3 DEF ModemInv, OnlyPeriodic, DownStops, NotLeaked, OneUp
  <1>7. Runs' /\ HasMode'
    BY <1>2 DEF ModemInv, OnlyPeriodic, Runs, HasMode, Periodic
  <1>8. SameMode' /\ KnownMode'
    BY <1>4 DEF ModemInv, SameMode, KnownMode
  <1>9. QED
    BY <1>5, <1>6, <1>7, <1>8 DEF ModemInv

LEMMA StartSent ==
  ASSUME IInv, ModemInv, NEW mode \in Modes, NEW r \in Recurrences, Start(mode, r)
  PROVE  ModemInv'
  <1> DEFINE a == [msg |-> "mode", mode |-> mode, recurrence |-> r]
             b == [msg |-> "start"]
             q == Append(inbox, a)
             c == Append(q, b)
  <1>1. a \in Messages /\ b \in Messages /\ inbox \in Seq(Messages) /\ q \in Seq(Messages)
    BY MessageTypes DEF IInv, TypeOK
  <1>2. inbox' = c
    <2>1. inbox' = inbox \o <<a, b>>
      BY DEF Start
    <2>2. QED
      BY <1>1, <2>1
  <1>3. /\ a \notin OfKind({"up"}) /\ b \notin OfKind({"up"}) /\ b \notin Singles
        /\ a \in Singles => r = "single"
        /\ a \in OfKind({"mode"}) /\ a.msg = "mode"
    BY <1>1 DEF Singles, OfKind
  <1>4. /\ UNCHANGED <<mFixCriteria, mNavigating, crashes, modem>>
        /\ past \subseteq past' /\ (r = "single" => "single" \in past')
    BY DEF Start, locEng
  <1> HIDE DEF a, b
  <1>5. /\ InSeq(c, Singles) => InSeq(inbox, Singles) \/ r = "single"
        /\ InSeq(c, OfKind({"up"})) <=> InSeq(inbox, OfKind({"up"}))
        /\ Once(inbox, OfKind({"up"})) => Once(c, OfKind({"up"}))
    <2>1. \A S : InSeq(q, S) <=> InSeq(inbox, S) \/ a \in S
      BY <1>1, InAppend
    <2>2. \A S : InSeq(c, S) <=> InSeq(q, S) \/ b \in S
      BY <1>1, InAppend
    <2>3. Once(inbox, OfKind({"up"})) => Once(q, OfKind({"up"}))
      BY <1>1, <1>3, PlaceAppend
    <2>4. Once(q, OfKind({"up"})) => Once(c, OfKind({"up"}))
      BY <1>1, <1>3, PlaceAppend
    <2>5. QED
      BY <1>3, <2>1, <2>2, <2>3, <2>4
  <1>6. UpAhead' <=> UpAhead
    BY <1>2, <1>5 DEF UpAhead
  <1>7. (Restarts1' <=> Restarts1) /\ (Ready' <=> Ready)
    BY <1>4, <1>6 DEF Restarts1, Ready
  <1>8. StartsFollow'
    <2> DEFINE S == OfKind({"mode"})
               n == Len(inbox)
    <2>1. /\ n \in Nat /\ Len(q) = n + 1 /\ q[n + 1] = a /\ \A k \in 1..n : q[k] = inbox[k]
          /\ \A k \in 1..(n + 1) : /\ Clear(inbox, k, NotMode) => Clear(q, k, NotMode)
                                   /\ After(inbox, k, S, NotMode) => After(q, k, S, NotMode)
          /\ After(q, n + 2, S, NotMode)
      <3>1. a \in S
        BY <1>3
      <3> HIDE DEF S, q
      <3>2. q = Append(inbox, a)
        BY DEF q
      <3>3. n \in Nat /\ Len(q) = n + 1 /\ q[n + 1] = a /\ \A k \in 1..n : q[k] = inbox[k]
        BY <1>1, <3>2, LenAdded
      <3>4. \A k \in 1..(n + 1) : Clear(inbox, k, NotMode) => Clear(q, k, NotMode)
        BY <1>1, <3>2, ClearAdded
      <3>5. /\ \A k \in 1..(n + 1) : After(inbox, k, S, NotMode) => After(q, k, S, NotMode)
            /\ After(q, n + 2, S, NotMode)
        BY <1>1, <3>1, <3>2, AfterAdded
      <3>6. QED
        BY <3>3, <3>4, <3>5
    <2>2. /\ Len(c) = Len(q) + 1 /\ \A k \in 1..Len(q) : c[k] = q[k]
          /\ \A k \in 1..(Len(q) + 1) : /\ Clear(q, k, NotMode) => Clear(c, k, NotMode)
                                        /\ After(q, k, S, NotMode) => After(c, k, S, NotMode)
      <3> HIDE DEF S, q, c
      <3>1. c = Append(q, b)
        BY DEF c
      <3>2. Len(c) = Len(q) + 1 /\ \A k \in 1..Len(q) : c[k] = q[k]
        BY <1>1, <3>1, LenAdded
      <3>3. \A k \in 1..(Len(q) + 1) : Clear(q, k, NotMode) => Clear(c, k, NotMode)
        BY <1>1, <3>1, ClearAdded
      <3>4. \A k \in 1..(Len(q) + 1) : After(q, k, S, NotMode) => After(c, k, S, NotMode)
        BY <1>1, <3>1, AfterAdded
      <3>5. QED
        BY <3>2, <3>3, <3>4
    <2>3. StartsFollow
      BY DEF ModemInv
    <2> HIDE DEF q, c, S, n
    <2> SUFFICES ASSUME NEW i \in 1..Len(c), c[i].msg = "start"
                 PROVE  (Ready /\ Clear(c, i, NotMode)) \/ After(c, i, S, NotMode)
      BY <1>2, <1>7 DEF StartsFollow, S
    <2>4. CASE i = n + 2
      <3>1. i \in 1..(Len(q) + 1)
        BY <2>1, <2>4
      <3>2. QED
        BY <2>1, <2>2, <2>4, <3>1
    <2>5. CASE i # n + 2
      <3>1. i \in 1..(n + 1) /\ i \in 1..Len(q) /\ i \in 1..(Len(q) + 1)
        BY <2>1, <2>2, <2>5
      <3>2. i # n + 1
        BY <1>3, <2>1, <2>2, <3>1
      <3>3. i \in 1..n
        BY <2>1, <3>1, <3>2
      <3>4. inbox[i].msg = "start"
        BY <2>1, <2>2, <3>1, <3>3
      <3>5. (Ready /\ Clear(inbox, i, NotMode)) \/ After(inbox, i, S, NotMode)
        BY <2>3, <3>3, <3>4 DEF StartsFollow, S, n
      <3>6. QED
        BY <2>1, <2>2, <3>1, <3>5
    <2>6. QED
      BY <2>4, <2>5
  <1> HIDE DEF q, c
  <1>9. OnlyPeriodic' /\ DownStops' /\ NotLeaked' /\ OneUp'
    BY <1>2, <1>4, <1>5, <1>6 DEF ModemInv, OnlyPeriodic, DownStops, NotLeaked, OneUp
  <1>10. Runs' /\ HasMode'
    BY <1>4, <1>6 DEF ModemInv, Runs, HasMode, Periodic
  <1>11. SameMode' /\ KnownMode'
    BY <1>4, <1>7 DEF ModemInv, SameMode, KnownMode
  <1>12. QED
    BY <1>8, <1>9, <1>10, <1>11 DEF ModemInv

\* The modem goes down and comes up.
LEMMA CrashSent ==
  ASSUME IInv, ModemInv, Crash \/ Recover
  PROVE  ModemInv'
  <1>1. PICK m \in Messages : /\ inbox' = Append(inbox, m)
                              /\ (Crash /\ m.msg = "down") \/ (Recover /\ m.msg = "up")
    BY MessageTypes DEF Crash, Recover
  <1>2. UNCHANGED <<mFixCriteria, mNavigating, past>>
    BY DEF Crash, Recover, locEng
  <1>3. TypeOK /\ inbox \in Seq(Messages) /\ crashes \in Nat
    BY SessionAssumption DEF IInv, TypeOK
  <1>4. \A S : InSeq(inbox', S) <=> InSeq(inbox, S) \/ m \in S
    BY <1>1, <1>3, Added
  <1>5. m \notin Singles /\ m.msg # "start" /\ (m \in OfKind({"up"}) <=> m.msg = "up")
    BY <1>1 DEF Singles, OfKind
  <1>6. Restarts1'
    BY <1>1, <1>4, <1>5 DEF Crash, Restarts1, UpAhead
  <1>7. /\ modem'.fixing => modem.fixing /\ modem'.up
        /\ modem'.single => modem.single
    <2>1. CASE Crash
      BY <2>1 DEF Crash
    <2>2. CASE Recover
      BY <2>2 DEF Recover, IInv, TypeOK
    <2>3. QED
      BY <2>1, <2>2
  <1>8. OnlyPeriodic' /\ DownStops' /\ NotLeaked'
    BY <1>2, <1>4, <1>5, <1>7 DEF ModemInv, OnlyPeriodic, DownStops, NotLeaked
  <1>9. StartsFollow'
    <2>1. Ready => Ready'
      BY <1>2, <1>6 DEF Ready
    <2>2. QED
      BY <1>1, <1>3, <1>5, <2>1, StartsSent DEF ModemInv
  <1>10. CASE Crash
    <2>1. modem'.up = FALSE /\ modem'.fixing = FALSE /\ crashes' = crashes + 1
      BY <1>10 DEF Crash
    <2>2. crashes' # 0 /\ (crashes' <= 1 => crashes = 0)
      BY <1>3, <2>1
    <2>3. crashes = 0 => ~UpAhead'
      <3>1. m.msg # "up"
        BY <1>1, <1>10 DEF Crash, Recover
      <3>2. QED
        BY <1>4, <1>5, <3>1, BeforeCrash DEF UpAhead
    <2>4. OneUp' /\ Runs' /\ HasMode' /\ SameMode'
      BY <2>1, <2>2, <2>3 DEF OneUp, Runs, HasMode, SameMode
    <2>5. KnownMode'
      BY <1>2, <1>3, <2>2 DEF ModemInv, KnownMode
    <2>6. QED
      BY <1>8, <1>9, <2>4, <2>5 DEF ModemInv
  <1>11. CASE Recover
    <2>1. /\ ~modem.up /\ modem'.up = TRUE /\ crashes' = crashes /\ UpAhead' /\ Restarts1
          /\ modem' = [modem EXCEPT !.up = TRUE]
      <3>1. m.msg = "up"
        BY <1>1, <1>11 DEF Crash, Recover
      <3>2. QED
        BY <1>3, <1>4, <1>5, <1>11, <3>1 DEF Recover, Restarts1, UpAhead, TypeOK
    <2>2. crashes # 0
      BY <2>1, BeforeCrash
    <2>3. OneUp'
      <3>1. crashes <= 1 => ~UpAhead
        BY <2>1 DEF ModemInv, OneUp
      <3>2. ~UpAhead => Once(inbox', OfKind({"up"}))
        BY <1>1, <1>3, PlaceAppend DEF UpAhead
      <3>3. QED
        BY <1>3, <2>1, <2>2, <3>1, <3>2 DEF OneUp
    <2>4. Runs' /\ HasMode' /\ SameMode'
      BY <2>1, <2>2 DEF Runs, HasMode, SameMode
    <2>5. KnownMode'
      BY <1>2, <2>1 DEF ModemInv, KnownMode
    <2>6. QED
      BY <1>8, <1>9, <2>3, <2>4, <2>5 DEF ModemInv
  <1>12. QED
    BY <1>10, <1>11

(***************************************************************************)
(* The modem's session while messages are processed.                       *)
(***************************************************************************)
\* What is left of the queue.
LEMMA LeftOver ==
  ASSUME TypeOK, inbox # <<>>, inbox' = Tail(inbox)
  PROVE  /\ Head(inbox) \in Messages
         /\ InSeq(inbox', Singles) => InSeq(inbox, Singles)
         /\ UpAhead <=> UpAhead' \/ Head(inbox).msg = "up"
         /\ Once(inbox, OfKind({"up"})) =>
              Once(inbox', OfKind({"up"})) /\ (Head(inbox).msg = "up" => ~UpAhead')
         /\ Head(inbox).msg = "mode" /\ Head(inbox).recurrence = "single" => InSeq(inbox, Singles)
  <1>1. inbox \in Seq(Messages) /\ Head(inbox) \in Messages
    BY Taken DEF TypeOK
  <1>2. Head(inbox) \in OfKind({"up"}) <=> Head(inbox).msg = "up"
    BY <1>1 DEF OfKind
  <1>3. UpAhead <=> UpAhead' \/ Head(inbox).msg = "up"
    BY <1>2, Taken DEF UpAhead
  <1>4. Once(inbox, OfKind({"up"})) =>
          Once(inbox', OfKind({"up"})) /\ (Head(inbox).msg = "up" => ~UpAhead')
    BY <1>1, <1>2, PlaceTail DEF UpAhead
  <1>5. Head(inbox).msg = "mode" /\ Head(inbox).recurrence = "single" => Head(inbox) \in Singles
    BY <1>1 DEF Singles, OfKind
  <1>6. QED
    BY <1>1, <1>3, <1>4, <1>5, Taken

LEMMA StartsTaken ==
  ASSUME TypeOK, StartsFollow, inbox # <<>>, inbox' = Tail(inbox), Head(inbox).msg = "mode" => Ready'
  PROVE  StartsFollow'
  <1> DEFINE S == OfKind({"mode"})
             n == Len(inbox)
  <1>1. inbox \in Seq(Messages) /\ Head(inbox) \in Messages
    BY Taken DEF TypeOK
  <1>2. Head(inbox) \in S \/ Head(inbox) \notin NotMode => Ready'
    BY <1>1 DEF OfKind, NotMode
  <1> SUFFICES ASSUME NEW i \in 1..Len(inbox'), inbox'[i].msg = "start"
               PROVE  (Ready' /\ Clear(inbox', i, NotMode)) \/ After(inbox', i, S, NotMode)
    BY DEF StartsFollow
  <1> HIDE DEF S
  <1>3. /\ n \in Nat \ {0} /\ Len(inbox') = n - 1
        /\ \A k \in 1..(n - 1) : inbox'[k] = inbox[k + 1] /\ k + 1 \in 1..n
    BY <1>1, PlaceTail
  <1>4. \A k \in 1..n : Clear(inbox, k + 1, NotMode) => Head(inbox) \notin NotMode /\ Clear(inbox', k, NotMode)
    BY <1>1, PlaceTail
  <1>5. \A k \in 1..n : After(inbox, k + 1, S, NotMode) =>
          (Head(inbox) \in S /\ Clear(inbox', k, NotMode)) \/ After(inbox', k, S, NotMode)
    BY <1>1, PlaceTail
  <1> HIDE DEF n
  <1>6. i \in 1..n /\ i \in 1..(n - 1)
    BY <1>3
  <1>7. (Ready /\ Clear(inbox, i + 1, NotMode)) \/ After(inbox, i + 1, S, NotMode)
    <2>1. i + 1 \in 1..n /\ inbox[i + 1].msg = "start"
      BY <1>3, <1>6
    <2>2. QED
      BY <2>1 DEF StartsFollow, S, n
  <1>8. QED
    BY <1>2, <1>4, <1>5, <1>6, <1>7

\* A message that leaves the modem and the session alone.
LEMMA SessionUntouched ==
  ASSUME TypeOK, ModemInv, inbox # <<>>, inbox' = Tail(inbox),
         Head(inbox).msg \notin {"mode", "up"},
         UNCHANGED <<mFixCriteria, mNavigating, modem, crashes>>, past \subseteq past'
  PROVE  ModemInv'
  <1>1. UpAhead' <=> UpAhead
    BY LeftOver
  <1>2. Restarts1' <=> Restarts1
    BY <1>1 DEF Restarts1
  <1>3. StartsFollow'
    BY StartsTaken DEF ModemInv
  <1>4. OnlyPeriodic' /\ DownStops' /\ NotLeaked' /\ OneUp'
    BY <1>1, LeftOver DEF ModemInv, OnlyPeriodic, DownStops, NotLeaked, OneUp
  <1>5. Runs' /\ HasMode'
    BY <1>1 DEF ModemInv, Runs, HasMode, Periodic
  <1>6. SameMode' /\ KnownMode'
    BY <1>2 DEF ModemInv, SameMode, KnownMode
  <1>7. QED
    BY <1>3, <1>4, <1>5, <1>6 DEF ModemInv

LEMMA ModeTaken ==
  ASSUME IInv, ModemInv, inbox # <<>>, inbox' = Tail(inbox), UNCHANGED crashes,
         Head(inbox).msg = "mode", PositionMode(Head(inbox).mode, Head(inbox).recurrence)
  PROVE  ModemInv'
  <1> DEFINE mode == Head(inbox).mode
             r == Head(inbox).recurrence
  <1>1. TypeOK /\ Head(inbox) \in Messages /\ mode \in Modes
    BY Taken, Carried DEF IInv
  <1>2. (UpAhead' <=> UpAhead) /\ "single" \notin past => r # "single"
    BY <1>1, LeftOver DEF ModemInv, OnlyPeriodic
  <1>3. /\ mFixCriteria'.mode = mode /\ mFixCriteria'.recurrence = r
        /\ modem'.up = modem.up /\ modem'.fixing = modem.fixing /\ modem'.single = modem.single
        /\ modem.up => modem'.mode = mode
        /\ UNCHANGED <<mNavigating, past>>
    BY <1>1 DEF PositionMode, TypeOK
  <1> HIDE DEF mode, r
  <1>4. UpAhead' <=> UpAhead
    BY <1>1, LeftOver
  <1>5. modem.up \/ Restarts1'
    BY <1>3 DEF Restarts1
  <1>6. StartsFollow'
    <2>1. Ready'
      BY <1>1, <1>3, <1>5 DEF Ready
    <2>2. QED
      BY <1>1, <2>1, StartsTaken DEF ModemInv
  <1>7. OnlyPeriodic' /\ DownStops' /\ NotLeaked' /\ OneUp'
    BY <1>1, <1>2, <1>3, <1>4, LeftOver DEF ModemInv, OnlyPeriodic, DownStops, NotLeaked, OneUp
  <1>8. Runs' /\ HasMode'
    BY <1>1, <1>3, <1>4 DEF ModemInv, DownStops, Runs, HasMode, Periodic
  <1>9. SameMode' /\ KnownMode'
    BY <1>1, <1>3, BeforeCrash DEF SameMode, KnownMode
  <1>10. QED
    BY <1>6, <1>7, <1>8, <1>9 DEF ModemInv

\* A session is opened, of a modem that is told the mode first or was before.
LEMMA Opened ==
  ASSUME TypeOK, DownStops, NEW m \in ModemStates, StartNavigating(m),
         m.up = modem.up, m.fixing = modem.fixing, m.single = modem.single
  PROVE  /\ modem'.up = modem.up /\ modem'.mode = m.mode /\ past \subseteq past'
         /\ modem'.fixing => modem.up
         /\ modem'.single => modem.single \/ mFixCriteria.recurrence = "single"
         /\ ~mNavigating' => ~modem'.fixing
         /\ Periodic' /\ mNavigating' /\ modem.up => modem'.fixing
  <1>1. PICK answer \in Answers :
          /\ modem' = IF answer = "SUCCESS"
                      THEN [m EXCEPT !.fixing = TRUE, !.single = (mFixCriteria.recurrence = "single")]
                      ELSE m
          /\ mNavigating' = (answer # "GENERAL")
          /\ past' = IF answer = "OFFLINE" THEN past \cup {"offline"} ELSE past
    BY DEF StartNavigating
  <1>2. /\ ~modem.up => answer = "ENGINE_DOWN"
        /\ modem.fixing => answer = "SUCCESS" \/ ~modem.up
        /\ modem.up => answer \in {"SUCCESS", "OFFLINE", "GENERAL"}
    BY SessionAssumption DEF Answers, SessionAssumption
  <1>3. /\ modem'.up = m.up /\ modem'.mode = m.mode
        /\ answer = "SUCCESS" => modem'.fixing = TRUE /\ modem'.single = (mFixCriteria.recurrence = "single")
        /\ answer # "SUCCESS" => modem' = m
    BY <1>1
  <1>4. QED
    BY <1>1, <1>2, <1>3 DEF Periodic, DownStops

LEMMA StartTaken ==
  ASSUME IInv, ModemInv, inbox # <<>>, inbox' = Tail(inbox), UNCHANGED crashes,
         Head(inbox).msg = "start", StartFix
  PROVE  ModemInv'
  <1>1. TypeOK /\ DownStops /\ inbox \in Seq(Messages)
    BY DEF IInv, TypeOK, ModemInv
  <1>2. CASE mNavigating
    <2>1. UNCHANGED <<mFixCriteria, mNavigating, modem, past>>
      BY <1>2 DEF StartFix
    <2>2. QED
      BY <1>1, <2>1, SessionUntouched
  <1>3. CASE ~mNavigating
    <2>1. StartNavigating(modem) /\ mFixCriteria' = mFixCriteria
      BY <1>3 DEF StartFix
    <2>2. /\ modem'.up = modem.up /\ modem'.mode = modem.mode /\ past \subseteq past'
          /\ modem'.fixing => modem.up
          /\ modem'.single => modem.single \/ mFixCriteria.recurrence = "single"
          /\ ~mNavigating' => ~modem'.fixing
          /\ Periodic' /\ mNavigating' /\ modem.up => modem'.fixing
      BY <1>1, <2>1, Opened DEF TypeOK
    <2>3. Ready
      <3>1. 1 \in 1..Len(inbox) /\ inbox[1].msg = "start"
        BY <1>1, PlaceTail
      <3>2. QED
        BY <3>1, PlaceFirst DEF ModemInv, StartsFollow
    <2>4. UpAhead' <=> UpAhead
      BY <1>1, LeftOver
    <2>5. Restarts1' <=> Restarts1
      BY <2>2, <2>4 DEF Restarts1
    <2>6. StartsFollow'
      BY <1>1, StartsTaken DEF ModemInv
    <2>7. OnlyPeriodic' /\ DownStops' /\ NotLeaked' /\ OneUp'
      BY <1>1, <2>1, <2>2, <2>4, LeftOver DEF ModemInv, OnlyPeriodic, DownStops, NotLeaked, OneUp
    <2>8. Runs'
      BY <2>2 DEF Runs
    <2>9. HasMode'
      BY <2>2, <2>3, <2>4 DEF HasMode, Ready, Restarts1
    <2>10. SameMode' /\ KnownMode'
      BY <2>1, <2>2, <2>3, BeforeCrash DEF SameMode, KnownMode, Ready
    <2>11. QED
      BY <2>6, <2>7, <2>8, <2>9, <2>10 DEF ModemInv
  <1>4. QED
    BY <1>2, <1>3

LEMMA StopTaken ==
  ASSUME IInv, ModemInv, inbox # <<>>, inbox' = Tail(inbox), UNCHANGED crashes,
         Head(inbox).msg = "stop", StopFix
  PROVE  ModemInv'
  <1>1. TypeOK
    BY DEF IInv
  <1>2. CASE ~mNavigating
    <2>1. UNCHANGED <<mFixCriteria, mNavigating, modem, past>>
      BY <1>2 DEF StopFix
    <2>2. QED
      BY <1>1, <2>1, SessionUntouched
  <1>3. CASE mNavigating
    <2>1. /\ mNavigating' = FALSE /\ modem'.fixing = FALSE /\ modem'.up = modem.up
          /\ modem'.single = modem.single /\ modem'.mode = modem.mode
          /\ mFixCriteria'.recurrence = mFixCriteria.recurrence /\ past' = past
      BY <1>1, <1>3 DEF StopFix, Halted, Invalid, TypeOK
    <2>2. UpAhead' <=> UpAhead
      BY <1>1, LeftOver
    <2>3. StartsFollow'
      BY <1>1, StartsTaken DEF ModemInv
    <2>4. OnlyPeriodic' /\ DownStops' /\ NotLeaked' /\ OneUp'
      BY <1>1, <2>1, <2>2, LeftOver DEF ModemInv, OnlyPeriodic, DownStops, NotLeaked, OneUp
    <2>5. Runs' /\ HasMode' /\ SameMode' /\ KnownMode'
      BY <2>1 DEF Runs, HasMode, SameMode, KnownMode
    <2>6. QED
      BY <2>3, <2>4, <2>5 DEF ModemInv
  <1>4. QED
    BY <1>2, <1>3

\* Only a session for one fix is touched by a fix.
LEMMA PositionTaken ==
  ASSUME IInv, ModemInv, inbox # <<>>, inbox' = Tail(inbox), UNCHANGED crashes,
         Head(inbox).msg = "fix", Position(Head(inbox).fix)
  PROVE  ModemInv'
  <1> DEFINE fix == Head(inbox).fix
  <1>1. TypeOK
    BY DEF IInv
  <1>2. past' = past
    BY DEF Position
  <1>3. CASE ~Ends(fix)
    <2>1. UNCHANGED <<mFixCriteria, mNavigating, modem>>
      BY <1>1, <1>3 DEF Position, Criteria, TypeOK
    <2>2. QED
      BY <1>1, <1>2, <2>1, SessionUntouched
  <1>4. CASE Ends(fix)
    <2>1. "single" \in past
      BY <1>4 DEF ModemInv, OnlyPeriodic, Ends
    <2>2. mNavigating' = FALSE /\ modem'.up = modem.up /\ (modem'.fixing => modem.fixing)
      BY <1>1, <1>4 DEF Position, Halted, TypeOK
    <2>3. UpAhead' <=> UpAhead
      BY <1>1, LeftOver
    <2>4. StartsFollow'
      BY <1>1, StartsTaken DEF ModemInv
    <2>5. OnlyPeriodic' /\ NotLeaked' /\ Runs' /\ HasMode' /\ SameMode' /\ KnownMode'
      BY <1>2, <2>1, <2>2 DEF OnlyPeriodic, NotLeaked, Runs, HasMode, SameMode, KnownMode, Periodic
    <2>6. DownStops' /\ OneUp'
      BY <1>1, <2>2, <2>3, LeftOver DEF ModemInv, DownStops, OneUp
    <2>7. QED
      BY <2>4, <2>5, <2>6 DEF ModemInv
  <1>5. QED
    BY <1>3, <1>4

\* The engine handles that the modem is up again.
LEMMA UpTaken ==
  ASSUME IInv, ModemInv, inbox # <<>>, inbox' = Tail(inbox), UNCHANGED crashes,
         Head(inbox).msg = "up", EngineUp
  PROVE  ModemInv'
  <1>1. TypeOK /\ DownStops /\ Head(inbox) \in Messages /\ UpAhead
    BY LeftOver DEF IInv, ModemInv
  <1>2. crashes # 0
    BY <1>1, BeforeCrash
  <1>3. crashes <= 1 => modem.up /\ ~UpAhead'
    BY <1>1, LeftOver DEF ModemInv, OneUp
  <1>4. StartsFollow'
    BY <1>1, StartsTaken DEF ModemInv
  <1>5. UpAhead' => UpAhead
    BY <1>1
  <1>6. CASE ~mNavigating
    <2>1. UNCHANGED <<mFixCriteria, mNavigating, modem, past>>
      BY <1>6 DEF EngineUp
    <2>2. OnlyPeriodic' /\ DownStops' /\ NotLeaked'
      BY <1>1, <2>1, LeftOver DEF ModemInv, OnlyPeriodic, DownStops, NotLeaked
    <2>3. OneUp' /\ Runs' /\ SameMode' /\ KnownMode'
      BY <1>3, <1>6, <2>1 DEF OneUp, Runs, SameMode, KnownMode
    <2>4. HasMode'
      BY <1>6, <2>1 DEF ModemInv, NotLeaked, HasMode, Periodic
    <2>5. QED
      BY <1>4, <2>2, <2>3, <2>4 DEF ModemInv
  <1>7. CASE mNavigating
    <2> DEFINE m == IF modem.up THEN [modem EXCEPT !.mode = mFixCriteria.mode] ELSE modem
    <2>1. /\ m \in ModemStates /\ m.up = modem.up /\ m.fixing = modem.fixing /\ m.single = modem.single
          /\ modem.up => m.mode = mFixCriteria.mode
      BY <1>1 DEF TypeOK
    <2>2. StartNavigating(m) /\ mFixCriteria' = Invalid
      BY <1>7 DEF EngineUp
    <2> HIDE DEF m
    <2>3. /\ modem'.up = modem.up /\ modem'.mode = m.mode /\ past \subseteq past'
          /\ modem'.fixing => modem.up
          /\ modem'.single => modem.single \/ mFixCriteria.recurrence = "single"
          /\ ~mNavigating' => ~modem'.fixing
          /\ Periodic' /\ mNavigating' /\ modem.up => modem'.fixing
      BY <1>1, <2>1, <2>2, Opened
    <2>4. mFixCriteria'.recurrence = mFixCriteria.recurrence
      BY <1>1, <2>2 DEF Invalid, TypeOK
    <2>5. OnlyPeriodic' /\ DownStops' /\ NotLeaked'
      BY <1>1, <2>3, <2>4, LeftOver DEF ModemInv, OnlyPeriodic, DownStops, NotLeaked
    <2>6. OneUp' /\ Runs' /\ SameMode'
      BY <1>2, <1>3, <2>3 DEF OneUp, Runs, SameMode
    <2>7. KnownMode'
      BY <1>2, <1>3, <2>3 DEF KnownMode, Restarts1
    <2>8. HasMode'
      <3>1. crashes <= 1 => mFixCriteria.mode \in Modes
        BY <1>1, <1>7 DEF ModemInv, KnownMode, Restarts1
      <3>2. QED
        BY <1>3, <2>1, <2>3, <3>1 DEF HasMode
    <2>9. QED
      BY <1>4, <2>5, <2>6, <2>7, <2>8 DEF ModemInv
  <1>8. QED
    BY <1>6, <1>7

(***************************************************************************)
(* The satellites of a fix.                                                *)
(***************************************************************************)
\* Messages are added behind those that are backed.
LEMMA BackedSent ==
  ASSUME TypeOK, FixBacked, NEW m \in Messages, inbox' = Append(inbox, m),
         UNCHANGED <<nmea, mute>>, past \subseteq past',
         m \in SatFixes => modem.said = "seen",
         modem'.said = "seen" => m \in Used \/ (modem.said = "seen" /\ m \notin Breaks)
  PROVE  FixBacked'
  <1> DEFINE n == Len(inbox)
  <1>0. inbox \in Seq(Messages)
    BY DEF TypeOK
  <1>1. n \in Nat /\ Len(inbox') = n + 1 /\ inbox'[n + 1] = m /\ \A k \in 1..n : inbox'[k] = inbox[k]
    BY <1>0, LenAdded
  <1>2. \A k \in 1..(n + 1) : Clear(inbox, k, Breaks) => Clear(inbox', k, Breaks)
    BY <1>0, ClearAdded
  <1>3. \A k \in 1..(n + 1) : After(inbox, k, Used, Breaks) => After(inbox', k, Used, Breaks)
    BY <1>0, AfterAdded
  <1>4. Clear(inbox, n + 1, Breaks) /\ m \notin Breaks => Clear(inbox', n + 2, Breaks)
    BY <1>0, ClearAdded
  <1>5. /\ After(inbox, n + 1, Used, Breaks) /\ m \notin Breaks => After(inbox', n + 2, Used, Breaks)
        /\ m \in Used => After(inbox', n + 2, Used, Breaks)
    BY <1>0, AfterAdded
  <1>6. Fresh => Fresh'
    BY DEF Fresh
  <1>7. /\ \A k \in 1..n : inbox[k] \in SatFixes => Backed(k)
        /\ modem.said = "seen" => Backed(n + 1)
    BY DEF FixBacked
  <1> HIDE DEF n
  <1>8. \A k \in 1..(n + 1) : Backed(k) => Backed(k)'
    BY <1>2, <1>3, <1>6 DEF Backed
  <1>9. ASSUME NEW k \in 1..(n + 1), inbox'[k] \in SatFixes PROVE Backed(k)'
    <2>1. CASE k = n + 1
      BY <1>1, <1>7, <1>8, <1>9, <2>1
    <2>2. CASE k # n + 1
      <3>1. k \in 1..n
        BY <1>1, <2>2
      <3>2. QED
        BY <1>1, <1>7, <1>8, <1>9, <3>1
    <2>3. QED
      BY <2>1, <2>2
  <1>10. ASSUME modem'.said = "seen"
         PROVE  (Fresh' /\ Clear(inbox', n + 2, Breaks)) \/ After(inbox', n + 2, Used, Breaks)
    BY <1>4, <1>5, <1>6, <1>7, <1>10 DEF Backed
  <1>11. Len(inbox') + 1 = n + 2
    BY <1>1
  <1>12. modem'.said = "seen" => Backed(Len(inbox) + 1)'
    BY <1>10, <1>11 DEF Backed
  <1>13. QED
    BY <1>1, <1>9, <1>12 DEF FixBacked

\* The oldest message is taken, and what it leaves in the cache is for what follows.
LEMMA BackedTaken ==
  ASSUME TypeOK, FixBacked, inbox # <<>>, inbox' = Tail(inbox), modem'.said = modem.said,
         Head(inbox) \in Used => Fresh', Fresh /\ Head(inbox) \notin Breaks => Fresh'
  PROVE  FixBacked'
  <1> DEFINE n == Len(inbox)
  <1>0. inbox \in Seq(Messages)
    BY DEF TypeOK
  <1>1. /\ n \in Nat \ {0} /\ Len(inbox') = n - 1
        /\ \A k \in 1..(n - 1) : inbox'[k] = inbox[k + 1] /\ k + 1 \in 1..n
    BY <1>0, PlaceTail
  <1>2. \A k \in 1..n : Clear(inbox, k + 1, Breaks) => Head(inbox) \notin Breaks /\ Clear(inbox', k, Breaks)
    BY <1>0, PlaceTail
  <1>3. \A k \in 1..n : After(inbox, k + 1, Used, Breaks) =>
          (Head(inbox) \in Used /\ Clear(inbox', k, Breaks)) \/ After(inbox', k, Used, Breaks)
    BY <1>0, PlaceTail
  <1>4. /\ \A k \in 1..n : inbox[k] \in SatFixes => Backed(k)
        /\ modem.said = "seen" => Backed(n + 1)
    BY DEF FixBacked
  <1> HIDE DEF n
  <1>5. \A k \in 1..n : Backed(k + 1) => Backed(k)'
    BY <1>2, <1>3 DEF Backed
  <1>6. ASSUME NEW k \in 1..(n - 1), inbox'[k] \in SatFixes PROVE Backed(k)'
    <2>1. k \in 1..n
      BY <1>1
    <2>2. QED
      BY <1>1, <1>4, <1>5, <1>6, <2>1
  <1>7. n \in 1..n /\ Len(inbox') + 1 = n
    BY <1>1
  <1>8. QED
    BY <1>1, <1>4, <1>5, <1>6, <1>7 DEF FixBacked

LEMMA StartBacked ==
  ASSUME TypeOK, FixBacked, NEW mode \in Modes, NEW r \in Recurrences, Start(mode, r)
  PROVE  FixBacked'
  <1> DEFINE a == [msg |-> "mode", mode |-> mode, recurrence |-> r]
             b == [msg |-> "start"]
             q == Append(inbox, a)
             c == Append(q, b)
             n == Len(inbox)
  <1>1. a \in Messages /\ b \in Messages /\ inbox \in Seq(Messages) /\ q \in Seq(Messages)
    BY MessageTypes DEF TypeOK
  <1>2. inbox' = c
    <2>1. inbox' = inbox \o <<a, b>>
      BY DEF Start
    <2>2. QED
      BY <1>1, <2>1
  <1>3. a \notin Breaks /\ b \notin Breaks /\ a \notin SatFixes /\ b \notin SatFixes
    BY DEF Breaks, SatFixes, OfKind
  <1>4. UNCHANGED <<nmea, mute, modem>> /\ past \subseteq past'
    BY DEF Start, locEng
  <1>5. Fresh => Fresh'
    BY <1>4 DEF Fresh
  <1> HIDE DEF a, b
  <1>6. n \in Nat /\ Len(q) = n + 1 /\ q[n + 1] = a /\ \A k \in 1..n : q[k] = inbox[k]
    BY <1>1, LenAdded
  <1>7. /\ \A k \in 1..(n + 1) : Clear(inbox, k, Breaks) => Clear(q, k, Breaks)
        /\ Clear(inbox, n + 1, Breaks) => Clear(q, n + 2, Breaks)
    BY <1>1, <1>3, ClearAdded
  <1>8. /\ \A k \in 1..(n + 1) : After(inbox, k, Used, Breaks) => After(q, k, Used, Breaks)
        /\ After(inbox, n + 1, Used, Breaks) => After(q, n + 2, Used, Breaks)
    BY <1>1, <1>3, AfterAdded
  <1> DEFINE l == Len(q)
  <1>9. Len(c) = l + 1 /\ c[l + 1] = b /\ \A k \in 1..l : c[k] = q[k]
    BY <1>1, LenAdded
  <1>10. /\ \A k \in 1..(l + 1) : Clear(q, k, Breaks) => Clear(c, k, Breaks)
         /\ Clear(q, l + 1, Breaks) => Clear(c, l + 2, Breaks)
    BY <1>1, <1>3, ClearAdded
  <1>11. /\ \A k \in 1..(l + 1) : After(q, k, Used, Breaks) => After(c, k, Used, Breaks)
         /\ After(q, l + 1, Used, Breaks) => After(c, l + 2, Used, Breaks)
    BY <1>1, <1>3, AfterAdded
  <1>12. /\ \A k \in 1..n : inbox[k] \in SatFixes => Backed(k)
         /\ modem.said = "seen" => Backed(n + 1)
    BY DEF FixBacked
  <1>13. l = n + 1 /\ l + 1 = n + 2 /\ Len(c) + 1 = n + 3 /\ l + 2 = n + 3
    BY <1>6, <1>9
  <1> HIDE DEF q, c, n, l
  <1>14. ASSUME NEW k \in 1..Len(c), c[k] \in SatFixes PROVE Backed(k)'
    <2>1. k # n + 1 /\ k # n + 2
      <3>1. n + 1 \in 1..l
        BY <1>6, <1>13
      <3>2. QED
        BY <1>3, <1>6, <1>9, <1>13, <1>14, <3>1
    <2>2. k \in 1..n /\ k \in 1..(n + 1) /\ k \in 1..l /\ k \in 1..(l + 1)
      BY <1>6, <1>9, <1>13, <2>1
    <2>3. Backed(k)
      BY <1>6, <1>9, <1>12, <1>14, <2>2
    <2>4. QED
      BY <1>2, <1>5, <1>7, <1>8, <1>10, <1>11, <2>2, <2>3 DEF Backed
  <1>15. ASSUME modem'.said = "seen"
         PROVE  (Fresh' /\ Clear(c, l + 2, Breaks)) \/ After(c, l + 2, Used, Breaks)
    BY <1>4, <1>5, <1>7, <1>8, <1>10, <1>11, <1>12, <1>13, <1>15 DEF Backed
  <1>16. Len(inbox') + 1 = l + 2
    BY <1>2, <1>13
  <1>17. modem'.said = "seen" => Backed(Len(inbox) + 1)'
    BY <1>2, <1>15, <1>16 DEF Backed
  <1>18. \A k \in 1..Len(inbox') : inbox'[k] \in SatFixes => Backed(k)'
    BY <1>2, <1>14
  <1>19. QED
    BY <1>17, <1>18 DEF FixBacked

\* What the framework and the modem add, but a start.
LEMMA RequestBacked ==
  ASSUME TypeOK, FixBacked,
         \/ Stop
         \/ EmergencyRequest
         \/ \E mask \in SUBSET Aids : mask # {} /\ DeleteAidingData(mask)
         \/ Says
         \/ \E used \in BOOLEAN : Satellites(used)
         \/ \E fix \in Fixes : Fix(fix)
         \/ Crash
         \/ Recover
  PROVE  FixBacked'
  <1>1. UNCHANGED <<nmea, mute, past>>
    BY DEF Stop, EmergencyRequest, DeleteAidingData, Says, Say, Satellites, Fix, Crash, Recover, locEng
  <1>2. PICK m \in Messages :
          /\ inbox' = Append(inbox, m)
          /\ m \in SatFixes => modem.said = "seen"
          /\ modem'.said = "seen" => m \in Used \/ (modem.said = "seen" /\ m \notin Breaks)
    <2> SUFFICES \E m \in Messages :
          /\ inbox' = Append(inbox, m)
          /\ m \in SatFixes => modem.said = "seen"
          /\ modem'.said = "seen" => m \in Used \/ (modem.said = "seen" /\ m \notin Breaks)
      OBVIOUS
    <2> USE MessageTypes
    <2>1. CASE Stop \/ EmergencyRequest \/ Recover
      <3>1. PICK k \in {"stop", "mute", "up"} : inbox' = Append(inbox, [msg |-> k])
        BY <2>1 DEF Stop, EmergencyRequest, Recover
      <3>2. modem'.said = modem.said
        BY <2>1 DEF Stop, EmergencyRequest, Recover, TypeOK
      <3>3. [msg |-> k] \in Messages /\ [msg |-> k] \notin Breaks /\ [msg |-> k] \notin SatFixes
        BY DEF Breaks, SatFixes, OfKind
      <3>4. QED
        BY <3>1, <3>2, <3>3
    <2>2. CASE \E mask \in SUBSET Aids : mask # {} /\ DeleteAidingData(mask)
      <3>1. PICK mask \in SUBSET Aids : DeleteAidingData(mask)
        BY <2>2
      <3> DEFINE m == [msg |-> "delete", mask |-> mask]
      <3>2. m \in Messages /\ m \notin Breaks /\ m \notin SatFixes
        BY DEF Breaks, SatFixes, OfKind
      <3>3. inbox' = Append(inbox, m) /\ modem' = modem
        BY <3>1 DEF DeleteAidingData
      <3>4. QED
        BY <3>2, <3>3
    <2>3. CASE Says
      <3>1. PICK status \in Statuses : inbox' = Append(inbox, [msg |-> "status", status |-> status])
        BY <2>3 DEF Says, Say, Statuses
      <3>2. modem'.said # "seen"
        BY <2>3 DEF Says, Say, TypeOK
      <3>3. [msg |-> "status", status |-> status] \in Messages
              /\ [msg |-> "status", status |-> status] \notin SatFixes
        BY DEF SatFixes, OfKind
      <3>4. QED
        BY <3>1, <3>2, <3>3
    <2>4. CASE \E used \in BOOLEAN : Satellites(used)
      <3>1. PICK used \in BOOLEAN : Satellites(used)
        BY <2>4
      <3> DEFINE m == [msg |-> "svs", used |-> used]
      <3>2. m \in Messages /\ m \notin SatFixes
        BY DEF SatFixes, OfKind
      <3>3. inbox' = Append(inbox, m) /\ (modem'.said = "seen" => used = TRUE)
        BY <3>1 DEF Satellites, TypeOK
      <3>4. used = TRUE => m \in Used
        BY <3>2 DEF Used, OfKind
      <3>5. QED
        BY <3>2, <3>3, <3>4
    <2>5. CASE \E fix \in Fixes : Fix(fix)
      <3>1. PICK fix \in Fixes : Fix(fix)
        BY <2>5
      <3> DEFINE m == [msg |-> "fix", fix |-> fix]
      <3>2. m \in Messages /\ (m \in SatFixes => fix \in {"intermediate", "coarse", "final"})
        BY DEF SatFixes, OfKind
      <3>3. /\ inbox' = Append(inbox, m) /\ modem'.said = "begun"
            /\ fix \in {"intermediate", "coarse", "final"} => modem.said = "seen"
        BY <3>1 DEF Fix, Intermediate, TypeOK
      <3>4. QED
        BY <3>2, <3>3
    <2>6. CASE Crash
      <3> DEFINE m == [msg |-> "down"]
      <3>1. m \in Messages /\ m \notin SatFixes
        BY DEF SatFixes, OfKind
      <3>2. inbox' = Append(inbox, m) /\ modem'.said = "off"
        BY <2>6 DEF Crash
      <3>3. QED
        BY <3>1, <3>2
    <2>7. QED
      BY <2>1, <2>2, <2>3, <2>4, <2>5, <2>6
  <1>3. QED
    BY <1>1, <1>2, BackedSent

\* A mute of a session that is muted already is left out; any other leaves the
\* session muted, or not, until the next report.
LEMMA ProcessBacked ==
  ASSUME IInv, FixBacked, Process
  PROVE  FixBacked'
  <1> DEFINE m == Head(inbox)
  <1>0. inbox # <<>> /\ inbox' = Tail(inbox)
    BY DEF Process
  <1>1. TypeOK /\ m \in Messages
    BY <1>0, Taken DEF IInv
  <1>2. modem'.said = modem.said
    BY <1>1, Starting DEF IInv, Process, PositionMode, StartFix, StopFix, Halted, Status, SvReport,
       Position, DelAidData, Mute, EngineDown, EngineUp, StartNavigating, TypeOK
  <1>3. /\ m \in Used <=> m.msg = "svs" /\ m.used
        /\ m \in Breaks <=> m.msg \in {"fix", "down"} \/ (m.msg = "status" /\ m.status \in {"END", "OFF"})
    BY <1>1 DEF Used, Breaks, OfKind
  <1>4. m \in Used => Fresh'
    BY <1>1, <1>3 DEF Process, SvReport, Cached, Fresh
  <1>5. ASSUME Fresh, m \notin Breaks PROVE Fresh'
    <2>1. CASE m.msg \in {"mode", "start", "stop", "delete", "fix", "down"}
      <3>1. UNCHANGED <<nmea, mute>> /\ past \subseteq past'
        BY <1>1, <1>3, <1>5, <2>1 DEF Process, PositionMode, StartFix, StartNavigating, StopFix, DelAidData
      <3>2. QED
        BY <1>5, <3>1 DEF Fresh
    <2>2. CASE m.msg = "status"
      <3>1. Status(m.status) /\ m.status \in {"ON", "BEGIN"}
        BY <1>1, <1>3, <1>5, <2>2, Carried DEF Process, Statuses
      <3>2. UNCHANGED <<nmea, past>> /\ (mute = "IN_SESSION" => mute' = "IN_SESSION")
        BY <3>1 DEF Status, ReportStatus, Muted
      <3>3. QED
        BY <1>5, <3>2 DEF Fresh
    <2>3. CASE m.msg = "svs"
      <3>1. UNCHANGED <<mute, past>> /\ nmea' \in {nmea, Cached(nmea)}
        BY <2>3 DEF Process, SvReport
      <3>2. QED
        BY <1>5, <3>1 DEF Cached, Fresh
    <2>4. CASE m.msg = "mute"
      <3>1. nmea' = nmea /\ past \subseteq past' /\ (mute = "IN_SESSION" => "remuted" \in past')
        BY <2>4 DEF Process, Mute
      <3>2. QED
        BY <1>5, <3>1 DEF Fresh
    <2>5. CASE m.msg = "up"
      <3>1. EngineUp
        BY <2>5 DEF Process
      <3>2. nmea' = nmea /\ past \subseteq past' /\ (mute = "IN_SESSION" => mute' = "IN_SESSION")
        BY <3>1 DEF EngineUp, StartNavigating, ReportStatus, Muted
      <3>3. QED
        BY <1>5, <3>2 DEF Fresh
    <2>6. QED
      BY <2>1, <2>2, <2>3, <2>4, <2>5 DEF Process
  <1>6. QED
    BY <1>0, <1>1, <1>2, <1>4, <1>5, BackedTaken

(***************************************************************************)
(* The modem's session and the satellites of its fixes, over every step.   *)
(***************************************************************************)
LEMMA RequestSent ==
  ASSUME IInv, ModemInv,
         \/ Stop
         \/ EmergencyRequest
         \/ \E mask \in SUBSET Aids : mask # {} /\ DeleteAidingData(mask)
         \/ Says
         \/ \E used \in BOOLEAN : Satellites(used)
         \/ \E fix \in Fixes : Fix(fix)
  PROVE  ModemInv'
  <1>1. TypeOK
    BY DEF IInv
  <1>2. UNCHANGED <<mFixCriteria, mNavigating, crashes, past>>
    BY DEF Stop, EmergencyRequest, DeleteAidingData, Says, Say, Satellites, Fix, locEng
  <1>3. /\ modem'.up = modem.up /\ modem'.mode = modem.mode /\ modem'.single = modem.single
        /\ modem'.fixing = modem.fixing \/ (modem.single /\ ~modem'.fixing)
    <2>1. CASE \E fix \in Fixes : Fix(fix)
      <3>1. PICK fix \in Fixes : Fix(fix)
        BY <2>1
      <3>2. /\ modem.fixing /\ modem'.fixing = ~(fix \notin Intermediate /\ modem.single)
            /\ modem'.up = modem.up /\ modem'.mode = modem.mode /\ modem'.single = modem.single
        BY <1>1, <3>1 DEF Fix, TypeOK
      <3>3. QED
        BY <1>1, <3>2 DEF TypeOK
    <2>2. CASE ~(\E fix \in Fixes : Fix(fix))
      BY <1>1, <2>2 DEF Stop, EmergencyRequest, DeleteAidingData, Says, Say, Satellites, TypeOK
    <2>3. QED
      BY <2>1, <2>2
  <1>4. PICK m \in Messages : inbox' = Append(inbox, m) /\ m.msg \notin {"mode", "start", "up"}
    BY MessageTypes DEF Stop, EmergencyRequest, DeleteAidingData, Says, Say, Satellites, Fix, Statuses
  <1>5. QED
    BY <1>1, <1>2, <1>3, <1>4, ModemSent

LEMMA ProcessTaken ==
  ASSUME IInv, ModemInv, Process
  PROVE  ModemInv'
  <1> DEFINE m == Head(inbox)
  <1>1. inbox # <<>> /\ inbox' = Tail(inbox) /\ UNCHANGED crashes
    BY DEF Process
  <1>2. CASE m.msg \in {"status", "svs", "delete", "mute", "down"}
    <2>1. UNCHANGED <<mFixCriteria, mNavigating, modem>> /\ past \subseteq past'
      BY <1>2 DEF Process, Status, SvReport, DelAidData, Mute, EngineDown
    <2>2. QED
      BY <1>1, <1>2, <2>1, SessionUntouched DEF IInv
  <1>3. CASE m.msg = "mode"
    BY <1>1, <1>3, ModeTaken DEF Process
  <1>4. CASE m.msg = "start"
    BY <1>1, <1>4, StartTaken DEF Process
  <1>5. CASE m.msg = "stop"
    BY <1>1, <1>5, StopTaken DEF Process
  <1>6. CASE m.msg = "fix"
    BY <1>1, <1>6, PositionTaken DEF Process
  <1>7. CASE m.msg = "up"
    BY <1>1, <1>7, UpTaken DEF Process
  <1>8. QED
    BY <1>2, <1>3, <1>4, <1>5, <1>6, <1>7 DEF Process

SInv == IInv /\ ModemInv /\ FixBacked

LEMMA InitSInv == Init => SInv
  <1> SUFFICES ASSUME Init PROVE SInv
    OBVIOUS
  <1>1. Len(inbox) = 0 /\ modem.said = "off" /\ ~modem.fixing /\ ~mNavigating /\ modem.up
          /\ ~modem.single /\ mFixCriteria.recurrence = "periodic" /\ \A S : ~InSeq(inbox, S)
    BY DEF Init, InSeq
  <1>2. FixBacked
    BY <1>1 DEF FixBacked
  <1>3. OnlyPeriodic /\ DownStops /\ NotLeaked /\ OneUp
    BY <1>1 DEF OnlyPeriodic, DownStops, NotLeaked, OneUp, UpAhead
  <1>4. Runs /\ StartsFollow /\ SameMode /\ KnownMode /\ HasMode
    BY <1>1 DEF Runs, StartsFollow, SameMode, KnownMode, HasMode
  <1>5. QED
    BY <1>2, <1>3, <1>4, InitIInv DEF SInv, ModemInv

LEMMA NextSInv == SInv /\ [Next]_vars => SInv'
  <1> SUFFICES ASSUME SInv, [Next]_vars PROVE SInv'
    OBVIOUS
  <1>0. IInv /\ ModemInv /\ FixBacked /\ TypeOK
    BY DEF SInv, IInv
  <1>1. IInv'
    BY <1>0, NextIInv
  <1>2. CASE Process
    BY <1>0, <1>1, <1>2, ProcessTaken, ProcessBacked DEF SInv
  <1>3. CASE \E mode \in Modes, r \in Recurrences : Start(mode, r)
    BY <1>0, <1>1, <1>3, StartSent, StartBacked DEF SInv
  <1>4. CASE Stop \/ EmergencyRequest \/ (\E mask \in SUBSET Aids : mask # {} /\ DeleteAidingData(mask))
               \/ Says \/ (\E used \in BOOLEAN : Satellites(used)) \/ (\E fix \in Fixes : Fix(fix))
    BY <1>0, <1>1, <1>4, RequestSent, RequestBacked DEF SInv
  <1>5. CASE Crash \/ Recover
    BY <1>0, <1>1, <1>5, CrashSent, RequestBacked DEF SInv
  <1>6. CASE UNCHANGED vars
    <2>1. UNCHANGED <<inbox, mFixCriteria, mNavigating, mute, nmea, modem, crashes, past>>
      BY <1>6 DEF vars, locEng
    <2>2. (UpAhead' <=> UpAhead) /\ (Restarts1' <=> Restarts1) /\ (Ready' <=> Ready)
      BY <2>1 DEF UpAhead, Restarts1, Ready
    <2>3. (OnlyPeriodic /\ DownStops /\ NotLeaked /\ OneUp)'
      BY <1>0, <2>1, <2>2 DEF ModemInv, OnlyPeriodic, DownStops, NotLeaked, OneUp
    <2>4. (Runs /\ SameMode /\ KnownMode /\ HasMode)'
      BY <1>0, <2>1, <2>2 DEF ModemInv, Runs, SameMode, KnownMode, HasMode, Periodic
    <2>5. StartsFollow'
      BY <1>0, <2>1, <2>2 DEF ModemInv, StartsFollow
    <2>6. FixBacked'
      BY <1>0, <2>1 DEF FixBacked, Backed, Fresh
    <2>7. QED
      BY <1>1, <2>3, <2>4, <2>5, <2>6 DEF SInv, ModemInv
  <1>7. QED
    BY <1>2, <1>3, <1>4, <1>5, <1>6 DEF Next

LEMMA SessionInvariance == Spec => []SInv
  BY InitSInv, NextSInv, PTL DEF Spec

\* The modem does not go on for a session that has ended, goes on for one that
\* has not, across any crash, and has the mode that was set, across one.
THEOREM ModemStaysInAgreement == Spec => []ModemAgrees
  <1>1. SInv => ModemAgrees
    <2> SUFFICES ASSUME SInv PROVE ModemAgrees
      OBVIOUS
    <2>1. Quiet => ~UpAhead
      BY QuietIsEmpty DEF UpAhead
    <2>2. OnlyPeriodic /\ NotLeaked /\ Runs /\ HasMode
      BY DEF SInv, ModemInv
    <2>3. NoLeakedFix
      BY <2>2 DEF NotLeaked, NoLeakedFix
    <2>4. SessionRuns
      BY <2>1, <2>2 DEF Runs, SessionRuns
    <2>5. SessionHasMode
      BY <2>1, <2>2 DEF HasMode, SessionHasMode
    <2>6. QED
      BY <2>3, <2>4, <2>5 DEF ModemAgrees
  <1>2. QED
    BY <1>1, SessionInvariance, PTL

\* The sentences of a fix are made of its own satellites, and name the mode the
\* modem is in, whatever is rejected, muted, restarted or started before it.
THEOREM NmeaStaysInAgreement == Spec => []NmeaAgrees
  <1>1. SInv => NmeaAgrees
    <2> SUFFICES ASSUME SInv PROVE NmeaAgrees
      OBVIOUS
    <2> DEFINE m == Head(inbox)
    <2>1. TypeOK /\ ModemInv /\ FixBacked
      BY DEF SInv, IInv
    <2>2. ASSUME inbox # <<>>
          PROVE  m \in Messages /\ m = inbox[1] /\ 1 \in 1..Len(inbox)
      BY <2>1, <2>2 DEF TypeOK
    <2>3. ShowsOwn
      <3> SUFFICES ASSUME GivesSentences, "remuted" \notin past
                   PROVE  /\ Sentences(m.fix).gsa.used # "old" /\ Sentences(m.fix).gsa.dop # "old"
                          /\ Sentences(m.fix).gga.used # "old" /\ Sentences(m.fix).gga.dop # "old"
        BY DEF ShowsOwn
      <3>1. CASE ~IsFull(m.fix)
        BY <3>1 DEF Sentences, Blank
      <3>2. CASE IsFull(m.fix)
        <4>1. m \in Messages /\ m = inbox[1] /\ 1 \in 1..Len(inbox) /\ m.msg = "fix"
          BY <2>2 DEF GivesSentences
        <4>2. m.fix \in {"intermediate", "coarse", "final"}
          BY <3>2 DEF GivesSentences, HasSentences, IsFull, Reported
        <4>3. m \in SatFixes
          BY <4>1, <4>2 DEF SatFixes, OfKind
        <4>4. Fresh
          BY <2>1, <4>1, <4>3, PlaceFirst DEF FixBacked, Backed
        <4>5. nmea.used = "own" /\ nmea.dop = "own"
          BY <4>4 DEF Fresh, GivesSentences, HasSentences
        <4>6. QED
          BY <3>2, <4>5 DEF Sentences, Full, Gsa, Gga
      <3>3. QED
        BY <3>1, <3>2
    <2>4. LabelsMode
      <3> SUFFICES ASSUME IsFull(m.fix), "single" \notin past, crashes = 0, mNavigating
                   PROVE  /\ Sentences(m.fix).vtg.label = Label(TRUE, modem.mode)
                          /\ Sentences(m.fix).rmc.label = Label(TRUE, modem.mode)
                          /\ Sentences(m.fix).gga.quality = Quality(TRUE, modem.mode)
        BY DEF LabelsMode
      <3>1. ~Ends(m.fix) /\ modem.mode = mFixCriteria.mode
        BY <2>1 DEF ModemInv, OnlyPeriodic, SameMode, Ends
      <3>2. Sentences(m.fix) = Full(TRUE, modem.mode, nmea)
        BY <3>1 DEF Sentences, Criteria
      <3> DEFINE l == Label(TRUE, modem.mode)
                 q == Quality(TRUE, modem.mode)
      <3>3. Sentences(m.fix) =
              [gsa |-> Gsa(nmea), vtg |-> [label |-> l], rmc |-> [status |-> "A", label |-> l],
               gga |-> [quality |-> q, used |-> nmea.used, dop |-> nmea.dop]]
        BY <3>2, Zenon DEF Full, Vtg, Rmc, Gga
      <3>4. Sentences(m.fix).vtg.label = l /\ Sentences(m.fix).rmc.label = l
              /\ Sentences(m.fix).gga.quality = q
        <4> HIDE DEF l, q
        <4>1. QED
          BY <3>3
      <3>5. QED
        BY <3>4
    <2>5. QED
      BY <2>3, <2>4 DEF NmeaAgrees
  <1>2. QED
    BY <1>1, SessionInvariance, PTL
==============================================================================
