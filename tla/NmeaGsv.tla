------------------------------- MODULE NmeaGsv -------------------------------
(***************************************************************************)
(* The satellites in view as NMEA sentences: loc_eng_nmea_generate_sv of   *)
(* gps/libloc_api_50001/loc_eng_nmea.cpp.  The report lists satellites of  *)
(* all systems in one list; each system gets sentences of its own, of up   *)
(* to four satellites.  A satellite is its place in the list.              *)
(***************************************************************************)
EXTENDS Naturals, Sequences, FiniteSets

CONSTANT Reports  \* lists of satellites, each by its prn

VARIABLES
  prns,            \* svStatus.sv_list
  system,          \* whose sentences are being made
  svNumber,        \* the next satellite to look at
  sentenceNumber,
  sent             \* what nmea_cb has got of each system

vars == <<prns, system, svNumber, sentenceNumber, sent>>

Systems == <<"GPS", "GLONASS">>
SystemOf(prn) ==
  CASE prn \in 1..32 -> "GPS" [] prn \in 65..96 -> "GLONASS" [] OTHER -> "other"

\* The satellites of a system, from a place in the list on.
InView(s, from) == {n \in from..Len(prns) : SystemOf(prns[n]) = s}
Count(s) == Cardinality(InView(s, 1))
SentenceCount(s) == Count(s) \div 4 + (IF Count(s) % 4 # 0 THEN 1 ELSE 0)

Init ==
  /\ prns \in Reports
  /\ system = 1
  /\ svNumber = 1 /\ sentenceNumber = 1
  /\ sent = [s \in {"GPS", "GLONASS"} |-> <<>>]

Current == Systems[system]

Send(sentence) == sent' = [sent EXCEPT ![Current] = Append(@, sentence)]

\* "no svs in view, so just send a blank sentence"
Blank ==
  /\ system <= Len(Systems) /\ Count(Current) = 0
  /\ Send([count |-> 1, number |-> 1, view |-> 0, svs |-> {}])
  /\ system' = system + 1
  /\ UNCHANGED <<prns, svNumber, sentenceNumber>>

\* Where the loop over the list goes on in the next sentence.
After(svs, last) == IF Cardinality(svs) = 4 THEN last + 1 ELSE Len(prns) + 1

\* The next four of the system, from svNumber on, or all if they are less.
Sentence ==
  /\ system <= Len(Systems) /\ Count(Current) > 0
  /\ sentenceNumber <= SentenceCount(Current)
  /\ \E last \in InView(Current, svNumber) :
       LET left == InView(Current, svNumber)
           svs  == {n \in left : n <= last} IN
       /\ Cardinality(svs) = 4 \/ (Cardinality(svs) < 4 /\ svs = left)
       /\ Send([count |-> SentenceCount(Current), number |-> sentenceNumber,
                view |-> Count(Current), svs |-> svs])
       /\ svNumber' = After(svs, last)
  /\ sentenceNumber' = sentenceNumber + 1
  /\ UNCHANGED <<prns, system>>

\* Mutant: the second system goes on where the first has stopped.
NextSystemOn ==
  /\ system <= Len(Systems) /\ Count(Current) > 0
  /\ sentenceNumber > SentenceCount(Current)
  /\ system' = system + 1 /\ sentenceNumber' = 1
  /\ UNCHANGED <<prns, svNumber, sent>>

NextSystem ==
  /\ system <= Len(Systems) /\ Count(Current) > 0
  /\ sentenceNumber > SentenceCount(Current)
  /\ system' = system + 1
  /\ svNumber' = 1 /\ sentenceNumber' = 1
  /\ UNCHANGED <<prns, sent>>

Next == Blank \/ Sentence \/ NextSystem

Spec == Init /\ [][Next]_vars

(***************************************************************************)
(* Properties                                                              *)
(***************************************************************************)
\* "Count GPS SVs for saparating GPS from GLONASS and throw others"
\* (loc_eng_nmea.cpp:622): in the end every satellite of a system is in exactly
\* one of its sentences, in the order of the report, however the systems are
\* mixed in it; the sentences are numbered through, say how many there are and
\* how many satellites; and there is one even for a system without satellites.
GsvIsPartition ==
  system > Len(Systems) =>
    \A k \in DOMAIN Systems :
      LET s == Systems[k]
          of == sent[s] IN
        /\ of # <<>>
        /\ UNION {of[n].svs : n \in DOMAIN of} = InView(s, 1)
        /\ \A n \in DOMAIN of :
             /\ of[n].number = n /\ of[n].count = Len(of) /\ of[n].view = Count(s)
             /\ Cardinality(of[n].svs) <= 4
             /\ n < Len(of) => Cardinality(of[n].svs) = 4
             /\ \A m \in 1..(n - 1) : \A a \in of[m].svs, b \in of[n].svs : a < b
=============================================================================
