------------------------------ MODULE MCDevice ------------------------------
(***************************************************************************)
(* Four parts of the device that share nothing: the lights, the camera     *)
(* wrapper, the search of the recovery updater and the satellites in view. *)
(* A behaviour is one of one of the parts; those of the others, which stay *)
(* as they are, would add nothing but interleavings that no part can see.  *)
(***************************************************************************)
EXTENDS Lights, CameraWrapper, Sequences, SequencesExt

CONSTANTS
  MaxReport,  \* bound: satellites in a report
  Inputs,     \* what is searched for, and in what (BoyerMoore)
  Reports     \* lists of satellites (NmeaGsv)

VARIABLES
  part,
  pat, str, delta1, delta2, i, returned,
  prns, system, svNumber, sentenceNumber, sent

\* White, which needs the whole range, and the colour that the eye sees least.
MCScreens == {[r |-> 255, g |-> 255, b |-> 255], [r |-> 0, g |-> 0, b |-> 255]}

Search == INSTANCE BoyerMoore

\* A pattern has a character, and none of its suffixes is a prefix.
BorderFree(s) == \A p \in 1..(Len(s) - 1) : ~Search!IsBorder(s, p)

ASSUME InputsAssumption ==
  \A in \in Inputs :
    /\ in.pat \in Seq(Range(in.pat)) /\ in.str \in Seq(Range(in.str))
    /\ in.pat # <<>> /\ BorderFree(in.pat)

(***************************************************************************)
(* The string that verify_trustzone looks for, in texts that end one copy  *)
(* and begin another, or a copy with one wrong character; then a whole one *)
(* or a character that is not in it.  And short strings, with patterns of  *)
(* which no suffix is a prefix.                                            *)
(***************************************************************************)
TZ_VER_STR == <<"Q", "C", "_", "I", "M", "A", "G", "E", "_", "V", "E", "R",
                "S", "I", "O", "N", "_", "S", "T", "R", "I", "N", "G", "=">>

TZSuffixes == {SubSeq(TZ_VER_STR, k, Len(TZ_VER_STR)) : k \in 1..(Len(TZ_VER_STR) + 1)}
Cuts == {a \o b : a \in TZSuffixes, b \in Prefixes(TZ_VER_STR)}
Typos == {[TZ_VER_STR EXCEPT ![k] = c] : k \in DOMAIN TZ_VER_STR, c \in Range(TZ_VER_STR)}
TZInputs == [pat : {TZ_VER_STR}, str : {t \o c : t \in Cuts \cup Typos, c \in {TZ_VER_STR, <<"?">>}}]

Strings(n) == SeqOf({"a", "b"}, n) \ {<<>>}

Patterns == {s \in Strings(4) : \A p \in 2..Len(s) : ~IsPrefix(SubSeq(s, p, Len(s)), s)}

MCInputs == TZInputs \cup [pat : Patterns, str : Strings(7)]

searchVars == <<pat, str, delta1, delta2, i, returned>>

SearchIdle ==
  /\ pat = <<"a">> /\ str = <<>>
  /\ delta1 = <<>> /\ delta2 = <<>>
  /\ i = 0
  /\ returned = "idle"

(***************************************************************************)
(* Satellites of both systems and of neither in any order, in reports that *)
(* need up to three sentences; and the ends of the ranges.                 *)
(***************************************************************************)
MCReports == SeqOf({1, 65, 33}, MaxReport) \cup SeqOf({0, 1, 32, 33, 64, 65, 96, 97}, 2)

Gsv == INSTANCE NmeaGsv

ASSUME ReportsAssumption == Reports \subseteq Seq(Nat)

gsvVars == <<prns, system, svNumber, sentenceNumber, sent>>

GsvIdle ==
  /\ prns = <<>>
  /\ system = 1
  /\ svNumber = 1 /\ sentenceNumber = 1
  /\ sent = [s \in {"GPS", "GLONASS"} |-> <<>>]

DeviceInit ==
  /\ Init /\ CameraInit
  /\ \/ part \in {"lights", "camera"} /\ SearchIdle /\ GsvIdle
     \/ part = "search" /\ Search!Init /\ GsvIdle
     \/ part = "gsv" /\ SearchIdle /\ Gsv!Init

DeviceNext ==
  /\ UNCHANGED part
  /\ \/ part = "lights" /\ Next /\ UNCHANGED <<cameraVars, searchVars, gsvVars>>
     \/ part = "camera" /\ CameraNext /\ UNCHANGED <<vars, searchVars, gsvVars>>
     \/ part = "search" /\ Search!Next /\ UNCHANGED <<vars, cameraVars, gsvVars>>
     \/ part = "gsv" /\ Gsv!Next /\ UNCHANGED <<vars, cameraVars, searchVars>>

DeviceSpec == DeviceInit /\ [][DeviceNext]_<<part, vars, cameraVars, searchVars, gsvVars>>

(***************************************************************************)
(* Properties: those of the parts, under their names.                      *)
(***************************************************************************)

\* What is found is the first match (BoyerMoore).
FirstMatch == Search!FirstMatch

\* Every satellite is in one sentence of its system (NmeaGsv).
GsvIsPartition == Gsv!GsvIsPartition
=============================================================================
