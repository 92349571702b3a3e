------------------------ MODULE LocEngConfig_proofs ------------------------
(***************************************************************************)
(* Proofs about LocEngConfig, for any modes, servers and bounds: what an   *)
(* update of the configuration may not change, and that the modem and the  *)
(* ULP have the settings when nothing is on its way.                       *)
(*                                                                         *)
(* What carries the last two is that the latest message about an item that *)
(* waits, or the modem if none waits, has its last value, unless the item  *)
(* is to be renewed: the renewal will send what it reads, behind all that  *)
(* waits, and counts the item as untold if that is overtaken.              *)
(***************************************************************************)
EXTENDS LocEngConfig, TLAPS

ConfTyped == gps_conf = [p \in Params |-> gps_conf[p]]

\* An update in progress keeps the parameters to put back, and they are those
\* that the file gave.
OldIsLoaded ==
  fw # Idle =>
    /\ configAlreadyRead
    /\ fw = [op |-> fw.op, old |-> fw.old]
    /\ fw.op \in {"parse", "restore"}
    /\ \A p \in Own : fw.old[p] = Loaded[p]

KeptIInv == ConfTyped /\ OldIsLoaded /\ OwnIsKept

LEMMA InitKept == Init => KeptIInv
BY DEF Init, KeptIInv, ConfTyped, OldIsLoaded, OwnIsKept

LEMMA NextKept == KeptIInv /\ [Next]_vars => KeptIInv'
<1> SUFFICES ASSUME KeptIInv, [Next]_vars PROVE KeptIInv'
  OBVIOUS
<1> USE DEF KeptIInv
\* Most actions leave the record and the framework's place in it alone.
<1>1. ASSUME UNCHANGED <<start, conf>> PROVE KeptIInv'
  BY <1>1 DEF start, conf, ConfTyped, OldIsLoaded, OwnIsKept, Loaded
<1>2. CASE GetInterface
  <2>1. fw = Idle
    BY <1>2 DEF GetInterface, ReadConfig, OldIsLoaded
  <2>2. /\ gps_conf' = Loaded /\ target' = target /\ fw' = fw
    BY <1>2 DEF GetInterface
  <2>3. Loaded' = Loaded
    BY <2>2 DEF Loaded
  <2>4. ConfTyped'
    BY <2>2 DEF ConfTyped, Loaded, Params, Carrier, Own
  <2>5. OldIsLoaded' /\ OwnIsKept'
    BY <2>1, <2>2, <2>3 DEF OldIsLoaded, OwnIsKept
  <2> QED BY <2>4, <2>5
<1>3. CASE UpdateStarts
  <2>1. /\ fw = Idle /\ configAlreadyRead
        /\ fw' = [op |-> "parse", old |-> gps_conf]
        /\ gps_conf' = gps_conf /\ target' = target
        /\ configAlreadyRead' = configAlreadyRead
    BY <1>3 DEF UpdateStarts, Call, start
  <2>2. fw' # Idle
    BY <2>1 DEF Idle
  <2> QED BY <2>1, <2>2 DEF ConfTyped, OldIsLoaded, OwnIsKept, Loaded
<1>4. CASE ParseLine
  <2>1. /\ fw.op = "parse" /\ fw' = fw /\ target' = target
        /\ configAlreadyRead' = configAlreadyRead
    BY <1>4 DEF ParseLine, start
  <2>2. fw # Idle
    BY <2>1 DEF Idle
  <2>3. PICK p, v : p \in Params /\ gps_conf' = [gps_conf EXCEPT ![p] = v]
    BY <1>4 DEF ParseLine, FillConfItem, SetConfigEntry, Same
  <2>4. ConfTyped'
    BY <2>3 DEF ConfTyped
  <2> QED BY <2>1, <2>2, <2>4 DEF OldIsLoaded, OwnIsKept, Loaded
<1>5. CASE UpdateSends
  <2>1. /\ fw.op = "parse" /\ fw' = [op |-> "restore", old |-> fw.old]
        /\ gps_conf' = gps_conf /\ target' = target
        /\ configAlreadyRead' = configAlreadyRead
    BY <1>5 DEF UpdateSends, start
  <2>2. fw # Idle /\ fw' # Idle
    BY <2>1 DEF Idle
  <2> QED BY <2>1, <2>2 DEF ConfTyped, OldIsLoaded, OwnIsKept, Loaded
<1>6. CASE UpdateRestores
  <2>1. /\ fw.op = "restore" /\ fw' = Idle /\ target' = target
        /\ configAlreadyRead' = configAlreadyRead
        /\ gps_conf' = Restored(fw.old, gps_conf)
    BY <1>6 DEF UpdateRestores, start
  <2>2. fw # Idle
    BY <2>1 DEF Idle
  <2>3. \A p \in Own : p \in Params /\ p \notin Carrier
    BY DEF Own, Params, Carrier
  <2>4. \A p \in Own : gps_conf'[p] = fw.old[p]
    BY <2>1, <2>3 DEF Restored
  <2>5. ConfTyped'
    BY <2>1 DEF ConfTyped, Restored
  <2> QED BY <2>1, <2>2, <2>4, <2>5 DEF OldIsLoaded, OwnIsKept, Loaded
<1>7. ASSUME \/ LocInit \/ LocCleanup \/ AgpsInit \/ SetServer \/ UpdateAvailability
      PROVE  KeptIInv'
  BY <1>1, <1>7 DEF LocInit, LocCleanup, AgpsInit, SetServer, UpdateAvailability
<1>8. ASSUME \/ ProcessSet \/ ProcessReinit \/ ReinitReads \/ ReinitSends
             \/ ProcessSuplMode \/ ProcessSetUlp
      PROVE  KeptIInv'
  BY <1>1, <1>8 DEF ProcessSet, ProcessReinit, ReinitReads, ReinitSends,
                    ProcessSuplMode, ProcessSetUlp
<1>9. ASSUME \/ UlpMade \/ Crash \/ Restart \/ UNCHANGED vars
      PROVE  KeptIInv'
  BY <1>1, <1>9 DEF UlpMade, Crash, Restart, vars
<1> QED BY <1>2, <1>3, <1>4, <1>5, <1>6, <1>7, <1>8, <1>9 DEF Next

\* No update leaves a parameter changed that is not the carrier's, whatever
\* its text names and wherever loc_update_conf stops (OwnIsKept).
THEOREM OwnAlwaysKept == Spec => []OwnIsKept
<1>1. KeptIInv => OwnIsKept
  BY DEF KeptIInv
<1> QED BY InitKept, NextKept, <1>1, PTL DEF Spec
-----------------------------------------------------------------------------
\* Queues of messages of any kind.
Queue(q) == \E S : q \in Seq(S)
HasKind(q, kind) == \E k \in 1..Len(q) : q[k].msg = kind
Has(q, m) == \E k \in 1..Len(q) : q[k] = m

SetAt(q, k, i) == q[k].msg = "set" /\ q[k].item = i
LastAt(q, k, i) == SetAt(q, k, i) /\ \A j \in (k+1)..Len(q) : ~SetAt(q, j, i)
HasSet(q, i) == \E k \in 1..Len(q) : SetAt(q, k, i)

\* A modem that was told m of item i will know v once q is processed.
Agrees(q, i, v, m) ==
  /\ \A k \in 1..Len(q) : LastAt(q, k, i) => q[k].value = v
  /\ ~HasSet(q, i) => m = v

LEMMA Joined ==
  ASSUME NEW q, NEW r, Queue(q), Queue(r)
  PROVE  /\ Queue(q \o r)
         /\ Len(q) \in Nat /\ Len(r) \in Nat /\ Len(q \o r) = Len(q) + Len(r)
         /\ q \o <<>> = q
         /\ \A k \in 1..Len(q) : (q \o r)[k] = q[k]
         /\ \A k \in 1..Len(r) : (q \o r)[Len(q) + k] = r[k]
<1>1. PICK S, T : q \in Seq(S) /\ r \in Seq(T)
  BY DEF Queue
<1>2. q \in Seq(S \cup T) /\ r \in Seq(S \cup T)
  BY <1>1
<1>3. q \o r \in Seq(S \cup T)
  BY <1>2
<1> QED BY <1>2, <1>3 DEF Queue

LEMMA Dropped ==
  ASSUME NEW q, Queue(q), q # <<>>
  PROVE  /\ Queue(Tail(q)) /\ Len(q) \in Nat \ {0} /\ Len(Tail(q)) = Len(q) - 1
         /\ Head(q) = q[1]
         /\ \A k \in 1..(Len(q)-1) : Tail(q)[k] = q[k + 1]
<1>1. PICK S : q \in Seq(S)
  BY DEF Queue
<1>2. Tail(q) \in Seq(S)
  BY <1>1
<1> QED BY <1>1, <1>2 DEF Queue

LEMMA Short ==
  ASSUME NEW a
  PROVE  /\ Queue(<<>>) /\ Queue(<<a>>)
         /\ 1..Len(<<>>) = {} /\ 1..Len(<<a>>) = {1} /\ <<a>>[1] = a
<1>1. <<>> \in Seq({a}) /\ <<a>> \in Seq({a})
  OBVIOUS
<1>2. Len(<<>>) = 0 /\ Len(<<a>>) = 1 /\ <<a>>[1] = a /\ 1..0 = {} /\ 1..1 = {1}
  OBVIOUS
<1>3. Queue(<<>>) /\ Queue(<<a>>)
  BY <1>1 DEF Queue
<1> QED BY <1>2, <1>3

LEMMA KindJoined ==
  ASSUME NEW q, NEW r, Queue(q), Queue(r)
  PROVE  /\ \A kind : HasKind(q \o r, kind) <=> HasKind(q, kind) \/ HasKind(r, kind)
         /\ \A m : Has(q \o r, m) <=> Has(q, m) \/ Has(r, m)
         /\ \A i : HasSet(q \o r, i) <=> HasSet(q, i) \/ HasSet(r, i)
<1> DEFINE c == q \o r
           n == Len(q)
<1>1. /\ n \in Nat /\ Len(r) \in Nat /\ Len(c) = n + Len(r)
      /\ \A k \in 1..n : c[k] = q[k] /\ k \in 1..Len(c)
      /\ \A k \in 1..Len(r) : c[n + k] = r[k] /\ n + k \in 1..Len(c)
      /\ \A k \in 1..Len(c) : k \in 1..n \/ (k - n \in 1..Len(r) /\ c[k] = r[k - n])
  <2>1. /\ n \in Nat /\ Len(r) \in Nat /\ Len(c) = n + Len(r)
        /\ \A k \in 1..n : c[k] = q[k]
        /\ \A k \in 1..Len(r) : c[n + k] = r[k]
    BY Joined
  <2> HIDE DEF c, n
  <2>2. \A k \in 1..Len(c) : k \in 1..n \/ (k - n \in 1..Len(r) /\ k = n + (k - n))
    BY <2>1
  <2> QED BY <2>1, <2>2
<1> HIDE DEF c, n
<1>2. \A kind : HasKind(c, kind) <=> HasKind(q, kind) \/ HasKind(r, kind)
  BY <1>1 DEF HasKind, n
<1>3. \A m : Has(c, m) <=> Has(q, m) \/ Has(r, m)
  BY <1>1 DEF Has, n
<1>4. ASSUME NEW i PROVE HasSet(c, i) <=> HasSet(q, i) \/ HasSet(r, i)
  <2>1. ASSUME NEW k \in 1..n, SetAt(q, k, i) PROVE HasSet(c, i)
    BY <1>1, <2>1 DEF HasSet, SetAt
  <2>2. ASSUME NEW k \in 1..Len(r), SetAt(r, k, i) PROVE HasSet(c, i)
    BY <1>1, <2>2 DEF HasSet, SetAt
  <2>3. ASSUME NEW k \in 1..Len(c), SetAt(c, k, i) PROVE HasSet(q, i) \/ HasSet(r, i)
    <3>1. CASE k \in 1..n
      BY <1>1, <2>3, <3>1 DEF HasSet, SetAt, n
    <3>2. CASE k - n \in 1..Len(r) /\ c[k] = r[k - n]
      BY <2>3, <3>2 DEF HasSet, SetAt
    <3> QED BY <1>1, <3>1, <3>2
  <2> QED BY <2>1, <2>2, <2>3 DEF HasSet, n
<1> QED BY <1>2, <1>3, <1>4 DEF c

LEMMA KindDropped ==
  ASSUME NEW q, Queue(q), q # <<>>
  PROVE  /\ \A kind : HasKind(q, kind) <=> HasKind(Tail(q), kind) \/ Head(q).msg = kind
         /\ \A m : Has(q, m) <=> Has(Tail(q), m) \/ Head(q) = m
         /\ \A i : HasSet(q, i) <=> HasSet(Tail(q), i) \/ (Head(q).msg = "set" /\ Head(q).item = i)
<1> DEFINE r == Tail(q)
           n == Len(q)
<1>1. /\ n \in Nat \ {0} /\ Len(r) = n - 1 /\ Head(q) = q[1]
      /\ \A k \in 1..(n-1) : r[k] = q[k + 1] /\ k + 1 \in 1..n
      /\ \A k \in 1..n : k = 1 \/ (k - 1 \in 1..(n-1) /\ r[k - 1] = q[k])
  <2>1. /\ n \in Nat \ {0} /\ Len(r) = n - 1 /\ Head(q) = q[1]
        /\ \A k \in 1..(n-1) : r[k] = q[k + 1]
    BY Dropped
  <2> HIDE DEF r, n
  <2>2. \A k \in 1..n : k = 1 \/ (k - 1 \in 1..(n-1) /\ (k - 1) + 1 = k)
    BY <2>1
  <2> QED BY <2>1, <2>2
<1> HIDE DEF r, n
<1>2. \A kind : HasKind(q, kind) <=> HasKind(r, kind) \/ Head(q).msg = kind
  BY <1>1 DEF HasKind, n
<1>3. \A m : Has(q, m) <=> Has(r, m) \/ Head(q) = m
  BY <1>1 DEF Has, n
<1>4. \A i : HasSet(q, i) <=> HasSet(r, i) \/ (Head(q).msg = "set" /\ Head(q).item = i)
  BY <1>1 DEF HasSet, SetAt, n
<1> QED BY <1>2, <1>3, <1>4 DEF r

\* What is sent has the last value, or is about something else.
LEMMA AgreesSent ==
  ASSUME NEW q, NEW r, Queue(q), Queue(r), NEW i, NEW v, NEW m,
         \A k \in 1..Len(r) : SetAt(r, k, i) => r[k].value = v,
         Agrees(q, i, v, m) \/ HasSet(r, i)
  PROVE  Agrees(q \o r, i, v, m)
<1> DEFINE c == q \o r
           n == Len(q)
<1>1. /\ n \in Nat /\ Len(r) \in Nat /\ Len(c) = n + Len(r)
      /\ \A k \in 1..n : c[k] = q[k]
      /\ \A k \in 1..Len(r) : c[n + k] = r[k] /\ n + k \in 1..Len(c)
  BY Joined
<1>2. HasSet(c, i) <=> HasSet(q, i) \/ HasSet(r, i)
  BY KindJoined
<1> HIDE DEF c, n
<1>3. ASSUME NEW k \in 1..Len(c), LastAt(c, k, i) PROVE c[k].value = v
  <2>1. CASE k \in 1..n
    <3>1. ~HasSet(r, i)
      <4> SUFFICES ASSUME NEW j \in 1..Len(r), SetAt(r, j, i) PROVE FALSE
        BY DEF HasSet
      <4>1. n + j \in (k+1)..Len(c) /\ SetAt(c, n + j, i)
        BY <1>1, <2>1 DEF SetAt
      <4> QED BY <1>3, <4>1 DEF LastAt
    <3>2. LastAt(q, k, i)
      <4> SUFFICES ASSUME NEW j \in (k+1)..Len(q) PROVE ~SetAt(q, j, i) /\ SetAt(q, k, i)
        <5>1. SetAt(q, k, i)
          BY <1>1, <1>3, <2>1 DEF LastAt, SetAt
        <5> QED BY <5>1 DEF LastAt
      <4>1. j \in 1..n /\ j \in (k+1)..Len(c)
        BY <1>1, <2>1 DEF n
      <4> QED BY <1>1, <1>3, <2>1, <4>1 DEF LastAt, SetAt
    <3> QED BY <1>1, <2>1, <3>1, <3>2 DEF Agrees, n
  <2>2. CASE k \notin 1..n
    <3>1. k - n \in 1..Len(r) /\ c[k] = r[k - n]
      <4>1. k - n \in 1..Len(r) /\ n + (k - n) = k
        BY <1>1, <2>2
      <4> QED BY <1>1, <4>1
    <3> QED BY <1>3, <3>1 DEF LastAt, SetAt
  <2> QED BY <2>1, <2>2
<1>4. ~HasSet(c, i) => m = v
  BY <1>2 DEF Agrees
<1> QED BY <1>3, <1>4 DEF Agrees, c

\* The oldest message is taken, and told if it is about the item.
LEMMA AgreesTaken ==
  ASSUME NEW q, Queue(q), q # <<>>, NEW i, NEW v, NEW m, NEW told, Agrees(q, i, v, m),
         told = IF Head(q).msg = "set" /\ Head(q).item = i THEN Head(q).value ELSE m
  PROVE  Agrees(Tail(q), i, v, told)
<1> DEFINE r == Tail(q)
           n == Len(q)
<1>1. /\ n \in Nat \ {0} /\ Len(r) = n - 1 /\ Head(q) = q[1]
      /\ \A k \in 1..(n-1) : r[k] = q[k + 1] /\ k + 1 \in 1..n
  BY Dropped
<1>2. HasSet(q, i) <=> HasSet(r, i) \/ (Head(q).msg = "set" /\ Head(q).item = i)
  BY KindDropped
<1> HIDE DEF r, n
<1>3. ASSUME NEW k \in 1..Len(r), LastAt(r, k, i) PROVE r[k].value = v
  <2>1. LastAt(q, k + 1, i)
    <3>1. k + 1 \in 1..n /\ SetAt(q, k + 1, i)
      BY <1>1, <1>3 DEF LastAt, SetAt
    <3>2. ASSUME NEW j \in (k+1+1)..n PROVE ~SetAt(q, j, i)
      <4>1. j - 1 \in (k+1)..Len(r) /\ j - 1 \in 1..(n-1) /\ (j - 1) + 1 = j
        BY <1>1
      <4> QED BY <1>1, <1>3, <4>1 DEF LastAt, SetAt
    <3> QED BY <3>1, <3>2 DEF LastAt, n
  <2> QED BY <1>1, <2>1 DEF Agrees, n
<1>4. ASSUME ~HasSet(r, i) PROVE told = v
  <2>1. CASE Head(q).msg = "set" /\ Head(q).item = i
    <3>1. 1 \in 1..n /\ SetAt(q, 1, i)
      BY <1>1, <2>1 DEF SetAt
    <3>2. ASSUME NEW j \in (1+1)..n PROVE ~SetAt(q, j, i)
      <4>1. j - 1 \in 1..Len(r) /\ (j - 1) + 1 = j
        BY <1>1
      <4> QED BY <1>1, <1>4, <4>1 DEF HasSet, SetAt
    <3> QED BY <1>1, <2>1, <3>1, <3>2 DEF Agrees, LastAt, n
  <2>2. CASE ~(Head(q).msg = "set" /\ Head(q).item = i)
    BY <1>2, <1>4, <2>2 DEF Agrees
  <2> QED BY <2>1, <2>2
<1> QED BY <1>3, <1>4 DEF Agrees, r

\* What a queue says of items and of the ULP's proxy.
SaysOf(q, i, v) == \A k \in 1..Len(q) : SetAt(q, k, i) => q[k].value = v
Caps(q, c) == \A k \in 1..Len(q) : q[k].msg = "set_ulp" => q[k].caps = c
ForBase(q) == \A k \in 1..Len(q) : q[k].msg = "supl_mode" => q[k].ulp = "base"
OneKind(q, kind) == \A j, k \in 1..Len(q) : q[j].msg = kind /\ q[k].msg = kind => j = k

LEMMA Nothing ==
  /\ Queue(<<>>) /\ ForBase(<<>>)
  /\ \A i : ~HasSet(<<>>, i) /\ ~HasKind(<<>>, i) /\ ~Has(<<>>, i) /\ OneKind(<<>>, i)
  /\ \A i, v : SaysOf(<<>>, i, v) /\ Caps(<<>>, i)
BY Short DEF ForBase, HasSet, HasKind, Has, OneKind, SaysOf, Caps

LEMMA One ==
  ASSUME NEW m
  PROVE  /\ Queue(<<m>>)
         /\ \A kind : HasKind(<<m>>, kind) <=> m.msg = kind
         /\ \A x : Has(<<m>>, x) <=> m = x
         /\ \A i : HasSet(<<m>>, i) <=> m.msg = "set" /\ m.item = i
         /\ \A i, v : SaysOf(<<m>>, i, v) <=> (m.msg = "set" /\ m.item = i => m.value = v)
         /\ \A c : Caps(<<m>>, c) <=> (m.msg = "set_ulp" => m.caps = c)
         /\ ForBase(<<m>>) <=> (m.msg = "supl_mode" => m.ulp = "base")
<1>1. Queue(<<m>>) /\ 1..Len(<<m>>) = {1} /\ <<m>>[1] = m
  BY Short
<1> DEFINE q == <<m>>
<1> HIDE DEF q
<1>2. \A kind : HasKind(q, kind) <=> m.msg = kind
  BY <1>1 DEF HasKind, q
<1>3. \A x : Has(q, x) <=> m = x
  BY <1>1 DEF Has, q
<1>4. \A i : HasSet(q, i) <=> m.msg = "set" /\ m.item = i
  BY <1>1 DEF HasSet, SetAt, q
<1>5. \A i, v : SaysOf(q, i, v) <=> (m.msg = "set" /\ m.item = i => m.value = v)
  BY <1>1 DEF SaysOf, SetAt, q
<1>6. \A c : Caps(q, c) <=> (m.msg = "set_ulp" => m.caps = c)
  BY <1>1 DEF Caps, q
<1>7. ForBase(q) <=> (m.msg = "supl_mode" => m.ulp = "base")
  BY <1>1 DEF ForBase, q
<1> QED BY <1>1, <1>2, <1>3, <1>4, <1>5, <1>6, <1>7 DEF q

LEMMA SaysJoined ==
  ASSUME NEW q, NEW r, Queue(q), Queue(r)
  PROVE  /\ \A i, v : SaysOf(q, i, v) /\ SaysOf(r, i, v) => SaysOf(q \o r, i, v)
         /\ \A c : Caps(q, c) /\ Caps(r, c) => Caps(q \o r, c)
         /\ ForBase(q) /\ ForBase(r) => ForBase(q \o r)
         /\ \A kind : OneKind(q, kind) /\ ~HasKind(r, kind) => OneKind(q \o r, kind)
         /\ \A kind : OneKind(r, kind) /\ ~HasKind(q, kind) => OneKind(q \o r, kind)
<1> DEFINE c == q \o r
           n == Len(q)
<1>1. /\ n \in Nat /\ Len(r) \in Nat /\ Len(c) = n + Len(r)
      /\ \A k \in 1..n : c[k] = q[k]
      /\ \A k \in 1..Len(r) : c[n + k] = r[k]
  BY Joined
<1> HIDE DEF c, n
<1>2. ASSUME NEW k \in 1..Len(c), k \notin 1..n PROVE k - n \in 1..Len(r) /\ c[k] = r[k - n]
  <2>1. k - n \in 1..Len(r) /\ n + (k - n) = k
    BY <1>1, <1>2
  <2> QED BY <1>1, <2>1
<1>3. \A i, v : SaysOf(q, i, v) /\ SaysOf(r, i, v) => SaysOf(c, i, v)
  BY <1>1, <1>2 DEF SaysOf, SetAt, n
<1>4. \A x : Caps(q, x) /\ Caps(r, x) => Caps(c, x)
  BY <1>1, <1>2 DEF Caps, n
<1>5. ForBase(q) /\ ForBase(r) => ForBase(c)
  BY <1>1, <1>2 DEF ForBase, n
<1>6. ASSUME NEW kind, OneKind(q, kind), ~HasKind(r, kind) PROVE OneKind(c, kind)
  <2>1. \A k \in 1..Len(c) : c[k].msg = kind => k \in 1..n
    BY <1>2, <1>6 DEF HasKind
  <2> QED BY <1>1, <1>6, <2>1 DEF OneKind, n
<1>7. ASSUME NEW kind, OneKind(r, kind), ~HasKind(q, kind) PROVE OneKind(c, kind)
  <2> SUFFICES ASSUME NEW j \in 1..Len(c), NEW k \in 1..Len(c), c[j].msg = kind, c[k].msg = kind
               PROVE  j = k
    BY DEF OneKind
  <2>1. j \notin 1..n /\ k \notin 1..n
    BY <1>1, <1>7 DEF HasKind, n
  <2>2. /\ j - n \in 1..Len(r) /\ r[j - n].msg = kind
        /\ k - n \in 1..Len(r) /\ r[k - n].msg = kind
    BY <1>2, <1>7, <2>1
  <2>3. j - n = k - n
    BY <1>7, <2>2 DEF OneKind
  <2>4. n \in Nat /\ j \in Nat /\ k \in Nat
    BY <1>1
  <2> QED BY <2>3, <2>4
<1> QED BY <1>3, <1>4, <1>5, <1>6, <1>7 DEF c

LEMMA SaysDropped ==
  ASSUME NEW q, Queue(q), q # <<>>
  PROVE  /\ \A c : Caps(q, c) <=> Caps(Tail(q), c) /\ (Head(q).msg = "set_ulp" => Head(q).caps = c)
         /\ ForBase(q) <=> ForBase(Tail(q)) /\ (Head(q).msg = "supl_mode" => Head(q).ulp = "base")
         /\ \A kind : OneKind(q, kind) => /\ OneKind(Tail(q), kind)
                                          /\ Head(q).msg = kind => ~HasKind(Tail(q), kind)
<1> DEFINE r == Tail(q)
           n == Len(q)
<1>1. /\ n \in Nat \ {0} /\ Len(r) = n - 1 /\ Head(q) = q[1]
      /\ \A k \in 1..(n-1) : r[k] = q[k + 1] /\ k + 1 \in 1..n
  BY Dropped
<1> HIDE DEF r, n
<1>2. \A k \in 1..n : k = 1 \/ (k - 1 \in 1..(n-1) /\ r[k - 1] = q[k])
  <2> SUFFICES ASSUME NEW k \in 1..n, k # 1 PROVE k - 1 \in 1..(n-1) /\ r[k - 1] = q[k]
    OBVIOUS
  <2>1. k - 1 \in 1..(n-1) /\ (k - 1) + 1 = k
    BY <1>1
  <2> QED BY <1>1, <2>1
<1>3. \A c : Caps(q, c) <=> Caps(r, c) /\ (Head(q).msg = "set_ulp" => Head(q).caps = c)
  BY <1>1, <1>2 DEF Caps, n
<1>4. ForBase(q) <=> ForBase(r) /\ (Head(q).msg = "supl_mode" => Head(q).ulp = "base")
  BY <1>1, <1>2 DEF ForBase, n
<1>5. ASSUME NEW kind, OneKind(q, kind)
      PROVE  OneKind(r, kind) /\ (Head(q).msg = kind => ~HasKind(r, kind))
  <2>1. OneKind(r, kind)
    <3> SUFFICES ASSUME NEW j \in 1..Len(r), NEW k \in 1..Len(r), r[j].msg = kind, r[k].msg = kind
                 PROVE  j = k
      BY DEF OneKind
    <3>1. j + 1 \in 1..n /\ k + 1 \in 1..n /\ q[j + 1].msg = kind /\ q[k + 1].msg = kind
      BY <1>1
    <3>2. j + 1 = k + 1
      BY <1>5, <3>1 DEF OneKind, n
    <3> QED BY <1>1, <3>2
  <2>2. ASSUME Head(q).msg = kind, NEW k \in 1..Len(r), r[k].msg = kind PROVE FALSE
    <3>1. 1 \in 1..n /\ k + 1 \in 1..n /\ k + 1 # 1 /\ q[k + 1].msg = kind /\ q[1].msg = kind
      BY <1>1, <2>2
    <3> QED BY <1>5, <3>1 DEF OneKind, n
  <2> QED BY <2>1, <2>2 DEF HasKind
<1> QED BY <1>3, <1>4, <1>5 DEF r

-----------------------------------------------------------------------------
Renewable == {"SUPL_VER", "XTRA_VERSION_CHECK", "data"}
Sent == Renewable \cup {"lock", "server"}

\* A parameter that an update has changed and not yet passed on.
Parsed(p) == fw.op = "parse" /\ fw.old[p] # gps_conf[p]

\* Nothing is said before there is an adapter; after it no server is buffered.
Started ==
  /\ Queue(inbox) /\ todo \in Seq(Renewable \cup {"power"})
  /\ modem = [i \in Items |-> modem[i]] /\ mUlp \in {"base", "vendor"}
  /\ asked = [lock |-> asked.lock, server |-> asked.server]
  /\ held # None => todo # <<>>
  /\ \A i : HasSet(inbox, i) => i \in Sent
  /\ Has(todo, "power") => target = "qca1530"
  /\ adapter => supl_host = None /\ configAlreadyRead
  /\ ~adapter => /\ inbox = <<>> /\ todo = <<>> /\ held = None /\ lbs = None /\ mUlp = "base"
                 /\ asked.server = supl_host /\ modem["server"] = None

\* The last value of each item that messages carry.
Goal ==
  [SUPL_VER |-> gps_conf["SUPL_VER"], XTRA_VERSION_CHECK |-> 0, data |-> agpsStatus,
   lock |-> asked.lock, server |-> asked.server]

\* It was overtaken, or will be read and sent again.
Excused(i) ==
  \/ i \in untold
  \/ i \in Renewable /\ (Has(todo, i) \/ HasKind(inbox, "reinit") \/ ~up)
  \/ i = "SUPL_VER" /\ Parsed(i)

ItemsAgree == adapter => \A i \in Sent : Excused(i) \/ Agrees(inbox, i, Goal[i], modem[i])

\* The vote for power is told at once, and told again after a restart.
PowerAgrees ==
  /\ target # "qca1530" => modem["power"] = None
  /\ adapter /\ target = "qca1530" =>
       \/ "power" \in untold \/ Has(todo, "power") \/ Has(inbox, ReinitMsg(TRUE)) \/ ~up
       \/ modem["power"] = powerOn

\* The proxy is asked for, made and set once; who is not there hears nothing.
OneProxy ==
  /\ lbs # None => mUlp = "base" /\ ~HasKind(inbox, "set_ulp")
  /\ mUlp = "vendor" => ~HasKind(inbox, "set_ulp")
  /\ OneKind(inbox, "set_ulp")
  /\ mUlp = "base" => ForBase(inbox)

KeptCapabilities == Loaded["CAPABILITIES"] \cap gps_conf["SUPL_MODE"]

\* The proxy, wherever it is, has the capabilities that are left.
UlpFollows ==
  "ulp" \notin untold /\ ~Parsed("SUPL_MODE") /\ ~HasKind(inbox, "supl_mode") =>
    /\ mUlp = "vendor" => ulp = KeptCapabilities
    /\ lbs # None => lbs = KeptCapabilities
    /\ Caps(inbox, KeptCapabilities)

IInv == KeptIInv /\ Started /\ ItemsAgree /\ PowerAgrees /\ OneProxy /\ UlpFollows

-----------------------------------------------------------------------------
LEMMA MessageKinds ==
  /\ \A i, v : SetMsg(i, v).msg = "set" /\ SetMsg(i, v).item = i /\ SetMsg(i, v).value = v
  /\ ReinitMsg(TRUE).msg = "reinit" /\ ReinitMsg(FALSE).msg = "reinit"
  /\ \A u : SuplModeMsg(u).msg = "supl_mode" /\ SuplModeMsg(u).ulp = u
  /\ \A c : SetUlpMsg(c).msg = "set_ulp" /\ SetUlpMsg(c).caps = c
BY DEF SetMsg, ReinitMsg, SuplModeMsg, SetUlpMsg

LEMMA Kinds ==
  /\ Sent \subseteq Items \ {"power"} /\ "power" \in Items
  /\ "ulp" \notin Items /\ "SUPL_MODE" \notin Items /\ Renewable \subseteq Sent
BY DEF Sent, Renewable, Items

\* The settled values, and what a renewal compares with.
LEMMA Settlement ==
  ASSUME KeptIInv, configAlreadyRead
  PROVE  /\ Settled["XTRA_VERSION_CHECK"] = 0 /\ Settled["CAPABILITIES"] = Loaded["CAPABILITIES"]
         /\ \A i \in Sent : Wanted[i] = Goal[i]
<1>1. Loaded["XTRA_VERSION_CHECK"] = 0
  BY DEF Loaded
<1>2. \A p \in Own : Settled[p] = Loaded[p] /\ p \in Params
  <2>1. \A p \in Own : p \in Params
    BY DEF Params
  <2>2. CASE fw = Idle
    BY <2>1, <2>2 DEF KeptIInv, OwnIsKept, Settled
  <2>3. CASE fw # Idle
    BY <2>1, <2>3 DEF KeptIInv, OldIsLoaded, Settled
  <2> QED BY <2>1, <2>2, <2>3
<1>3. "XTRA_VERSION_CHECK" \in Own /\ "CAPABILITIES" \in Own
  BY DEF Own
<1>4. Settled["XTRA_VERSION_CHECK"] = 0 /\ Settled["CAPABILITIES"] = Loaded["CAPABILITIES"]
  BY <1>1, <1>2, <1>3
<1>5. \A i \in Sent : Wanted[i] = Goal[i]
  BY <1>4 DEF Sent, Renewable, Wanted, Goal
<1> QED BY <1>4, <1>5

\* How an item fares when messages are sent, ...
LEMMA ItemSent ==
  ASSUME Started, NEW i \in Sent, NEW r, Queue(r), inbox' = inbox \o r,
         SaysOf(r, i, Goal'[i]), modem'[i] = modem[i],
         \/ HasSet(r, i)
         \/ /\ Goal'[i] = Goal[i]
            /\ Excused(i) \/ Agrees(inbox, i, Goal[i], modem[i])
            /\ Excused(i) => Excused(i)'
  PROVE  Excused(i)' \/ Agrees(inbox', i, Goal'[i], modem'[i])
<1>1. \A k \in 1..Len(r) : SetAt(r, k, i) => r[k].value = Goal'[i]
  BY DEF SaysOf
<1>2. Queue(inbox)
  BY DEF Started
<1>3. Agrees(inbox, i, Goal'[i], modem[i]) \/ HasSet(r, i) \/ Excused(i)'
  OBVIOUS
<1> QED BY <1>1, <1>2, <1>3, AgreesSent

\* ... and when one is processed.
LEMMA ItemTaken ==
  ASSUME Started, NEW i \in Sent, inbox # <<>>, inbox' = Tail(inbox), Goal'[i] = Goal[i],
         modem'[i] = (IF Head(inbox).msg = "set" /\ Head(inbox).item = i
                      THEN Head(inbox).value ELSE modem[i])
           \/ Excused(i)',
         Excused(i) \/ Agrees(inbox, i, Goal[i], modem[i]),
         Excused(i) => Excused(i)'
  PROVE  Excused(i)' \/ Agrees(inbox', i, Goal'[i], modem'[i])
<1>1. Queue(inbox)
  BY DEF Started
<1> QED BY <1>1, AgreesTaken

LEMMA RenewalsAre ==
  ASSUME adapter, supl_host = None, NEW up1
  PROVE  /\ Renewals(up1) \in Seq(Renewable \cup {"power"}) /\ Queue(Renewals(up1))
         /\ \A i \in Renewable : Has(Renewals(up1), i)
         /\ Has(Renewals(up1), "power") <=> up1 /\ target = "qca1530"
<1> DEFINE a == <<"SUPL_VER", "data", "XTRA_VERSION_CHECK">>
           b == <<"power">>
           S == Renewable \cup {"power"}
<1>1. a \in Seq(S) /\ b \in Seq(S) /\ <<>> \in Seq(S)
  BY DEF Renewable
<1>2. /\ \A i \in Renewable : Has(a, i)
      /\ ~Has(a, "power") /\ Has(b, "power")
  <2>1. Len(a) = 3 /\ a[1] = "SUPL_VER" /\ a[2] = "data" /\ a[3] = "XTRA_VERSION_CHECK"
    OBVIOUS
  <2>2. Len(b) = 1 /\ b[1] = "power"
    OBVIOUS
  <2> HIDE DEF a, b
  <2> QED BY <2>1, <2>2 DEF Has, Renewable
<1>3. \A q \in Seq(S) : Queue(q)
  BY DEF Queue
<1> HIDE DEF a, b, S
<1>4. a \o <<>> = a /\ b \o <<>> = b /\ <<>> \o <<>> = <<>> /\ a \o b \in Seq(S)
  BY <1>1, <1>3, Joined
<1>5. Renewals(up1) = IF up1 /\ target = "qca1530" THEN a \o b ELSE a
  BY <1>4 DEF Renewals, MayVote, a, b
<1>6. \A i : Has(a \o b, i) <=> Has(a, i) \/ Has(b, i)
  BY <1>1, <1>3, KindJoined
<1> QED BY <1>1, <1>2, <1>3, <1>4, <1>5, <1>6 DEF S

LEMMA InboxSent ==
  ASSUME Started, NEW r, Queue(r), inbox' = inbox \o r, \A i : HasSet(r, i) => i \in Sent
  PROVE  Queue(inbox') /\ \A i : HasSet(inbox', i) => i \in Sent
BY Joined, KindJoined DEF Started

LEMMA InboxTaken ==
  ASSUME Started, inbox # <<>>, inbox' = Tail(inbox)
  PROVE  /\ Queue(inbox') /\ \A i : HasSet(inbox', i) => i \in Sent
         /\ Head(inbox).msg = "set" => Head(inbox).item \in Sent
BY Dropped, KindDropped DEF Started

\* Told: the domain of what the modem knows.
LEMMA ModemKept ==
  ASSUME modem = [i \in Items |-> modem[i]], NEW i0, NEW v,
         modem' \in {modem, [modem EXCEPT ![i0] = v], [i \in Items |-> None]}
  PROVE  /\ modem' = [i \in Items |-> modem'[i]]
         /\ \A i \in Items : i # i0 => modem'[i] \in {modem[i], None}
OBVIOUS

\* Nothing is said before there is an adapter.
LEMMA StartedStep ==
  Started /\ [Next]_vars => Started'
<1> SUFFICES ASSUME Started, [Next]_vars
             PROVE  Started'
  OBVIOUS
<1>1. ASSUME GetInterface \/ UpdateStarts \/ ParseLine \/ UpdateRestores \/ UNCHANGED vars PROVE Started'
  <2>1. UNCHANGED <<target, engine, inbox, thread, outside>> /\ (configAlreadyRead => configAlreadyRead')
    BY <1>1 DEF GetInterface, ReadConfig, UpdateStarts, ParseLine, UpdateRestores, vars, start
  <2> QED BY <2>1 DEF engine, thread, outside, Started
<1>2. ASSUME LocInit PROVE Started'
  <2>1. Queue(inbox') /\ (\A i : HasSet(inbox', i) => i \in Sent)
    <3> DEFINE a == IF adapter THEN <<>> ELSE <<ReinitMsg(FALSE)>>
               b == <<LockMsg("open")>>
    <3>1. Queue(a) /\ Queue(b) /\ inbox' = inbox \o (a \o b)
      BY <1>2, Nothing, One DEF LocInit, EngineInit, Send
    <3>2. /\ \A i : ~HasSet(<<>>, i)
          /\ \A i : ~HasSet(<<ReinitMsg(FALSE)>>, i)
      BY Nothing, One, MessageKinds
    <3>3. \A i : ~HasSet(a, i)
      BY <3>2
    <3>4. \A i : HasSet(b, i) => i = "lock"
      BY One, MessageKinds DEF LockMsg
    <3> HIDE DEF a, b
    <3>5. Queue(a \o b) /\ \A i : HasSet(a \o b, i) => i \in Sent
      BY <3>1, <3>3, <3>4, Joined, KindJoined DEF Sent
    <3> QED BY <3>1, <3>5, InboxSent
  <2>2. modem' = [i \in Items |-> modem'[i]]
    BY <1>2, ModemKept DEF LocInit, VoteFor, Started
  <2>3. adapter' = TRUE /\ supl_host' = None /\ configAlreadyRead
          /\ lbs' = IF adapter THEN lbs ELSE Capabilities(gps_conf)
    BY <1>2 DEF LocInit, EngineInit, Call, Started
  <2> QED BY <1>2, <2>1, <2>2, <2>3 DEF LocInit, start, thread, Started
<1>3. ASSUME LocCleanup PROVE Started'
  <2>1. Queue(inbox') /\ (\A i : HasSet(inbox', i) => i \in Sent)
    <3>1. PICK r : inbox' = inbox \o r /\ r \in {<<LockMsg("locked")>>, <<>>}
      BY <1>3 DEF LocCleanup, Send
    <3>2. Queue(r) /\ \A i : HasSet(r, i) => i \in Sent
      BY <3>1, Nothing, One, MessageKinds DEF LockMsg, Sent, Renewable
    <3> QED BY <3>1, <3>2, InboxSent
  <2>2. modem' = [i \in Items |-> modem'[i]]
    BY <1>3, ModemKept DEF LocCleanup, VoteFor, Started
  <2> QED BY <1>3, <2>1, <2>2 DEF LocCleanup, start, thread, Started
<1>4. ASSUME AgpsInit PROVE Started'
  <2>1. Queue(inbox') /\ (\A i : HasSet(inbox', i) => i \in Sent)
    <3>1. inbox' = inbox \o <<>>
      BY <1>4 DEF AgpsInit, Send, Buffered, Started
    <3> QED BY <3>1, Nothing, InboxSent
  <2>2. modem' = [i \in Items |-> modem'[i]]
    BY <1>4 DEF AgpsInit, outside, Started
  <2> QED BY <1>4, <2>1, <2>2 DEF AgpsInit, start, thread, outside, Started
<1>5. ASSUME SetServer PROVE Started'
  <2>1. PICK s \in Servers :
          /\ asked' = [asked EXCEPT !.server = s]
          /\ supl_host' = IF adapter THEN supl_host ELSE s
          /\ Send(IF adapter THEN <<ServerMsg(s)>> ELSE <<>>)
    BY <1>5 DEF SetServer
  <2>2. Queue(inbox') /\ (\A i : HasSet(inbox', i) => i \in Sent)
    <3>1. PICK r : inbox' = inbox \o r /\ r \in {<<ServerMsg(s)>>, <<>>}
      BY <2>1 DEF Send
    <3>2. Queue(r) /\ \A i : HasSet(r, i) => i \in Sent
      BY <3>1, Nothing, One, MessageKinds DEF ServerMsg, Sent, Renewable
    <3> QED BY <3>1, <3>2, InboxSent
  <2>3. ~adapter => inbox' = <<>>
    BY <2>1, Nothing, Joined DEF Send, Started
  <2>4. asked' = [lock |-> asked'.lock, server |-> asked'.server] /\ asked'.server = s
    BY <2>1 DEF Started
  <2> QED BY <1>5, <2>1, <2>2, <2>3, <2>4 DEF SetServer, start, thread, outside, Started
<1>6. ASSUME UpdateAvailability PROVE Started'
  <2>1. PICK available \in {0, 1}, apn \in BOOLEAN :
          Send(IF adapter /\ apn THEN <<SetMsg("data", available)>> ELSE <<>>)
    BY <1>6 DEF UpdateAvailability
  <2>2. Queue(inbox') /\ (\A i : HasSet(inbox', i) => i \in Sent)
    <3>1. PICK r : inbox' = inbox \o r /\ r \in {<<SetMsg("data", available)>>, <<>>}
      BY <2>1 DEF Send
    <3>2. Queue(r) /\ \A i : HasSet(r, i) => i \in Sent
      BY <3>1, Nothing, One, MessageKinds DEF Sent, Renewable
    <3> QED BY <3>1, <3>2, InboxSent
  <2>3. ~adapter => inbox' = <<>>
    BY <2>1, Nothing, Joined DEF Send, Started
  <2> QED BY <1>6, <2>2, <2>3 DEF UpdateAvailability, start, thread, outside, Started
<1>7. ASSUME UpdateSends PROVE Started'
  <2> DEFINE changed == IF adapter THEN Changed(fw.old, gps_conf) ELSE {}
             a == IF "SUPL_VER" \in changed THEN <<SetMsg("SUPL_VER", gps_conf["SUPL_VER"])>> ELSE <<>>
             b == IF "SUPL_MODE" \in changed THEN <<SuplModeMsg(mUlp)>> ELSE <<>>
  <2>1. inbox' = inbox \o (a \o b)
    BY <1>7 DEF UpdateSends, Send
  <2>2. /\ Queue(a) /\ Queue(b)
        /\ \A i : HasSet(a, i) => i \in Sent
        /\ \A i : ~HasSet(b, i)
    BY Nothing, One, MessageKinds DEF Sent, Renewable
  <2>3. ~adapter => a = <<>> /\ b = <<>>
    OBVIOUS
  <2> HIDE DEF a, b
  <2>4. Queue(inbox') /\ (\A i : HasSet(inbox', i) => i \in Sent) /\ (~adapter => inbox' = <<>>)
    <3>1. Queue(a \o b) /\ \A i : HasSet(a \o b, i) => i \in Sent
      BY <2>2, Joined, KindJoined
    <3>2. ~adapter => inbox' = <<>>
      BY <2>1, <2>3, Nothing, Joined DEF Started
    <3> QED BY <2>1, <3>1, <3>2, InboxSent
  <2> QED BY <1>7, <2>4 DEF UpdateSends, start, engine, thread, outside, Started
<1>8. ASSUME ProcessSet PROVE Started'
  <2>1. Queue(inbox') /\ (\A i : HasSet(inbox', i) => i \in Sent)
          /\ (Head(inbox).msg = "set" => Head(inbox).item \in Sent)
    BY <1>8, InboxTaken DEF ProcessSet, Takes
  <2>2. modem' = [i \in Items |-> modem'[i]]
    BY <1>8, ModemKept DEF ProcessSet, Tell, Started
  <2>3. adapter
    BY <1>8 DEF ProcessSet, Takes, Started
  <2> QED BY <1>8, <2>1, <2>2, <2>3 DEF ProcessSet, start, engine, thread, Started
<1>9. ASSUME ProcessReinit PROVE Started'
  <2>1. Queue(inbox') /\ (\A i : HasSet(inbox', i) => i \in Sent)
          /\ (Head(inbox).msg = "set" => Head(inbox).item \in Sent)
    BY <1>9, InboxTaken DEF ProcessReinit, Takes
  <2>2. adapter /\ supl_host = None
    BY <1>9 DEF ProcessReinit, Takes, Started
  <2>3. todo' \in Seq(Renewable \cup {"power"}) /\ (Has(todo', "power") => target = "qca1530")
    BY <1>9, <2>2, RenewalsAre DEF ProcessReinit
  <2>4. todo = <<>>
    BY <1>9 DEF ProcessReinit, Takes
  <2> QED BY <1>9, <2>1, <2>2, <2>3, <2>4 DEF ProcessReinit, start, engine, outside, Started
<1>10. ASSUME ReinitReads PROVE Started'
  <2> QED BY <1>10 DEF ReinitReads, start, engine, outside, Started
<1>11. ASSUME ReinitSends PROVE Started'
  <2>1. todo # <<>> /\ adapter /\ todo \in Seq(Renewable \cup {"power"}) /\ Queue(todo)
    BY <1>11 DEF ReinitSends, Started, Queue
  <2>2. /\ todo' = Tail(todo) /\ todo' \in Seq(Renewable \cup {"power"})
        /\ Head(todo) \in Renewable \cup {"power"}
    BY <1>11, <2>1 DEF ReinitSends
  <2>3. Has(todo', "power") => Has(todo, "power")
    BY <2>1, <2>2, KindDropped
  <2>4. Queue(inbox') /\ (\A i : HasSet(inbox', i) => i \in Sent)
    <3>1. CASE Head(todo) = "power"
      BY <1>11, <3>1 DEF ReinitSends, Started
    <3>2. CASE Head(todo) # "power"
      <4>1. Head(todo) \in Sent /\ inbox' = inbox \o <<SetMsg(Head(todo), held)>>
        BY <1>11, <2>2, <3>2 DEF ReinitSends, Send, Sent
      <4>2. \A i : HasSet(<<SetMsg(Head(todo), held)>>, i) => i = Head(todo)
        BY One, MessageKinds
      <4>3. Queue(<<SetMsg(Head(todo), held)>>)
        BY One
      <4> QED BY <4>1, <4>2, <4>3, InboxSent
    <3> QED BY <3>1, <3>2
  <2>5. modem' = [i \in Items |-> modem'[i]]
    BY <1>11, ModemKept DEF ReinitSends, Tell, Started
  <2> QED BY <1>11, <2>1, <2>2, <2>3, <2>4, <2>5 DEF ReinitSends, start, engine, Started
<1>12. ASSUME ProcessSuplMode \/ ProcessSetUlp PROVE Started'
  <2>1. Queue(inbox') /\ (\A i : HasSet(inbox', i) => i \in Sent)
          /\ (Head(inbox).msg = "set" => Head(inbox).item \in Sent)
    BY <1>12, InboxTaken DEF ProcessSuplMode, ProcessSetUlp, Takes
  <2>2. adapter
    BY <1>12 DEF ProcessSuplMode, ProcessSetUlp, Takes, Started
  <2> QED BY <1>12, <2>1, <2>2 DEF ProcessSuplMode, ProcessSetUlp, start, engine, thread, Started
<1>13. ASSUME UlpMade PROVE Started'
  <2>1. adapter
    BY <1>13 DEF UlpMade, Started
  <2>2. Queue(inbox') /\ (\A i : HasSet(inbox', i) => i \in Sent)
    <3>1. PICK r : inbox' = inbox \o r /\ r \in {<<SetUlpMsg(lbs)>>, <<>>}
      BY <1>13 DEF UlpMade, Send
    <3>2. Queue(r) /\ \A i : HasSet(r, i) => i \in Sent
      BY <3>1, Nothing, One, MessageKinds DEF Sent, Renewable
    <3> QED BY <3>1, <3>2, InboxSent
  <2> QED BY <1>13, <2>1, <2>2 DEF UlpMade, start, engine, thread, Started
<1>14. ASSUME Crash PROVE Started'
  <2>1. modem' = [i \in Items |-> None]
    BY <1>14 DEF Crash
  <2>2. modem' = [i \in Items |-> modem'[i]] /\ modem'["server"] = None
    BY <2>1 DEF Items
  <2> QED BY <1>14, <2>2 DEF Crash, start, engine, thread, Started
<1>15. ASSUME Restart PROVE Started'
  <2>1. Queue(inbox') /\ (\A i : HasSet(inbox', i) => i \in Sent)
    <3>1. PICK r : inbox' = inbox \o r /\ r \in {<<ReinitMsg(TRUE)>>, <<>>}
      BY <1>15 DEF Restart, Send
    <3>2. Queue(<<ReinitMsg(TRUE)>>) /\ \A i : ~HasSet(<<ReinitMsg(TRUE)>>, i)
      BY One, MessageKinds
    <3>3. Queue(r) /\ \A i : ~HasSet(r, i)
      <4>1. CASE r = <<ReinitMsg(TRUE)>>
        BY <3>2, <4>1
      <4>2. CASE r = <<>>
        BY <4>2, Nothing
      <4> QED BY <3>1, <4>1, <4>2
    <3> QED BY <3>1, <3>3, InboxSent
  <2>2. ~adapter => inbox' = <<>>
    BY <1>15, Nothing, Joined DEF Restart, Send, Started
  <2> QED BY <1>15, <2>1, <2>2 DEF Restart, start, engine, thread, Started
<1> QED BY <1>1, <1>2, <1>3, <1>4, <1>5, <1>6, <1>7, <1>8, <1>9, <1>10, <1>11, <1>12,
           <1>13, <1>14, <1>15 DEF Next

\* Every step keeps what is known of the items that messages carry.
LEMMA ItemsStep ==
  KeptIInv /\ Started /\ ItemsAgree /\ [Next]_vars => ItemsAgree'
<1> SUFFICES ASSUME KeptIInv, Started, ItemsAgree, [Next]_vars
             PROVE  ItemsAgree'
  OBVIOUS
<1> SUFFICES ASSUME adapter', NEW i \in Sent
             PROVE  Excused(i)' \/ Agrees(inbox', i, Goal'[i], modem'[i])
  BY DEF ItemsAgree
<1>0. adapter => Excused(i) \/ Agrees(inbox, i, Goal[i], modem[i])
  BY DEF ItemsAgree
<1>1. ASSUME GetInterface PROVE Excused(i)' \/ Agrees(inbox', i, Goal'[i], modem'[i])
  BY <1>1 DEF GetInterface, ReadConfig, engine, Started
<1>2. ASSUME UNCHANGED vars PROVE Excused(i)' \/ Agrees(inbox', i, Goal'[i], modem'[i])
  BY <1>2, <1>0 DEF vars, start, conf, engine, thread, outside, Goal, Excused, Parsed
<1>3. ASSUME UpdateStarts PROVE Excused(i)' \/ Agrees(inbox', i, Goal'[i], modem'[i])
  <2>1. UNCHANGED <<inbox, modem>> /\ Goal' = Goal /\ adapter
    BY <1>3 DEF UpdateStarts, engine, outside, Goal
  <2>2. Excused(i) => Excused(i)'
    BY <1>3 DEF UpdateStarts, Call, engine, thread, outside, Idle, Excused, Parsed
  <2> QED BY <1>0, <2>1, <2>2
<1>4. ASSUME ParseLine PROVE Excused(i)' \/ Agrees(inbox', i, Goal'[i], modem'[i])
  <2>1. PICK p0, v : /\ p0 \in Params /\ fw.old[p0] = gps_conf[p0] /\ v # fw.old[p0]
                    /\ gps_conf' = [gps_conf EXCEPT ![p0] = v]
    BY <1>4 DEF ParseLine, FillConfItem, SetConfigEntry, Same
  <2>2. /\ UNCHANGED <<fw, inbox, modem, todo, up, untold, agpsStatus, asked>> /\ adapter
        /\ fw.op = "parse"
    BY <1>4 DEF ParseLine, engine, thread, outside
  <2>3. Excused(i) => Excused(i)'
    BY <2>1, <2>2 DEF Excused, Parsed
  <2>4. CASE i = "SUPL_VER" /\ p0 = "SUPL_VER"
    <3>1. gps_conf'["SUPL_VER"] = v
      BY <2>1, <2>4 DEF KeptIInv, ConfTyped
    <3> QED BY <2>1, <2>2, <2>4, <3>1 DEF Excused, Parsed
  <2>5. CASE ~(i = "SUPL_VER" /\ p0 = "SUPL_VER")
    <3>1. Goal'[i] = Goal[i]
      BY <2>1, <2>2, <2>5 DEF Goal, Sent, Renewable
    <3> QED BY <1>0, <2>2, <2>3, <3>1
  <2> QED BY <2>4, <2>5
<1>5. ASSUME UpdateRestores PROVE Excused(i)' \/ Agrees(inbox', i, Goal'[i], modem'[i])
  <2>1. UNCHANGED <<inbox, modem, todo, up, untold, agpsStatus, asked>> /\ adapter
    BY <1>5 DEF UpdateRestores, engine, thread, outside
  <2>2. gps_conf'["SUPL_VER"] = gps_conf["SUPL_VER"] /\ fw.op = "restore"
    BY <1>5 DEF UpdateRestores, Restored, Params, Carrier
  <2>3. Goal'[i] = Goal[i]
    BY <2>1, <2>2 DEF Goal
  <2>4. Excused(i) => Excused(i)'
    BY <2>1, <2>2 DEF Excused, Parsed
  <2> QED BY <1>0, <2>1, <2>3, <2>4
<1>6. ASSUME ReinitReads PROVE Excused(i)' \/ Agrees(inbox', i, Goal'[i], modem'[i])
  <2>1. UNCHANGED <<inbox, modem, todo, up, untold, fw, gps_conf, agpsStatus, asked>> /\ adapter
    BY <1>6 DEF ReinitReads, conf, engine, outside
  <2>2. Goal'[i] = Goal[i] /\ (Excused(i) => Excused(i)')
    BY <2>1 DEF Goal, Excused, Parsed
  <2> QED BY <1>0, <2>1, <2>2
<1>7. ASSUME AgpsInit PROVE Excused(i)' \/ Agrees(inbox', i, Goal'[i], modem'[i])
  <2>1. UNCHANGED <<modem, todo, up, untold, fw, gps_conf, agpsStatus, asked>> /\ adapter
    BY <1>7 DEF AgpsInit, conf, thread, outside
  <2>2. inbox' = inbox
    BY <1>7, Nothing, Joined DEF AgpsInit, Send, Buffered, Started
  <2>3. Goal'[i] = Goal[i] /\ (Excused(i) => Excused(i)')
    BY <2>1, <2>2 DEF Goal, Excused, Parsed
  <2> QED BY <1>0, <2>1, <2>2, <2>3
<1>8. ASSUME LocInit PROVE Excused(i)' \/ Agrees(inbox', i, Goal'[i], modem'[i])
  <2> DEFINE a == IF adapter THEN <<>> ELSE <<ReinitMsg(FALSE)>>
             b == <<LockMsg("open")>>
  <2>1. /\ inbox' = inbox \o (a \o b) /\ asked' = [asked EXCEPT !.lock = "open"]
        /\ untold' = (untold \ {"lock"}) \cup {j \in {"server"} : supl_host' # supl_host}
        /\ supl_host' = IF adapter THEN supl_host ELSE None
        /\ UNCHANGED <<todo, up, fw, gps_conf, agpsStatus>>
        /\ modem'["server"] = modem["server"] /\ \A j \in Sent : modem'[j] = modem[j]
    <3>1. \A j \in Sent : modem'[j] = modem[j]
      BY <1>8, Kinds DEF LocInit, VoteFor, Started
    <3> QED BY <1>8, <3>1 DEF LocInit, EngineInit, Send, conf, thread, Sent
  <2>2. Queue(a) /\ Queue(b) /\ Queue(a \o b)
    BY Nothing, One, Joined
  <2>3. /\ \A j : HasSet(b, j) <=> j = "lock"
        /\ \A j, v : SaysOf(b, j, v) <=> (j = "lock" => v = "open")
    BY One, MessageKinds DEF LockMsg
  <2>4. /\ \A j, v : SaysOf(a, j, v)
        /\ ~adapter => HasKind(a, "reinit")
    <3>1. \A j, v : SaysOf(<<ReinitMsg(FALSE)>>, j, v)
      BY One, MessageKinds
    <3>2. HasKind(<<ReinitMsg(FALSE)>>, "reinit")
      BY One, MessageKinds
    <3> QED BY <3>1, <3>2, Nothing
  <2> HIDE DEF a, b
  <2>5. /\ Goal'[i] = IF i = "lock" THEN "open" ELSE Goal[i]
    BY <2>1 DEF Goal, Sent, Renewable, Started
  <2>6. HasSet(a \o b, "lock") /\ SaysOf(a \o b, i, Goal'[i])
    BY <2>2, <2>3, <2>4, <2>5, KindJoined, SaysJoined
  <2>7. CASE adapter
    <3>1. Excused(i) => Excused(i)' \/ i = "lock"
      BY <2>1, <2>2, <2>7, KindJoined DEF Excused, Parsed, Started
    <3> QED BY <1>0, <2>1, <2>2, <2>5, <2>6, <2>7, <3>1, ItemSent
  <2>8. CASE ~adapter
    <3>1. CASE i = "lock"
      BY <2>1, <2>2, <2>6, <3>1, ItemSent
    <3>2. CASE i \in Renewable
      BY <2>1, <2>2, <2>4, <2>8, <3>2, KindJoined DEF Excused, Started
    <3>3. CASE i = "server" /\ supl_host' # supl_host
      BY <2>1, <3>3 DEF Excused
    <3>4. CASE i = "server" /\ supl_host' = supl_host
      <4>1. inbox = <<>> /\ modem["server"] = None /\ Goal[i] = None
        BY <2>1, <2>8, <3>4 DEF Started, Goal
      <4>2. Agrees(inbox, i, Goal[i], modem[i])
        BY <3>4, <4>1, Nothing DEF Agrees, LastAt, SaysOf, HasSet
      <4>3. Goal'[i] = Goal[i] /\ (Excused(i) => Excused(i)')
        BY <2>1, <2>5, <3>4 DEF Excused, Renewable
      <4> QED BY <2>1, <2>2, <2>6, <3>4, <4>2, <4>3, ItemSent
    <3> QED BY <3>1, <3>2, <3>3, <3>4 DEF Sent
  <2> QED BY <2>7, <2>8
<1>9. ASSUME LocCleanup PROVE Excused(i)' \/ Agrees(inbox', i, Goal'[i], modem'[i])
  <2> DEFINE r == <<LockMsg("locked")>>
  <2>1. /\ inbox' = inbox \o r /\ adapter
        /\ untold' = untold \ {"lock"} /\ UNCHANGED <<todo, up, fw, gps_conf, agpsStatus>>
    BY <1>9 DEF LocCleanup, Send, conf, thread, outside
  <2>2. modem'[i] = modem[i]
    BY <1>9, Kinds DEF LocCleanup, VoteFor, Started
  <2>3. Goal'[i] = IF i = "lock" THEN "locked" ELSE Goal[i]
    BY <1>9, <2>1 DEF LocCleanup, Goal, Sent, Renewable, Started
  <2>4. Queue(r) /\ (HasSet(r, i) <=> i = "lock") /\ SaysOf(r, i, Goal'[i])
    BY <2>3, One, MessageKinds DEF LockMsg
  <2> HIDE DEF r
  <2>5. Excused(i) => Excused(i)' \/ i = "lock"
    BY <2>1, <2>4, KindJoined DEF Excused, Parsed, Started
  <2> QED BY <1>0, <2>1, <2>2, <2>3, <2>4, <2>5, ItemSent
<1>10. ASSUME SetServer PROVE Excused(i)' \/ Agrees(inbox', i, Goal'[i], modem'[i])
  <2>1. PICK s \in Servers :
          /\ asked' = [asked EXCEPT !.server = s]
          /\ Send(IF adapter THEN <<ServerMsg(s)>> ELSE <<>>)
    BY <1>10 DEF SetServer
  <2> DEFINE r == <<ServerMsg(s)>>
  <2>2. /\ inbox' = inbox \o r /\ adapter
        /\ untold' = untold \ {"server"} /\ UNCHANGED <<modem, todo, up, fw, gps_conf, agpsStatus>>
    BY <1>10, <2>1 DEF SetServer, Send, conf, thread, outside
  <2>3. Goal'[i] = IF i = "server" THEN s ELSE Goal[i]
    BY <2>1, <2>2 DEF Goal, Sent, Renewable, Started
  <2>4. Queue(r) /\ (HasSet(r, i) <=> i = "server") /\ SaysOf(r, i, Goal'[i])
    BY <2>3, One, MessageKinds DEF ServerMsg
  <2> HIDE DEF r
  <2>5. Excused(i) => Excused(i)' \/ i = "server"
    BY <2>2, <2>4, KindJoined DEF Excused, Parsed, Started
  <2> QED BY <1>0, <2>2, <2>3, <2>4, <2>5, ItemSent
<1>11. ASSUME UpdateAvailability PROVE Excused(i)' \/ Agrees(inbox', i, Goal'[i], modem'[i])
  <2>1. PICK available \in {0, 1}, apn \in BOOLEAN :
          /\ agpsStatus' = available
          /\ Send(IF adapter /\ apn THEN <<SetMsg("data", available)>> ELSE <<>>)
          /\ untold' = IF adapter /\ apn THEN untold \ {"data"}
                       ELSE untold \cup {j \in {"data"} : adapter}
    BY <1>11 DEF UpdateAvailability
  <2>2. UNCHANGED <<modem, todo, up, fw, gps_conf, asked>> /\ adapter
    BY <1>11 DEF UpdateAvailability, conf, thread, outside
  <2>3. Goal'[i] = IF i = "data" THEN available ELSE Goal[i]
    BY <2>1, <2>2 DEF Goal, Sent, Renewable
  <2>4. CASE apn
    <3> DEFINE r == <<SetMsg("data", available)>>
    <3>1. inbox' = inbox \o r /\ untold' = untold \ {"data"}
      BY <2>1, <2>2, <2>4 DEF Send
    <3>2. Queue(r) /\ (HasSet(r, i) <=> i = "data") /\ SaysOf(r, i, Goal'[i])
      BY <2>3, One, MessageKinds
    <3> HIDE DEF r
    <3>3. Excused(i) => Excused(i)' \/ i = "data"
      BY <2>2, <3>1, <3>2, KindJoined DEF Excused, Parsed, Started
    <3> QED BY <1>0, <2>2, <2>3, <3>1, <3>2, <3>3, ItemSent
  <2>5. CASE ~apn
    <3>1. inbox' = inbox /\ untold' = untold \cup {"data"}
      BY <2>1, <2>2, <2>5, Joined DEF Send, Started
    <3>2. Excused(i) => Excused(i)'
      BY <2>2, <3>1 DEF Excused, Parsed
    <3>3. i = "data" => Excused(i)'
      BY <3>1 DEF Excused
    <3> QED BY <1>0, <2>2, <2>3, <3>1, <3>2, <3>3
  <2> QED BY <2>4, <2>5
<1>12. ASSUME UpdateSends PROVE Excused(i)' \/ Agrees(inbox', i, Goal'[i], modem'[i])
  <2> DEFINE changed == IF adapter THEN Changed(fw.old, gps_conf) ELSE {}
             a == IF "SUPL_VER" \in changed THEN <<SetMsg("SUPL_VER", gps_conf["SUPL_VER"])>> ELSE <<>>
             b == IF "SUPL_MODE" \in changed THEN <<SuplModeMsg(mUlp)>> ELSE <<>>
  <2>1. /\ inbox' = inbox \o (a \o b) /\ untold' = untold \ changed /\ adapter
        /\ UNCHANGED <<modem, todo, up, gps_conf, agpsStatus, asked>>
    BY <1>12 DEF UpdateSends, Send, engine, thread, outside
  <2>2. /\ Queue(a) /\ Queue(b) /\ \A v : SaysOf(b, i, v)
        /\ HasSet(a, i) <=> i = "SUPL_VER" /\ "SUPL_VER" \in changed
        /\ SaysOf(a, i, Goal[i])
    BY Nothing, One, MessageKinds DEF Goal
  <2>3. /\ changed \subseteq {"SUPL_VER", "SUPL_MODE"}
        /\ Parsed("SUPL_VER") => "SUPL_VER" \in changed
    BY <2>1 DEF Changed, Carrier, Parsed
  <2>4. Goal'[i] = Goal[i]
    BY <2>1 DEF Goal
  <2> HIDE DEF a, b, changed
  <2>5. Queue(a \o b) /\ SaysOf(a \o b, i, Goal'[i]) /\ (HasSet(a, i) => HasSet(a \o b, i))
    BY <2>2, <2>4, Joined, KindJoined, SaysJoined
  <2>6. Excused(i) => Excused(i)' \/ HasSet(a, i)
    BY <2>1, <2>2, <2>3, <2>5, KindJoined, Kinds DEF Excused, Started
  <2> QED BY <1>0, <2>1, <2>4, <2>5, <2>6, ItemSent
<1>13. ASSUME ProcessSet PROVE Excused(i)' \/ Agrees(inbox', i, Goal'[i], modem'[i])
  <2> DEFINE m == Head(inbox)
  <2>1. /\ inbox # <<>> /\ inbox' = Tail(inbox) /\ m.msg = "set" /\ Tell(m.item, m.value)
        /\ untold' = untold \cup {j \in {m.item} \cap {"lock", "server"} : ~up}
        /\ UNCHANGED <<todo, up, fw, gps_conf, agpsStatus, asked>> /\ adapter
    BY <1>13 DEF ProcessSet, Takes, conf, engine, thread
  <2>2. Goal'[i] = Goal[i]
    BY <2>1 DEF Goal
  <2>3. Excused(i) => Excused(i)'
    BY <2>1, KindDropped DEF Excused, Parsed, Started
  <2>4. modem'[i] = (IF m.msg = "set" /\ m.item = i THEN m.value ELSE modem[i]) \/ Excused(i)'
    <3>1. CASE up
      BY <2>1, <3>1, Kinds DEF Tell, Started
    <3>2. CASE ~up /\ m.item = i
      BY <2>1, <3>2 DEF Excused, Sent
    <3>3. CASE ~up /\ m.item # i
      BY <2>1, <3>3 DEF Tell
    <3> QED BY <3>1, <3>2, <3>3
  <2> QED BY <1>0, <2>1, <2>2, <2>3, <2>4, ItemTaken
<1>14. ASSUME ProcessReinit PROVE Excused(i)' \/ Agrees(inbox', i, Goal'[i], modem'[i])
  <2>1. /\ inbox # <<>> /\ inbox' = Tail(inbox) /\ Head(inbox).msg = "reinit" /\ todo = <<>>
        /\ todo' = Renewals(Head(inbox).engineUp) /\ adapter
        /\ UNCHANGED <<modem, up, untold, fw, gps_conf, agpsStatus, asked>>
    BY <1>14 DEF ProcessReinit, Takes, conf, engine, outside
  <2>2. Goal'[i] = Goal[i]
    BY <2>1 DEF Goal
  <2>3. i \in Renewable => Excused(i)'
    BY <2>1, RenewalsAre DEF Excused, Started
  <2>4. Excused(i) => Excused(i)'
    BY <2>1, <2>3 DEF Excused, Parsed
  <2> QED BY <1>0, <2>1, <2>2, <2>4, ItemTaken
<1>15. ASSUME ProcessSuplMode PROVE Excused(i)' \/ Agrees(inbox', i, Goal'[i], modem'[i])
  <2>1. /\ inbox # <<>> /\ inbox' = Tail(inbox) /\ Head(inbox).msg = "supl_mode" /\ adapter
        /\ untold' \in {untold \ {"ulp"}, untold \cup {"ulp"}}
        /\ UNCHANGED <<modem, todo, up, fw, gps_conf, agpsStatus, asked>>
    BY <1>15 DEF ProcessSuplMode, Takes, conf, engine, thread
  <2>2. Goal'[i] = Goal[i]
    BY <2>1 DEF Goal
  <2>3. Excused(i) => Excused(i)'
    BY <2>1, KindDropped, Kinds DEF Excused, Parsed, Started
  <2> QED BY <1>0, <2>1, <2>2, <2>3, ItemTaken
<1>16. ASSUME ProcessSetUlp PROVE Excused(i)' \/ Agrees(inbox', i, Goal'[i], modem'[i])
  <2>1. /\ inbox # <<>> /\ inbox' = Tail(inbox) /\ Head(inbox).msg = "set_ulp" /\ adapter
        /\ UNCHANGED <<modem, todo, up, untold, fw, gps_conf, agpsStatus, asked>>
    BY <1>16 DEF ProcessSetUlp, Takes, conf, engine, thread
  <2>2. Goal'[i] = Goal[i]
    BY <2>1 DEF Goal
  <2>3. Excused(i) => Excused(i)'
    BY <2>1, KindDropped DEF Excused, Parsed, Started
  <2> QED BY <1>0, <2>1, <2>2, <2>3, ItemTaken
<1>17. ASSUME ReinitSends PROVE Excused(i)' \/ Agrees(inbox', i, Goal'[i], modem'[i])
  <2> DEFINE j == Head(todo)
             r == <<SetMsg(j, held)>>
  <2>1. todo # <<>> /\ adapter /\ configAlreadyRead /\ Queue(todo) /\ j \in Renewable \cup {"power"}
    BY <1>17 DEF ReinitSends, Started, Queue
  <2>2. /\ todo' = Tail(todo) /\ UNCHANGED <<up, fw, gps_conf, agpsStatus, asked>>
        /\ untold' = IF held = Wanted[j] THEN untold \ {j} ELSE untold \cup {j}
    BY <1>17 DEF ReinitSends, conf, engine
  <2>3. Goal'[i] = Goal[i]
    BY <2>2 DEF Goal
  <2>4. Has(todo, i) => i = j \/ Has(todo', i)
    BY <2>1, <2>2, KindDropped
  <2>5. CASE j = "power"
    <3>1. inbox' = inbox /\ modem'[i] = modem[i]
      BY <1>17, <2>5, Kinds DEF ReinitSends, Tell, Started
    <3>2. Excused(i) => Excused(i)'
      BY <2>2, <2>4, <2>5, <3>1, Kinds DEF Excused, Parsed
    <3> QED BY <1>0, <2>1, <2>3, <3>1, <3>2
  <2>6. CASE j # "power"
    <3>1. inbox' = inbox \o r /\ modem'[i] = modem[i] /\ j \in Sent
      BY <1>17, <2>1, <2>6 DEF ReinitSends, Send, Sent
    <3>2. Queue(r) /\ (HasSet(r, i) <=> i = j) /\ \A v : SaysOf(r, i, v) <=> (i = j => v = held)
      BY One, MessageKinds
    <3> HIDE DEF r
    <3>3. Wanted[j] = Goal[j]
      BY <2>1, <3>1, Settlement
    <3>4. CASE i = j /\ held = Wanted[j]
      BY <2>3, <3>1, <3>2, <3>3, <3>4, ItemSent
    <3>5. CASE i = j /\ held # Wanted[j]
      BY <2>2, <3>5 DEF Excused
    <3>6. CASE i # j
      <4>1. Excused(i) => Excused(i)'
        BY <2>2, <2>4, <3>1, <3>2, <3>6, KindJoined DEF Excused, Parsed, Started
      <4> QED BY <1>0, <2>1, <2>3, <3>1, <3>2, <3>6, <4>1, ItemSent
    <3> QED BY <3>4, <3>5, <3>6
  <2> QED BY <2>5, <2>6
<1>18. ASSUME UlpMade PROVE Excused(i)' \/ Agrees(inbox', i, Goal'[i], modem'[i])
  <2> DEFINE r == <<SetUlpMsg(lbs)>>
  <2>1. /\ inbox' = inbox \o r /\ adapter
        /\ UNCHANGED <<modem, todo, up, untold, fw, gps_conf, agpsStatus, asked>>
    BY <1>18 DEF UlpMade, Send, conf, engine, thread
  <2>2. Queue(r) /\ ~HasSet(r, i) /\ \A v : SaysOf(r, i, v)
    BY One, MessageKinds
  <2> HIDE DEF r
  <2>3. Goal'[i] = Goal[i] /\ (Excused(i) => Excused(i)')
    BY <2>1, <2>2, KindJoined DEF Goal, Excused, Parsed, Started
  <2> QED BY <1>0, <2>1, <2>2, <2>3, ItemSent
<1>19. ASSUME Crash PROVE Excused(i)' \/ Agrees(inbox', i, Goal'[i], modem'[i])
  <2>1. up' = FALSE /\ "lock" \in untold' /\ "server" \in untold'
    BY <1>19 DEF Crash
  <2> QED BY <2>1 DEF Excused, Sent
<1>20. ASSUME Restart PROVE Excused(i)' \/ Agrees(inbox', i, Goal'[i], modem'[i])
  <2> DEFINE r == <<ReinitMsg(TRUE)>>
  <2>1. /\ inbox' = inbox \o r /\ adapter
        /\ UNCHANGED <<modem, todo, untold, fw, gps_conf, agpsStatus, asked>>
    BY <1>20 DEF Restart, Send, conf, engine, thread
  <2>2. Queue(r) /\ ~HasSet(r, i) /\ (\A v : SaysOf(r, i, v)) /\ HasKind(r, "reinit")
    BY One, MessageKinds
  <2> HIDE DEF r
  <2>3. Goal'[i] = Goal[i]
    BY <2>1 DEF Goal
  <2>4. Excused(i) => Excused(i)'
    BY <2>1, <2>2, KindJoined DEF Excused, Parsed, Started
  <2> QED BY <1>0, <2>1, <2>2, <2>3, <2>4, ItemSent
<1> QED BY <1>1, <1>2, <1>3, <1>4, <1>5, <1>6, <1>7, <1>8, <1>9, <1>10, <1>11, <1>12,
           <1>13, <1>14, <1>15, <1>16, <1>17, <1>18, <1>19, <1>20 DEF Next

-----------------------------------------------------------------------------
\* The vote for power when messages are sent that are not about it.
LEMMA PowerKept ==
  ASSUME Started, PowerAgrees, NEW r, Queue(r), inbox' = inbox \o r,
         UNCHANGED <<target, adapter, todo, up, powerOn>>,
         modem'["power"] = modem["power"], "power" \in untold => "power" \in untold'
  PROVE  PowerAgrees'
<1>1. Has(inbox, ReinitMsg(TRUE)) => Has(inbox', ReinitMsg(TRUE))
  BY KindJoined DEF Started
<1> QED BY <1>1 DEF PowerAgrees

\* Every step keeps what is known of the vote for power.
LEMMA PowerStep ==
  Started /\ PowerAgrees /\ [Next]_vars => PowerAgrees'
<1> SUFFICES ASSUME Started, PowerAgrees, [Next]_vars
             PROVE  PowerAgrees'
  OBVIOUS
<1>1. ASSUME GetInterface \/ UpdateStarts \/ ParseLine \/ UpdateRestores \/ ReinitReads \/ UNCHANGED vars
      PROVE  PowerAgrees'
  <2>1. UNCHANGED <<target, engine, inbox, todo, untold, outside>>
    BY <1>1 DEF GetInterface, UpdateStarts, ParseLine, UpdateRestores, ReinitReads, vars, start, thread
  <2> QED BY <2>1 DEF engine, outside, PowerAgrees
<1>2. ASSUME LocInit PROVE PowerAgrees'
  <2>1. /\ powerOn' = TRUE /\ up' = up /\ target' = target
        /\ modem' = VoteFor(TRUE, modem)
    BY <1>2 DEF LocInit, start
  <2>2. up /\ target = "qca1530" => modem'["power"] = TRUE
    BY <2>1, Kinds DEF VoteFor, Started
  <2>3. target # "qca1530" => modem' = modem
    BY <2>1 DEF VoteFor
  <2> QED BY <2>1, <2>2, <2>3 DEF PowerAgrees
<1>3. ASSUME LocCleanup PROVE PowerAgrees'
  <2>1. /\ powerOn' = FALSE /\ up' = up /\ target' = target
        /\ modem' = VoteFor(FALSE, modem)
    BY <1>3 DEF LocCleanup, start
  <2>2. up /\ target = "qca1530" => modem'["power"] = FALSE
    BY <2>1, Kinds DEF VoteFor, Started
  <2>3. target # "qca1530" => modem' = modem
    BY <2>1 DEF VoteFor
  <2> QED BY <2>1, <2>2, <2>3 DEF PowerAgrees
<1>4. ASSUME AgpsInit PROVE PowerAgrees'
  <2>1. inbox' = inbox \o <<>>
    BY <1>4 DEF AgpsInit, Send, Buffered, Started
  <2>2. UNCHANGED <<target, adapter, todo, up, powerOn, modem, untold>>
    BY <1>4 DEF AgpsInit, start, thread, outside
  <2> QED BY <2>1, <2>2, Nothing, PowerKept
<1>5. ASSUME SetServer PROVE PowerAgrees'
  <2>1. PICK s : Send(IF adapter THEN <<ServerMsg(s)>> ELSE <<>>)
    BY <1>5 DEF SetServer
  <2>2. PICK r : inbox' = inbox \o r /\ Queue(r)
    BY <2>1, Nothing, One DEF Send
  <2>3. /\ UNCHANGED <<target, adapter, todo, up, powerOn, modem>>
        /\ untold' = untold \ {"server"}
    BY <1>5 DEF SetServer, start, thread, outside
  <2> QED BY <2>2, <2>3, PowerKept
<1>6. ASSUME UpdateAvailability PROVE PowerAgrees'
  <2>1. PICK available, apn :
          /\ Send(IF adapter /\ apn THEN <<SetMsg("data", available)>> ELSE <<>>)
          /\ untold' = IF adapter /\ apn THEN untold \ {"data"}
                       ELSE untold \cup {j \in {"data"} : adapter}
    BY <1>6 DEF UpdateAvailability
  <2>2. PICK r : inbox' = inbox \o r /\ Queue(r)
    BY <2>1, Nothing, One DEF Send
  <2>3. UNCHANGED <<target, adapter, todo, up, powerOn, modem>>
    BY <1>6 DEF UpdateAvailability, start, thread, outside
  <2>4. "power" \in untold => "power" \in untold'
    BY <2>1
  <2> QED BY <2>2, <2>3, <2>4, PowerKept
<1>7. ASSUME UpdateSends PROVE PowerAgrees'
  <2> DEFINE changed == IF adapter THEN Changed(fw.old, gps_conf) ELSE {}
             a == IF "SUPL_VER" \in changed THEN <<SetMsg("SUPL_VER", gps_conf["SUPL_VER"])>> ELSE <<>>
             b == IF "SUPL_MODE" \in changed THEN <<SuplModeMsg(mUlp)>> ELSE <<>>
  <2>1. inbox' = inbox \o (a \o b) /\ untold' = untold \ changed
    BY <1>7 DEF UpdateSends, Send
  <2>2. Queue(a) /\ Queue(b)
    BY Nothing, One
  <2>3. "power" \notin changed
    BY DEF Changed, Carrier
  <2>4. UNCHANGED <<target, adapter, todo, up, powerOn, modem>>
    BY <1>7 DEF UpdateSends, start, engine, thread, outside
  <2> HIDE DEF a, b, changed
  <2>5. Queue(a \o b)
    BY <2>2, Joined
  <2> QED BY <2>1, <2>3, <2>4, <2>5, PowerKept
<1>8. ASSUME UlpMade PROVE PowerAgrees'
  <2>1. inbox' = inbox \o <<SetUlpMsg(lbs)>>
    BY <1>8 DEF UlpMade, Send
  <2>2. UNCHANGED <<target, adapter, todo, up, powerOn, modem, untold>>
    BY <1>8 DEF UlpMade, start, engine, thread
  <2>3. Queue(<<SetUlpMsg(lbs)>>)
    BY One
  <2> QED BY <2>1, <2>2, <2>3, PowerKept
<1>9. ASSUME ProcessSet \/ ProcessSuplMode \/ ProcessSetUlp PROVE PowerAgrees'
  <2>1. /\ inbox # <<>> /\ inbox' = Tail(inbox) /\ Queue(inbox)
        /\ Head(inbox).msg \in {"set", "supl_mode", "set_ulp"}
        /\ UNCHANGED <<target, adapter, todo, up, powerOn>>
        /\ "power" \in untold => "power" \in untold'
    BY <1>9 DEF ProcessSet, ProcessSuplMode, ProcessSetUlp, Takes, start, engine, thread, Started
  <2>2. modem'["power"] = modem["power"]
    <3>1. CASE ProcessSet
      <4>1. Head(inbox).item # "power"
        BY <3>1, InboxTaken DEF ProcessSet, Takes, Sent, Renewable
      <4> QED BY <3>1, <4>1, Kinds DEF ProcessSet, Tell, Started
    <3>2. CASE ProcessSuplMode \/ ProcessSetUlp
      BY <3>2 DEF ProcessSuplMode, ProcessSetUlp
    <3> QED BY <1>9, <3>1, <3>2
  <2>3. Has(inbox, ReinitMsg(TRUE)) => Has(inbox', ReinitMsg(TRUE))
    <3>1. Head(inbox) # ReinitMsg(TRUE)
      BY <2>1, MessageKinds
    <3> QED BY <2>1, <3>1, KindDropped
  <2> QED BY <2>1, <2>2, <2>3 DEF PowerAgrees
<1>10. ASSUME ProcessReinit PROVE PowerAgrees'
  <2>1. /\ inbox # <<>> /\ inbox' = Tail(inbox) /\ Queue(inbox) /\ todo = <<>>
        /\ todo' = Renewals(Head(inbox).engineUp)
        /\ UNCHANGED <<target, adapter, up, powerOn, modem, untold>>
        /\ adapter /\ supl_host = None
    BY <1>10 DEF ProcessReinit, Takes, start, engine, outside, Started
  <2>2. ~Has(todo, "power")
    BY <2>1, Nothing
  <2>3. CASE Head(inbox) = ReinitMsg(TRUE)
    <3>1. Head(inbox).engineUp
      BY <2>3 DEF ReinitMsg
    <3>2. target = "qca1530" => Has(todo', "power")
      BY <2>1, <3>1, RenewalsAre
    <3> QED BY <2>1, <3>2 DEF PowerAgrees
  <2>4. CASE Head(inbox) # ReinitMsg(TRUE)
    <3>1. Has(inbox, ReinitMsg(TRUE)) => Has(inbox', ReinitMsg(TRUE))
      BY <2>1, <2>4, KindDropped
    <3> QED BY <2>1, <2>2, <3>1 DEF PowerAgrees
  <2> QED BY <2>3, <2>4
<1>11. ASSUME ReinitSends PROVE PowerAgrees'
  <2> DEFINE j == Head(todo)
  <2>1. /\ todo # <<>> /\ todo' = Tail(todo) /\ Queue(todo) /\ adapter /\ Queue(inbox)
        /\ untold' = IF held = Wanted[j] THEN untold \ {j} ELSE untold \cup {j}
        /\ UNCHANGED <<target, adapter, up, powerOn>>
    BY <1>11 DEF ReinitSends, start, engine, Started, Queue
  <2>2. Has(todo, "power") <=> Has(todo', "power") \/ j = "power"
    BY <2>1, KindDropped
  <2>3. CASE j = "power"
    <3>1. Tell("power", held) /\ target = "qca1530"
      BY <1>11, <2>2, <2>3 DEF ReinitSends, Started
    <3>2. Wanted["power"] = powerOn
      BY <2>1, <3>1 DEF Wanted, MayVote
    <3>3. up => modem'["power"] = held
      BY <3>1, Kinds DEF Tell, Started
    <3> QED BY <2>1, <2>3, <3>1, <3>2, <3>3 DEF PowerAgrees
  <2>4. CASE j # "power"
    <3>1. inbox' = inbox \o <<SetMsg(j, held)>> /\ modem' = modem
      BY <1>11, <2>4 DEF ReinitSends, Send
    <3>2. Queue(<<SetMsg(j, held)>>)
      BY One
    <3>3. Has(inbox, ReinitMsg(TRUE)) => Has(inbox', ReinitMsg(TRUE))
      BY <2>1, <3>1, <3>2, KindJoined
    <3>4. "power" \in untold => "power" \in untold'
      BY <2>1, <2>4
    <3> QED BY <2>1, <2>2, <2>4, <3>1, <3>3, <3>4 DEF PowerAgrees
  <2> QED BY <2>3, <2>4
<1>12. ASSUME Crash PROVE PowerAgrees'
  <2>1. up' = FALSE /\ modem' = [i \in Items |-> None] /\ target' = target
    BY <1>12 DEF Crash, start
  <2>2. modem'["power"] = None
    BY <2>1, Kinds
  <2> QED BY <2>1, <2>2 DEF PowerAgrees
<1>13. ASSUME Restart PROVE PowerAgrees'
  <2>1. UNCHANGED <<target, adapter, modem>>
    BY <1>13 DEF Restart, start, engine
  <2>2. adapter => Has(inbox', ReinitMsg(TRUE))
    <3> DEFINE m == ReinitMsg(TRUE)
               r == <<m>>
    <3>1. adapter => inbox' = inbox \o r
      BY <1>13 DEF Restart, Send
    <3> HIDE DEF m
    <3>2. Queue(r) /\ Has(r, m)
      BY One
    <3> HIDE DEF r
    <3>3. Queue(inbox)
      BY DEF Started
    <3>4. Has(inbox \o r, m)
      BY <3>2, <3>3, KindJoined
    <3> QED BY <3>1, <3>4 DEF m
  <2> QED BY <2>1, <2>2 DEF PowerAgrees
<1> QED BY <1>1, <1>2, <1>3, <1>4, <1>5, <1>6, <1>7, <1>8, <1>9, <1>10, <1>11, <1>12, <1>13 DEF Next

-----------------------------------------------------------------------------
\* The engine's own messages: none makes a proxy, and the one about the mode
\* is sent for a mode that an update has changed.
Plain(r) ==
  /\ Queue(r) /\ inbox' = inbox \o r
  /\ ~HasKind(r, "set_ulp") /\ ~HasKind(r, "supl_mode") /\ ForBase(r)

LEMMA PlainOne ==
  ASSUME NEW r, inbox' = inbox \o r,
         \/ r = <<>> \/ (\E i, v : r = <<SetMsg(i, v)>>) \/ r = <<ReinitMsg(TRUE)>>
         \/ r = <<ReinitMsg(FALSE)>>
  PROVE  Plain(r)
<1>1. CASE r = <<>>
  BY <1>1, Nothing DEF Plain
<1>2. CASE \E i, v : r = <<SetMsg(i, v)>>
  <2>1. PICK i, v : r = <<SetMsg(i, v)>>
    BY <1>2
  <2> QED BY <2>1, One, MessageKinds DEF Plain
<1>3. CASE r = <<ReinitMsg(TRUE)>> \/ r = <<ReinitMsg(FALSE)>>
  <2>1. ASSUME NEW m, m.msg = "reinit", r = <<m>> PROVE Plain(r)
    BY <2>1, One DEF Plain
  <2> QED BY <1>3, <2>1, MessageKinds
<1> QED BY <1>1, <1>2, <1>3

LEMMA PlainSent ==
  ASSUME Started,
         \/ LocInit \/ LocCleanup \/ AgpsInit \/ SetServer \/ UpdateAvailability
         \/ ReinitSends \/ Restart
  PROVE  \E r : Plain(r)
<1>1. CASE LocInit
  <2> DEFINE a == IF adapter THEN <<>> ELSE <<ReinitMsg(FALSE)>>
             b == <<LockMsg("open")>>
  <2>1. inbox' = inbox \o (a \o b)
    BY <1>1 DEF LocInit, EngineInit, Send
  <2>2. /\ Queue(b) /\ ~HasKind(b, "set_ulp") /\ ~HasKind(b, "supl_mode") /\ ForBase(b)
    BY One, MessageKinds DEF LockMsg
  <2>3. /\ Queue(a) /\ ~HasKind(a, "set_ulp") /\ ~HasKind(a, "supl_mode") /\ ForBase(a)
    <3>1. CASE adapter
      BY <3>1, Nothing
    <3>2. CASE ~adapter
      <4> DEFINE m == ReinitMsg(FALSE)
      <4>1. m.msg = "reinit" /\ a = <<m>>
        BY <3>2, MessageKinds
      <4> HIDE DEF m, a
      <4> QED BY <4>1, One
    <3> QED BY <3>1, <3>2
  <2> HIDE DEF a, b
  <2> QED BY <2>1, <2>2, <2>3, Joined, KindJoined, SaysJoined DEF Plain
<1>2. CASE LocCleanup
  <2>1. inbox' = inbox \o <<SetMsg("lock", "locked")>>
    BY <1>2 DEF LocCleanup, Send, LockMsg
  <2> QED BY <2>1, PlainOne
<1>3. CASE AgpsInit
  <2>1. inbox' = inbox \o <<>>
    BY <1>3 DEF AgpsInit, Send, Buffered, Started
  <2> QED BY <2>1, PlainOne
<1>4. CASE SetServer
  <2>1. PICK s : Send(IF adapter THEN <<ServerMsg(s)>> ELSE <<>>)
    BY <1>4 DEF SetServer
  <2>2. inbox' = inbox \o <<SetMsg("server", s)>> \/ inbox' = inbox \o <<>>
    BY <2>1 DEF Send, ServerMsg
  <2> QED BY <2>2, PlainOne
<1>5. CASE UpdateAvailability
  <2>1. PICK available, apn : Send(IF adapter /\ apn THEN <<SetMsg("data", available)>> ELSE <<>>)
    BY <1>5 DEF UpdateAvailability
  <2>2. inbox' = inbox \o <<SetMsg("data", available)>> \/ inbox' = inbox \o <<>>
    BY <2>1 DEF Send
  <2> QED BY <2>2, PlainOne
<1>6. CASE ReinitSends
  <2>1. inbox' = inbox \o <<SetMsg(Head(todo), held)>> \/ inbox' = inbox \o <<>>
    <3>1. inbox = inbox \o <<>>
      BY Nothing, Joined DEF Started
    <3> QED BY <1>6, <3>1 DEF ReinitSends, Send
  <2> QED BY <2>1, PlainOne
<1>7. CASE Restart
  <2>1. inbox' = inbox \o <<ReinitMsg(TRUE)>> \/ inbox' = inbox \o <<>>
    BY <1>7 DEF Restart, Send
  <2> QED BY <2>1, PlainOne
<1> QED BY <1>1, <1>2, <1>3, <1>4, <1>5, <1>6, <1>7

\* What an update sends.
LEMMA UpdateSent ==
  ASSUME Started, UpdateSends
  PROVE  \E r : /\ Queue(r) /\ inbox' = inbox \o r
                /\ ~HasKind(r, "set_ulp") /\ (mUlp = "base" => ForBase(r))
                /\ HasKind(r, "supl_mode") <=> adapter /\ Parsed("SUPL_MODE")
                /\ ~adapter => r = <<>>
<1> DEFINE changed == IF adapter THEN Changed(fw.old, gps_conf) ELSE {}
           a == IF "SUPL_VER" \in changed THEN <<SetMsg("SUPL_VER", gps_conf["SUPL_VER"])>> ELSE <<>>
           b == IF "SUPL_MODE" \in changed THEN <<SuplModeMsg(mUlp)>> ELSE <<>>
<1>1. inbox' = inbox \o (a \o b)
  BY DEF UpdateSends, Send
<1>2. Queue(a) /\ ~HasKind(a, "set_ulp") /\ ~HasKind(a, "supl_mode") /\ ForBase(a)
  BY Nothing, One, MessageKinds
<1>3. /\ Queue(b) /\ ~HasKind(b, "set_ulp") /\ (mUlp = "base" => ForBase(b))
      /\ HasKind(b, "supl_mode") <=> "SUPL_MODE" \in changed
  BY Nothing, One, MessageKinds
<1>4. "SUPL_MODE" \in changed <=> adapter /\ Parsed("SUPL_MODE")
  BY DEF Changed, Carrier, Parsed, UpdateSends
<1>5. ~adapter => a = <<>> /\ b = <<>>
  OBVIOUS
<1> HIDE DEF a, b, changed
<1>6. /\ Queue(a \o b) /\ ~HasKind(a \o b, "set_ulp") /\ (mUlp = "base" => ForBase(a \o b))
      /\ HasKind(a \o b, "supl_mode") <=> adapter /\ Parsed("SUPL_MODE")
      /\ ~adapter => a \o b = <<>>
  BY <1>2, <1>3, <1>4, <1>5, Nothing, Joined, KindJoined, SaysJoined
<1> QED BY <1>1, <1>6

\* Every step keeps what is known of the making of the proxy.
LEMMA ProxyStep ==
  Started /\ OneProxy /\ [Next]_vars => OneProxy'
<1> SUFFICES ASSUME Started, OneProxy, [Next]_vars
             PROVE  OneProxy'
  OBVIOUS
<1>0. Queue(inbox)
  BY DEF Started
<1>1. ASSUME \/ GetInterface \/ UpdateStarts \/ ParseLine \/ UpdateRestores \/ ReinitReads
             \/ Crash \/ UNCHANGED vars
      PROVE  OneProxy'
  <2>1. UNCHANGED <<inbox, lbs, mUlp>>
    BY <1>1 DEF GetInterface, UpdateStarts, ParseLine, UpdateRestores, ReinitReads, Crash, vars, outside
  <2> QED BY <2>1 DEF OneProxy
<1>2. ASSUME NEW r, Queue(r), inbox' = inbox \o r, ~HasKind(r, "set_ulp"), mUlp = "base" => ForBase(r),
             mUlp' = mUlp, lbs' = lbs \/ (mUlp = "base" /\ ~HasKind(inbox, "set_ulp"))
      PROVE  OneProxy'
  BY <1>0, <1>2, KindJoined, SaysJoined DEF OneProxy
<1>3. ASSUME \/ LocInit \/ LocCleanup \/ AgpsInit \/ SetServer \/ UpdateAvailability
             \/ ReinitSends \/ Restart
      PROVE  OneProxy'
  <2>1. PICK r : Plain(r)
    BY <1>3, PlainSent
  <2>2. mUlp' = mUlp
    BY <1>3 DEF LocInit, LocCleanup, AgpsInit, SetServer, UpdateAvailability, ReinitSends, Restart, outside
  <2>3. lbs' = lbs \/ (LocInit /\ ~adapter)
    BY <1>3 DEF LocInit, LocCleanup, AgpsInit, SetServer, UpdateAvailability, ReinitSends, Restart, outside
  <2>4. ~adapter => mUlp = "base" /\ ~HasKind(inbox, "set_ulp")
    BY Nothing DEF Started
  <2> QED BY <1>2, <2>1, <2>2, <2>3, <2>4 DEF Plain
<1>4. ASSUME UpdateSends PROVE OneProxy'
  <2>1. lbs' = lbs /\ mUlp' = mUlp
    BY <1>4 DEF UpdateSends, outside
  <2> QED BY <1>2, <1>4, <2>1, UpdateSent
<1>5. ASSUME UlpMade PROVE OneProxy'
  <2> DEFINE r == <<SetUlpMsg(lbs)>>
  <2>1. inbox' = inbox \o r /\ lbs # None /\ lbs' = None /\ mUlp' = mUlp
    BY <1>5 DEF UlpMade, Send
  <2>2. Queue(r) /\ ForBase(r) /\ OneKind(r, "set_ulp")
    <3>1. 1..Len(r) = {1}
      BY Short
    <3> QED BY <3>1, One, MessageKinds DEF OneKind
  <2> HIDE DEF r
  <2>3. mUlp = "base" /\ ~HasKind(inbox, "set_ulp") /\ ForBase(inbox)
    BY <2>1 DEF OneProxy
  <2> QED BY <1>0, <2>1, <2>2, <2>3, SaysJoined DEF OneProxy
<1>6. ASSUME ProcessSet \/ ProcessReinit \/ ProcessSuplMode PROVE OneProxy'
  <2>1. inbox # <<>> /\ inbox' = Tail(inbox) /\ lbs' = lbs /\ mUlp' = mUlp
    BY <1>6 DEF ProcessSet, ProcessReinit, ProcessSuplMode, Takes, outside
  <2> QED BY <1>0, <2>1, KindDropped, SaysDropped DEF OneProxy
<1>7. ASSUME ProcessSetUlp PROVE OneProxy'
  <2>1. /\ inbox # <<>> /\ inbox' = Tail(inbox) /\ Head(inbox).msg = "set_ulp"
        /\ lbs' = lbs /\ mUlp' = "vendor"
    BY <1>7 DEF ProcessSetUlp, Takes
  <2>2. lbs = None
    BY <1>0, <2>1, KindDropped DEF OneProxy
  <2>3. OneKind(inbox', "set_ulp") /\ ~HasKind(inbox', "set_ulp")
    BY <1>0, <2>1, SaysDropped DEF OneProxy
  <2> QED BY <2>1, <2>2, <2>3 DEF OneProxy
<1> QED BY <1>1, <1>3, <1>4, <1>5, <1>6, <1>7 DEF Next

\* Every step keeps what is known of the proxy's capabilities.
LEMMA UlpStep ==
  KeptIInv /\ Started /\ OneProxy /\ UlpFollows /\ [Next]_vars => UlpFollows'
<1> SUFFICES ASSUME KeptIInv, Started, OneProxy, UlpFollows, [Next]_vars,
                    "ulp" \notin untold', ~Parsed("SUPL_MODE")', ~HasKind(inbox', "supl_mode")
             PROVE  /\ mUlp' = "vendor" => ulp' = KeptCapabilities'
                    /\ lbs' # None => lbs' = KeptCapabilities'
                    /\ Caps(inbox', KeptCapabilities')
  BY DEF UlpFollows
<1> DEFINE Goal1 == /\ mUlp' = "vendor" => ulp' = KeptCapabilities'
                    /\ lbs' # None => lbs' = KeptCapabilities'
                    /\ Caps(inbox', KeptCapabilities')
<1>0. Queue(inbox)
  BY DEF Started
\* Before there is an adapter there is nothing to tell.
<1>1. ASSUME ~adapter, UNCHANGED <<inbox, lbs, mUlp>> PROVE Goal1
  BY <1>1, Nothing DEF Started
\* The mode is the same.
<1>2. ASSUME UNCHANGED <<target, gps_conf>> PROVE KeptCapabilities' = KeptCapabilities
  BY <1>2 DEF KeptCapabilities, Loaded
<1>3. ASSUME GetInterface PROVE Goal1
  <2>1. ~adapter /\ UNCHANGED <<inbox, lbs, mUlp>>
    BY <1>3 DEF GetInterface, ReadConfig, outside, Started
  <2> QED BY <1>1, <2>1
<1>4. ASSUME ReinitReads \/ Crash \/ UNCHANGED vars PROVE Goal1
  <2>1. UNCHANGED <<target, conf, inbox, lbs, ulp, mUlp>> /\ "ulp" \notin untold
    BY <1>4 DEF ReinitReads, Crash, vars, outside, start
  <2> QED BY <1>2, <2>1 DEF conf, Parsed, UlpFollows
<1>5. ASSUME UpdateStarts PROVE Goal1
  <2>1. UNCHANGED <<target, gps_conf, inbox, lbs, ulp, mUlp, untold>> /\ fw = Idle
    BY <1>5 DEF UpdateStarts, Call, outside, start
  <2>2. ~Parsed("SUPL_MODE")
    BY <2>1 DEF Parsed, Idle
  <2> QED BY <1>2, <2>1, <2>2 DEF UlpFollows
<1>6. ASSUME ParseLine PROVE Goal1
  <2>1. PICK p0, v : /\ p0 \in Params /\ fw.old[p0] = gps_conf[p0] /\ v # fw.old[p0]
                     /\ gps_conf' = [gps_conf EXCEPT ![p0] = v]
    BY <1>6 DEF ParseLine, FillConfItem, SetConfigEntry, Same
  <2>2. UNCHANGED <<target, fw, inbox, lbs, ulp, mUlp, untold>> /\ fw.op = "parse"
    BY <1>6 DEF ParseLine, outside, start
  <2>3. p0 # "SUPL_MODE"
    BY <2>1, <2>2 DEF Parsed, KeptIInv, ConfTyped
  <2>4. gps_conf'["SUPL_MODE"] = gps_conf["SUPL_MODE"]
    BY <2>1, <2>3
  <2>5. KeptCapabilities' = KeptCapabilities
    BY <2>2, <2>4 DEF KeptCapabilities, Loaded
  <2> QED BY <2>2, <2>4, <2>5 DEF Parsed, UlpFollows
<1>7. ASSUME UpdateRestores PROVE Goal1
  <2>1. /\ UNCHANGED <<target, inbox, lbs, ulp, mUlp, untold>> /\ fw.op = "restore"
        /\ gps_conf' = Restored(fw.old, gps_conf)
    BY <1>7 DEF UpdateRestores, outside, start
  <2>2. gps_conf'["SUPL_MODE"] = gps_conf["SUPL_MODE"] /\ ~Parsed("SUPL_MODE")
    BY <2>1 DEF Restored, Params, Carrier, Parsed
  <2>3. KeptCapabilities' = KeptCapabilities
    BY <2>1, <2>2 DEF KeptCapabilities, Loaded
  <2> QED BY <2>1, <2>2, <2>3 DEF UlpFollows
<1>8. ASSUME NEW r, Queue(r), inbox' = inbox \o r, ~HasKind(r, "set_ulp"),
             UNCHANGED <<target, conf, lbs, ulp, mUlp>>, "ulp" \notin untold
      PROVE  Goal1
  <2>1. ~HasKind(inbox, "supl_mode")
    BY <1>0, <1>8, KindJoined
  <2>2. Caps(r, KeptCapabilities)
    BY <1>8 DEF Caps, HasKind
  <2> QED BY <1>0, <1>2, <1>8, <2>1, <2>2, SaysJoined DEF conf, Parsed, UlpFollows
<1>9. ASSUME LocCleanup \/ AgpsInit \/ SetServer \/ UpdateAvailability \/ ReinitSends \/ Restart
      PROVE  Goal1
  <2>1. PICK r : Plain(r)
    BY <1>9, PlainSent
  <2>2. UNCHANGED <<target, conf, lbs, ulp, mUlp>>
    BY <1>9 DEF LocCleanup, AgpsInit, SetServer, UpdateAvailability, ReinitSends, Restart, outside, start
  <2>3. "ulp" \notin untold
    <3>1. CASE ReinitSends
      <4>1. Head(todo) \in Renewable \cup {"power"}
        BY <3>1 DEF ReinitSends, Started
      <4> QED BY <3>1, <4>1, Kinds DEF ReinitSends, Renewable
    <3>2. CASE LocCleanup \/ AgpsInit \/ SetServer \/ Restart
      BY <3>2 DEF LocCleanup, AgpsInit, SetServer, Restart
    <3>3. CASE UpdateAvailability
      BY <3>3 DEF UpdateAvailability
    <3> QED BY <1>9, <3>1, <3>2, <3>3
  <2> QED BY <1>8, <2>1, <2>2, <2>3 DEF Plain
<1>10. ASSUME LocInit PROVE Goal1
  <2>1. PICK r : Plain(r)
    BY <1>10, PlainSent
  <2>2. /\ UNCHANGED <<target, conf, ulp, mUlp>> /\ "ulp" \notin untold
       
          /\ lbs' = IF adapter THEN lbs ELSE Capabilities(gps_conf)
        /\ fw = Idle /\ configAlreadyRead
    BY <1>10 DEF LocInit, Call, start
  <2>3. CASE adapter
    BY <1>8, <2>1, <2>2, <2>3 DEF Plain
  <2>4. CASE ~adapter
    <3>1. gps_conf["CAPABILITIES"] = Loaded["CAPABILITIES"]
      BY <2>2 DEF KeptIInv, OwnIsKept, Own
    <3>2. KeptCapabilities' = KeptCapabilities
      BY <1>2, <2>2 DEF conf
    <3>3. lbs' = KeptCapabilities' /\ mUlp' # "vendor"
      BY <2>2, <2>4, <3>1, <3>2 DEF Capabilities, KeptCapabilities, Started
    <3>4. Caps(r, KeptCapabilities) /\ Caps(inbox, KeptCapabilities)
      BY <2>1, <2>4, Nothing DEF Plain, Caps, HasKind, Started
    <3> QED BY <1>0, <2>1, <3>2, <3>3, <3>4, SaysJoined DEF Plain
  <2> QED BY <2>3, <2>4
<1>11. ASSUME UpdateSends PROVE Goal1
  <2>1. PICK r : /\ Queue(r) /\ inbox' = inbox \o r /\ ~HasKind(r, "set_ulp")
                 /\ HasKind(r, "supl_mode") <=> adapter /\ Parsed("SUPL_MODE")
                 /\ ~adapter => r = <<>>
    BY <1>11, UpdateSent
  <2>2. UNCHANGED <<target, gps_conf, lbs, ulp, mUlp>>
    BY <1>11 DEF UpdateSends, start, outside
  <2>3. CASE adapter
    <3>1. "ulp" \notin untold
      BY <1>11 DEF UpdateSends, Changed, Carrier
    <3>2. ~HasKind(inbox, "supl_mode") /\ ~Parsed("SUPL_MODE")
      BY <1>0, <2>1, <2>3, KindJoined
    <3>3. Caps(r, KeptCapabilities)
      BY <2>1 DEF Caps, HasKind
    <3> QED BY <1>0, <1>2, <2>1, <2>2, <3>1, <3>2, <3>3, SaysJoined DEF UlpFollows
  <2>4. CASE ~adapter
    <3>1. inbox' = inbox
      BY <1>0, <2>1, <2>4, Nothing, Joined
    <3> QED BY <1>1, <2>2, <2>4, <3>1
  <2> QED BY <2>3, <2>4
<1>12. ASSUME UlpMade PROVE Goal1
  <2> DEFINE r == <<SetUlpMsg(lbs)>>
  <2>1. /\ inbox' = inbox \o r /\ lbs # None /\ lbs' = None
        /\ UNCHANGED <<target, conf, ulp, mUlp, untold>>
    BY <1>12 DEF UlpMade, Send, start
  <2>2. Queue(r) /\ Caps(r, lbs)
    BY One, MessageKinds
  <2> HIDE DEF r
  <2>3. ~HasKind(inbox, "supl_mode") /\ ~Parsed("SUPL_MODE")
    BY <1>0, <2>1, <2>2, KindJoined DEF conf, Parsed
  <2>4. lbs = KeptCapabilities /\ KeptCapabilities' = KeptCapabilities
    BY <1>2, <2>1, <2>3 DEF conf, UlpFollows
  <2> QED BY <1>0, <2>1, <2>2, <2>3, <2>4, SaysJoined DEF UlpFollows
<1>13. ASSUME ProcessSet \/ ProcessReinit PROVE Goal1
  <2>1. /\ inbox # <<>> /\ inbox' = Tail(inbox) /\ Head(inbox).msg \in {"set", "reinit"}
        /\ UNCHANGED <<target, conf, lbs, ulp, mUlp>> /\ "ulp" \notin untold
    BY <1>13 DEF ProcessSet, ProcessReinit, Takes, start, outside
  <2>2. ~HasKind(inbox, "supl_mode")
    BY <1>0, <2>1, KindDropped
  <2> QED BY <1>0, <1>2, <2>1, <2>2, SaysDropped DEF conf, Parsed, UlpFollows
<1>14. ASSUME ProcessSuplMode PROVE Goal1
  <2>1. /\ inbox # <<>> /\ inbox' = Tail(inbox) /\ Head(inbox).msg = "supl_mode"
        /\ Head(inbox).ulp = "vendor" /\ gps_conf["CAPABILITIES"] = Settled["CAPABILITIES"]
        /\ ulp' = Capabilities(gps_conf) /\ UNCHANGED <<target, conf, lbs, mUlp>>
    BY <1>14 DEF ProcessSuplMode, Takes, start
  <2>2. mUlp = "vendor" /\ lbs = None /\ ~HasKind(inbox, "set_ulp")
    <3>1. ~ForBase(inbox)
      BY <1>0, <2>1, SaysDropped
    <3> QED BY <3>1 DEF OneProxy, Started
  <2>3. gps_conf["CAPABILITIES"] = Loaded["CAPABILITIES"]
    <3>1. configAlreadyRead
      BY <2>1 DEF Started
    <3> QED BY <2>1, <3>1, Settlement
  <2>4. ulp' = KeptCapabilities'
    BY <1>2, <2>1, <2>3 DEF conf, Capabilities, KeptCapabilities
  <2>5. Caps(inbox', KeptCapabilities')
    <3>1. ~HasKind(inbox', "set_ulp")
      BY <1>0, <2>1, <2>2, KindDropped
    <3> QED BY <3>1 DEF Caps, HasKind
  <2> QED BY <2>1, <2>2, <2>4, <2>5
<1>15. ASSUME ProcessSetUlp PROVE Goal1
  <2>1. /\ inbox # <<>> /\ inbox' = Tail(inbox) /\ Head(inbox).msg = "set_ulp"
        /\ mUlp' = "vendor" /\ ulp' = Head(inbox).caps
        /\ UNCHANGED <<target, conf, lbs, untold>>
    BY <1>15 DEF ProcessSetUlp, Takes, start
  <2>2. ~HasKind(inbox, "supl_mode") /\ HasKind(inbox, "set_ulp")
    BY <1>0, <2>1, KindDropped
  <2>3. lbs = None
    BY <2>2 DEF OneProxy
  <2>4. Caps(inbox, KeptCapabilities) /\ KeptCapabilities' = KeptCapabilities
    BY <1>2, <2>1, <2>2 DEF conf, Parsed, UlpFollows
  <2> QED BY <1>0, <2>1, <2>3, <2>4, SaysDropped
<1> HIDE DEF Goal1
<1>16. Goal1
  BY <1>3, <1>4, <1>5, <1>6, <1>7, <1>9, <1>10, <1>11, <1>12,
           <1>13, <1>14, <1>15 DEF Next
<1> QED BY <1>16 DEF Goal1

-----------------------------------------------------------------------------
LEMMA Initial == Init => IInv
<1> SUFFICES ASSUME Init PROVE IInv
  OBVIOUS
<1>1. modem = [i \in Items |-> modem[i]] /\ \A i \in Items : modem[i] = None
  BY DEF Init
<1>2. Started
  <2>1. <<>> \in Seq(Renewable \cup {"power"})
    OBVIOUS
  <2> QED BY <1>1, <2>1, Nothing, Kinds DEF Init, Started, Sent
<1>3. ItemsAgree /\ PowerAgrees
  BY <1>1, Kinds DEF Init, ItemsAgree, PowerAgrees
<1>4. OneProxy /\ UlpFollows
  BY Nothing DEF Init, OneProxy, UlpFollows
<1> QED BY <1>2, <1>3, <1>4, InitKept DEF IInv

LEMMA Inductive == IInv /\ [Next]_vars => IInv'
BY NextKept, StartedStep, ItemsStep, PowerStep, ProxyStep, UlpStep DEF IInv

LEMMA Consequence == IInv => ModemIsConfigured /\ UlpAgrees
<1> SUFFICES ASSUME IInv, Quiet PROVE ModemIsConfigured /\ UlpAgrees
  BY DEF ModemIsConfigured, UlpAgrees
<1>1. ~HasKind(inbox, "reinit") /\ ~HasKind(inbox, "supl_mode") /\ ~Has(inbox, ReinitMsg(TRUE))
  BY Nothing DEF Quiet
<1>2. fw = Idle /\ up /\ (\A p : ~Parsed(p)) /\ \A i : ~Has(todo, i) /\ ~HasSet(inbox, i)
  BY Nothing DEF Quiet, Parsed, Idle
<1>3. ASSUME adapter, NEW i \in Items \ untold PROVE modem[i] = Wanted[i]
  <2>1. CASE i = "power"
    <3>1. CASE target = "qca1530"
      <4>1. modem["power"] = powerOn
        BY <1>1, <1>2, <1>3, <2>1, <3>1 DEF IInv, PowerAgrees
      <4> QED BY <1>3, <2>1, <3>1, <4>1 DEF Wanted, MayVote
    <3>2. CASE target # "qca1530"
      BY <2>1, <3>2 DEF IInv, PowerAgrees, Wanted, MayVote
    <3> QED BY <3>1, <3>2
  <2>2. CASE i # "power"
    <3>1. i \in Sent
      BY <1>3, <2>2 DEF Items, Sent, Renewable
    <3>2. ~Excused(i)
      BY <1>1, <1>2, <1>3 DEF Excused
    <3>3. Agrees(inbox, i, Goal[i], modem[i])
      BY <1>3, <3>1, <3>2 DEF IInv, ItemsAgree
    <3>4. modem[i] = Goal[i]
      BY <1>2, <3>3 DEF Agrees
    <3>5. configAlreadyRead
      BY <1>3 DEF IInv, Started
    <3> QED BY <3>1, <3>4, <3>5, Settlement DEF IInv
  <2> QED BY <2>1, <2>2
<1>4. ASSUME mUlp = "vendor", "ulp" \notin untold PROVE ulp = Capabilities(gps_conf)
  <2>1. ulp = KeptCapabilities
    BY <1>1, <1>2, <1>4 DEF IInv, UlpFollows
  <2>2. gps_conf["CAPABILITIES"] = Loaded["CAPABILITIES"]
    <3>1. adapter /\ configAlreadyRead
      BY <1>4 DEF IInv, Started
    <3> QED BY <1>2, <3>1 DEF IInv, KeptIInv, OwnIsKept, Own
  <2> QED BY <2>1, <2>2 DEF Capabilities, KeptCapabilities
<1> QED BY <1>3, <1>4 DEF ModemIsConfigured, UlpAgrees

\* When nothing is on its way, a running modem has the last value of every
\* setting that no read overtook: through updates, renewals by the adapter's
\* thread and restarts of the modem in any order (ModemIsConfigured).
THEOREM ModemAlwaysConfigured == Spec => []ModemIsConfigured
<1>1. IInv => ModemIsConfigured
  BY Consequence
<1> QED BY Initial, Inductive, <1>1, PTL DEF Spec

\* When nothing is on its way, the ULP's proxy has those capabilities of the
\* files that the carrier's mode leaves (UlpAgrees).
THEOREM UlpAlwaysAgrees == Spec => []UlpAgrees
<1>1. IInv => UlpAgrees
  BY Consequence
<1> QED BY Initial, Inductive, <1>1, PTL DEF Spec
=============================================================================
