-------------------------- MODULE LocApiBase_proofs --------------------------
(***************************************************************************)
(* Proofs about LocApiBase, for any adapters and events, tables and queues *)
(* of any length and any number of crashes.  The properties speak of a     *)
(* queue that is empty; what carries them is what each queued message will *)
(* do.  With a library that adds, everything wanted is open or carried by  *)
(* a message.  With one that replaces, only the last message that sets the *)
(* mask counts, and it carries what the table wants now.                   *)
(***************************************************************************)
EXTENDS LocApiBase, TLAPS

\* A queue has a renewal, or a message that opens for an event.
Renews(q) == \E i \in 1..Len(q) : q[i].msg = "ssr"
Opens(q) == \E i \in 1..Len(q) : q[i].msg = "open"
OpensFor(q, e) == \E i \in 1..Len(q) : q[i].msg = "open" /\ e \in q[i].mask

Wanted == EvtMask(mLocAdapters, mEvtMask)

\* Only a crash makes a handle stale, and the return from it queues a renewal.
StaleIsRenewed == modem = "up" /\ handle.is = "stale" => Renews(inbox)

ClosedIsEmpty == handle.is = "closed" => handle.mask = {}

\* What is wanted and not open is about to be opened.
OpenIsQueued ==
  library = "adds" /\ modem = "up" /\ ~Renews(inbox) /\ Listed # {} =>
    /\ handle.is = "fresh" \/ Opens(inbox)
    /\ \A e \in Wanted : (handle.is = "fresh" /\ e \in handle.mask) \/ OpensFor(inbox, e)

Sets(q, i) == q[i].msg \in {"open", "ssr"}
IsLastToSet(q, i) == Sets(q, i) /\ \A j \in 1..Len(q) : j > i => ~Sets(q, j)

NoneSets(q) == \A i \in 1..Len(q) : ~Sets(q, i)
LastOpensIn(q, mask) ==
  \A i \in 1..Len(q) :
    IsLastToSet(q, i) /\ q[i].msg = "open" => q[i].mask \ mExcludedMask \subseteq mask

\* The last message that sets the mask, or else the handle, has nothing unwanted.
LastIsWanted ==
  library = "replaces" /\ ~hasty =>
    LastOpensIn(inbox, Wanted) /\ (NoneSets(inbox) => handle.mask \subseteq Wanted)

IInv ==
  /\ TypeOK
  /\ RenewedBeforeUp
  /\ StaleIsRenewed
  /\ ClosedIsEmpty
  /\ OpenIsQueued
  /\ LastIsWanted

(***************************************************************************)
(* The table.                                                              *)
(***************************************************************************)
LEMMA ListedAre ==
  ASSUME NEW table \in Seq(Adapters)
  PROVE  ToSet(table) = {table[i] : i \in 1..Len(table)}
  BY DEF ToSet

LEMMA WantedIs ==
  ASSUME NEW table, NEW masks, NEW e
  PROVE  e \in EvtMask(table, masks) <=>
           e \notin mExcludedMask /\ \E a \in ToSet(table) : e \in masks[a]
  BY DEF EvtMask

\* The last takes the place of the one that goes; the others stay.
LEMMA RemovedTable ==
  ASSUME mLocAdapters \in Seq(Adapters), IsInjective(mLocAdapters), NEW a \in Listed
  PROVE  /\ Removed(a) \in Seq(Adapters)
         /\ Len(Removed(a)) = Len(mLocAdapters) - 1
         /\ IsInjective(Removed(a))
         /\ ToSet(Removed(a)) = Listed \ {a}
  <1> DEFINE n == Len(mLocAdapters)
             t == Removed(a)
  <1>1. DOMAIN mLocAdapters = 1..n /\ n \in Nat
    OBVIOUS
  <1>2. PICK k \in 1..n : mLocAdapters[k] = a
    BY <1>1 DEF Listed, ToSet
  <1>3. n - 1 \in Nat
    BY <1>1, <1>2
  <1>4. Last(mLocAdapters) = mLocAdapters[n] /\ n \in 1..n
    BY <1>1, <1>2 DEF Last
  <1>5. \A i \in 1..(n - 1) : i \in 1..n
    BY <1>1
  <1>6. t = [i \in 1..(n - 1) |-> IF i = k THEN mLocAdapters[n] ELSE mLocAdapters[i]]
    BY <1>1, <1>2, <1>4, <1>5 DEF Removed, IsInjective
  <1>7. /\ t \in Seq(Adapters) /\ Len(t) = n - 1 /\ DOMAIN t = 1..(n - 1)
        /\ \A i \in 1..(n - 1) : t[i] = IF i = k THEN mLocAdapters[n] ELSE mLocAdapters[i]
    <2>1. \A i \in 1..(n - 1) : (IF i = k THEN mLocAdapters[n] ELSE mLocAdapters[i]) \in Adapters
      BY <1>1, <1>4, <1>5
    <2>2. QED
      BY <1>3, <1>6, <2>1
  <1> HIDE DEF n, t
  <1>8. IsInjective(t)
    <2> SUFFICES ASSUME NEW i \in 1..(n - 1), NEW j \in 1..(n - 1), t[i] = t[j], i # j
                 PROVE  FALSE
      BY <1>7 DEF IsInjective
    <2>1. \A x, y \in 1..n : mLocAdapters[x] = mLocAdapters[y] => x = y
      BY <1>1 DEF IsInjective
    <2>2. i # n /\ j # n
      BY <1>1
    <2>3. QED
      BY <1>4, <1>5, <1>7, <2>1, <2>2
  <1>9. \A x : x \in ToSet(t) <=> x \in Listed \ {a}
    <2>1. ASSUME NEW i \in 1..(n - 1) PROVE t[i] \in Listed \ {a}
      <3>1. CASE i = k
        <4>1. t[i] = mLocAdapters[n]
          BY <1>7, <3>1
        <4>2. n # k
          BY <1>1, <3>1
        <4>3. QED
          BY <1>1, <1>2, <1>4, <4>1, <4>2 DEF IsInjective, Listed, ToSet
      <3>2. CASE i # k
        <4>1. t[i] = mLocAdapters[i] /\ i \in 1..n
          BY <1>5, <1>7, <3>2
        <4>2. QED
          BY <1>1, <1>2, <3>2, <4>1 DEF IsInjective, Listed, ToSet
      <3>3. QED
        BY <3>1, <3>2
    <2>2. ASSUME NEW x \in Listed \ {a} PROVE x \in ToSet(t)
      <3>1. PICK i \in 1..n : mLocAdapters[i] = x
        BY <1>1, <2>2 DEF Listed, ToSet
      <3>2. i # k
        BY <1>2, <2>2, <3>1
      <3>3. CASE i = n
        <4>1. k \in 1..(n - 1)
          BY <1>1, <3>2, <3>3
        <4>2. t[k] = x
          BY <1>7, <3>1, <3>3, <4>1
        <4>3. QED
          BY <1>7, <4>1, <4>2 DEF ToSet
      <3>4. CASE i # n
        <4>1. i \in 1..(n - 1)
          BY <1>1, <3>4
        <4>2. t[i] = x
          BY <1>7, <3>1, <3>2, <4>1
        <4>3. QED
          BY <1>7, <4>1, <4>2 DEF ToSet
      <3>5. QED
        BY <3>3, <3>4
    <2>3. QED
      BY <1>7, <2>1, <2>2 DEF ToSet
  <1>10. QED
    BY <1>7, <1>8, <1>9 DEF n, t

(***************************************************************************)
(* Queues.                                                                 *)
(***************************************************************************)
LEMMA Appending ==
  ASSUME NEW q \in Seq(Messages), NEW m \in Messages
  PROVE  LET r == Append(q, m) IN
         /\ r \in Seq(Messages)
         /\ Renews(r) <=> Renews(q) \/ m.msg = "ssr"
         /\ Opens(r) <=> Opens(q) \/ m.msg = "open"
         /\ \A e : OpensFor(r, e) <=> OpensFor(q, e) \/ (m.msg = "open" /\ e \in m.mask)
  BY DEF Renews, Opens, OpensFor

LEMMA Taking ==
  ASSUME NEW q \in Seq(Messages), q # <<>>
  PROVE  LET r == Tail(q) m == Head(q) IN
         /\ r \in Seq(Messages) /\ m \in Messages
         /\ Renews(q) <=> Renews(r) \/ m.msg = "ssr"
         /\ Opens(q) <=> Opens(r) \/ m.msg = "open"
         /\ \A e : OpensFor(q, e) <=> OpensFor(r, e) \/ (m.msg = "open" /\ e \in m.mask)
  <1> DEFINE r == Tail(q)
             m == Head(q)
  <1>1. r \in Seq(Messages) /\ m \in Messages /\ m = q[1]
    OBVIOUS
  <1>2. \A i \in 1..Len(r) : i + 1 \in 1..Len(q) /\ r[i] = q[i + 1]
    OBVIOUS
  <1>3. \A i \in 1..Len(q) : i = 1 \/ (i - 1 \in 1..Len(r) /\ r[i - 1] = q[i])
    OBVIOUS
  <1>4. 1 \in 1..Len(q)
    OBVIOUS
  <1> HIDE DEF r, m
  <1>5. Renews(q) <=> Renews(r) \/ m.msg = "ssr"
    BY <1>1, <1>2, <1>3, <1>4 DEF Renews
  <1>6. Opens(q) <=> Opens(r) \/ m.msg = "open"
    BY <1>1, <1>2, <1>3, <1>4 DEF Opens
  <1>7. \A e : OpensFor(q, e) <=> OpensFor(r, e) \/ (m.msg = "open" /\ e \in m.mask)
    BY <1>1, <1>2, <1>3, <1>4 DEF OpensFor
  <1>8. QED
    BY <1>1, <1>5, <1>6, <1>7 DEF r, m

\* Nothing else sets the mask after a message that was just queued.
LEMMA LastAppended ==
  ASSUME NEW q \in Seq(Messages), NEW m \in Messages, NEW W,
         m.msg \in {"open", "ssr"}, m.msg = "open" => m.mask \ mExcludedMask \subseteq W
  PROVE  LET r == Append(q, m) IN
           LastOpensIn(r, W) /\ ~NoneSets(r)
  <1> DEFINE r == Append(q, m)
             n == Len(q) + 1
  <1>1. Len(r) = n /\ n \in Nat /\ n \in 1..Len(r) /\ r[n] = m
    OBVIOUS
  <1> HIDE DEF r, n
  <1>2. Sets(r, n)
    BY <1>1 DEF Sets
  <1>3. ASSUME NEW i \in 1..Len(r), IsLastToSet(r, i) PROVE i = n
    BY <1>1, <1>2, <1>3 DEF IsLastToSet
  <1>4. QED
    BY <1>1, <1>2, <1>3 DEF LastOpensIn, NoneSets, r

\* A message that does not set the mask changes nothing.
LEMMA OtherAppended ==
  ASSUME NEW q \in Seq(Messages), NEW m \in Messages, m.msg \notin {"open", "ssr"}
  PROVE  LET r == Append(q, m) IN
         /\ NoneSets(r) <=> NoneSets(q)
         /\ \A W : LastOpensIn(q, W) => LastOpensIn(r, W)
  <1> DEFINE r == Append(q, m)
             n == Len(q) + 1
  <1>1. Len(r) = n /\ n \in Nat /\ n \in 1..Len(r) /\ r[n] = m /\ Len(q) \in Nat
    OBVIOUS
  <1>2. \A i \in 1..Len(q) : i \in 1..Len(r) /\ r[i] = q[i]
    OBVIOUS
  <1>3. \A i \in 1..Len(r) : i = n \/ i \in 1..Len(q)
    BY <1>1
  <1> HIDE DEF r, n
  <1>4. ~Sets(r, n)
    BY <1>1 DEF Sets
  <1>5. \A i \in 1..Len(q) : Sets(r, i) <=> Sets(q, i)
    BY <1>2 DEF Sets
  <1>6. (\A i \in 1..Len(r) : ~Sets(r, i)) <=> (\A i \in 1..Len(q) : ~Sets(q, i))
    BY <1>2, <1>3, <1>4, <1>5
  <1>7. ASSUME NEW i \in 1..Len(r), IsLastToSet(r, i)
        PROVE  i \in 1..Len(q) /\ IsLastToSet(q, i) /\ r[i] = q[i]
    BY <1>2, <1>3, <1>4, <1>5, <1>7 DEF IsLastToSet
  <1>8. QED
    BY <1>6, <1>7 DEF LastOpensIn, NoneSets, r

LEMMA LastTaken ==
  ASSUME NEW q \in Seq(Messages), q # <<>>
  PROVE  LET r == Tail(q) IN
         /\ \A W : LastOpensIn(q, W) => LastOpensIn(r, W)
         /\ NoneSets(r) /\ Head(q).msg \notin {"open", "ssr"} => NoneSets(q)
         /\ \A W : NoneSets(r) /\ Head(q).msg = "open" /\ LastOpensIn(q, W)
                     => Head(q).mask \ mExcludedMask \subseteq W
  <1> DEFINE r == Tail(q)
  <1>1. \A i \in 1..Len(r) : i + 1 \in 1..Len(q) /\ r[i] = q[i + 1]
    OBVIOUS
  <1>2. \A i \in 1..Len(q) : i = 1 \/ (i - 1 \in 1..Len(r) /\ r[i - 1] = q[i])
    OBVIOUS
  <1>3. 1 \in 1..Len(q)
    OBVIOUS
  <1> HIDE DEF r
  <1>4. \A i \in 1..Len(r) : Sets(r, i) <=> Sets(q, i + 1)
    BY <1>1 DEF Sets
  <1>5. \A i \in 1..Len(q) : i = 1 \/ (Sets(q, i) <=> Sets(r, i - 1))
    BY <1>2 DEF Sets
  <1>6. ASSUME NEW i \in 1..Len(r), IsLastToSet(r, i)
        PROVE  i + 1 \in 1..Len(q) /\ IsLastToSet(q, i + 1) /\ r[i] = q[i + 1]
    <2>1. \A j \in 1..Len(q) : j > i + 1 => j - 1 \in 1..Len(r) /\ j - 1 > i /\ (Sets(q, j) <=> Sets(r, j - 1))
      BY <1>2, <1>5
    <2>2. QED
      BY <1>1, <1>4, <1>6, <2>1 DEF IsLastToSet
  <1>7. ASSUME \A i \in 1..Len(r) : ~Sets(r, i)
        PROVE  IF Sets(q, 1) THEN IsLastToSet(q, 1) ELSE \A i \in 1..Len(q) : ~Sets(q, i)
    <2>1. \A i \in 1..Len(q) : i = 1 \/ ~Sets(q, i)
      BY <1>2, <1>5, <1>7
    <2>2. QED
      BY <2>1 DEF IsLastToSet
  <1>8. \A W : LastOpensIn(q, W) => LastOpensIn(r, W)
    BY <1>6 DEF LastOpensIn
  <1>9. Head(q) = q[1]
    OBVIOUS
  <1>10. NoneSets(r) /\ Head(q).msg \notin {"open", "ssr"} => NoneSets(q)
    BY <1>7, <1>9 DEF NoneSets, Sets
  <1>11. \A W : NoneSets(r) /\ Head(q).msg = "open" /\ LastOpensIn(q, W)
                  => Head(q).mask \ mExcludedMask \subseteq W
    BY <1>3, <1>7, <1>9 DEF NoneSets, Sets, LastOpensIn
  <1>12. QED
    BY <1>8, <1>10, <1>11 DEF r

(***************************************************************************)
(* A step that queues a message, and may change the table and the masks,   *)
(* but not the handle.                                                     *)
(***************************************************************************)
LEMMA UpAppended ==
  ASSUME inbox \in Seq(Messages), RenewedBeforeUp, NEW m \in Messages,
         inbox' = Append(inbox, m), m.msg # "up",
         handle'.is = "stale" => handle.is = "stale" \/ m.msg = "down"
  PROVE  RenewedBeforeUp'
  <1> SUFFICES ASSUME NEW i \in 1..Len(inbox'), inbox'[i].msg = "up", handle'.is = "stale"
               PROVE  \/ \E j \in 1..(i - 1) : inbox'[j].msg = "ssr"
                      \/ \E j \in (i + 1)..Len(inbox') : inbox'[j].msg = "down"
    BY DEF RenewedBeforeUp
  <1>1. Len(inbox') = Len(inbox) + 1 /\ Len(inbox) \in Nat /\ inbox'[Len(inbox) + 1] = m
    OBVIOUS
  <1>2. \A j \in 1..Len(inbox) : inbox'[j] = inbox[j]
    OBVIOUS
  <1>3. i \in 1..Len(inbox)
    BY <1>1
  <1>4. CASE m.msg = "down"
    BY <1>1, <1>3, <1>4
  <1>5. CASE handle.is = "stale"
    <2>1. \/ \E j \in 1..(i - 1) : inbox[j].msg = "ssr"
          \/ \E j \in (i + 1)..Len(inbox) : inbox[j].msg = "down"
      BY <1>2, <1>3, <1>5 DEF RenewedBeforeUp
    <2>2. CASE \E j \in 1..(i - 1) : inbox[j].msg = "ssr"
      <3>1. \A j \in 1..(i - 1) : j \in 1..Len(inbox)
        BY <1>1, <1>3
      <3>2. QED
        BY <1>2, <2>2, <3>1
    <2>3. CASE \E j \in (i + 1)..Len(inbox) : inbox[j].msg = "down"
      <3>1. \A j \in (i + 1)..Len(inbox) : j \in 1..Len(inbox) /\ j \in (i + 1)..Len(inbox')
        BY <1>1, <1>3
      <3>2. QED
        BY <1>2, <2>3, <3>1
    <2>4. QED
      BY <2>1, <2>2, <2>3
  <1>6. QED
    BY <1>4, <1>5

\* What a message that opens leaves of the invariant: whatever is newly wanted is
\* in it, and with a library that replaces it has nothing unwanted.
LEMMA OpenSent ==
  ASSUME IInv, NEW mask \in Masks, inbox' = Append(inbox, OpenMsg(mask)),
         UNCHANGED <<handle, modem, crashes, library>>,
         \A e \in Wanted' : e \in Wanted \/ e \in mask,
         ~hasty' => ~hasty, mask \ mExcludedMask \subseteq Wanted',
         Listed = {} => Wanted = {}
  PROVE  RenewedBeforeUp' /\ StaleIsRenewed' /\ ClosedIsEmpty' /\ OpenIsQueued' /\ LastIsWanted'
  <1> DEFINE m == OpenMsg(mask)
  <1>1. m \in Messages /\ m.msg = "open" /\ m.mask = mask
    BY DEF OpenMsg, Messages
  <1>2. inbox \in Seq(Messages)
    BY DEF IInv, TypeOK
  <1>3. RenewedBeforeUp'
    BY <1>1, <1>2, UpAppended DEF IInv
  <1>4. /\ Renews(inbox') <=> Renews(inbox)
        /\ Opens(inbox')
        /\ \A e : OpensFor(inbox', e) <=> OpensFor(inbox, e) \/ e \in mask
    BY <1>1, <1>2, Appending
  <1>5. StaleIsRenewed' /\ ClosedIsEmpty'
    BY <1>4 DEF IInv, StaleIsRenewed, ClosedIsEmpty
  <1>6. OpenIsQueued'
    BY <1>4 DEF IInv, OpenIsQueued
  <1>7. LastIsWanted'
    <2>1. inbox' = Append(inbox, m) /\ mask \ mExcludedMask \subseteq Wanted'
      OBVIOUS
    <2> HIDE DEF m
    <2>2. LastOpensIn(inbox', Wanted') /\ ~NoneSets(inbox')
      BY <1>1, <1>2, <2>1, LastAppended
    <2>3. QED
      BY <2>2 DEF LastIsWanted
  <1>8. QED
    BY <1>3, <1>5, <1>6, <1>7

\* An adapter that is not in the table changes nothing in what is wanted.
LEMMA UnlistedIsUnwanted ==
  ASSUME TypeOK, NEW a \in Adapters, a \notin Listed, NEW mask \in Masks,
         mLocAdapters' = mLocAdapters, mEvtMask' = [mEvtMask EXCEPT ![a] = mask]
  PROVE  Wanted' = Wanted
  <1>1. \A x \in Listed : x \in Adapters /\ mEvtMask'[x] = mEvtMask[x]
    BY DEF TypeOK
  <1>2. \A e : e \in Wanted' <=> e \in Wanted
    BY <1>1, WantedIs DEF Wanted, Listed
  <1>3. QED
    BY <1>2 DEF Wanted, EvtMask

LEMMA WantedIsMask ==
  ASSUME NEW table \in Seq(Adapters), NEW masks \in [Adapters -> Masks]
  PROVE  LET W == EvtMask(table, masks) IN
         W \in Masks /\ W \ mExcludedMask = W /\ (ToSet(table) = {} => W = {})
  <1> DEFINE W == EvtMask(table, masks)
  <1>1. ToSet(table) \subseteq Adapters
    BY ListedAre
  <1>2. \A e \in W : e \in Events /\ ToSet(table) # {} /\ e \notin mExcludedMask
    BY <1>1, WantedIs DEF Masks
  <1> HIDE DEF W
  <1>3. QED
    BY <1>2 DEF W, Masks

(***************************************************************************)
(* The operations.                                                         *)
(***************************************************************************)
LEMMA InitIInv == Init => IInv
  <1> SUFFICES ASSUME Init PROVE IInv
    OBVIOUS
  <1> USE DEF Init
  <1>1. TypeOK
    <2>1. Len(mLocAdapters) = 0 /\ 0 <= MAX_ADAPTERS /\ 0 \in 0..Restarts
      BY LocApiAssumption DEF LocApiAssumption
    <2>2. mLocAdapters \in Seq(Adapters) /\ inbox \in Seq(Messages) /\ DOMAIN mLocAdapters = {}
      OBVIOUS
    <2>3. IsInjective(mLocAdapters) /\ Listed = {}
      BY <2>2 DEF IsInjective, Listed, ToSet
    <2>4. handle \in [is : {"closed", "fresh", "stale"}, mask : Masks] /\ mEvtMask \in [Adapters -> Masks]
      BY DEF Masks
    <2>5. QED
      BY <2>1, <2>2, <2>3, <2>4 DEF TypeOK
  <1>2. RenewedBeforeUp /\ StaleIsRenewed /\ ClosedIsEmpty
    BY DEF RenewedBeforeUp, StaleIsRenewed, ClosedIsEmpty
  <1>3. OpenIsQueued
    BY DEF OpenIsQueued, Listed, ToSet
  <1>4. LastIsWanted
    BY DEF LastIsWanted, LastOpensIn
  <1>5. QED
    BY <1>1, <1>2, <1>3, <1>4 DEF IInv

LEMMA AddKeeps ==
  ASSUME IInv, NEW a \in Adapters, NEW mask \in Masks, AddAdapter(a, mask)
  PROVE  IInv' /\ Listed \subseteq Listed'
  <1>1. TypeOK /\ a \notin alive /\ a \notin Listed
    BY DEF IInv, TypeOK, AddAdapter
  <1>2. /\ alive' = alive \cup {a} /\ mEvtMask' = [mEvtMask EXCEPT ![a] = mask]
        /\ UNCHANGED <<handle, modem, crashes, library, hasty>>
    BY DEF AddAdapter, ever
  <1>3. mEvtMask' \in [Adapters -> Masks] /\ alive' \subseteq Adapters
    BY <1>1, <1>2 DEF TypeOK
  <1>4. CASE Len(mLocAdapters) < MAX_ADAPTERS
    <2>1. mLocAdapters' = Append(mLocAdapters, a) /\ inbox' = Append(inbox, OpenMsg(mask))
      BY <1>4 DEF AddAdapter, Added, Send
    <2>2. OpenMsg(mask) \in Messages
      BY DEF OpenMsg, Messages
    <2>3. /\ mLocAdapters' \in Seq(Adapters) /\ Len(mLocAdapters') = Len(mLocAdapters) + 1
          /\ inbox' \in Seq(Messages)
      BY <1>1, <2>1, <2>2 DEF TypeOK
    <2>4. Listed' = Listed \cup {a} /\ IsInjective(mLocAdapters')
      <3>1. /\ DOMAIN mLocAdapters = 1..Len(mLocAdapters)
            /\ DOMAIN mLocAdapters' = 1..(Len(mLocAdapters) + 1) /\ Len(mLocAdapters) \in Nat
            /\ mLocAdapters'[Len(mLocAdapters) + 1] = a
            /\ \A i \in 1..Len(mLocAdapters) : mLocAdapters'[i] = mLocAdapters[i]
        BY <1>1, <2>1, <2>3 DEF TypeOK
      <3>2. \A i \in 1..(Len(mLocAdapters) + 1) : i \in 1..Len(mLocAdapters) \/ i = Len(mLocAdapters) + 1
        BY <3>1
      <3>3. \A i \in 1..Len(mLocAdapters) : mLocAdapters[i] # a /\ i \in 1..(Len(mLocAdapters) + 1)
        BY <1>1, <3>1 DEF Listed, ToSet
      <3>4. Len(mLocAdapters) + 1 \in 1..(Len(mLocAdapters) + 1)
        BY <3>1
      <3>5. Listed' = Listed \cup {a}
        BY <3>1, <3>2, <3>3, <3>4 DEF Listed, ToSet
      <3>6. IsInjective(mLocAdapters')
        BY <1>1, <3>1, <3>2, <3>3 DEF TypeOK, IsInjective
      <3>7. QED
        BY <3>5, <3>6
    <2>5. TypeOK'
      BY <1>1, <1>2, <1>3, <1>4, <2>3, <2>4, LocApiAssumption DEF TypeOK, LocApiAssumption
    <2>6. \A e : e \in Wanted' <=> e \in Wanted \/ (e \in mask /\ e \notin mExcludedMask)
      <3>1. \A x \in Listed : x # a /\ mEvtMask'[x] = mEvtMask[x]
        BY <1>1, <1>2 DEF TypeOK
      <3>2. mEvtMask'[a] = mask
        BY <1>1, <1>2 DEF TypeOK
      <3>3. \A e : e \in Wanted' <=> e \notin mExcludedMask /\ \E x \in Listed' : e \in mEvtMask'[x]
        BY WantedIs DEF Wanted, Listed
      <3>4. \A e : e \in Wanted <=> e \notin mExcludedMask /\ \E x \in Listed : e \in mEvtMask[x]
        BY WantedIs DEF Wanted, Listed
      <3>5. QED
        BY <2>4, <3>1, <3>2, <3>3, <3>4
    <2>7. Listed = {} => Wanted = {}
      BY <1>1, WantedIsMask DEF Wanted, Listed, TypeOK
    <2>8. RenewedBeforeUp' /\ StaleIsRenewed' /\ ClosedIsEmpty' /\ OpenIsQueued' /\ LastIsWanted'
      BY <1>2, <2>1, <2>6, <2>7, OpenSent
    <2>9. QED
      BY <2>4, <2>5, <2>8 DEF IInv
  <1>5. CASE ~(Len(mLocAdapters) < MAX_ADAPTERS)
    <2>1. UNCHANGED <<mLocAdapters, inbox>>
      BY <1>5 DEF AddAdapter
    <2>2. TypeOK'
      BY <1>1, <1>2, <1>3, <2>1 DEF TypeOK, Listed
    <2>3. Wanted' = Wanted
      BY <1>1, <1>2, <2>1, UnlistedIsUnwanted
    <2>4. QED
      BY <1>2, <2>1, <2>2, <2>3
         DEF IInv, RenewedBeforeUp, StaleIsRenewed, ClosedIsEmpty, OpenIsQueued, LastIsWanted, Listed
  <1>6. QED
    BY <1>4, <1>5

LEMMA UpdateKeeps ==
  ASSUME IInv, NEW a \in Adapters, NEW mask \in Masks, UpdateEvtMask(a, mask)
  PROVE  IInv' /\ Listed' = Listed
  <1>1. /\ UNCHANGED <<mLocAdapters, alive, handle, modem, crashes, library, hasty>>
        /\ inbox' = Append(inbox, OpenMsg(Wanted'))
        /\ mEvtMask' \in [Adapters -> Masks]
    BY DEF UpdateEvtMask, Send, Wanted, ever, IInv, TypeOK
  <1>2. Wanted' \in Masks /\ Wanted' \ mExcludedMask = Wanted'
    BY <1>1, WantedIsMask DEF Wanted, IInv, TypeOK
  <1>3. inbox' \in Seq(Messages)
    BY <1>1, <1>2 DEF IInv, TypeOK, OpenMsg, Messages
  <1>4. TypeOK' /\ Listed' = Listed
    BY <1>1, <1>3 DEF IInv, TypeOK, Listed
  <1>5. Listed = {} => Wanted = {}
    BY WantedIsMask DEF Wanted, Listed, IInv, TypeOK
  <1>6. RenewedBeforeUp' /\ StaleIsRenewed' /\ ClosedIsEmpty' /\ OpenIsQueued' /\ LastIsWanted'
    BY <1>1, <1>2, <1>5, OpenSent
  <1>7. QED
    BY <1>4, <1>6 DEF IInv

LEMMA RemoveKeeps ==
  ASSUME IInv, NEW a \in Adapters, RemoveAdapter(a)
  PROVE  IInv' /\ Listed \ Listed' \subseteq alive \ alive'
  <1>1. /\ TypeOK /\ a \in alive /\ alive' = alive \ {a}
        /\ UNCHANGED <<mEvtMask, modem, crashes, library>>
        /\ hasty' = (hasty \/ inbox # <<>>)
    BY DEF IInv, RemoveAdapter
  <1>2. hasty' \in BOOLEAN /\ alive' \subseteq Adapters
    BY <1>1 DEF TypeOK
  <1>3. CASE a \in Listed
    <2>1. mLocAdapters' = Removed(a)
      BY <1>3 DEF RemoveAdapter
    <2>2. /\ mLocAdapters' \in Seq(Adapters) /\ Len(mLocAdapters') = Len(mLocAdapters) - 1
          /\ IsInjective(mLocAdapters') /\ Listed' = Listed \ {a}
      BY <1>1, <1>3, <2>1, RemovedTable DEF TypeOK, Listed
    <2>3. Len(mLocAdapters') <= MAX_ADAPTERS /\ Listed' \subseteq alive'
      BY <1>1, <2>2, LocApiAssumption DEF TypeOK, LocApiAssumption
    <2>4. \A e \in Wanted' : e \in Wanted
      BY <1>1, <2>2, WantedIs DEF Wanted, Listed
    <2>5. CASE mLocAdapters' = <<>>
      <3>1. handle' = [is |-> "closed", mask |-> {}] /\ inbox' = inbox
        BY <1>3, <2>5 DEF RemoveAdapter
      <3>2. TypeOK'
        BY <1>1, <1>2, <2>2, <2>3, <3>1 DEF TypeOK, Masks
      <3>3. Listed' = {}
        BY <2>5 DEF Listed, ToSet
      <3>4. RenewedBeforeUp' /\ StaleIsRenewed' /\ ClosedIsEmpty' /\ OpenIsQueued'
        BY <3>1, <3>3 DEF RenewedBeforeUp, StaleIsRenewed, ClosedIsEmpty, OpenIsQueued
      <3>5. ~hasty' => inbox = <<>>
        BY <1>1
      <3>6. LastIsWanted'
        BY <3>1, <3>5 DEF LastIsWanted, LastOpensIn
      <3>7. QED
        BY <1>1, <1>3, <2>2, <3>2, <3>4, <3>6 DEF IInv
    <2>6. CASE mLocAdapters' # <<>>
      <3>1. inbox' = Append(inbox, OpenMsg(Wanted')) /\ handle' = handle
        BY <1>1, <1>3, <2>6 DEF RemoveAdapter, Send, Wanted
      <3>2. Wanted' \in Masks /\ Wanted' \ mExcludedMask = Wanted'
        BY <1>1, <2>2, WantedIsMask DEF Wanted, TypeOK
      <3>3. OpenMsg(Wanted') \in Messages
        BY <3>2 DEF OpenMsg, Messages
      <3>4. TypeOK'
        BY <1>1, <1>2, <2>2, <2>3, <3>1, <3>3 DEF TypeOK
      <3>5. Listed = {} => Wanted = {}
        BY <1>3
      <3>6. RenewedBeforeUp' /\ StaleIsRenewed' /\ ClosedIsEmpty' /\ OpenIsQueued' /\ LastIsWanted'
        BY <1>1, <2>4, <3>1, <3>2, <3>5, OpenSent
      <3>7. QED
        BY <1>1, <1>3, <2>2, <3>4, <3>6 DEF IInv
    <2>7. QED
      BY <2>5, <2>6
  <1>4. CASE a \notin Listed
    <2>1. UNCHANGED <<mLocAdapters, handle, inbox>> /\ Listed' = Listed
      BY <1>4 DEF RemoveAdapter, Listed
    <2>2. TypeOK'
      BY <1>1, <1>2, <1>4, <2>1 DEF TypeOK
    <2>3. Wanted' = Wanted
      BY <1>1, <2>1 DEF Wanted
    <2>4. QED
      BY <1>1, <2>1, <2>2, <2>3
         DEF IInv, RenewedBeforeUp, StaleIsRenewed, ClosedIsEmpty, OpenIsQueued, LastIsWanted
  <1>5. QED
    BY <1>3, <1>4

LEMMA UpTaken ==
  ASSUME TypeOK, RenewedBeforeUp, inbox # <<>>, inbox' = Tail(inbox),
         handle'.is = "stale" => handle.is = "stale" /\ Head(inbox).msg # "ssr"
  PROVE  RenewedBeforeUp'
  <1> SUFFICES ASSUME NEW i \in 1..Len(inbox'), inbox'[i].msg = "up", handle'.is = "stale"
               PROVE  \/ \E j \in 1..(i - 1) : inbox'[j].msg = "ssr"
                      \/ \E j \in (i + 1)..Len(inbox') : inbox'[j].msg = "down"
    BY DEF RenewedBeforeUp
  <1>1. inbox \in Seq(Messages)
    BY DEF TypeOK
  <1>2. /\ Len(inbox') = Len(inbox) - 1 /\ Len(inbox) \in Nat /\ Head(inbox) = inbox[1]
        /\ \A j \in 1..Len(inbox') : inbox'[j] = inbox[j + 1]
    BY <1>1
  <1>3. i + 1 \in 1..Len(inbox) /\ inbox[i + 1].msg = "up"
    BY <1>2
  <1>4. \/ \E j \in 1..i : inbox[j].msg = "ssr"
        \/ \E j \in (i + 2)..Len(inbox) : inbox[j].msg = "down"
    <2>1. \/ \E j \in 1..((i + 1) - 1) : inbox[j].msg = "ssr"
          \/ \E j \in ((i + 1) + 1)..Len(inbox) : inbox[j].msg = "down"
      BY <1>3 DEF RenewedBeforeUp
    <2>2. (i + 1) - 1 = i /\ (i + 1) + 1 = i + 2
      OBVIOUS
    <2>3. QED
      BY <2>1, <2>2
  <1>5. CASE \E j \in 1..i : inbox[j].msg = "ssr"
    <2>1. PICK j \in 1..i : inbox[j].msg = "ssr"
      BY <1>5
    <2>2. j # 1
      BY <1>2, <2>1
    <2>3. j - 1 \in 1..(i - 1) /\ j - 1 \in 1..Len(inbox') /\ (j - 1) + 1 = j
      BY <2>2
    <2>4. inbox'[j - 1].msg = "ssr"
      BY <1>2, <2>1, <2>3
    <2>5. QED
      BY <2>3, <2>4
  <1>6. CASE \E j \in (i + 2)..Len(inbox) : inbox[j].msg = "down"
    <2>1. PICK j \in (i + 2)..Len(inbox) : inbox[j].msg = "down"
      BY <1>6
    <2>2. j - 1 \in (i + 1)..Len(inbox') /\ j - 1 \in 1..Len(inbox') /\ (j - 1) + 1 = j
      BY <1>2
    <2>3. inbox'[j - 1].msg = "down"
      BY <1>2, <2>1, <2>2
    <2>4. QED
      BY <2>2, <2>3
  <1>7. QED
    BY <1>4, <1>5, <1>6

\* open(mask) gives a handle only while the modem is up, and asks for nothing
\* that is excluded.
LEMMA OpenedIs ==
  ASSUME TypeOK, NEW from \in [is : {"closed", "fresh", "stale"}, mask : Masks], NEW mask \in Masks
  PROVE  LET to == Opened(from, mask) asked == mask \ mExcludedMask IN
         /\ to \in [is : {"closed", "fresh", "stale"}, mask : Masks]
         /\ to.is = "stale" <=> from.is = "stale"
         /\ from.is = "closed" /\ modem = "up" => to.is = "fresh" /\ to.mask = asked
         /\ from.is = "closed" /\ modem # "up" => to = from
         /\ from.is # "closed" => to.is = from.is
         /\ from.is # "closed" /\ library = "adds" => to.mask = from.mask \cup asked
         /\ from.is # "closed" /\ library = "replaces" => to.mask = asked
  <1> DEFINE asked == mask \ mExcludedMask
  <1>1. asked \in Masks /\ from.mask \cup asked \in Masks
    BY DEF Masks
  <1>2. CASE from.is = "closed"
    BY <1>1, <1>2 DEF Opened
  <1>3. CASE from.is # "closed"
    <2>1. Opened(from, mask) = [from EXCEPT !.mask = IF library = "adds" THEN @ \cup asked ELSE asked]
      BY <1>3 DEF Opened
    <2>2. library = "adds" \/ library = "replaces"
      BY DEF TypeOK
    <2> HIDE DEF asked
    <2>3. CASE library = "adds"
      <3>1. Opened(from, mask) = [from EXCEPT !.mask = from.mask \cup asked]
        BY <2>1, <2>3
      <3>2. QED
        BY <1>1, <1>3, <2>3, <3>1 DEF asked
    <2>4. CASE library = "replaces"
      <3>1. Opened(from, mask) = [from EXCEPT !.mask = asked]
        BY <2>1, <2>4
      <3>2. QED
        BY <1>1, <1>3, <2>4, <3>1 DEF asked
    <2>5. QED
      BY <2>2, <2>3, <2>4
  <1>4. QED
    BY <1>2, <1>3

LEMMA ProcessKeeps ==
  ASSUME IInv, Process
  PROVE  IInv' /\ Listed' = Listed
  <1> DEFINE m == Head(inbox)
  <1>1. /\ TypeOK /\ inbox \in Seq(Messages) /\ inbox # <<>> /\ inbox' = Tail(inbox)
        /\ UNCHANGED <<mLocAdapters, alive, mEvtMask, modem, crashes, library, hasty>>
    BY DEF IInv, TypeOK, Process, ever
  <1>2. /\ inbox' \in Seq(Messages) /\ m \in Messages
        /\ Renews(inbox) <=> Renews(inbox') \/ m.msg = "ssr"
        /\ Opens(inbox) <=> Opens(inbox') \/ m.msg = "open"
        /\ \A e : OpensFor(inbox, e) <=> OpensFor(inbox', e) \/ (m.msg = "open" /\ e \in m.mask)
    BY <1>1, Taking
  <1>3. Wanted' = Wanted /\ Listed' = Listed
    BY <1>1 DEF Wanted, Listed
  <1>4. /\ \A W : LastOpensIn(inbox, W) => LastOpensIn(inbox', W)
        /\ NoneSets(inbox') /\ m.msg \notin {"open", "ssr"} => NoneSets(inbox)
        /\ \A W : NoneSets(inbox') /\ m.msg = "open" /\ LastOpensIn(inbox, W)
                    => m.mask \ mExcludedMask \subseteq W
    BY <1>1, LastTaken
  <1>5. /\ m.msg \in {"open", "ssr", "up", "down"}
        /\ m.msg = "open" => m.mask \in Masks
    BY <1>2 DEF Messages
  <1>6. \/ m.msg = "open" /\ handle' = Opened(handle, m.mask)
        \/ m.msg = "ssr" /\ handle' = Renewed
        \/ m.msg \in {"up", "down"} /\ handle' = handle
    BY DEF Process
  <1>7. handle \in [is : {"closed", "fresh", "stale"}, mask : Masks]
    BY <1>1 DEF TypeOK
  <1> HIDE DEF m
  <1>8. CASE m.msg = "open" /\ handle' = Opened(handle, m.mask)
    <2>1. /\ handle' \in [is : {"closed", "fresh", "stale"}, mask : Masks]
          /\ handle'.is = "stale" <=> handle.is = "stale"
          /\ handle.is = "closed" /\ modem = "up"
               => handle'.is = "fresh" /\ handle'.mask = m.mask \ mExcludedMask
          /\ handle.is = "closed" /\ modem # "up" => handle' = handle
          /\ handle.is # "closed" => handle'.is = handle.is
          /\ handle.is # "closed" /\ library = "adds"
               => handle'.mask = handle.mask \cup (m.mask \ mExcludedMask)
          /\ handle.is # "closed" /\ library = "replaces" => handle'.mask = m.mask \ mExcludedMask
      BY <1>1, <1>5, <1>7, <1>8, OpenedIs
    <2>2. TypeOK'
      BY <1>1, <1>2, <2>1 DEF TypeOK, Listed
    <2>3. RenewedBeforeUp'
      BY <1>1, <1>8, <2>1, UpTaken DEF IInv, m
    <2>4. StaleIsRenewed' /\ ClosedIsEmpty'
      BY <1>1, <1>2, <1>7, <1>8, <2>1 DEF IInv, StaleIsRenewed, ClosedIsEmpty
    <2>5. OpenIsQueued'
      <3> SUFFICES ASSUME library = "adds", modem = "up", ~Renews(inbox'), Listed # {}
                   PROVE  /\ handle'.is = "fresh"
                          /\ \A e \in Wanted : e \in handle'.mask \/ OpensFor(inbox', e)
        BY <1>1, <1>3 DEF OpenIsQueued
      <3>1. ~Renews(inbox) /\ handle.is # "stale"
        BY <1>2, <1>8 DEF IInv, StaleIsRenewed
      <3>2. handle'.is = "fresh"
        BY <1>7, <2>1, <3>1
      <3>3. \A e \in Wanted : e \notin mExcludedMask
        BY WantedIs DEF Wanted
      <3>4. ASSUME NEW e \in Wanted PROVE e \in handle'.mask \/ OpensFor(inbox', e)
        <4>1. (handle.is = "fresh" /\ e \in handle.mask) \/ OpensFor(inbox, e)
          BY <3>1, <3>4 DEF IInv, OpenIsQueued
        <4>2. CASE handle.is = "fresh" /\ e \in handle.mask
          BY <2>1, <4>2
        <4>3. CASE OpensFor(inbox, e)
          <5>1. OpensFor(inbox', e) \/ e \in m.mask
            BY <1>2, <4>3
          <5>2. e \in m.mask => e \in handle'.mask
            BY <1>7, <2>1, <3>1, <3>3, <3>4
          <5>3. QED
            BY <5>1, <5>2
        <4>4. QED
          BY <4>1, <4>2, <4>3
      <3>5. QED
        BY <3>2, <3>4
    <2>6. LastIsWanted'
      <3> SUFFICES ASSUME library = "replaces", ~hasty
                   PROVE  LastOpensIn(inbox', Wanted) /\ (NoneSets(inbox') => handle'.mask \subseteq Wanted)
        BY <1>1, <1>3 DEF LastIsWanted
      <3>1. LastOpensIn(inbox, Wanted)
        BY DEF IInv, LastIsWanted
      <3>2. NoneSets(inbox') => m.mask \ mExcludedMask \subseteq Wanted
        BY <1>4, <1>8, <3>1
      <3>3. handle'.mask = m.mask \ mExcludedMask \/ handle'.mask = {}
        BY <2>1 DEF IInv, ClosedIsEmpty
      <3>4. QED
        BY <1>4, <3>1, <3>2, <3>3
    <2>7. QED
      BY <1>3, <2>2, <2>3, <2>4, <2>5, <2>6 DEF IInv
  <1>9. CASE m.msg = "ssr" /\ handle' = Renewed
    <2>1. Wanted \in Masks /\ Wanted \ mExcludedMask = Wanted
      BY <1>1, WantedIsMask DEF Wanted, TypeOK
    <2>2. Closed \in [is : {"closed", "fresh", "stale"}, mask : Masks]
          /\ Closed.is = "closed" /\ Closed.mask = {}
      BY DEF Closed, Masks
    <2>3. handle' = Opened(Closed, Wanted)
      BY <1>9 DEF Renewed, Wanted
    <2>4. /\ handle' \in [is : {"closed", "fresh", "stale"}, mask : Masks]
          /\ handle'.is # "stale"
          /\ modem = "up" => handle'.is = "fresh" /\ handle'.mask = Wanted
          /\ modem # "up" => handle' = Closed
      BY <1>1, <2>1, <2>2, <2>3, OpenedIs
    <2>5. TypeOK'
      BY <1>1, <1>2, <2>4 DEF TypeOK, Listed
    <2>6. RenewedBeforeUp'
      BY <1>1, <2>4, UpTaken DEF IInv
    <2>7. StaleIsRenewed' /\ ClosedIsEmpty'
      <3>1. handle'.is = "closed" => handle'.mask = {}
        BY <2>2, <2>4
      <3>2. QED
        BY <2>4, <3>1 DEF StaleIsRenewed, ClosedIsEmpty
    <2>8. OpenIsQueued'
      BY <1>1, <1>3, <2>4 DEF OpenIsQueued
    <2>9. LastIsWanted'
      <3>1. handle'.mask \subseteq Wanted
        BY <2>2, <2>4
      <3>2. QED
        BY <1>1, <1>3, <1>4, <3>1 DEF IInv, LastIsWanted
    <2>10. QED
      BY <1>3, <2>5, <2>6, <2>7, <2>8, <2>9 DEF IInv
  <1>10. CASE m.msg \in {"up", "down"} /\ handle' = handle
    <2>1. TypeOK'
      BY <1>1, <1>2, <1>10 DEF TypeOK, Listed
    <2>2. RenewedBeforeUp'
      BY <1>1, <1>10, UpTaken DEF IInv, m
    <2>3. StaleIsRenewed' /\ ClosedIsEmpty'
      BY <1>1, <1>2, <1>10 DEF IInv, StaleIsRenewed, ClosedIsEmpty
    <2>4. OpenIsQueued'
      BY <1>1, <1>2, <1>3, <1>10 DEF IInv, OpenIsQueued
    <2>5. LastIsWanted'
      BY <1>1, <1>3, <1>4, <1>10 DEF IInv, LastIsWanted
    <2>6. QED
      BY <1>3, <2>1, <2>2, <2>3, <2>4, <2>5 DEF IInv
  <1>11. QED
    BY <1>6, <1>8, <1>9, <1>10

LEMMA EngineDownKeeps ==
  ASSUME IInv, EngineDown
  PROVE  IInv' /\ Listed' = Listed
  <1> DEFINE m == [msg |-> "down"]
  <1>1. /\ TypeOK /\ inbox \in Seq(Messages) /\ inbox' = Append(inbox, m)
        /\ modem' = "down" /\ crashes' \in 0..Restarts
        /\ UNCHANGED <<mLocAdapters, alive, mEvtMask, library, hasty>>
    BY LocApiAssumption DEF IInv, TypeOK, EngineDown, Send, ever, LocApiAssumption
  <1>2. m \in Messages /\ m.msg = "down"
    BY DEF Messages
  <1>3. /\ handle' \in [is : {"closed", "fresh", "stale"}, mask : Masks]
        /\ handle'.mask = handle.mask
        /\ handle'.is = "closed" => handle.is = "closed"
    BY DEF EngineDown, IInv, TypeOK
  <1> HIDE DEF m
  <1>4. inbox' \in Seq(Messages)
    BY <1>1, <1>2
  <1>5. Wanted' = Wanted /\ Listed' = Listed
    BY <1>1 DEF Wanted, Listed
  <1>6. TypeOK'
    BY <1>1, <1>3, <1>4 DEF TypeOK, Listed
  <1>7. RenewedBeforeUp'
    BY <1>1, <1>2, UpAppended DEF IInv
  <1>8. StaleIsRenewed' /\ ClosedIsEmpty' /\ OpenIsQueued'
    BY <1>1, <1>3 DEF IInv, StaleIsRenewed, ClosedIsEmpty, OpenIsQueued
  <1>9. LastIsWanted'
    <2>1. /\ NoneSets(inbox') <=> NoneSets(inbox)
          /\ \A W : LastOpensIn(inbox, W) => LastOpensIn(inbox', W)
      BY <1>1, <1>2, OtherAppended
    <2>2. QED
      BY <1>1, <1>3, <1>5, <2>1 DEF IInv, LastIsWanted
  <1>10. QED
    BY <1>5, <1>6, <1>7, <1>8, <1>9 DEF IInv

LEMMA EngineUpKeeps ==
  ASSUME IInv, EngineUp
  PROVE  IInv' /\ Listed' = Listed
  <1> DEFINE ssr == [msg |-> "ssr"]
             up == [msg |-> "up"]
             q == Append(inbox, ssr)
  <1>1. /\ TypeOK /\ inbox \in Seq(Messages)
        /\ modem' = "up"
        /\ UNCHANGED <<mLocAdapters, alive, mEvtMask, library, hasty, handle, crashes>>
    BY DEF IInv, TypeOK, EngineUp, ever
  <1>2. ssr \in Messages /\ ssr.msg = "ssr" /\ up \in Messages /\ up.msg = "up"
    BY DEF Messages
  <1>3. inbox' = Append(q, up)
    BY <1>1 DEF EngineUp, UpMessages
  <1>4. q \in Seq(Messages) /\ Renews(q)
    BY <1>1, <1>2, Appending
  <1>5. inbox' \in Seq(Messages) /\ Renews(inbox')
    BY <1>2, <1>3, <1>4, Appending
  <1>6. Wanted' = Wanted /\ Listed' = Listed
    BY <1>1 DEF Wanted, Listed
  <1>7. TypeOK'
    BY <1>1, <1>5 DEF TypeOK, Listed
  <1>8. RenewedBeforeUp'
    <2>1. /\ Len(inbox) \in Nat /\ Len(inbox') = Len(inbox) + 2
          /\ inbox'[Len(inbox) + 1].msg = "ssr"
          /\ \A j \in 1..Len(inbox) : inbox'[j] = inbox[j]
          /\ inbox'[Len(inbox) + 2].msg = "up"
      BY <1>1, <1>3
    <2> HIDE DEF ssr, up, q
    <2> SUFFICES ASSUME NEW i \in 1..Len(inbox'), inbox'[i].msg = "up", handle'.is = "stale"
                 PROVE  \/ \E j \in 1..(i - 1) : inbox'[j].msg = "ssr"
                        \/ \E j \in (i + 1)..Len(inbox') : inbox'[j].msg = "down"
      BY DEF RenewedBeforeUp
    <2>2. i \in 1..Len(inbox) \/ i = Len(inbox) + 2
      BY <2>1
    <2>3. CASE i = Len(inbox) + 2
      <3>1. Len(inbox) + 1 \in 1..(i - 1)
        BY <2>1, <2>3
      <3>2. QED
        BY <2>1, <3>1
    <2>4. CASE i \in 1..Len(inbox)
      <3>1. \/ \E j \in 1..(i - 1) : inbox[j].msg = "ssr"
            \/ \E j \in (i + 1)..Len(inbox) : inbox[j].msg = "down"
        BY <1>1, <2>1, <2>4 DEF IInv, RenewedBeforeUp
      <3>2. \A j \in 1..(i - 1) : j \in 1..Len(inbox)
        BY <2>1, <2>4
      <3>3. \A j \in (i + 1)..Len(inbox) : j \in 1..Len(inbox) /\ j \in (i + 1)..Len(inbox')
        BY <2>1, <2>4
      <3>4. QED
        BY <2>1, <3>1, <3>2, <3>3
    <2>5. QED
      BY <2>2, <2>3, <2>4
  <1>9. StaleIsRenewed' /\ ClosedIsEmpty' /\ OpenIsQueued'
    BY <1>1, <1>5 DEF IInv, StaleIsRenewed, ClosedIsEmpty, OpenIsQueued
  <1>10. LastIsWanted'
    <2>1. LastOpensIn(q, Wanted) /\ ~NoneSets(q)
      BY <1>1, <1>2, LastAppended
    <2>2. LastOpensIn(inbox', Wanted) /\ ~NoneSets(inbox')
      BY <1>2, <1>3, <1>4, <2>1, OtherAppended
    <2>3. QED
      BY <1>6, <2>2 DEF LastIsWanted
  <1>11. QED
    BY <1>6, <1>7, <1>8, <1>9, <1>10 DEF IInv

(***************************************************************************)
(* The theorems.                                                           *)
(***************************************************************************)
LEMMA StepKeeps ==
  ASSUME IInv, [Next]_vars
  PROVE  IInv' /\ Listed \ Listed' \subseteq alive \ alive'
  <1>1. CASE \E a \in Adapters, mask \in Masks : AddAdapter(a, mask)
    BY <1>1, AddKeeps
  <1>2. CASE \E a \in Adapters, mask \in Masks : UpdateEvtMask(a, mask)
    BY <1>2, UpdateKeeps
  <1>3. CASE \E a \in Adapters : RemoveAdapter(a)
    BY <1>3, RemoveKeeps
  <1>4. CASE Process
    BY <1>4, ProcessKeeps
  <1>5. CASE EngineDown
    BY <1>5, EngineDownKeeps
  <1>6. CASE EngineUp
    BY <1>6, EngineUpKeeps
  <1>7. CASE UNCHANGED vars
    <2>1. /\ UNCHANGED <<mLocAdapters, alive, mEvtMask, inbox, handle, modem, crashes, library, hasty>>
          /\ Wanted' = Wanted /\ Listed' = Listed
      BY <1>7 DEF vars, ever, Wanted, Listed
    <2>2. QED
      BY <2>1 DEF IInv, TypeOK, RenewedBeforeUp, StaleIsRenewed, ClosedIsEmpty, OpenIsQueued, LastIsWanted
  <1>8. QED
    BY <1>1, <1>2, <1>3, <1>4, <1>5, <1>6, <1>7 DEF Next

LEMMA IInvIsSound == IInv => HandleMatchesTable
  <1> SUFFICES ASSUME IInv PROVE HandleMatchesTable
    OBVIOUS
  <1>1. inbox = <<>> => ~Renews(inbox) /\ ~Opens(inbox) /\ (\A e : ~OpensFor(inbox, e)) /\ NoneSets(inbox)
    BY DEF Renews, Opens, OpensFor, NoneSets
  <1>2. EventsAreOpen
    BY <1>1 DEF IInv, OpenIsQueued, EventsAreOpen, Wanted
  <1>3. OnlyWantedOpen
    BY <1>1 DEF IInv, LastIsWanted, OnlyWantedOpen, Wanted
  <1>4. QED
    BY <1>2, <1>3 DEF IInv, HandleMatchesTable

\* For any adapters and any messages that wait: the table is well formed, the
\* modem is asked for what the table wants once the messages are processed, and
\* no adapter is told of the modem's return with a handle of before the crash
\* (LocApiBase::addAdapter, updateEvtMask, removeAdapter and LocSsrMsg).
THEOREM HandleFollowsTable == Spec => []HandleMatchesTable
  <1>1. IInv /\ [Next]_vars => IInv'
    BY StepKeeps
  <1>2. QED
    BY InitIInv, IInvIsSound, <1>1, PTL DEF Spec

\* For any size of the table: only an adapter that is being deleted leaves it
\* (LocApiBase::removeAdapter moves the last adapter, and only that one).
THEOREM TableLosesNobodyElse == Spec => OnlyDeletedLeave
  <1>1. IInv /\ [Next]_vars => IInv'
    BY StepKeeps
  <1>2. IInv /\ [Next]_vars => [Listed \ Listed' \subseteq alive \ alive']_vars
    BY StepKeeps
  <1>3. QED
    BY InitIInv, <1>1, <1>2, PTL DEF Spec, OnlyDeletedLeave
=============================================================================
