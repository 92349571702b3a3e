----------------------------- MODULE LocApiBase -----------------------------
(***************************************************************************)
(* The table of adapters of a LocApiBase (gps/core/LocApiBase.cpp), and    *)
(* the interface to the modem that it keeps open for their events.  The    *)
(* table is changed by whoever makes, changes or deletes an adapter; the   *)
(* interface is opened and closed by messages of the task, so that the     *)
(* mask a message carries may be older than the table, and by              *)
(* removeAdapter itself.  When the modem has restarted the handle of the   *)
(* interface is stale until LocSsrMsg has renewed it.                      *)
(***************************************************************************)
EXTENDS Naturals, Sequences, SequencesExt, FiniteSets

CONSTANTS
  Adapters,        \* the adapters that may ever be made
  Events,          \* bits of LOC_API_ADAPTER_EVENT_MASK_T
  mExcludedMask,   \* events never asked of the modem
  MAX_ADAPTERS,
  Restarts,        \* how often the modem may crash
  MaxInbox         \* bound: everybody is quiet while this many messages wait

ASSUME LocApiAssumption ==
  /\ mExcludedMask \subseteq Events
  /\ MAX_ADAPTERS \in Nat \ {0}
  /\ Restarts \in Nat /\ MaxInbox \in Nat \ {0}

VARIABLES
  mLocAdapters,  \* the table, without its trailing NULLs
  alive,         \* the adapters that have been made and not deleted
  mEvtMask,      \* the mask of each
  inbox,         \* messages of the task, oldest first
  handle,        \* external: the interface to the modem, and its mask
  modem,         \* external: up or down
  crashes,       \* external: how often it went down
  library,       \* external: its open() "adds" to the mask, or "replaces" it
  hasty          \* history: an adapter was deleted while messages waited

ever == <<library, hasty>>
vars == <<mLocAdapters, alive, mEvtMask, inbox, handle, modem, crashes, ever>>

Masks == SUBSET Events
Messages == [msg : {"open"}, mask : Masks] \cup [msg : {"ssr", "up", "down"}]

Init ==
  /\ mLocAdapters = <<>>
  /\ alive = {}
  /\ mEvtMask = [a \in Adapters |-> {}]
  /\ inbox = <<>>
  /\ handle = [is |-> "closed", mask |-> {}]
  /\ modem = "up"
  /\ crashes = 0
  /\ library \in {"adds", "replaces"}
  /\ hasty = FALSE

Listed == ToSet(mLocAdapters)

\* getEvtMask, for the table and the masks given.
EvtMask(table, masks) == (UNION {masks[a] : a \in ToSet(table)}) \ mExcludedMask

OpenMsg(mask) == [msg |-> "open", mask |-> mask]
Send(m) == inbox' = Append(inbox, m)
Room == Len(inbox) < MaxInbox

(***************************************************************************)
(* LocAdapterBase's constructor, addAdapter.  An adapter that finds no     *)
(* place is left out without a word.                                       *)
(***************************************************************************)
\* The message carries the mask of the new adapter alone.
Added(mask) == Send(OpenMsg(mask))

AddAdapter(a, mask) ==
  /\ Room /\ a \notin alive
  /\ alive' = alive \cup {a}
  /\ mEvtMask' = [mEvtMask EXCEPT ![a] = mask]
  /\ IF Len(mLocAdapters) < MAX_ADAPTERS
       THEN mLocAdapters' = Append(mLocAdapters, a) /\ Added(mask)
       ELSE UNCHANGED <<mLocAdapters, inbox>>
  /\ UNCHANGED <<handle, modem, crashes, ever>>

(***************************************************************************)
(* LocAdapterBase's destructor, removeAdapter: the last adapter takes the  *)
(* place of the one that goes.                                             *)
(***************************************************************************)
\* Mutant: the last adapter is dropped.
RemovedLast(a) == [i \in 1..(Len(mLocAdapters) - 1) |-> mLocAdapters[i]]

Removed(a) == [i \in 1..(Len(mLocAdapters) - 1) |->
  IF mLocAdapters[i] = a THEN Last(mLocAdapters) ELSE mLocAdapters[i]]

\* An empty table closes the interface at once, whatever messages wait.
RemoveAdapter(a) ==
  /\ Room /\ a \in alive
  /\ hasty' = (hasty \/ inbox # <<>>)
  /\ alive' = alive \ {a}
  /\ IF a \in Listed
       THEN /\ mLocAdapters' = Removed(a)
            /\ IF mLocAdapters' = <<>>
                 THEN handle' = [is |-> "closed", mask |-> {}] /\ UNCHANGED inbox
                 ELSE Send(OpenMsg(EvtMask(mLocAdapters', mEvtMask))) /\ UNCHANGED handle
       ELSE UNCHANGED <<mLocAdapters, handle, inbox>>
  /\ UNCHANGED <<mEvtMask, modem, crashes, library>>

\* LocAdapterBase::updateEvtMask, LocApiBase::updateEvtMask, which sends the
\* mask whether it has changed or not.  Nobody but a renewal reads the table
\* in between, and the message that follows repeats what that read.
UpdateEvtMask(a, mask) ==
  /\ Room /\ a \in alive
  /\ mEvtMask' = [mEvtMask EXCEPT ![a] = mask]
  /\ Send(OpenMsg(EvtMask(mLocAdapters, mEvtMask')))
  /\ UNCHANGED <<mLocAdapters, alive, handle, modem, crashes, ever>>

(***************************************************************************)
(* The messages.                                                           *)
(***************************************************************************)
\* External: open(mask) of the modem's library, which drops what is excluded.
\* A modem that is down gives no handle.
Opened(from, mask) ==
  LET asked == mask \ mExcludedMask IN
  IF from.is = "closed"
    THEN IF modem = "up" THEN [is |-> "fresh", mask |-> asked] ELSE from
    ELSE [from EXCEPT !.mask = IF library = "adds" THEN @ \cup asked ELSE asked]

Closed == [is |-> "closed", mask |-> {}]

\* LocSsrMsg: the mask is that of the table at the time of the processing.
Renewed == Opened(Closed, EvtMask(mLocAdapters, mEvtMask))

Process ==
  /\ inbox # <<>>
  /\ inbox' = Tail(inbox)
  /\ LET m == Head(inbox) IN
       \/ m.msg = "open" /\ handle' = Opened(handle, m.mask)
       \/ m.msg = "ssr" /\ handle' = Renewed
       \/ m.msg \in {"up", "down"} /\ UNCHANGED handle  \* see LocEngSession
  /\ UNCHANGED <<mLocAdapters, alive, mEvtMask, modem, crashes, ever>>

(***************************************************************************)
(* handleEngineDownEvent and handleEngineUpEvent, called by the modem's    *)
(* library when the modem crashes and when it is back.  The adapters are   *)
(* told, and queue a message each; one stands for all of them.             *)
(***************************************************************************)
\* Mutant: the adapters are told first.
UpMessagesLate == <<[msg |-> "up"], [msg |-> "ssr"]>>

UpMessages == <<[msg |-> "ssr"], [msg |-> "up"]>>

EngineDown ==
  /\ Room /\ modem = "up" /\ crashes < Restarts
  /\ crashes' = crashes + 1
  /\ modem' = "down"
  /\ handle' = IF handle.is = "fresh" THEN [handle EXCEPT !.is = "stale"] ELSE handle
  /\ Send([msg |-> "down"])
  /\ UNCHANGED <<mLocAdapters, alive, mEvtMask, ever>>

EngineUp ==
  /\ Room /\ modem = "down"
  /\ modem' = "up"
  /\ inbox' = inbox \o UpMessages
  /\ UNCHANGED <<mLocAdapters, alive, mEvtMask, handle, crashes, ever>>

Next ==
  \/ \E a \in Adapters, mask \in Masks : AddAdapter(a, mask) \/ UpdateEvtMask(a, mask)
  \/ \E a \in Adapters : RemoveAdapter(a)
  \/ Process
  \/ EngineDown \/ EngineUp

Spec == Init /\ [][Next]_vars

(***************************************************************************)
(* Properties                                                              *)
(***************************************************************************)
\* Types; the table has no hole, holds nobody twice and nobody deleted.
TypeOK ==
  /\ mLocAdapters \in Seq(Adapters) /\ Len(mLocAdapters) <= MAX_ADAPTERS
  /\ IsInjective(mLocAdapters)
  /\ Listed \subseteq alive /\ alive \subseteq Adapters
  /\ mEvtMask \in [Adapters -> Masks]
  /\ inbox \in Seq(Messages)
  /\ handle \in [is : {"closed", "fresh", "stale"}, mask : Masks]
  /\ modem \in {"up", "down"} /\ crashes \in 0..Restarts
  /\ library \in {"adds", "replaces"} /\ hasty \in BOOLEAN

\* removeAdapter moves one adapter and loses none: only an adapter that is
\* being deleted leaves the table.
OnlyDeletedLeave == [][Listed \ Listed' \subseteq alive \ alive']_vars

\* An adapter that is told of the modem's return finds its handle renewed, if
\* the modem has not crashed again: LocSsrMsg is queued before the adapters
\* are told, and they restart their sessions with the new handle.
RenewedBeforeUp ==
  \A i \in 1..Len(inbox) :
    inbox[i].msg = "up" /\ handle.is = "stale" =>
      \/ \E j \in 1..(i - 1) : inbox[j].msg = "ssr"
      \/ \E j \in (i + 1)..Len(inbox) : inbox[j].msg = "down"

\* With a library that adds to its mask: once every message is processed, the
\* events of every adapter in the table are asked of a modem that is up.
EventsAreOpen ==
  library = "adds" /\ inbox = <<>> /\ modem = "up" /\ Listed # {} =>
    handle.is = "fresh" /\ EvtMask(mLocAdapters, mEvtMask) \subseteq handle.mask

\* With a library that replaces its mask: once every message is processed, no
\* event is asked of the modem that no adapter in the table wants, unless an
\* adapter was deleted while the message that opens for it still waited.
OnlyWantedOpen ==
  library = "replaces" /\ ~hasty /\ inbox = <<>> =>
    handle.mask \subseteq EvtMask(mLocAdapters, mEvtMask)

\* The table is well formed, what the modem is asked for is what it wants, and
\* no adapter returns to a handle of before the crash.
HandleMatchesTable == TypeOK /\ RenewedBeforeUp /\ EventsAreOpen /\ OnlyWantedOpen
=============================================================================
