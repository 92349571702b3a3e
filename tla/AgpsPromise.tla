---------------------------- MODULE AgpsPromise ----------------------------
(***************************************************************************)
(* What an AgpsStateMachine promises its subscribers, with neither list    *)
(* nor states nor requests: an interface that is held or not, and what     *)
(* each subscriber was last told.  AgpsStateMachine implements it.         *)
(***************************************************************************)
CONSTANT Ids

VARIABLES
  held,    \* is the interface held
  view,    \* what each subscriber was last told
  single   \* does the machine serve one subscriber at a time

pvars == <<held, view, single>>

Who(words) == {s \in Ids : view[s] \in words}

Told(S, word) ==
  view' = [s \in Ids |-> IF s \in S THEN word ELSE view[s]] /\ UNCHANGED single

Init == held = FALSE /\ view = [s \in Ids |-> "idle"] /\ single \in BOOLEAN

\* The answer is immediate when the interface is held, and a refusal is for
\* the machine of a single subscriber.
Ask(s) ==
  /\ held' = held
  /\ \/ held /\ Told({s}, "granted")
     \/ ~held /\ Told({s}, "requested")
     \/ single /\ Told({s}, "idle")

\* Leaving gives the interface up only when nobody is left who was granted it.
Leave(s) ==
  /\ \E word \in {"idle", "closing"} : Told({s}, word)
  /\ held' = held \/ (held' = FALSE /\ \A t \in Ids : view'[t] # "granted")

\* The interface comes: everyone who waits for it is told, in one step.
Grant ==
  /\ ~held /\ held' = TRUE
  /\ \E S \in SUBSET Ids :
       /\ Who({"requested"}) \subseteq S /\ S \cap Who({"closing"}) = {}
       /\ Told(S, "granted")

\* It is refused or lost: everyone who waits for it or has it is told.
Lose ==
  /\ held' = FALSE
  /\ \E S \in SUBSET Ids :
       Who({"requested", "granted"}) \subseteq S /\ Told(S, "idle")

\* Everyone who waits for the close is told it is complete.
Closed ==
  /\ ~held /\ held' = FALSE
  /\ \E S \in SUBSET Ids :
       /\ Who({"closing"}) \subseteq S /\ S \cap Who({"requested", "granted"}) = {}
       /\ Told(S, "idle")

\* The modem restarted: whoever waited or held is forgotten.
Restart ==
  /\ held' = held
  /\ \E S \in SUBSET Ids :
       Who({"requested", "granted", "closing"}) \subseteq S /\ Told(S, "dropped")

Next ==
  \/ \E s \in Ids : Ask(s) \/ Leave(s)
  \/ Grant \/ Lose \/ Closed \/ Restart

Spec == Init /\ [][Next]_pvars
=============================================================================
