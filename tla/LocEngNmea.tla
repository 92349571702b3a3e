------------------------------ MODULE LocEngNmea ------------------------------
(***************************************************************************)
(* The NMEA sentences of a position and what they are made from            *)
(* (gps/libloc_api_50001/loc_eng_nmea.cpp).  The satellites that a fix     *)
(* uses and their dilution of precision come with the report of satellites *)
(* before it and wait in a cache.  Of a cached value the module keeps      *)
(* whose it is: "own" is of the fix that is to come, "old" of a fix that   *)
(* has been.  Of the fields of a sentence it keeps those that say what     *)
(* kind of fix it is; the others are copied from the fix.                  *)
(***************************************************************************)

\* sv_used_mask; pdop, hdop and vdop.
Caches == [used : {"none", "own", "old"}, dop : {"none", "own", "old"}]
Empty  == [used |-> "none", dop |-> "none"]

\* Mutant: the satellites are added to those in the cache.
CachedOnTop(cache) == IF cache.used = "none" THEN [used |-> "own", dop |-> "own"] ELSE cache

\* loc_eng_nmea_generate_sv for a report with satellites that the fix uses.
Cached(cache) == [used |-> "own", dop |-> "own"]

\* What is "own" for one fix is "old" for the next.
Aged(cache) == [field \in {"used", "dop"} |-> IF cache[field] = "own" THEN "old" ELSE cache[field]]

\* "clear the dop cache so they can't be used again", in both cases;
\* the mask is cleared by sentences with content only.
AfterBlank(cache) == [Aged(cache) EXCEPT !.dop = "none"]
AfterFull == Empty

\* "N means no fix", "A means autonomous", "D means differential"
Label(placed, mode) ==
  CASE ~placed                        -> "N"
    [] placed /\ mode = "STANDALONE"  -> "A"
    [] placed /\ mode # "STANDALONE"  -> "D"

\* "0 means no fix", "1 means GPS fix", "2 means DGPS fix"
Quality(placed, mode) ==
  CASE ~placed                        -> 0
    [] placed /\ mode = "STANDALONE"  -> 1
    [] placed /\ mode # "STANDALONE"  -> 2

Gsa(cache) == [fix |-> cache.used # "none", used |-> cache.used, dop |-> cache.dop]
Vtg(placed, mode) == [label |-> Label(placed, mode)]
Rmc(placed, mode) == [status |-> "A", label |-> Label(placed, mode)]
Gga(placed, mode, cache) ==
  [quality |-> Quality(placed, mode), used |-> cache.used, dop |-> cache.dop]

Full(placed, mode, cache) ==
  [gsa |-> Gsa(cache), vtg |-> Vtg(placed, mode), rmc |-> Rmc(placed, mode),
   gga |-> Gga(placed, mode, cache)]

Blank ==
  [gsa |-> [fix |-> FALSE, used |-> "none", dop |-> "none"],
   vtg |-> [label |-> "N"],
   rmc |-> [status |-> "V", label |-> "N"],
   gga |-> [quality |-> 0, used |-> "none", dop |-> "none"]]
=============================================================================
