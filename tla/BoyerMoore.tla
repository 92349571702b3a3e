----------------------------- MODULE BoyerMoore -----------------------------
(***************************************************************************)
(* The search of recovery/recovery_updater.cpp: verify_trustzone looks for *)
(* the version of the TrustZone image behind a fixed string in the         *)
(* partition.  A string is a sequence; its characters count from 0, as in  *)
(* the code.  A step is one comparison of the pattern with a window of the *)
(* text, from its last character back.                                     *)
(***************************************************************************)
EXTENDS Naturals, Sequences, FiniteSetsExt

CONSTANTS
  Inputs  \* records of a pattern (pat), which is not empty, and a text (str)

VARIABLES
  pat, str,
  delta1, delta2,  \* how far to go, by the character of the text, by the place
  i,               \* bm_search's i, the end of the window
  returned         \* no, or a match in the window, or NULL

vars == <<pat, str, delta1, delta2, i, returned>>

At(s, k) == s[k + 1]
Places(s) == 0..(Len(s) - 1)
Chars(s) == {s[k] : k \in DOMAIN s}

\* max_suffix_len: how many characters before p are those at the end.
MaxSuffixLen(s, p) ==
  Min({k \in 0..p : k = p \/ At(s, p - k) # At(s, Len(s) - 1 - k)})

\* Mutant: the leftmost occurrence is taken.
MakeDelta1Leftmost(s, c) ==
  LET before == {k \in 0..(Len(s) - 2) : At(s, k) = c} IN
  IF before = {} THEN Len(s) ELSE Len(s) - 1 - Min(before)

\* bm_make_delta1.
MakeDelta1(s, c) ==
  LET before == {k \in 0..(Len(s) - 2) : At(s, k) = c} IN
  IF before = {} THEN Len(s) ELSE Len(s) - 1 - Max(before)

\* strncmp(pat + p, pat, pat_len - p) == 0
IsBorder(s, p) == \A k \in 0..(Len(s) - 1 - p) : At(s, p + k) = At(s, k)

\* The last assignment to last_prefix, when the first loop is at p.
LastPrefix(s, p) ==
  LET borders == {q \in p..(Len(s) - 1) : IsBorder(s, q)} IN
  IF borders = {} THEN Len(s) - 1 ELSE Min(borders) + 1

\* Mutant: the distance is that of the pattern, not of the place in the text.
MakeDelta2Short(s, p) == LastPrefix(s, p) + 1 - Len(s)

\* bm_make_delta2: the second loop's last assignment for p, else the first's.
MakeDelta2(s, p) ==
  LET ends == {q \in 0..(Len(s) - 2) :
        /\ Len(s) - 1 - MaxSuffixLen(s, q) = p
        /\ At(s, q - MaxSuffixLen(s, q)) # At(s, p)} IN
  IF ends = {} THEN LastPrefix(s, p) + (Len(s) - 1 - p)
  ELSE Len(s) - 1 - Max(ends) + (Len(s) - 1 - p)

Init ==
  \E in \in Inputs :
    /\ pat = in.pat /\ str = in.str
    /\ delta1 = [c \in Chars(str) |-> MakeDelta1(pat, c)]
    /\ delta2 = [p \in Places(pat) |-> MakeDelta2(pat, p)]
    /\ i = Len(pat) - 1
    /\ returned = "no"

Start == i + 1 - Len(pat)

\* The places where pattern and window differ.
Mismatches == {p \in Places(pat) : At(str, Start + p) # At(pat, p)}

Found ==
  /\ returned = "no" /\ i < Len(str) /\ Mismatches = {}
  /\ returned' = "match"
  /\ UNCHANGED <<pat, str, delta1, delta2, i>>

Differs == returned = "no" /\ i < Len(str) /\ Mismatches # {}

\* From the place of the mismatch the larger distance is taken.
SkipTo ==
  LET j == Max(Mismatches) IN Start + j + Max({delta1[At(str, Start + j)], delta2[j]})

Skip ==
  /\ Differs
  /\ i' = SkipTo
  /\ UNCHANGED <<pat, str, delta1, delta2, returned>>

NotFound ==
  /\ returned = "no" /\ i >= Len(str)
  /\ returned' = "NULL"
  /\ UNCHANGED <<pat, str, delta1, delta2, i>>

Next == Found \/ Skip \/ NotFound

Spec == Init /\ [][Next]_vars

(***************************************************************************)
(* Properties                                                              *)
(***************************************************************************)
Matches == {p \in 0..(Len(str) - Len(pat)) :
              Len(pat) <= Len(str) /\ \A k \in Places(pat) : At(str, p + k) = At(pat, k)}

\* "Generate table of next possible full match" (recovery_updater.cpp:69): no
\* move of the window passes a match, so what is found is the first match, and
\* when nothing is found there is none.  The window only moves forward, so the
\* search ends: a table whose distances are from the window's end would move it
\* back.
FirstMatch ==
  /\ returned = "match" => Start \in Matches
  /\ returned = "NULL" => Matches = {}
  /\ \A p \in Matches : Start <= p
  /\ Differs => SkipTo > i
=============================================================================
