---------------------------- MODULE RecentFaults ----------------------------
(***************************************************************************)
(* What sph_faults/sph_faults_history.c promises: the faults that occurred *)
(* since the history was last cleared, the most recent first, each once.   *)
(* FaultHistory implements it with two arrays of links and an EEPROM copy. *)
(***************************************************************************)
EXTENDS Naturals, Sequences

CONSTANT Fault

VARIABLE recent

\* Where f is in s; past the end when it is not there.
Place(s, f) ==
  IF \E k \in DOMAIN s : s[k] = f THEN CHOOSE k \in DOMAIN s : s[k] = f ELSE Len(s) + 1

Without(s, f) == SubSeq(s, 1, Place(s, f) - 1) \o SubSeq(s, Place(s, f) + 1, Len(s))

\* The list after fault f has occurred.
Touch(s, f) == <<f>> \o Without(s, f)

Init == recent = <<>>

Record(f) == recent' = Touch(recent, f)

Erase == recent' = <<>>

Next == (\E f \in Fault : Record(f)) \/ Erase

Spec == Init /\ [][Next]_recent
=============================================================================
