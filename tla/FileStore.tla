----------------------------- MODULE FileStore -----------------------------
(***************************************************************************)
(* What the programs of cpmtools promise of the files of an image: bytes   *)
(* are only appended, a file is only changed by a copy to it or by its     *)
(* removal, files become permanent whole, one by one, and a program that   *)
(* dies takes back what was not permanent, whole files again.              *)
(***************************************************************************)
EXTENDS Sequences, Naturals

CONSTANTS File, Absent

VARIABLES
  live,    \* what the running program would read from each file
  saved    \* what the next program would read

Init == live = saved

Create(f) ==
  /\ live[f] = Absent
  /\ live' = [live EXCEPT ![f] = <<>>]
  /\ UNCHANGED saved

Extend(f) ==
  /\ live[f] # Absent /\ live'[f] # Absent
  /\ Len(live'[f]) > Len(live[f])
  /\ SubSeq(live'[f], 1, Len(live[f])) = live[f]
  /\ live' = [live EXCEPT ![f] = live'[f]]
  /\ UNCHANGED saved

Remove(f) ==
  /\ live' = [live EXCEPT ![f] = Absent]
  /\ UNCHANGED saved

Save ==
  /\ \A f \in File : saved'[f] \in {saved[f], live[f]}
  /\ UNCHANGED live

Forget ==
  /\ live' = saved
  /\ UNCHANGED saved

Next ==
  \/ \E f \in File : Create(f) \/ Extend(f) \/ Remove(f)
  \/ Save \/ Forget

Spec == Init /\ [][Next]_<<live, saved>>

=============================================================================
