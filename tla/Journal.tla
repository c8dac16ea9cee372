------------------------------ MODULE Journal ------------------------------
(***************************************************************************)
(* What the transcripts of a project promise together: they are one log,   *)
(* cut into files.  Files only grow, and whatever is appended to one of    *)
(* them is newer than everything in all of them, so no message is ever     *)
(* written twice or out of order.                                          *)
(***************************************************************************)
EXTENDS Naturals, Sequences

CONSTANTS
  Files,     \* the names of the files
  Entries    \* records with an id that grows with time

VARIABLE files

JournalInit == files = [f \in Files |-> <<>>]

Increasing(run) == \A i, j \in DOMAIN run : i < j => run[i].id < run[j].id

NewerThanAll(run) ==
  \A f \in Files : \A i \in DOMAIN files[f], j \in DOMAIN run :
    files[f][i].id < run[j].id

(* The run is what the new file holds past the old one.                    *)
Past(f) == SubSeq(files'[f], Len(files[f]) + 1, Len(files'[f]))

AppendNewer(f) ==
  /\ Past(f) \in Seq(Entries) /\ Increasing(Past(f)) /\ NewerThanAll(Past(f))
  /\ files' = [files EXCEPT ![f] = @ \o Past(f)]

JournalNext == \E f \in Files : AppendNewer(f)

JournalSpec == JournalInit /\ [][JournalNext]_files
=============================================================================
