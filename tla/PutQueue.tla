------------------------------ MODULE PutQueue ------------------------------
(***************************************************************************)
(* What the database client promises of the writes handed to it: each one  *)
(* is reported at most once, in the order in which they were made, and is  *)
(* reported as a success only when the server has stored it.               *)
(*                                                                         *)
(* APIManager.setUserInfo and updateCoupon take the block of a write as    *)
(* the answer of a call; the order is what keeps the client's own view     *)
(* from going back to an earlier write.                                    *)
(***************************************************************************)
EXTENDS Naturals, Sequences

VARIABLES
    issued,     \* writes made so far, numbered from 1
    stored,     \* the writes the server has carried out
    reported    \* the blocks called so far: which write, and with what result

vars == <<issued, stored, reported>>

Init ==
    /\ issued = 0
    /\ stored = {}
    /\ reported = <<>>

Issue ==
    /\ issued' = issued + 1
    /\ UNCHANGED <<stored, reported>>

Store ==
    /\ \E p \in 1..issued : stored' = stored \cup {p}
    /\ UNCHANGED <<issued, reported>>

\* One message may release several blocks: those of the next writes in order.
Report ==
    /\ Len(reported) < Len(reported') /\ Len(reported') <= issued
    /\ SubSeq(reported', 1, Len(reported)) = reported
    /\ \A i \in Len(reported) + 1 .. Len(reported') :
          /\ reported'[i].put = i
          /\ reported'[i].ok => i \in stored
    /\ UNCHANGED <<issued, stored>>

Next == Issue \/ Store \/ Report

Spec == Init /\ [][Next]_vars
=============================================================================
