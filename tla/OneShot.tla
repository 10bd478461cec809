------------------------------ MODULE OneShot ------------------------------
(***************************************************************************)
(* What APIManagerProtocol promises of a call that returns                 *)
(* AnyPublisher<Bool, ApiError> (or another single value): the subscriber  *)
(* hears of each call at most once, either a success or a failure, and a   *)
(* success is only reported for something that was really carried out.     *)
(* A failure promises nothing: the request may have been, or may still be, *)
(* carried out (the timeout does not recall it).                           *)
(***************************************************************************)
CONSTANT Calls

VARIABLES
    outcome,    \* outcome[c]: what the subscriber of call c has been told
    happened    \* the calls that Firebase has carried out

vars == <<outcome, happened>>

Outcomes == {"none", "pending", "succeeded", "failed", "abandoned"}

Init ==
    /\ outcome = [c \in Calls |-> "none"]
    /\ happened = {}

(***************************************************************************)
(* The life of one call.  Every transition that is not listed is           *)
(* forbidden: a second outcome, an outcome nobody asked for, an outcome    *)
(* for a subscriber that has gone.                                         *)
(***************************************************************************)
Lives(c) ==
    \/ outcome'[c] = outcome[c]
    \/ outcome[c] = "none" /\ outcome'[c] = "pending"
    \/ outcome[c] = "pending" /\ outcome'[c] \in {"failed", "abandoned"}
    \/ outcome[c] = "pending" /\ outcome'[c] = "succeeded" /\ c \in happened

(***************************************************************************)
(* One step may move several calls: the handler of one outcome issues the  *)
(* next call (sign up), or releases the view model that owns others.       *)
(***************************************************************************)
Next ==
    /\ outcome' \in [Calls -> Outcomes]
    /\ \A c \in Calls : Lives(c)
    /\ happened \subseteq happened'
    /\ \A c \in happened' \ happened : c \in Calls /\ outcome'[c] # "none"

Spec == Init /\ [][Next]_vars
=============================================================================
