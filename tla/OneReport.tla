------------------------------ MODULE OneReport ------------------------------
(***************************************************************************)
(* What a transport promises to the listener of a request, whichever       *)
(* platform carries it: the listener is told the end of the request once,  *)
(* or never because the request was dropped (cancelled by the caller), and *)
(* nothing follows the end.  Progress events are not part of the promise.  *)
(***************************************************************************)
EXTENDS Naturals

CONSTANT Requests

VARIABLES
  fate,  \* where every request stands
  heard  \* how many final events its listener has been called with

vars == <<fate, heard>>

Init ==
  /\ fate = [r \in Requests |-> "idle"]
  /\ heard = [r \in Requests |-> 0]

Open(r) ==
  /\ fate[r] = "idle"
  /\ fate' = [fate EXCEPT ![r] = "open"]
  /\ UNCHANGED heard

Tell(r) ==
  /\ fate[r] = "open"
  /\ fate' = [fate EXCEPT ![r] = "told"]
  /\ heard' = [heard EXCEPT ![r] = @ + 1]

\* One call may give up several requests.
Drop(S) ==
  /\ \A r \in S : fate[r] = "open"
  /\ fate' = [r \in Requests |-> IF r \in S THEN "dropped" ELSE fate[r]]
  /\ UNCHANGED heard

Next ==
  \/ \E r \in Requests : Open(r) \/ Tell(r)
  \/ \E S \in SUBSET Requests : Drop(S)

Spec == Init /\ [][Next]_vars
=============================================================================
