---------------------------- MODULE TurnContract ----------------------------
(***************************************************************************)
(* What a chat promises about its requests, with no graph inside: one at a *)
(* time, each request returns a status for the user or an error;           *)
(* the facts the chat has established change only at the end of a request, *)
(* never through a turn that asked the user or made conversation, and are  *)
(* never fewer.  AgentGraph implements this.                               *)
(***************************************************************************)
EXTENDS Integers, FiniteSets

CONSTANTS Fact,      (* what can be established           *)
          Capacity   (* how many established facts a chat keeps *)

VARIABLES phase,       (* "idle" or "running"                              *)
          established, (* the facts the next request may build on          *)
          asked,       (* the last remembered turn asked the user something    *)
          result       (* what the request returned; "none" until then     *)

vars == <<phase, established, asked, result>>

Answering == {"answered", "answered_with_caveats"}
Asking    == {"needs_clarification", "conversational"}

Init ==
  /\ phase = "idle"
  /\ established = {}
  /\ asked = FALSE
  /\ result = "none"

Begin ==
  /\ phase = "idle"
  /\ phase' = "running"
  /\ result' = "none"
  /\ UNCHANGED <<established, asked>>

\* A turn that ended with this status is remembered.
Remember(status) ==
  /\ asked' = (status = "needs_clarification")
  /\ \/ /\ status \in Asking
        /\ UNCHANGED established
     \/ /\ status \in Answering
        /\ established' \in SUBSET Fact
        /\ Cardinality(established') \in Cardinality(established) .. Capacity

\* The request ends: remembered and answered, remembered and failed, or failed.
Finish ==
  /\ phase = "running"
  /\ phase' = "idle"
  /\ \/ \E status \in Answering \cup Asking :
          /\ Remember(status)
          /\ result' \in {status, "error"}
     \/ /\ UNCHANGED <<established, asked>>
        /\ result' = "error"

Next == Begin \/ Finish

Spec == Init /\ [][Next]_vars

=============================================================================
