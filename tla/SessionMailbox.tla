--------------------------- MODULE SessionMailbox ---------------------------
(***************************************************************************)
(* What a chat session promises about its messages, with no mention of     *)
(* executions, sandboxes, retries or crashes: it holds at most one         *)
(* unresolved message at a time, a message is resolved at most once, and   *)
(* resolving it frees the session and announces exactly one result.        *)
(* MessageProcessing implements this specification.                        *)
(***************************************************************************)
EXTENDS Naturals

CONSTANTS
  Messages,
  NoMessage   \* not a message

VARIABLES
  current,    \* the message the session is resolving, or NoMessage
  outcome,    \* "unsent", "pending", or the way the message was resolved
  announced   \* how many results were announced for the message

vars == <<current, outcome, announced>>

Resolutions == {"completed", "failed", "cancelled"}

Init ==
  /\ current = NoMessage
  /\ outcome = [m \in Messages |-> "unsent"]
  /\ announced = [m \in Messages |-> 0]

Accept(m) ==
  /\ current = NoMessage
  /\ outcome[m] = "unsent"
  /\ current' = m
  /\ outcome' = [outcome EXCEPT ![m] = "pending"]
  /\ UNCHANGED announced

Resolve(m, r) ==
  /\ current = m
  /\ current' = NoMessage
  /\ outcome' = [outcome EXCEPT ![m] = r]
  /\ announced' = [announced EXCEPT ![m] = @ + 1]

Next ==
  \E m \in Messages : Accept(m) \/ \E r \in Resolutions : Resolve(m, r)

Spec == Init /\ [][Next]_vars
=============================================================================
