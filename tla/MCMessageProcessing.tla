------------------------ MODULE MCMessageProcessing ------------------------
(* Values for model checking MessageProcessing. *)
EXTENDS MessageProcessing, TLC

(* Messages are interchangeable. *)
Symmetry == Permutations(Messages)

(* No call throws. *)
NoCalls == {}

(* Every awaited call of an execution may throw. *)
Calls == DOMAIN Catches \cup {"rescuing"}

(***************************************************************************)
(* The calls whose failure differs in what is left behind: no sandbox row, *)
(* an empty container, a row not marked, a working message, no artifact,   *)
(* an artifact never announced, a failure or a cancellation not recorded.  *)
(***************************************************************************)
DistinctFailures ==
  {"createSandbox", "populate", "markReady", "markFailed", "agent",
   "recordArtifacts", "complete", "rescuing", "cancel"}

(***************************************************************************)
(* One call of each place an exception is caught: provisionForSession, the *)
(* catch block after the agent's turn, and after the completion.           *)
(***************************************************************************)
CallPerCatch == {"markReady", "agent", "complete"}

(* GitHub sessions only, which take every step a fixture session takes. *)
GitHubInit == Init /\ repoSource = "github"
GitHubFairSpec == GitHubInit /\ [][Next]_vars /\ Fairness
=============================================================================
