------------------------ MODULE ConfirmationPromise ------------------------
(***************************************************************************)
(* What the promise returned by waitForConfirmation may do: resolve once   *)
(* the transaction is in a block, or reject, in either case only once.     *)
(* This is the step that Composer takes in execute.                        *)
(***************************************************************************)
VARIABLES
  inBlock,  \* the transaction is in a block of the chain
  outcome   \* "pending", "resolved" or "rejected"

Init ==
  /\ inBlock \in BOOLEAN
  /\ outcome = "pending"

Commit == ~inBlock /\ inBlock' = TRUE /\ UNCHANGED outcome

Resolve ==
  /\ outcome = "pending"
  /\ inBlock
  /\ outcome' = "resolved"
  /\ UNCHANGED inBlock

Reject ==
  /\ outcome = "pending"
  /\ outcome' = "rejected"
  /\ UNCHANGED inBlock

Next == Commit \/ Resolve \/ Reject

Spec == Init /\ [][Next]_<<inBlock, outcome>>
=============================================================================
