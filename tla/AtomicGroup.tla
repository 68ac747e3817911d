---------------------------- MODULE AtomicGroup ----------------------------
(***************************************************************************)
(* What an AtomicTransactionComposer promises, without saying how: one     *)
(* list of transactions is collected, it is sealed once and for all, and   *)
(* from then on the only group that can reach the network, or be confirmed *)
(* in a block, is that list.                                               *)
(***************************************************************************)
EXTENDS Naturals, Sequences

CONSTANT MaxGroupSize

VARIABLES
  members,    \* the transactions of the group, in order
  sealed,     \* TRUE once the group is finalized
  published,  \* the lists of transactions the network has ever accepted
  confirmed   \* the lists of transactions confirmed in a block

vars == <<members, sealed, published, confirmed>>

Init ==
  /\ members = <<>>
  /\ sealed = FALSE
  /\ published = {}
  /\ confirmed = {}

\* An open group grows at its end, by one transaction or by a method call
\* with the transactions it takes as arguments.
Grow ==
  /\ ~sealed
  /\ Len(members') \in (Len(members) + 1) .. MaxGroupSize
  /\ SubSeq(members', 1, Len(members)) = members
  /\ UNCHANGED <<sealed, published, confirmed>>

Seal ==
  /\ ~sealed
  /\ Len(members) > 0
  /\ sealed' = TRUE
  /\ UNCHANGED <<members, published, confirmed>>

Publish ==
  /\ sealed
  /\ published' = published \cup {members}
  /\ UNCHANGED <<members, sealed, confirmed>>

Confirm ==
  /\ \E list \in published : confirmed' = confirmed \cup {list}
  /\ UNCHANGED <<members, sealed, published>>

Next == Grow \/ Seal \/ Publish \/ Confirm

Spec == Init /\ [][Next]_vars
=============================================================================
