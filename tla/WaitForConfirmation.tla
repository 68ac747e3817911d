------------------------ MODULE WaitForConfirmation ------------------------
(***************************************************************************)
(* waitForConfirmation (src/src/wait.ts): the loop of requests by which    *)
(* the client decides whether a submitted transaction is in a block.       *)
(*                                                                         *)
(* Every request may be answered by another algod (the comment at line 46  *)
(* of the source), and the algods are not at the same round: one may not   *)
(* know the transaction, or not have the block that holds it.              *)
(***************************************************************************)
EXTENDS Integers

CONSTANTS
  Node,           \* the algods behind the address of the client
  WaitRounds,     \* the argument waitRounds
  MaxRound,       \* bound on the length of the chain
  MaxStatusRound  \* bound on its length when the status is read

ASSUME ConstantsAssumption ==
  /\ Node # {}
  /\ WaitRounds \in Nat
  /\ MaxRound \in Nat \ {0}
  /\ MaxStatusRound \in Nat

Waiting == {"status", "pending", "block"}
Rejected == {"poolError", "timedOut", "requestFailed"}
Done == {"resolved"} \cup Rejected

VARIABLES
  round,           \* the last round of the chain
  confirmedRound,  \* the round of the transaction, 0 while it is in none
  lastRound,       \* the last round each algod has
  knows,           \* "nothing", "inPool" or "poolError": each algod's pool
  pc,              \* the await, or the end, of the call
  startRound, stopRound, currentRound,
  asked,           \* history: the algods that have answered the call
  failed           \* history: a request failed or a long poll timed out

chain == <<round, confirmedRound, lastRound, knows>>
locals == <<startRound, stopRound, currentRound>>
history == <<asked, failed>>
vars == <<chain, pc, locals, history>>

Init ==
  /\ round = 1
  /\ confirmedRound \in {0, 1}
  /\ lastRound \in [Node -> {0, 1}]
  /\ knows \in [Node -> {"nothing", "inPool"}]
  /\ \E n \in Node : knows[n] = "inPool"
  /\ pc = "status"
  /\ startRound = 0
  /\ stopRound = 0
  /\ currentRound = 0
  /\ asked = {}
  /\ failed = FALSE

-----------------------------------------------------------------------------
(* The network (external) *)

\* The next block, with the transaction in it or not.
NextRound ==
  /\ round < MaxRound
  /\ pc = "status" => round < MaxStatusRound
  /\ round' = round + 1
  /\ \/ UNCHANGED confirmedRound
     \/ /\ confirmedRound = 0
        /\ \E n \in Node : knows[n] = "inPool"
        /\ confirmedRound' = round'
  /\ UNCHANGED <<lastRound, knows, pc, locals, history>>

CatchUp(n) ==
  /\ lastRound[n] < round
  /\ lastRound' = [lastRound EXCEPT ![n] = @ + 1]
  /\ UNCHANGED <<round, confirmedRound, knows, pc, locals, history>>

Gossip(n) ==
  /\ knows[n] = "nothing"
  /\ \E m \in Node : knows[m] = "inPool"
  /\ knows' = [knows EXCEPT ![n] = "inPool"]
  /\ UNCHANGED <<round, confirmedRound, lastRound, pc, locals, history>>

PoolEvicts(n) ==
  /\ knows[n] = "inPool"
  /\ knows' = [knows EXCEPT ![n] = "poolError"]
  /\ UNCHANGED <<round, confirmedRound, lastRound, pc, locals, history>>

\* Faulty variant of HasBlock: confirmedRound 0 is taken for a round.
HasBlockOrNone(n) == confirmedRound <= lastRound[n]

HasBlock(n) == confirmedRound # 0 /\ confirmedRound <= lastRound[n]

-----------------------------------------------------------------------------
(* The call *)

\* Faulty variant of StopAfterRounds: one round is lost.
StopAfterRoundsShort(start) == start + WaitRounds - 1

StopAfterRounds(start) == start + WaitRounds

\* Faulty variant of LoopTest: <= instead of <.
LoopTestInclusive ==
  pc' = IF currentRound' <= stopRound' THEN "pending" ELSE "timedOut"

\* The test of the while loop, and the request or the error that follows it.
LoopTest ==
  pc' = IF currentRound' < stopRound' THEN "pending" ELSE "timedOut"

\* The answer to a request comes from the algod n.
AnsweredBy(n) ==
  /\ asked' = asked \cup {n}
  /\ UNCHANGED <<chain, failed>>

Fails ==
  /\ failed' = TRUE
  /\ UNCHANGED <<chain, asked>>

StatusAnswered(n) ==
  /\ pc = "status"
  /\ AnsweredBy(n)
  /\ startRound' = lastRound[n] + 1
  /\ stopRound' = StopAfterRounds(startRound')
  /\ currentRound' = startRound'
  /\ LoopTest

PendingConfirmed(n) ==
  /\ pc = "pending"
  /\ HasBlock(n)
  /\ AnsweredBy(n)
  /\ pc' = "resolved"
  /\ UNCHANGED locals

PendingRejected(n) ==
  /\ pc = "pending"
  /\ ~HasBlock(n)
  /\ knows[n] = "poolError"
  /\ AnsweredBy(n)
  /\ pc' = "poolError"
  /\ UNCHANGED locals

\* Still in the pool, or a 404: the error is ignored.
PendingUnknown(n) ==
  /\ pc = "pending"
  /\ ~HasBlock(n)
  /\ knows[n] # "poolError"
  /\ AnsweredBy(n)
  /\ pc' = "block"
  /\ UNCHANGED locals

\* The request for the pending information fails, and the error is ignored.
PendingFails ==
  /\ pc = "pending"
  /\ Fails
  /\ pc' = "block"
  /\ UNCHANGED locals

HasBlockAfter(n) == lastRound[n] > currentRound

\* Faulty variant of AdvanceRound: currentRound is not advanced.
AdvanceRoundNot ==
  /\ UNCHANGED locals
  /\ LoopTest

AdvanceRound ==
  /\ currentRound' = currentRound + 1
  /\ UNCHANGED <<startRound, stopRound>>
  /\ LoopTest

BlockAnswered(n) ==
  /\ pc = "block"
  /\ HasBlockAfter(n)
  /\ AnsweredBy(n)
  /\ AdvanceRound

\* The long poll of the algod times out: it answers without a later round.
BlockTimesOut ==
  /\ pc = "block"
  /\ Fails
  /\ AdvanceRound

\* The requests outside the try block: their errors end the call.
RequestFails ==
  /\ pc \in {"status", "block"}
  /\ Fails
  /\ pc' = "requestFailed"
  /\ UNCHANGED locals

Answer ==
  \E n \in Node :
    \/ StatusAnswered(n)
    \/ PendingConfirmed(n)
    \/ PendingRejected(n)
    \/ PendingUnknown(n)
    \/ BlockAnswered(n)

Call == Answer \/ PendingFails \/ BlockTimesOut \/ RequestFails

Network ==
  \/ NextRound
  \/ \E n \in Node : CatchUp(n) \/ Gossip(n) \/ PoolEvicts(n)

Next == Call \/ Network

Spec == Init /\ [][Next]_vars

\* The chain keeps producing blocks, every algod keeps up with it, and the
\* event loop resumes a call whose request has been answered.  A failure is
\* never owed: a request that has no answer may stay pending.
FairSpec ==
  /\ Spec
  /\ WF_vars(Answer)
  /\ WF_vars(NextRound)
  /\ \A n \in Node : WF_vars(CatchUp(n))

-----------------------------------------------------------------------------
(* Properties *)

\* The types of the variables; currentRound never leaves the rounds from
\* startRound to stopRound.
TypeOK ==
  /\ round \in 1 .. MaxRound
  /\ confirmedRound \in 0 .. round
  /\ lastRound \in [Node -> 0 .. round]
  /\ knows \in [Node -> {"nothing", "inPool", "poolError"}]
  /\ pc \in Waiting \cup Done
  /\ startRound \in Nat
  /\ stopRound \in Nat
  /\ currentRound \in startRound .. stopRound
  /\ asked \subseteq Node
  /\ failed \in BOOLEAN

\* If every request was answered, "Transaction not confirmed after N rounds"
\* is thrown only when the chain is N rounds past the one whose end the
\* status reported, whichever algods answered.
NotGivenUpEarly ==
  pc = "timedOut" /\ ~failed => round >= startRound + WaitRounds

OneAlgodAnswered == \A m, n \in asked : m = n

\* If every request was answered, and by one algod, that error message is
\* true: the transaction is in none of the N rounds that were waited for.
TimeoutMeansUnconfirmed ==
  pc = "timedOut" /\ ~failed /\ OneAlgodAnswered =>
    confirmedRound \notin 1 .. (startRound + WaitRounds - 1)

Outcome == IF pc \in Waiting THEN "pending"
           ELSE IF pc = "resolved" THEN "resolved" ELSE "rejected"

Promise == INSTANCE ConfirmationPromise WITH
  inBlock <- confirmedRound # 0, outcome <- Outcome

\* Whatever the algods answer, the call implements the one step that Composer
\* takes for it: it resolves only with the transaction in a block, and
\* settles once.
ImplementsPromise == Promise!Spec

\* The call settles within the rounds it counts, although algods lag behind
\* and no failure ever comes to end it.
Settles == <>(pc \in Done)
=============================================================================
