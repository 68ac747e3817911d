----------------------------- MODULE WaitProofs -----------------------------
(***************************************************************************)
(* Proofs about WaitForConfirmation for any algods, number of rounds and   *)
(* length of the chain.                                                    *)
(***************************************************************************)
EXTENDS WaitForConfirmation, TLAPS

-----------------------------------------------------------------------------
(* The rounds are counted *)

\* The loop counts up to stopRound, WaitRounds after startRound.
RoundsInv ==
  /\ TypeOK
  /\ pc \in {"pending", "block", "timedOut"} =>
       stopRound = startRound + WaitRounds
  /\ pc \in {"pending", "block"} => currentRound < stopRound
  /\ pc = "timedOut" => currentRound = stopRound

LEMMA FailedType ==
  /\ Init => failed \in BOOLEAN
  /\ failed \in BOOLEAN /\ [Next]_vars => failed' \in BOOLEAN
<1>1. Init => failed \in BOOLEAN
  BY Zenon DEF Init
<1>2. ASSUME failed \in BOOLEAN, [Next]_vars PROVE failed' \in BOOLEAN
  <2>1. failed' = failed \/ failed' = TRUE
    BY <1>2, Zenon
       DEF Next, Call, Answer, Network, StatusAnswered, PendingConfirmed,
           PendingRejected, PendingUnknown, BlockAnswered, AnsweredBy,
           PendingFails, BlockTimesOut, RequestFails, Fails,
           NextRound, CatchUp, Gossip, PoolEvicts, vars, history
  <2> QED BY <2>1, <1>2, Zenon
<1> QED BY <1>1, <1>2, Zenon

LEMMA RoundsInit == Init => RoundsInv
<1> SUFFICES ASSUME Init PROVE RoundsInv
  OBVIOUS
<1>1. failed \in BOOLEAN
  BY FailedType
<1> HIDE DEF Init
<1>2. /\ round = 1 /\ confirmedRound \in {0, 1} /\ lastRound \in [Node -> {0, 1}]
      /\ knows \in [Node -> {"nothing", "inPool"}] /\ pc = "status"
      /\ startRound = 0 /\ stopRound = 0 /\ currentRound = 0 /\ asked = {}
  BY DEF Init
<1> QED BY <1>1, <1>2, ConstantsAssumption DEF RoundsInv, TypeOK, Waiting, Done

LEMMA RoundsNext == RoundsInv /\ [Next]_vars => RoundsInv'
<1> SUFFICES ASSUME RoundsInv, [Next]_vars PROVE RoundsInv'
  OBVIOUS
<1>0. failed' \in BOOLEAN
  BY FailedType, Zenon DEF RoundsInv, TypeOK
<1> USE <1>0, ConstantsAssumption DEF RoundsInv, TypeOK, Waiting, Done, Rejected
<1>1. CASE NextRound
  BY <1>1 DEF NextRound, locals, history
<1>2. ASSUME NEW n \in Node, CatchUp(n) \/ Gossip(n) \/ PoolEvicts(n)
      PROVE  RoundsInv'
  BY <1>2 DEF CatchUp, Gossip, PoolEvicts, locals, history
<1>3. ASSUME NEW n \in Node, StatusAnswered(n)
      PROVE  RoundsInv'
  BY <1>3 DEF StatusAnswered, AnsweredBy, StopAfterRounds, LoopTest, chain
<1>4. ASSUME NEW n \in Node,
             PendingConfirmed(n) \/ PendingRejected(n) \/ PendingUnknown(n)
      PROVE  RoundsInv'
  BY <1>4 DEF PendingConfirmed, PendingRejected, PendingUnknown, AnsweredBy, chain, locals
<1>5. ASSUME NEW n \in Node, BlockAnswered(n)
      PROVE  RoundsInv'
  BY <1>5 DEF BlockAnswered, AnsweredBy, AdvanceRound, LoopTest, chain
<1>6. CASE PendingFails \/ RequestFails
  BY <1>6 DEF PendingFails, RequestFails, Fails, chain, locals
<1>7. CASE BlockTimesOut
  BY <1>7 DEF BlockTimesOut, Fails, AdvanceRound, LoopTest, chain
<1>8. CASE UNCHANGED vars
  BY <1>8 DEF vars, chain, locals, history
<1> QED BY <1>1, <1>2, <1>3, <1>4, <1>5, <1>6, <1>7, <1>8
        DEF Next, Call, Answer, Network

\* The types, and the bounds of the loop, hold whatever the algods answer.
THEOREM WaitTypeCorrect == Spec => []TypeOK
<1>1. RoundsInv => TypeOK
  BY DEF RoundsInv
<1> QED BY <1>1, RoundsInit, RoundsNext, PTL DEF Spec

-----------------------------------------------------------------------------
(* The call implements its promise *)

\* A step of the network may confirm the transaction, one of the call may
\* resolve it if it is in a block, or reject it.
LEMMA PromiseStep ==
  ASSUME TypeOK, [Next]_vars
  PROVE  [Promise!Next]_<<confirmedRound # 0, Outcome>>
<1> USE DEF Outcome, Waiting
<1>1. CASE NextRound
  <2>1. Outcome' = Outcome
    BY <1>1 DEF NextRound
  <2>2. (confirmedRound # 0) => (confirmedRound' # 0)
    BY <1>1 DEF NextRound
  <2> QED BY <2>1, <2>2 DEF Promise!Next, Promise!Commit
<1>2. ASSUME NEW n \in Node, CatchUp(n) \/ Gossip(n) \/ PoolEvicts(n)
      PROVE  UNCHANGED <<confirmedRound # 0, Outcome>>
  BY <1>2 DEF CatchUp, Gossip, PoolEvicts
<1>3. ASSUME NEW n \in Node, StatusAnswered(n) \/ BlockAnswered(n)
      PROVE  [Promise!Next]_<<confirmedRound # 0, Outcome>>
  BY <1>3 DEF StatusAnswered, BlockAnswered, AnsweredBy, AdvanceRound, LoopTest,
              chain, Promise!Next, Promise!Reject
<1>4. ASSUME NEW n \in Node, PendingConfirmed(n)
      PROVE  Promise!Resolve
  BY <1>4 DEF PendingConfirmed, AnsweredBy, HasBlock, chain, Promise!Resolve
<1>5. ASSUME NEW n \in Node, PendingRejected(n)
      PROVE  Promise!Reject
  BY <1>5 DEF PendingRejected, AnsweredBy, chain, Promise!Reject
<1>6. ASSUME NEW n \in Node, PendingUnknown(n)
      PROVE  UNCHANGED <<confirmedRound # 0, Outcome>>
  BY <1>6 DEF PendingUnknown, AnsweredBy, chain
<1>7. CASE PendingFails
  BY <1>7 DEF PendingFails, Fails, chain
<1>8. CASE RequestFails \/ BlockTimesOut
  BY <1>8 DEF RequestFails, BlockTimesOut, Fails, AdvanceRound, LoopTest, chain,
              Promise!Next, Promise!Reject
<1>9. CASE UNCHANGED vars
  BY <1>9 DEF vars, chain
<1> QED BY <1>1, <1>2, <1>3, <1>4, <1>5, <1>6, <1>7, <1>8, <1>9
        DEF Next, Call, Answer, Network, Promise!Next

\* It resolves only with the transaction in a block, and settles only once,
\* whichever algod answers each request and however requests fail.
THEOREM WaitImplementsPromise == Spec => ImplementsPromise
<1>1. Init => Promise!Init
  BY DEF Init, Promise!Init, Outcome, Waiting
<1>2. TypeOK /\ [Next]_vars => [Promise!Next]_<<confirmedRound # 0, Outcome>>
  BY PromiseStep
<1> QED BY <1>1, <1>2, WaitTypeCorrect, PTL
        DEF Spec, ImplementsPromise, Promise!Spec

-----------------------------------------------------------------------------
(* What a call that gives up knows, when every request was answered *)

\* Past the first turn of the loop the algod that answered has the round the
\* loop is at; a call that has given up has seen its last round end.
RoundReached ==
  ~failed =>
    /\ pc \in {"pending", "block"} /\ currentRound > startRound =>
         round >= currentRound
    /\ pc = "timedOut" => round >= currentRound

LEMMA RoundReachedNext ==
  ASSUME WaitRounds > 0, RoundsInv, RoundReached, [Next]_vars
  PROVE  RoundReached'
<1> USE DEF RoundReached, RoundsInv, TypeOK
<1>1. CASE NextRound
  BY <1>1 DEF NextRound, locals, history
<1>2. ASSUME NEW n \in Node, CatchUp(n) \/ Gossip(n) \/ PoolEvicts(n)
      PROVE  RoundReached'
  BY <1>2 DEF CatchUp, Gossip, PoolEvicts, locals, history
<1>3. ASSUME NEW n \in Node, StatusAnswered(n)
      PROVE  RoundReached'
  BY <1>3, ConstantsAssumption
     DEF StatusAnswered, AnsweredBy, StopAfterRounds, LoopTest, chain
<1>4. ASSUME NEW n \in Node,
             PendingConfirmed(n) \/ PendingRejected(n) \/ PendingUnknown(n)
      PROVE  RoundReached'
  BY <1>4 DEF PendingConfirmed, PendingRejected, PendingUnknown, AnsweredBy,
              chain, locals
<1>5. ASSUME NEW n \in Node, BlockAnswered(n)
      PROVE  RoundReached'
  BY <1>5 DEF BlockAnswered, AnsweredBy, AdvanceRound, HasBlockAfter, LoopTest,
              chain
<1>6. CASE PendingFails \/ BlockTimesOut \/ RequestFails
  BY <1>6 DEF PendingFails, BlockTimesOut, RequestFails, Fails
<1>7. CASE UNCHANGED vars
  BY <1>7 DEF vars, chain, locals, history
<1> QED BY <1>1, <1>2, <1>3, <1>4, <1>5, <1>6, <1>7
        DEF Next, Call, Answer, Network

\* If every request was answered, by however many algods, and there is at
\* least one round to wait for, the call has not given up before those rounds
\* were over.
THEOREM WaitsLongEnough ==
  ASSUME WaitRounds > 0
  PROVE  Spec => []NotGivenUpEarly
<1>1. Init => RoundReached
  BY DEF Init, RoundReached
<1>2. RoundsInv /\ RoundReached /\ [Next]_vars => RoundReached'
  BY RoundReachedNext
<1>3. RoundsInv /\ RoundReached => NotGivenUpEarly
  BY DEF RoundsInv, RoundReached, NotGivenUpEarly, TypeOK
<1> QED BY <1>1, <1>2, <1>3, RoundsInit, RoundsNext, PTL DEF Spec

\* If n is the only algod that has answered, then past the first turn of the
\* loop it has the round that the loop is at, and once it has looked for the
\* transaction the transaction is in no round up to that one.
LookedBy(n) ==
  /\ pc \in {"pending", "block"} /\ currentRound > startRound =>
       lastRound[n] >= currentRound
  /\ pc = "block" /\ currentRound > startRound =>
       confirmedRound \notin 1 .. currentRound
  /\ pc = "timedOut" /\ currentRound > startRound + 1 =>
       confirmedRound \notin 1 .. (currentRound - 1)

Looked == \A n \in Node : ~failed /\ asked \subseteq {n} => LookedBy(n)

LEMMA LookedNext ==
  ASSUME RoundsInv, RoundReached, Looked, [Next]_vars
  PROVE  Looked'
<1> SUFFICES ASSUME NEW n \in Node, ~failed', asked' \subseteq {n}
             PROVE  LookedBy(n)'
  BY DEF Looked
<1>0. ~failed /\ asked \subseteq {n} /\ LookedBy(n)
  <2>1. ~failed /\ asked \subseteq {n}
    BY DEF Next, Call, Answer, Network, StatusAnswered, PendingConfirmed,
           PendingRejected, PendingUnknown, BlockAnswered, AnsweredBy,
           PendingFails, BlockTimesOut, RequestFails, Fails,
           NextRound, CatchUp, Gossip, PoolEvicts, vars, history
  <2> QED BY <2>1 DEF Looked
<1> USE <1>0 DEF LookedBy, RoundsInv, TypeOK
<1>1. CASE NextRound
  BY <1>1 DEF NextRound, RoundReached, locals, history
<1>2. ASSUME NEW m \in Node, CatchUp(m)
      PROVE  LookedBy(n)'
  BY <1>2 DEF CatchUp, locals, history
<1>3. ASSUME NEW m \in Node, Gossip(m) \/ PoolEvicts(m)
      PROVE  LookedBy(n)'
  BY <1>3 DEF Gossip, PoolEvicts, locals, history
<1>4. ASSUME NEW m \in Node, StatusAnswered(m)
      PROVE  LookedBy(n)'
  BY <1>4 DEF StatusAnswered, LoopTest
<1>5. ASSUME NEW m \in Node,
             PendingConfirmed(m) \/ PendingRejected(m) \/ PendingUnknown(m)
      PROVE  LookedBy(n)'
  <2>1. m = n
    BY <1>5 DEF PendingConfirmed, PendingRejected, PendingUnknown, AnsweredBy
  <2> QED BY <1>5, <2>1 DEF PendingConfirmed, PendingRejected, PendingUnknown,
                            AnsweredBy, HasBlock, chain, locals
<1>6. ASSUME NEW m \in Node, BlockAnswered(m)
      PROVE  LookedBy(n)'
  <2>1. m = n
    BY <1>6 DEF BlockAnswered, AnsweredBy
  <2> QED BY <1>6, <2>1 DEF BlockAnswered, AnsweredBy, AdvanceRound,
                            HasBlockAfter, LoopTest, chain
<1>7. CASE PendingFails \/ BlockTimesOut \/ RequestFails
  BY <1>7 DEF PendingFails, BlockTimesOut, RequestFails, Fails
<1>8. CASE UNCHANGED vars
  BY <1>8 DEF vars, chain, locals, history
<1> QED BY <1>1, <1>2, <1>3, <1>4, <1>5, <1>6, <1>7, <1>8
        DEF Next, Call, Answer, Network

\* An algod has answered every call that gives up.
Asked == pc = "status" \/ pc = "requestFailed" \/ asked # {}

LEMMA AskedNext ==
  ASSUME Asked, [Next]_vars
  PROVE  Asked'
BY DEF Asked, Next, Call, Answer, Network, StatusAnswered, PendingConfirmed,
       PendingRejected, PendingUnknown, BlockAnswered, AnsweredBy,
       PendingFails, BlockTimesOut, RequestFails, Fails, AdvanceRound, LoopTest,
       NextRound, CatchUp, Gossip, PoolEvicts, vars, history

\* If one algod answered every request and there are at least two rounds to
\* wait for, the error message "not confirmed after N rounds" is true.
THEOREM TimeoutTrue ==
  ASSUME WaitRounds >= 2
  PROVE  Spec => []TimeoutMeansUnconfirmed
<1>1. Init => Looked /\ RoundReached /\ Asked
  BY DEF Init, Looked, LookedBy, RoundReached, Asked
<1>2. RoundsInv /\ RoundReached /\ [Next]_vars => RoundReached'
  BY RoundReachedNext, ConstantsAssumption
<1>3. RoundsInv /\ RoundReached /\ Looked /\ [Next]_vars => Looked'
  BY LookedNext
<1>4. Asked /\ [Next]_vars => Asked'
  BY AskedNext
<1>5. RoundsInv /\ Looked /\ Asked => TimeoutMeansUnconfirmed
  <2> SUFFICES ASSUME RoundsInv, Looked, Asked, pc = "timedOut", ~failed,
                      OneAlgodAnswered
               PROVE  confirmedRound \notin 1 .. (startRound + WaitRounds - 1)
    BY DEF TimeoutMeansUnconfirmed
  <2>1. PICK n \in Node : asked \subseteq {n}
    BY DEF Asked, OneAlgodAnswered, RoundsInv, TypeOK
  <2>2. LookedBy(n)
    BY <2>1 DEF Looked
  <2> QED BY <2>2, ConstantsAssumption DEF LookedBy, RoundsInv, TypeOK
<1> QED BY <1>1, <1>2, <1>3, <1>4, <1>5, RoundsInit, RoundsNext, PTL DEF Spec
=============================================================================
