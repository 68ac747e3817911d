------------------------------- MODULE Client -------------------------------
(***************************************************************************)
(* An application that calls a node or an indexer with a request builder   *)
(* (Calls), or that reads, makes and writes objects (Exchange).            *)
(***************************************************************************)
EXTENDS Calls, Exchange

vars == <<callsVars, exchangeVars>>

Init ==
  /\ NoExchange
  /\ \/ NoCalls
     \/ CallsInit

Next ==
  \/ CallsNext /\ UNCHANGED exchangeVars
  \/ builder = NoBuilder /\ ExchangeNext /\ UNCHANGED callsVars

Spec == Init /\ [][Next]_vars
=============================================================================
