----------------------------- MODULE ExactlyOnce -----------------------------
(***************************************************************************)
(* What the write protocol promises its clients and the Docker backend: an   *)
(* operation is accepted with one request, has its effect at most once and   *)
(* only while it is accepted and not settled, is settled with one response,  *)
(* and every answer is that response.  Kills and restarts are not visible.   *)
(***************************************************************************)
EXTENDS Naturals

CONSTANTS Operations, Requests, Responses, NoResponse, NoRecord

VARIABLES
    outcome,  \* nothing, the accepted request, or the request with its response
    effects,
    answers

vars == <<outcome, effects, answers>>

Init ==
    /\ outcome = [op \in Operations |-> NoRecord]
    /\ effects = [op \in Operations |-> 0]
    /\ answers = {}

Accepted(op) == outcome[op] # NoRecord /\ outcome[op].response = NoResponse

Settled(op) == outcome[op] # NoRecord /\ outcome[op].response # NoResponse

Accept(op, request) ==
    /\ outcome[op] = NoRecord
    /\ outcome' = [outcome EXCEPT ![op] = [request |-> request, response |-> NoResponse]]
    /\ UNCHANGED <<effects, answers>>

Effect(op) ==
    /\ Accepted(op)
    /\ effects[op] = 0
    /\ effects' = [effects EXCEPT ![op] = 1]
    /\ UNCHANGED <<outcome, answers>>

Settle(op, response) ==
    /\ Accepted(op)
    /\ outcome' = [outcome EXCEPT ![op].response = response]
    /\ UNCHANGED <<effects, answers>>

Answer(op) ==
    /\ Settled(op)
    /\ answers' = answers \cup {<<op, outcome[op].request, outcome[op].response>>}
    /\ UNCHANGED <<outcome, effects>>

Next ==
    \E op \in Operations :
        \/ \E request \in Requests : Accept(op, request)
        \/ Effect(op)
        \/ \E response \in Responses : Settle(op, response)
        \/ Answer(op)

Spec == Init /\ [][Next]_vars
=============================================================================
