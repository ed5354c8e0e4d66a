------------------------------ MODULE RpcCall -------------------------------
(***************************************************************************)
(* What a caller of a remote method is promised (the diagram at the head   *)
(* of common/rpc_helper.h): the function runs at most once per call, and   *)
(* the call returns success only after it ran.  A call may fail at any     *)
(* moment, before or after the function ran, and may run after it failed.  *)
(***************************************************************************)
CONSTANT Id          \* the calls

VARIABLES
    result,          \* how far the caller of each call is
    ran              \* the calls whose function ran

vars == <<result, ran>>

Init == result = [id \in Id |-> "none"] /\ ran = {}

Request(id) ==
    /\ result[id] = "none"
    /\ result' = [result EXCEPT ![id] = "pending"]
    /\ UNCHANGED ran

\* A call made without waiting for the reply.
Post(id) ==
    /\ result[id] = "none"
    /\ result' = [result EXCEPT ![id] = "sent"]
    /\ UNCHANGED ran

Run(id) ==
    /\ result[id] # "none"
    /\ id \notin ran
    /\ ran' = ran \cup {id}
    /\ UNCHANGED result

Succeed(id) ==
    /\ result[id] = "pending"
    /\ id \in ran
    /\ result' = [result EXCEPT ![id] = "ok"]
    /\ UNCHANGED ran

Fail(id) ==
    /\ result[id] = "pending"
    /\ result' = [result EXCEPT ![id] = "fail"]
    /\ UNCHANGED ran

Next == \E id \in Id : Request(id) \/ Post(id) \/ Run(id) \/ Succeed(id) \/ Fail(id)

Spec == Init /\ [][Next]_vars
=============================================================================
