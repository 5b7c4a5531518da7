------------------------------ MODULE JsonCalls ------------------------------
(***************************************************************************)
(* What FFFF::submitJson promises its caller (FFFF.h): a request is saved, *)
(* executed by the thread that draws, once, and only then answered, with   *)
(* what that execution of that request gave.  One request at a time.       *)
(***************************************************************************)
EXTENDS Naturals

CONSTANTS Requests, NoAnswer

VARIABLES
    stage,      \* how far each request has come
    ran,        \* how often each was executed
    answer      \* what each was answered: the request that was executed for it

callvars == <<stage, ran, answer>>

CallsInit ==
    /\ stage = [r \in Requests |-> "new"]
    /\ ran = [r \in Requests |-> 0]
    /\ answer = [r \in Requests |-> NoAnswer]

Call(r) ==
    /\ stage[r] = "new"
    /\ \A q \in Requests : stage[q] \in {"new", "answered"}
    /\ stage' = [stage EXCEPT ![r] = "called"]
    /\ UNCHANGED <<ran, answer>>

Execute(r) ==
    /\ stage[r] = "called"
    /\ stage' = [stage EXCEPT ![r] = "executed"]
    /\ ran' = [ran EXCEPT ![r] = @ + 1]
    /\ UNCHANGED answer

Answer(r) ==
    /\ stage[r] = "executed"
    /\ stage' = [stage EXCEPT ![r] = "answered"]
    /\ answer' = [answer EXCEPT ![r] = r]
    /\ UNCHANGED ran

CallsNext == \E r \in Requests : Call(r) \/ Execute(r) \/ Answer(r)

CallsSpec == CallsInit /\ [][CallsNext]_callvars
=============================================================================
