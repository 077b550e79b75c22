-------------------------- MODULE TransferService --------------------------
(***************************************************************************)
(* What a transfer task of netWindow promises, with no packets: the user   *)
(* starts a task, its script is executed on another machine at most once   *)
(* per attempt, and the task ends succeeded, only after the script was     *)
(* executed, or failed, about which nothing is promised.                   *)
(***************************************************************************)
EXTENDS Naturals

CONSTANT Task

VARIABLES
    status,     \* how far the task is
    sends,      \* attempts made to transmit it
    runs        \* executions of its script

vars == <<status, sends, runs>>

Init ==
    /\ status = [t \in Task |-> "unborn"]
    /\ sends = [t \in Task |-> 0]
    /\ runs = [t \in Task |-> 0]

Start(t) ==
    /\ status[t] = "unborn"
    /\ status' = [status EXCEPT ![t] = "running"]
    /\ sends' = [sends EXCEPT ![t] = 1]
    /\ UNCHANGED runs

Retry(t) ==
    /\ status[t] = "running"
    /\ sends' = [sends EXCEPT ![t] = @ + 1]
    /\ UNCHANGED <<status, runs>>

\* A script may still be executed after its task failed: a packet was late.
Run(t) ==
    /\ runs[t] < sends[t]
    /\ runs' = [runs EXCEPT ![t] = @ + 1]
    /\ UNCHANGED <<status, sends>>

Succeed(t) ==
    /\ status[t] = "running" /\ runs[t] > 0
    /\ status' = [status EXCEPT ![t] = "succeeded"]
    /\ UNCHANGED <<sends, runs>>

Fail(t) ==
    /\ status[t] = "running"
    /\ status' = [status EXCEPT ![t] = "failed"]
    /\ UNCHANGED <<sends, runs>>

Next == \E t \in Task : Start(t) \/ Retry(t) \/ Run(t) \/ Succeed(t) \/ Fail(t)

Spec == Init /\ [][Next]_vars

=============================================================================
