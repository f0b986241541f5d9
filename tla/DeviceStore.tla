---------------------------- MODULE DeviceStore ----------------------------
(***************************************************************************)
(* What package device promises its callers: every operation either        *)
(* happens to the shared list at one instant between its call and its      *)
(* return, with the answer that instant gives, or it fails and changes     *)
(* nothing.  A caller that dies never learns which.                        *)
(***************************************************************************)
EXTENDS Devices

CONSTANT Proc  \* goroutines of the daemon and runs of the CLI

VARIABLES
    devices,  \* the list
    used,     \* every id that has ever been in it
    status,   \* of each caller: "idle", "called", "answered"
    call,     \* of each caller: the operation, or NoCall
    reply     \* of each caller: the answer, or NoAnswer

vars == <<devices, used, status, call, reply>>

NoCall == [op |-> "none"]

Init ==
    /\ devices = {}
    /\ used = {}
    /\ status = [p \in Proc |-> "idle"]
    /\ call = [p \in Proc |-> NoCall]
    /\ reply = [p \in Proc |-> NoAnswer]

Invoke(p, o) ==
    /\ status[p] = "idle"
    /\ status' = [status EXCEPT ![p] = "called"]
    /\ call' = [call EXCEPT ![p] = o]
    /\ UNCHANGED <<devices, used, reply>>

Perform(p) ==
    /\ status[p] = "called"
    /\ \E e \in Effects(call[p], devices, used) :
        /\ devices' = e.rows
        /\ used' = used \cup Ids(e.rows)
        /\ reply' = [reply EXCEPT ![p] = e.reply]
    /\ status' = [status EXCEPT ![p] = "answered"]
    /\ UNCHANGED call

Fail(p) ==
    /\ status[p] = "called"
    /\ status' = [status EXCEPT ![p] = "answered"]
    /\ reply' = [reply EXCEPT ![p] = Failed]
    /\ UNCHANGED <<devices, used, call>>

\* The caller gets its answer, or dies before it does.
Leave(p) ==
    /\ status[p] # "idle"
    /\ status' = [status EXCEPT ![p] = "idle"]
    /\ call' = [call EXCEPT ![p] = NoCall]
    /\ reply' = [reply EXCEPT ![p] = NoAnswer]
    /\ UNCHANGED <<devices, used>>

Next ==
    \E p \in Proc :
        \/ \E o \in Op : Invoke(p, o)
        \/ Perform(p) \/ Fail(p) \/ Leave(p)

Spec == Init /\ [][Next]_vars
=============================================================================
