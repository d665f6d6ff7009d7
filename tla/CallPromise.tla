---------------------------- MODULE CallPromise ----------------------------
(***************************************************************************)
(* What a JSON-RPC call promises its caller: snapserver runs it at most    *)
(* once, it succeeds only if it has run, it may fail whether it has run or *)
(* not, and it returns.                                                    *)
(***************************************************************************)
CONSTANT Tasks

VARIABLES
    status,     \* "idle" before and between calls, "asked" during one
    ran,        \* whether snapserver has run the present call
    result      \* how the last call returned

vars == <<status, ran, result>>

Init ==
    /\ status = [t \in Tasks |-> "idle"]
    /\ ran = [t \in Tasks |-> FALSE]
    /\ result = [t \in Tasks |-> "none"]

Ask(t) ==
    /\ status[t] = "idle"
    /\ status' = [status EXCEPT ![t] = "asked"]
    /\ ran' = [ran EXCEPT ![t] = FALSE]
    /\ UNCHANGED result

\* The call fails before it is made.
Refuse(t) ==
    /\ status[t] = "idle"
    /\ result' = [result EXCEPT ![t] = "err"]
    /\ UNCHANGED <<status, ran>>

Run(t) ==
    /\ status[t] = "asked" /\ ~ran[t]
    /\ ran' = [ran EXCEPT ![t] = TRUE]
    /\ UNCHANGED <<status, result>>

Return(t) ==
    /\ status[t] = "asked"
    /\ \/ ran[t] /\ result' = [result EXCEPT ![t] = "ok"]
       \/ result' = [result EXCEPT ![t] = "err"]
    /\ status' = [status EXCEPT ![t] = "idle"]
    /\ ran' = [ran EXCEPT ![t] = FALSE]

Next == \E t \in Tasks : Ask(t) \/ Refuse(t) \/ Run(t) \/ Return(t)

Spec == Init /\ [][Next]_vars /\ \A t \in Tasks : WF_vars(Return(t))
=============================================================================
