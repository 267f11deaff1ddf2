----------------------------- MODULE RpcSession -----------------------------
(***************************************************************************)
(* What a session promises its callers, without ids, channels or pipes:    *)
(* every call ends at most once; it ends with a reply only if the daemon   *)
(* has received that call's own request; it ends because the session ended *)
(* only once the session is down, and a session that is down stays down.   *)
(***************************************************************************)
CONSTANT Calls

VARIABLES
    outcome,  \* "none" while a call runs, then how it ended
    received, \* the calls whose request has reached the daemon
    up        \* the session serves requests

rpcVars == <<outcome, received, up>>

Outcomes == {"none", "reply", "sessionEnded", "gaveUp"}

Init ==
    /\ outcome = [c \in Calls |-> "none"]
    /\ received = {}
    /\ up = TRUE

Receive(c) ==
    /\ received' = received \cup {c}
    /\ UNCHANGED <<outcome, up>>

GoDown ==
    /\ up' = FALSE
    /\ UNCHANGED <<outcome, received>>

End(c, how) ==
    /\ outcome[c] = "none"
    /\ how = "reply" => c \in received
    /\ how = "sessionEnded" => ~up
    /\ outcome' = [outcome EXCEPT ![c] = how]
    /\ UNCHANGED <<received, up>>

Next ==
    \/ \E c \in Calls : Receive(c)
    \/ GoDown
    \/ \E c \in Calls, how \in Outcomes \ {"none"} : End(c, how)

Spec == Init /\ [][Next]_rpcVars

=============================================================================
