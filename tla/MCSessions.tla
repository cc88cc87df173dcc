------------------------------ MODULE MCSessions ------------------------------
(***************************************************************************)
(* Sessions for TLC: two ticks to a second, a token that lives two of      *)
(* them, and two replicas whose clocks are a tick apart.                   *)
(***************************************************************************)
EXTENDS MCAuthService, Sessions

MCReplicas == {"exact", "fast"}
MCAhead == [p \in MCReplicas |-> IF p = "fast" THEN 1 ELSE 0]

\* The worker logs in and calls with its token, or with one that does not
\* decode any more; the owner, known to the gateway, disables it meanwhile.
SessionGatewayCalls == {Update(1, "OWNER", 2, "DISABLED")}
TokenInputs ==
    SessionGatewayCalls \cup
    {Login("worker", "good"), Call("logout", 2, "WORKER"), [Blank EXCEPT !.op = "logout"]}
=============================================================================
