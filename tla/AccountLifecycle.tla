--------------------------- MODULE AccountLifecycle ---------------------------
(***************************************************************************)
(* What the user service promises about accounts, whatever its tables and  *)
(* round trips look like.                                                  *)
(*                                                                         *)
(* An account has a fixed, unique e-mail and a fixed role.  It is          *)
(*   pending   a worker whose profile does not exist yet: nobody can log   *)
(*             in to it, and nobody can disable it either;                 *)
(*   enabled   its owner may log in and act;                               *)
(*   disabled  its owner may not.                                          *)
(* Only workers are ever disabled or enabled, and only once some staff     *)
(* account is enabled to do it.  Accounts never disappear.                 *)
(***************************************************************************)
CONSTANTS Emails, Workers, Staff    \* Workers and Staff are sets of roles

VARIABLE accounts    \* id -> [email, role, phase]

Phases == {"pending", "enabled", "disabled"}

FirstPhase(role) == IF role \in Workers THEN "pending" ELSE "enabled"

Account(e, role, phase) == [email |-> e, role |-> role, phase |-> phase]

Init ==
    /\ \A i \in DOMAIN accounts :
          /\ accounts[i].phase # "disabled"
          /\ accounts[i].role \notin Workers => accounts[i].phase = "enabled"
    /\ \A i, j \in DOMAIN accounts : accounts[i].email = accounts[j].email => i = j

Open(i, e, role) ==
    /\ i \notin DOMAIN accounts
    /\ \A j \in DOMAIN accounts : accounts[j].email # e
    /\ accounts' = [j \in DOMAIN accounts \cup {i} |->
                      IF j = i THEN Account(e, role, FirstPhase(role))
                      ELSE accounts[j]]

SetPhase(i, phase) == accounts' = [accounts EXCEPT ![i].phase = phase]

Complete(i) ==
    /\ accounts[i].phase = "pending"
    /\ SetPhase(i, "enabled")

StaffOnDuty == \E i \in DOMAIN accounts :
                  accounts[i].role \in Staff /\ accounts[i].phase = "enabled"

Switch(i, phase) ==
    /\ StaffOnDuty
    /\ accounts[i].role \in Workers
    /\ accounts[i].phase \in {"enabled", "disabled"} \ {phase}
    /\ SetPhase(i, phase)

Next ==
    \/ \E i \in DOMAIN accounts', e \in Emails, role \in Workers \cup Staff :
          Open(i, e, role)
    \/ \E i \in DOMAIN accounts :
          \/ Complete(i)
          \/ Switch(i, "enabled")
          \/ Switch(i, "disabled")

Spec == Init /\ [][Next]_accounts
=============================================================================
