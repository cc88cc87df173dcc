----------------------------- MODULE MCSeedUsers -----------------------------
(***************************************************************************)
(* SeedUsers with the three default accounts and two or three replicas.    *)
(* No request is served: Requests is empty.                                *)
(***************************************************************************)
EXTENDS SeedUsers

MCRequests == {}
MCEmails == {"admin001", "cs001", "worker.test"}
MCCanonical == [a \in MCEmails |-> a]
MCCollated == [e \in MCEmails |-> e]
MCPasswords == {"111111", "cs111111", "worker1234"}
MCDigest == [p \in MCPasswords |-> p]

MCSeeds == <<
    [email |-> "admin001",    password_hash |-> "111111",     role |-> "OWNER"],
    [email |-> "cs001",       password_hash |-> "cs111111",   role |-> "CUSTOMER_SERVICE"],
    [email |-> "worker.test", password_hash |-> "worker1234", role |-> "WORKER"]>>
=============================================================================
