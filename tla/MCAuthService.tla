---------------------------- MODULE MCAuthService ----------------------------
(***************************************************************************)
(* Small instances of AuthService for TLC.  The seeds are an owner (id 1)  *)
(* and a worker (id 2), who may lack the profile; id 3 is the first free.  *)
(***************************************************************************)
EXTENDS AuthService, TLC

CONSTANTS r1, r2, r3, r4

MCRequests == {r1, r2, r3}
MCFourRequests == {r1, r2, r3, r4}
Symmetry == Permutations(MCRequests)
FourSymmetry == Permutations(MCFourRequests)

\* Two spellings of one mailbox, a second one, and one without an "@".  "n~ew"
\* differs from "new" by an accent, which the database's collation ignores.
MCAddresses == {"new", "NEW ", "n~ew", "worker", "owner", "broken"}
MCEmails == {"new", "n~ew", "worker", "owner"}
MCCollated == [e \in MCEmails |-> IF e = "n~ew" THEN "new" ELSE e]
MCCanonical == [a \in MCAddresses |->
                  CASE a = "NEW "   -> "new"
                    [] a = "broken" -> NoEmail
                    [] OTHER        -> a]

MCPasswords == {"good", "other", "weak"}
MCWeakPasswords == {"weak"}
MCDigests == {"$good", "$other", "$weak"}
MCDigest == [p \in MCPasswords |->
               CASE p = "good" -> "$good" [] p = "other" -> "$other" [] OTHER -> "$weak"]

MCSeeds == <<[email |-> "owner",  password_hash |-> "$good", role |-> "OWNER"],
             [email |-> "worker", password_hash |-> "$good", role |-> "WORKER"]>>

-----------------------------------------------------------------------------
(* The calls.                                                              *)

Blank == [op |-> "me", address |-> "broken", password |-> "weak",
          role |-> "UNSPECIFIED", name |-> "none", agent |-> "fits",
          claim |-> NoClaim, target |-> NoUser, status |-> "UNSPECIFIED"]

Register(a, p, role, name) ==
    [Blank EXCEPT !.op = "register", !.address = a, !.password = p,
                  !.role = role, !.name = name]
Login(a, p) == [Blank EXCEPT !.op = "login", !.address = a, !.password = p]
Call(op, id, role) == [Blank EXCEPT !.op = op, !.claim = [id |-> id, role |-> role]]
Update(id, role, target, status) ==
    [Call("update", id, role) EXCEPT !.target = target, !.status = status]

\* E-mails an accent apart registered at the same time, and logged in to under
\* two spellings; the owner disables the worker that a registration creates.
RegistrationInputs ==
    {Register("new", "good", "WORKER", "fits"), Register("n~ew", "other", "OWNER", "none"),
     Register("new", "weak", "OWNER", "none"), Register("new", "good", "WORKER", "none"),
     Register("broken", "good", "OWNER", "none"), Register("new", "good", "UNSPECIFIED", "fits"),
     Login("NEW ", "good"), Login("new", "other"), Login("broken", "good"),
     Update(1, "OWNER", 3, "DISABLED"), Update(1, "OWNER", 3, "ON_DUTY")}

\* The worker is disabled and enabled again while it logs in and acts.
StatusInputs ==
    {Update(1, "OWNER", 2, "DISABLED"), Update(1, "OWNER", 2, "ON_DUTY"),
     Login("worker", "good"), Call("me", 2, "WORKER")}

\* Every operation, made with every kind of claim.
AccessInputs ==
    {Blank} \cup
    {Call(op, 2, "WORKER") : op \in {"me", "logout", "guard"}} \cup
    {Call("guard", 1, "OWNER"), Call("guard", 2, "OWNER"), Call("me", 9, "OWNER"),
     Login("worker", "other"), Login("new", "good"), Login("owner", "good"),
     Update(2, "WORKER", 1, "DISABLED"), Update(1, "OWNER", 1, "DISABLED"),
     Update(1, "OWNER", 2, "DISABLED"), Update(1, "OWNER", 2, "UNSPECIFIED"),
     Update(1, "OWNER", 9, "ON_DUTY"), Register("new", "good", "CUSTOMER_SERVICE", "none"),
     Update(3, "CUSTOMER_SERVICE", 2, "ON_DUTY")}
=============================================================================
