----------------------------- MODULE MCTransports -----------------------------
(***************************************************************************)
(* Transports for TLC: every operation, made four times over by an owner,  *)
(* a worker, strangers, those they register, and callers unidentified.     *)
(***************************************************************************)
EXTENDS MCAuthService, Transports

WirePasswords == {"good", "long", "weak", "empty"}
WireWeakPasswords == {"weak", "empty"}
WireLongPasswords == {"long"}
WireDigest == [p \in WirePasswords |->
                 CASE p = "good" -> "$good" [] p = "long" -> "$other" [] OTHER -> "$weak"]

\* Too short for the HTTP schema, and no address; too long for it, and for its
\* column, but an address to gRPC.
WireAddresses == MCAddresses \cup {"vast"}
WireEmails == MCEmails \cup {"vast"}
WireCanonical == [a \in WireAddresses |-> IF a = "vast" THEN a ELSE MCCanonical[a]]
WireMissized == {"broken", "vast"}
WireWideEmails == {"vast"}
WireCollated == [e \in WireEmails |-> IF e = "n~ew" THEN "new" ELSE e]

IPv4 == [host |-> "127.0.0.1", peer |-> <<"ipv4", "127.0.0.1", "51234">>]
IPv6 == [host |-> "::1", peer |-> <<"ipv6", "[", "", "1]", "51234">>]
MCClients == {IPv4}
AllClients == {IPv4, IPv6}

WireInputs ==
    {Call(op, 2, "WORKER") : op \in {"me", "logout"}} \cup
    {[Blank EXCEPT !.op = "update"],
     Register("NEW ", "good", "WORKER", "fits"), Register("n~ew", "good", "OWNER", "none"),
     Register("new", "good", "WORKER", "wide"), Register("new", "good", "WORKER", "padded"),
     Register("new", "weak", "OWNER", "none"), Register("new", "good", "WORKER", "none"),
     Register("new", "good", "UNSPECIFIED", "fits"),
     Register("vast", "good", "OWNER", "none"),
     Login("new", "good"), Login("worker", "good"), Login("worker", "empty"),
     Login("broken", "good"), Login("vast", "long"),
     [Login("worker", "good") EXCEPT !.agent = "wide"],
     Update(1, "OWNER", 2, "DISABLED"), Update(1, "OWNER", 2, "ON_DUTY"),
     Update(1, "OWNER", 0, "DISABLED"), Update(2, "WORKER", 0, "DISABLED")}
================================================================================
