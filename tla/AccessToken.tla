----------------------------- MODULE AccessToken -----------------------------
(***************************************************************************)
(* The access token of AuthService: what _issue_access_token writes into   *)
(* it, and when _decode_access_token lets it pass.                         *)
(*                                                                         *)
(* Clocks are read in ticks; a token holds whole seconds, rounded down by  *)
(* int().  Signature, issuer and audience are the same on every replica    *)
(* and only separate these tokens from others.  PyJWT compares the two     *)
(* times with the reader's clock; no leeway is configured.                 *)
(***************************************************************************)
EXTENDS Naturals

CONSTANTS
    TicksPerSecond,   \* how finely a clock is read
    TimeToLive        \* access_token_ttl_seconds

ASSUME TokenAssumption ==
    /\ TicksPerSecond \in Nat \ {0}
    /\ TimeToLive \in Nat

Lifetime == TimeToLive * TicksPerSecond

RoundedUp(t) ==   \* variant: math.ceil
    t + TicksPerSecond - (t % TicksPerSecond)

\* The last whole second at clock reading t, in ticks.
WholeSecond(t) == t - (t % TicksPerSecond)

UnspentToken(account, t) ==   \* variant: alive one second longer
    [sub |-> account.id, role |-> account.role,
     iat |-> WholeSecond(t), exp |-> WholeSecond(t) + Lifetime + TicksPerSecond]

IssueToken(account, t) ==
    [sub |-> account.id, role |-> account.role,
     iat |-> WholeSecond(t), exp |-> WholeSecond(t + Lifetime)]

Decodes(token, t) == token.iat <= t /\ t < token.exp
=============================================================================
