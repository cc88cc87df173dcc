-------------------------------- MODULE Clocks --------------------------------
(***************************************************************************)
(* datetime.now(UTC) on the replicas of the service: one true time, of     *)
(* which each replica's clock shows a little more.                         *)
(***************************************************************************)
EXTENDS Naturals

CONSTANTS
    Replicas,
    Ahead,      \* how far each replica's clock is ahead of true time
    MaxSkew,    \* the most any clock is
    Epochs,     \* the readings of true time a behaviour may begin at
    MaxTime     \* bounds true time

ASSUME ClockAssumption ==
    /\ Replicas # {}
    /\ MaxSkew \in Nat /\ MaxTime \in Nat /\ Epochs \subseteq 0..MaxTime
    /\ Ahead \in [Replicas -> 0..MaxSkew]

VARIABLE now    \* true time

Clock(p) == now + Ahead[p]

Tick ==
    /\ now < MaxTime
    /\ now' = now + 1
=============================================================================
