------------------------------ MODULE MCBroker ------------------------------
(***************************************************************************)
(* Small instances of Broker: a snapshot of two messages, one of which     *)
(* carries the declaration, and a lone message that cannot be decoded.     *)
(***************************************************************************)
EXTENDS Broker, TLC

CONSTANTS b1, b2, r1, r2, s1

MCReplicas == {r1, r2}
MCSymmetry == Permutations(MCReplicas)

\* The snapshot and the malformed message.
MCBatches == {b1, b2}
MCSize == b1 :> 2 @@ b2 :> 1
MCScopeOf == <<b1, 1>> :> s1 @@ <<b1, 2>> :> NoScope @@ <<b2, 1>> :> NoScope
MCMalformed == {<<b2, 1>>}

\* The snapshot alone.
OneBatch == {b1}
OneSize == b1 :> 2
OneScopeOf == <<b1, 1>> :> s1 @@ <<b1, 2>> :> NoScope
=============================================================================
