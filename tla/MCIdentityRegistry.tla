-------------------------- MODULE MCIdentityRegistry --------------------------
(* Model checking IdentityRegistry.  alice has a shadow identity from before *)
(* active_identity; bob's default name is one alice may claim, as a          *)
(* third-party user's can be.                                                *)
EXTENDS IdentityRegistry, TLC

CONSTANTS alice, bob, chat, beside, own, new

MCUsers == {alice, bob}
MCUsernames == {"alice", "bob", "bob_2"}
MCDefault == (alice :> "alice") @@ (bob :> "bob")
MCSuffixed == (alice :> "alice") @@ (bob :> "bob_2")
MCClaimable == (alice :> {"bob"}) @@ (bob :> {})
MCOwnRooms == {own}
MCBridgeRooms == {new}
MCLegacy == {alice}

\* The transaction being handled, and whatever runs beside it.
MCTasks == {chat, beside}
MCRuns == [t \in MCTasks |-> Kinds]

\* Bound: nothing is explored beyond the second meeting.
OneMeeting == Cardinality(raced) + Cardinality(crossed) <= 1

\* Either task may do anything.
Symmetry == Permutations(MCTasks)
===============================================================================
