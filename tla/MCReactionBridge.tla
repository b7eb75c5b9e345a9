---------------------------- MODULE MCReactionBridge ----------------------------
(* Model checking ReactionBridge: ann, who was given a shadow identity before    *)
(* she made her profile, and may lose the permission to federate, reacts as      *)
(* either and redacts; mod, who has a shadow identity, only redacts (reactions   *)
(* by mod behave as ann's do).                                                   *)
EXTENDS ReactionBridge, TLC

CONSTANTS ann, mod, profile, shadow, other

MCUsers == {ann, mod}
MCActors == {profile, shadow, other}
MCOwn == (ann :> {shadow, profile}) @@ (mod :> {other})
MCOldest == (ann :> shadow) @@ (mod :> other)
MCHasRoom == {profile}
MCReactors == {ann}

\* A give-up and a restart together come only around reposts that have a card,
\* whose handlers have the most steps.
TroublesApart ==
    timeouts + crashes = 2 =>
        \A a \in issued : a.actor = profile /\ stream[a.pos].kind = "repost"
================================================================================
