------------------------------- MODULE MCFollows -------------------------------
(* Model checking Follows: ann, who has two identities, and bob; a channel of   *)
(* theirs, a remote account, a remote community and a guild.                    *)
EXTENDS Follows, TLC

CONSTANTS ann, bob, main, alt, bobs, channel, rem, board, guild

MCOwnerOf == (main :> ann) @@ (alt :> ann) @@ (bobs :> bob)
MCOldestOf == (ann :> main) @@ (bob :> bobs)

Do(kinds, me, them) == {[kind |-> k, me |-> me, them |-> them] : k \in kinds}

\* Others follow us: a profile that may block, and a channel that may not.
Followed ==
    Do({"Follow", "Undo", "Block", "block", "unblock"}, main, rem)
    \cup Do({"Follow", "Undo", "Block"}, channel, rem)

\* We follow others: remote, local and a community; by two users, and by two
\* identities of one.
Following ==
    Do({"follow", "unfollow", "leave", "block", "Accept"}, main, rem)
    \cup Do({"follow", "unfollow"}, alt, rem)
    \cup Do({"follow"}, bobs, rem)
    \cup Do({"follow", "unfollow", "leave"}, main, bobs)
    \cup Do({"block"}, bobs, main)
    \cup Do({"follow", "block"}, main, board)

\* We join a guild, as two identities.
Joining ==
    Do({"joinguild", "leaveguild", "Accept", "Reject"}, main, guild)
    \cup Do({"joinguild", "Accept"}, alt, guild)

MCWorkloads == {Followed, Following, Joining}
MCLength == [W \in MCWorkloads |-> IF W = Joining THEN 4 ELSE 3]
FourSlots == 1..4
================================================================================
