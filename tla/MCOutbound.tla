------------------------------- MODULE MCOutbound -------------------------------
(* Ann owns two Profile Rooms, one of each identity; Bob is a guest with a  *)
(* shadow identity whose access may be taken away.  Something is said, then *)
(* it is answered, edited, confirmed, announced or redacted, twice.         *)
EXTENDS Outbound

AnnAndBob == {"ann", "bob"}
Identities == {"ann1", "ann2", "bob1"}
TheirIdentities == [u \in AnnAndBob |-> IF u = "ann" THEN {"ann1", "ann2"} ELSE {"bob1"}]
TheirOldest == [u \in AnnAndBob |-> IF u = "ann" THEN "ann1" ELSE "bob1"]
Room1And2 == {"room1", "room2"}
WhoseRoom == [r \in Room1And2 |-> IF r = "room1" THEN "ann1" ELSE "ann2"]
TheirFollowers == [a \in Identities |->
    CASE a = "ann1" -> {"fan"}
      [] a = "bob1" -> {"peer"}
      [] OTHER -> {}]
Guests == {"bob"}

Say(kind, u, room, of, names, enc) ==
    [kind |-> kind, user |-> u, room |-> room, of |-> of, names |-> names, enc |-> enc]

First ==
    {Say("post", "ann", "room1", 0, FALSE, enc) : enc \in BOOLEAN}
    \cup {Say("post", "ann", "room2", 0, FALSE, FALSE), Say("poll", "ann", "room1", 0, FALSE, FALSE),
          Say("post", "bob", "room1", 0, TRUE, FALSE), Say("reply", "bob", NoRoom, 0, FALSE, TRUE),
          Say("dm", "ann", NoRoom, 0, TRUE, FALSE), Say("chat", "bob", NoRoom, 0, FALSE, FALSE)}

About(i, kinds, users) ==
    {Say(k, u, NoRoom, i, FALSE, FALSE) : k \in kinds, u \in users}

Said == [i \in 1..MaxEvents |->
    CASE i = 1 -> First
      [] i = 2 -> About(1, {"redact", "confirm"}, AnnAndBob)
                  \cup About(1, {"edit", "reply"}, {"ann"})
                  \cup {Say("edit", "ann", NoRoom, 1, TRUE, TRUE)}
      [] OTHER -> About(1, {"close", "announce", "confirm", "edit"}, {"ann"})
                  \cup About(2, {"redact", "confirm"}, {"ann"})]

\* Votes in a poll of the peer's, which may close meanwhile.
Voted == [i \in 1..MaxEvents |->
    CASE i = 1 -> {Say("vote", "ann", NoRoom, 0, FALSE, FALSE)}
      [] i = 2 -> {Say("vote", u, NoRoom, 0, FALSE, FALSE) : u \in AnnAndBob}
      [] OTHER -> About(1, {"redact"}, {"ann"})]

SaidOrVoted == {Said, Voted}

\* One thing goes wrong at most.
OneTrouble == timeouts + crashes <= 1
================================================================================
