-------------------------------- MODULE MCRelays --------------------------------
(* Amy, who follows the hosted room, posts; Ben answers the member.          *)
EXTENDS Relays

PageAndComment == {"page", "comment"}
Whose == [p \in PageAndComment |-> IF p = "page" THEN "amy" ELSE "ben"]
Answers == [p \in PageAndComment |-> IF p = "comment" THEN <<"m1", 1>> ELSE NoEvent]
AmyAndFay == {"amy", "fay"}
OneMessage == {"m1"}
AllKinds == Mirrored \cup Hosted

\* A restart or repeated request leaves room for two arrivals.
ThreeInAll == arrivals + troubles <= 3
=============================================================================
