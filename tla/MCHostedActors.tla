----------------------------- MODULE MCHostedActors -----------------------------
(* Ann has a profile in her room and controls a second room with Bob, who    *)
(* joins the homeserver later and administers the bridge.                    *)
EXTENDS HostedActors

TheUsers == {"ann", "bob"}
TheMembers == {"ann"}
JustAnn == {"ann"}
TheAdmins == {"bob"}
TheHandles == {"ann", "bob"}
NoNames == {}
HomeAndClub == {"home", "club"}
Made == {"new1"}
AnnAtHome == [n \in JustAnn |-> "home"]
WhoControls == [r \in HomeAndClub |-> IF r = "home" THEN JustAnn ELSE TheUsers]
=============================================================================
