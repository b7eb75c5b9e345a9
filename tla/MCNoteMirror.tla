----------------------------- MODULE MCNoteMirror -----------------------------
(* Model checking NoteMirror.  The posts: n1, by the followed author alice,  *)
(* arrives by Create and by an Announce; n3, by carol whom nobody here       *)
(* knows, by two Announces.  In each scenario three deliveries arrive, *)
(* in any order: copies, an Undo or a Delete among what it may overtake.     *)
EXTENDS NoteMirror, TLC

CONSTANTS n1, n3, alice, bob, carol

MCNotes == {n1, n3}
MCActors == {alice, bob, carol}
MCAuthorOf == (n1 :> alice) @@ (n3 :> carol)
MCDeliveries == 1..3

\* activity -> <<kind, post, sender, undone Announce>>
Table ==
    ("create1" :> <<"Create", n1, alice, "">>) @@
    ("boost1" :> <<"Announce", n1, bob, "">>) @@
    ("undo1" :> <<"Undo", n1, bob, "boost1">>) @@
    ("delete1" :> <<"Delete", n1, alice, "">>) @@
    ("boost1c" :> <<"Announce", n1, carol, "">>) @@
    ("undo1c" :> <<"Undo", n1, carol, "boost1c">>) @@
    ("boost3" :> <<"Announce", n3, bob, "">>) @@
    ("boost3a" :> <<"Announce", n3, alice, "">>) @@
    ("undo3" :> <<"Undo", n3, bob, "boost3">>) @@
    ("delete3" :> <<"Delete", n3, carol, "">>) @@
    ("delete3x" :> <<"Delete", n3, bob, "">>)

MCActivities == DOMAIN Table
MCKind == [a \in MCActivities |-> Table[a][1]]
MCNoteOf == [a \in MCActivities |-> Table[a][2]]
MCActorOf == [a \in MCActivities |-> Table[a][3]]
MCAnnounceOf == [a \in MCActivities |-> Table[a][4]]
MCFollowed == {alice, bob}

Scenarios == {
    <<"create1", "boost1c", "undo1c">>,
    <<"boost1", "boost1", "create1">>,
    <<"create1", "create1", "delete1">>,
    <<"create1", "boost1", "delete1">>,
    <<"create1", "boost1", "undo1">>,
    <<"boost3", "boost3", "undo3">>,
    <<"boost3", "boost3a", "delete3">>,
    <<"boost3", "boost3a", "delete3x">> }
===============================================================================
