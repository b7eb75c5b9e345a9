---------------------------- MODULE MCActivityLock ----------------------------
(* Model checking ActivityLock: three handlers, one activity id, two keys    *)
(* locked under it, and as many lock objects as keys plus one to be made     *)
(* while an old one is still around.                                         *)
EXTENDS ActivityLock, TLC

CONSTANTS t1, t2, t3, a1, p1, l1, l2, l3

MCTasks == {t1, t2, t3}
MCOuter == {a1}
MCInner == {p1}
MCLocks == {l1, l2, l3}
===============================================================================
