SPECIFICATION Spec
CONSTANTS
    Actors = {a1, a2}
    Users = {u1, u2}
    Rooms = {r1, r2, r3}
    Names = {n1, n2}
    Events = {e1, e2, e3}
    Objects = {o1, o2}
    Families <- AllFamilies
    Tracked = 2
    Retention = 1
    MaxClock = 4
    Nil = Nil
INVARIANTS
    SameAnswers
    HistoryFollows
CHECK_DEADLOCK FALSE
