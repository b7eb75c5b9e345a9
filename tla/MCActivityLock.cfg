SPECIFICATION LockSpec
CONSTANTS
    t1 = t1
    t2 = t2
    t3 = t3
    a1 = a1
    p1 = p1
    l1 = l1
    l2 = l2
    l3 = l3
    NoLock = NoLock
    NoHolder = NoHolder
    Tasks <- MCTasks
    Outer <- MCOuter
    Inner <- MCInner
    LockObjects <- MCLocks
INVARIANTS
    LockInv
PROPERTIES
    NoStarvation
    ImplementsKeyedMutex
