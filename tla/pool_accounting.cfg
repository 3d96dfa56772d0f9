SPECIFICATION Spec
CONSTANTS
    f1 = f1
    f2 = f2
    f3 = f3
    n1 = n1
    n2 = n2
    NoConn = NoConn
    Streams = {f1, f2, f3}
    Conns = {n1, n2}
    MaxIdleConns = 1
    MaxOpenConns = 2
    ConnMaxIdleTime = 1
    ConnMaxLifetime = 2
    MaxTime = 2
INVARIANTS
    TypeOK
    CounterIsExact
    NeverShared
    NoLeak
    WithinLimit
PROPERTIES
    ImplementsLease
SYMMETRY Symmetry
CHECK_DEADLOCK FALSE
