SPECIFICATION Spec
CONSTANTS
    f1 = f1
    f2 = f2
    n1 = n1
    n2 = n2
    NoConn = NoConn
    Streams = {f1, f2}
    Conns = {n1, n2}
    MaxIdleConns = 1
    MaxOpenConns = 1
    ConnMaxIdleTime = 1
    ConnMaxLifetime = 2
    MaxTime = 1
PROPERTIES
    ReusedIsWritable

CHECK_DEADLOCK FALSE
