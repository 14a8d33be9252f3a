SPECIFICATION SafeSpec
CONSTANTS
    w1 = w1  w2 = w2
    t1 = t1  t2 = t2  t3 = t3
    o1 = o1  o2 = o2  o3 = o3
    b1 = b1
    Workers = {w1, w2}
    Tasks = {t1, t2, t3}
    WorkerOf <- MCWorkerOf
    Bases = {b1}
    Originals = {o1, o2, o3}
    NoRow = NoRow
    NoTask = NoTask
    MaxTries = 2
SYMMETRY OriginalSymmetry
INVARIANTS TypeOK IssuedResolve OnePlaceholder ExhaustedIsFull
PROPERTY Refines
