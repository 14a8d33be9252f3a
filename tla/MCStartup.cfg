SPECIFICATION Spec
CONSTANTS
    p1 = p1
    p2 = p2
    bad = bad
    Spellings <- MCSpellings
    Lower <- MCLower
    Patterns = {p1, p2, bad}
    Compiles = {p1, p2}
    Blank = Blank
    Absent = Absent
    Malformed = Malformed
    None = None
    Workers = {w1, w2}
    Setups <- MCSetups
    Originals = {o1}
    MaxFaults = 2
INVARIANTS TypeOK ServingReady Private NoTermLost
PROPERTY EventuallyServes
