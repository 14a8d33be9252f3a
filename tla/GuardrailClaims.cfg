SPECIFICATION Spec
CONSTANTS
    r1 = r1  r2 = r2  t1 = t1  t2 = t2  x = x  s1 = s1  s2 = s2
    Requests = {r1}
    Terms = {t1, t2}
    Scopes = {s1, s2}
    ConfigScope = s1
    Unset = Unset
    Foreign = {x}
    Calls <- MCCalls
    Responses <- MCResponses
    SharedResult = FALSE
\* One at a time; the other is LogConsistent.
INVARIANT StreamedRestored
CHECK_DEADLOCK FALSE
