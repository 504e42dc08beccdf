\* Three challenges on two machines, with failures, a crash and records that go out of date.
CONSTANTS
    c1 = c1
    c2 = c2
    c3 = c3
    Machine = {m1, m2}
    Challenge = {c1, c2, c3}
    NoMachine = NoMachine
    ShortLived <- OneShortLived
    Ttl = 1
    MaxTime = 3
    MaxFailures = 1
    MaxCrashes = 1
SYMMETRY Symmetry
SPECIFICATION Spec
CHECK_DEADLOCK FALSE
INVARIANT OwnRecordsKept
PROPERTY AnsweredUnlessShadowed
