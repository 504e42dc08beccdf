\* Two machines validate the same name at once.
CONSTANTS
    c1 = c1
    c2 = c2
    c3 = c3
    Machine = {m1, m2}
    Challenge = {c1, c2, c3}
    NoMachine = NoMachine
    ShortLived <- OneShortLived
    Ttl = 1
    MaxTime = 1
    MaxFailures = 1
    MaxCrashes = 0
SYMMETRY Symmetry
SPECIFICATION Spec
CHECK_DEADLOCK FALSE
PROPERTY AnyMachineAnswers
