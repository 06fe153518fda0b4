\* Three runs of the client, at any time; answers that come in segments, runs that
\* are killed.
CONSTANTS
    c1 = c1
    c2 = c2
    c3 = c3
    Clients = {c1, c2, c3}
    CipherSize = 2
    AcatjSize = 1
    AnswerSet <- MCAnswerSet
    Faults = {"segments", "killed"}
SPECIFICATION Spec
SYMMETRY ClientSymmetry
INVARIANTS
    TypeOK
    ReadBackIsOneAnswer
    FileIsNewest
\* When all runs are over nothing happens.
CHECK_DEADLOCK FALSE
