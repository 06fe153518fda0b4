\* Is what a run saves what a later run reads back?
CONSTANTS
    c1 = c1
    c2 = c2
    c3 = c3
    Clients = {c1, c2}
    CipherSize = 2
    AcatjSize = 1
    AnswerSet <- MCAnswerSet
    Faults = {}
SPECIFICATION Spec
INVARIANT
    SavedIsReadBack
\* When all runs are over nothing happens.
CHECK_DEADLOCK FALSE
