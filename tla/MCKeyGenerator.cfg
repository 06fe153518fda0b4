\* The search and the matrix it fills, for deployments of up to seven servers.
CONSTANT Deployments <- MCDeployments
SPECIFICATION Spec
INVARIANTS
    TypeOK
    RowsDoNotOverflow
    EachKeyHasTHolders
    FinalMatrixIsOmega
    NChooseKCountsSubsets
\* The search ends with its stack empty.
CHECK_DEADLOCK FALSE
