SPECIFICATION Spec
CONSTANTS
    Clients = {c1, c2}
    LockPages = 3
    Width = 4
    Filters <- MCFilters
    Setups <- MCSetups
SYMMETRY Symmetry
INVARIANTS PagesWellFormed CleanPageIsOnDisk NothingElseIsLost
PROPERTIES ReadIsRight PostedIsNext FlushedSurvives
