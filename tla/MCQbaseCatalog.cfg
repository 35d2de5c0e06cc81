SPECIFICATION CatalogSpec
CONSTANTS
    Connections = {c1, c2, c3}
    Names = {n1, n2, n3}
    Copies = {1, 2, 3, 4}
    NULL = NULL
    CatalogSetups <- MCSetups
SYMMETRY Symmetry
INVARIANT TablesAreWhole
