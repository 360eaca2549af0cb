SPECIFICATION Spec
CONSTANTS
    f1 = f1
    f2 = f2
    r1 = r1
    r2 = r2
    k1 = k1
    None = None
    Fills <- MCFills
    Revalidations <- MCRevalidations
    Keys <- MCKeys
    MaxObject = 3
    MaxFill = 4
    Lengths <- MCLengths
    Chunks <- MCChunks
SYMMETRY Symmetry
INVARIANTS FillsAccounted CompleteObjectsOnly PairsAreOfOneResponse
