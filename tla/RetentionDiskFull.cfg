SPECIFICATION Spec
CONSTANTS
    r1 = r1
    r2 = r2
    r3 = r3
    r4 = r4
    r5 = r5
    Row <- MCRow
    Stamp <- MCStamp
    MaxRetentionRows = 2
    DiskCanFill = TRUE
SYMMETRY RowSymmetry
INVARIANT StoredMeansBackedUp
