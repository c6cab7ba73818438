SPECIFICATION JobsSpec
CONSTANTS
    r1 = r1
    r2 = r2
    r3 = r3
    r4 = r4
    r5 = r5
    q1 = q1
    q2 = q2
    q3 = q3
    q4 = q4
    Row <- MCRow
    Stamp <- MCStamp
    MaxRetentionRows = 2
    DiskCanFill = FALSE
    FullRow <- MCFullRow
    FullMaxRetentionRows = 1
    SelectsBreakOff = TRUE
SYMMETRY RowSymmetry
INVARIANT JobsTypeOK
INVARIANT LossOnlyByTie
INVARIANT StoredMeansBackedUp
INVARIANT StoredKeepsMax
INVARIANT ObjectHoldsSnapshot
PROPERTY BackupOnlyGrows
