CONSTANTS
    a = a
    b = b
    Leaf <- TwoLeaves
    MaxLeaves = 6
    NoBody = NoBody
SPECIFICATION Spec
INVARIANTS RootIsTreeHash ProofBindsLeaf RootDeterminesLeaves TrueReceiptVerifies VerifiedReceiptIsIncluded
PROPERTY ProofEnds
CHECK_DEADLOCK FALSE
