SPECIFICATION Spec
CONSTANTS
    MaxEntries = 6
    MaxKey = 2
    MaxProofs = 2
    MaxSignatures = 1
INVARIANTS ProofsVerify ProofsBind RootShowsLength SignedRootsBind
