CONSTANTS
    b1 = b1
    b2 = b2
    b3 = b3
    c1 = c1
    c2 = c2
    NullBlock = NullBlock
    Blocks <- ThreeBlocks
    Callers <- TwoCallers
    Null <- NullBlock
    MaxHandles <- TwoHandles
SPECIFICATION Spec
INVARIANT TypeOK
INVARIANT RefCountIsHandles
