CONSTANTS
    e1 = e1
    e2 = e2
    e3 = e3
    NullPtr = NullPtr
    link = link
    Slots <- OneLink
    Null <- NullPtr
    Elems <- ThreeElems
SPECIFICATION Spec
INVARIANT InQueueIffReachable
