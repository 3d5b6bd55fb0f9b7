SPECIFICATION Spec
CONSTANT LayerCounts <- MCLayerCounts
INVARIANTS
    TypeOK
    NeverFails
    CopiesOrdered
    AtMostTwoGroups
