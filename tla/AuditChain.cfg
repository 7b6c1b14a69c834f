SPECIFICATION AuditSpec
CONSTANT
    Inserts = {i1, i2, i3}
INVARIANT
    HonestLogVerifies
