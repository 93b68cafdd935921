SPECIFICATION MCSpec
CONSTANTS
    Sizes = {1, 3}
    BufferBound = 4
INVARIANTS WrittenIsRead DamageIsLocal
