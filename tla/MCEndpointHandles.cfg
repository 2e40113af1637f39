CONSTANT NumBuffs = 5
SPECIFICATION HandlesSpec
INVARIANT IInv
PROPERTY PoolSpec
