\* The selections of four families of inputs, in batches of two records.
SPECIFICATION Spec
CONSTANT Coord <- MCCoord
CONSTANT Mode <- MCMode
CONSTANT Input <- MCInput
CONSTANT BoardIds <- MCBoards
CONSTANT Priority <- MCPriority
CONSTANT NoScore <- None
CONSTANT PoolMultiplier = 2
CONSTANT BatchSize = 2
INVARIANT SeatsAreFair
INVARIANT ReserveIsReference
INVARIANT ShortfallHasCause
