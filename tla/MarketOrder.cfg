SPECIFICATION Spec
CONSTANTS
  Markets = {m1, m2}
  Slots = {0, 1, 2, 10}
  Seqs = {1, 2}
  Capacity = 4
SYMMETRY Symmetry
INVARIANTS PipelineTypeOK HeldOnce CursorWithinSeen
PROPERTIES DeliversInOrder
