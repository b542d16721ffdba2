CONSTANTS
  Lba = {l1, l2}
  NoLba = NoLba
  Image = {zero, a}
  Zero = zero
  RawLba = {}
  WalMax = 2
SPECIFICATION Spec

INVARIANT CheckpointIsSafe
