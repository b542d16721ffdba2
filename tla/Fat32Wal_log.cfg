CONSTANTS
  Lba = {l1, l2}
  NoLba = NoLba
  Image = {zero, a, b}
  Zero = zero
  RawLba = {l2}
  WalMax = 2
SPECIFICATION FairSpec
INVARIANTS
  RecoveryAtomic
  
  
PROPERTY BootCompletes
