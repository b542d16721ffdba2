SPECIFICATION Spec
CONSTANTS
    Total = 9
    Aligns = {1, 2, 4}
INVARIANTS
    TypeOK
    CountExact
    SearchIsComplete
