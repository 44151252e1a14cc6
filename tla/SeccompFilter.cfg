SPECIFICATION Spec
CONSTANT Inputs <- MCInputs
INVARIANTS
    TypeOK
    FilterSeesExactly
