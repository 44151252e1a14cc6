SPECIFICATION Spec
CONSTANT Inputs <- MCInputs
INVARIANT
    FilterAsDocumented
