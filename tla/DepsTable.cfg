CONSTANT Formulas <- MCFormulas
SPECIFICATION Spec
INVARIANT TypeOK
INVARIANT ResolvedMatchesTable
