SPECIFICATION Spec
CONSTANT Problems <- MCProblems
CONSTANT Gamma <- MCGamma
CONSTANT Epsilon <- MCEpsilon
INVARIANT FormulasAlike
INVARIANT SameOdds
INVARIANT StateExpected
PROPERTY PassIsGreedy
