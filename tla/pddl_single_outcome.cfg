SPECIFICATION Spec
CONSTANT Problems <- MCSingle
CONSTANT Gamma <- MCGamma
CONSTANT Epsilon <- MCEpsilon
INVARIANT StateExpected
