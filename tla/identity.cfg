\* One account, in four instances: only pictures; an usher checked by document and by
\* capture; an usher with two captures; a business.
CONSTANTS
    k1 = k1  k2 = k2  j1 = j1  j2 = j2  p1 = p1
    Keys = {k1, k2}
    Jobs = {j1, j2}
    Procs = {p1}
    None = None
    MaxPhotos = 1
    Scopes <- Four
SPECIFICATION Spec
SYMMETRY Symmetry
INVARIANTS Consistent VerifiedIsEarned BusinessEarned AttachedKept NothingOrphaned
PROPERTY DecisionStands
