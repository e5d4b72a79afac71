SPECIFICATION HSpec
CONSTANTS
    Caller = {c1, c2}
    Key = {access, view1}
    Access = access
    Nobody = Nobody
    MaxVersion = 2
INVARIANT InvalidationForcesReload
