SPECIFICATION FairSpec
CONSTANTS
    Caller = {c1, c2}
    Key = {access, view1, view2}
    Access = access
    Nobody = Nobody
    MaxVersion = 2
INVARIANTS
    SingleFlight
    AnswersNeverGoBack
PROPERTIES
    RequestsReturn
