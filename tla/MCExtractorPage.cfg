CONSTANTS
    i1 = i1
    i2 = i2
    r1 = r1
    r2 = r2
    Items = {i1, i2}
    Services <- MCServices
    WfsItems <- MCServices
    Records = {r1, r2}
    RecordsOf <- MCRecordsOf
    Global = Global
    MaxResolution = 2
    LayersChecked = TRUE
    Emails = {e1}
    KnownEmail = NoEmail
    NoEmail = NoEmail
    Coarse = 2
    Typed = {0, 1}
    MaxClicks = 2
    MaxEdits = 1
    MaxForms = 2
SPECIFICATION Spec
INVARIANTS
    IInv
    CounterCountsAnswers
    OptionsFollowNodes
    ButtonComesBack
PROPERTIES
    OversizedIsAsked
    FormDeclaresJob
CHECK_DEADLOCK FALSE
