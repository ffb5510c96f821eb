CONSTANTS
    Zero <- MCZero
    FirstByteOne <- MCFirstByteOne
    Ids <- MCIds
    None = None
    MaxBoots = 2
    Sticks <- MCSticks
    Answers <- MCAnswers
    Selections <- MCSelections
    AirDamage <- MCAirDamage
    LineDamage <- MCLineDamage
SPECIFICATION LinkSpec
INVARIANTS
    NeverBoundToZero
    BindingSurvives
    FramesArriveIntact
    RecordsArriveIntact
PROPERTIES
    BindingIsImplemented
