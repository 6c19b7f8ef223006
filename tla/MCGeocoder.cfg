\* Two callers, two keys that only Nominatim knows, one from the dictionary, and
\* two for the parser: two places and a bank of the river, and one place by three
\* names in two rules.
CONSTANTS
    Callers = {a, b}
    Nobody = Nobody
    Keys = {"street", "house", "square", "mall", "crossing"}
    Blank = "blank"
    Phrases = {"epitsentr", "tsentr", "maidan", "arsenal", "holosiiv", "shevchenkivsk", "pechersk", "darnyts", "left bank", "right bank"}
    KyivPoints <- MCKyivPoints
    RaionStems <- MCRaionStems
    LeftBank = {"left bank"}
    RightBank = {"right bank"}
    LeftRaions = {"darnytskyi"}
    RightRaions = {"holosiivskyi", "shevchenkivskyi", "pecherskyi"}
    Holds <- MCHolds
    Dictionary = {"square"}
    Places = {somewhere}
    Abroad = Abroad
    NotFound = NotFound
    Unknown = Unknown
    Error = Error
    Gap = 1
    Limit = 2
SPECIFICATION LiveSpec
INVARIANTS TypeOK OneASecond CacheTruthful FewRepeats NamedPlacesShown
PROPERTIES EveryCallEnds
