\* Posts of up to four lines, in the Kyiv-only mode of the filter.
CONSTANTS
    news = news
    kyiv = kyiv
    region = region
    bank = bank
    regionCall = regionCall
    bankHandle = bankHandle
    plain = plain
    handle = handle
    credit = credit
    Blank = Blank
    NoSig = NoSig
    MaxLines = 4
    Lines <- MCLines
    Footers = {regionCall, bankHandle, handle}
    Words <- MCWords
    Says <- MCSays
    Sigs = {plain, handle}
    Ends <- MCEnds
    SkipPatterns = {bank}
    ExcludedRegions = {}
    NonKyivOblasts = {region}
    KyivPass = {kyiv}
    Posts <- MCPosts
SPECIFICATION Spec
INVARIANTS FooterDecidesNothing SentAsSigned RepostUnchanged
