SPECIFICATION Spec
CONSTANTS
    Pri1 = 4
    Tcdm = 8
    NumBanks = 2
    NumWords = 4
    AddrWidth = 2
    WidthBytes = 1
    ByteWidth = 2
    Designs = {"prepared", "instrumented"}
    TaintWords = {{0, 1}}
    Content <- MCContent
    Masks <- MCMasks
    NumSections = 1
    MaxLen = 4
    Requests <- MCRequests
INVARIANT
    AddressesFollowed
