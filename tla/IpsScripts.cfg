SPECIFICATION Spec
CONSTANTS
    a = a
    b = b
    rtl_block = rtl_block
    soc = soc
    None = None
    Ips <- MCIps
    Subs = {rtl_block}
    Domains = {soc}
    Words <- MCWords
    Techs <- MCTechs
    Databases <- MCDatabases
    Requests <- MCRequests
CHECK_DEADLOCK FALSE
INVARIANTS
    DepsHaveRules
    ReferencesDefined
    SkipFlagsHonoured
    NoUnboundLocal
