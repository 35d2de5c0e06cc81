SPECIFICATION RulesFairSpec
CONSTANTS
    IoThreads = {t1}
    Macs = {1, 2}
    Ips = {1, 2}
    Hosts = {1, 2}
    ExemptRules <- MCExempts
    NicRules <- MCCards
    ExLimit = 2
    NcLimit = 3
    MaxAdds = 3
INVARIANTS ShadowIsPrivate
PROPERTIES ClientIsRight ExemptIsRight FilterReturns
