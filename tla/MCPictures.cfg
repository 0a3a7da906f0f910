CONSTANTS
    d1 = d1
    e = e
    m = m
    a1 = a1
    a2 = a2
    None = None
    Invalid = Invalid
    Worker = Worker
    Script = Script
    Requests = {r1}
    Domains = {d1}
    Subdomains = {d1}
    Deprecated = {}
    Custom = {}
    Animals = {}
    Pictures = {e, m}
    EthPictures = {e}
    Addresses = {a1, a2}
    Owners <- MCOwners
    Holders <- MCHolders
    OldFiles <- MCOldFiles
    Named <- MCNamed
SPECIFICATION FairSpec
INVARIANTS TypeOK PlainWithOverlaid StoredVerified AnsweredWithPicture
PROPERTIES ScriptFixes EventuallyAnswered
