SPECIFICATION FairSpec
CONSTANTS
    u1 = u1
    u2 = u2
    h1 = h1
    h2 = h2
    own = own
    ca = ca
    Conns = {1, 2}
    Urls <- TwoUrls
    Names <- TwoNames
    Certs <- TwoCerts
    Vouched = {ca}
    NoUrl = NoUrl
    NoCert = NoCert
    Layouts <- ThreeLayouts
    FailMax = 2
    Pause = 2
    CookieFits = 2
    MaxForms = 3
    MaxEvents = 2
INVARIANTS PinEarned
PROPERTIES  ServedAgain
CHECK_DEADLOCK FALSE
