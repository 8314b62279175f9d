SPECIFICATION Spec
CONSTANTS
    Services = {s1, s2}
    Sections = {n1, n2}
    Titles = {t1, t2}
    Prices = {p1}
    Items = {i1, i2}
    Admins = {a1}
    Complete = {ok}
    Incomplete = {bad}
    None = None
    MaxEdits = 4
    Home = n1
INVARIANTS
    CatalogTypeOK
PROPERTIES
    PublishedAsPreviewed
    SourceAsConfirmed
    DiscoveryEnds
