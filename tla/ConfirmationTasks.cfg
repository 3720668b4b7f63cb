SPECIFICATION Spec
CONSTANTS
    Tasks = {t1, t2}
    Requests = {url, launch}
    Ids = {i1, i2}
    Actions = {first, second}
    ActionsOf <- MCActionsOf
    UrlRequests = {url}
    DomainsOf <- MCDomainsOf
    Domains = {open, site}
    Open = open
    None = None
    url = url
    launch = launch
    first = first
    second = second
    open = open
    site = site
SYMMETRY MCSymmetry
INVARIANTS ReplayHasItsContext ReplayInv PageIsFresh
PROPERTIES AdoptionFollowsOutcome ApprovedRuns RunsOnce
CONSTRAINT MCScope
