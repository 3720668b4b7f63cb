SPECIFICATION Spec
CONSTANTS
    Tasks = {t1}
    Requests = {url, launch}
    Ids = {i1, i2}
    Actions = {first, second}
    ActionsOf <- MCOwnAction
    UrlRequests = {url}
    DomainsOf <- MCDomainsOf
    Domains = {open, site}
    Open = open
    None = None
    url = url
    launch = launch
    first = first
    second = second
    open = open
    site = site
SYMMETRY MCSymmetry
PROPERTIES OnlyLaunchMovesAllowlist
