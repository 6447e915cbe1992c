SPECIFICATION Spec
CONSTANTS
    Images = {i1, i2}
    Secrets = {s1}
    Creds = {c1}
    NoCred = NoCred
    BadAuth = BadAuth
    DockerCred = NoCred
    Threads = {t1, t2}
    Clients = {a1, a2, a3, a4}
    Fetchers = {f1, f2, f3, f4}
    None = None
    Configs <- MCConfigs
    Works <- MCWorks
    Faults = {"network", "refused", "exchange", "size", "badRequest", "cancel"}
    MaxEvents = 1
    t1 = t1
    t2 = t2
    i1 = i1
    i2 = i2
SYMMETRY SameThreads
INVARIANTS OneExchangePerClient ResentWithNewToken
    ExchangesAreNotAnonymous KeychainSettles
CHECK_DEADLOCK FALSE
