SPECIFICATION FairSpec
CONSTANTS
    dev = dev  google = google  Local = Local
    rich = rich  sub = sub  alice = alice
    x = x  y = y
    p1 = p1  p2 = p2
    idRich = idRich  idSub = idSub  idAlice = idAlice  idDevAlice = idDevAlice
    s1 = s1  s2 = s2  s3 = s3
    Null = Null
    Sessions = {s1, s2, s3}
    Providers = {Local, dev, google}
    Logins = {rich, sub, alice}
    Names = {x, y}
    Passwords = {p1, p2}
    UserIds = {idRich, idSub, idAlice, idDevAlice}
    DevId <- MCDevId
    LocalId <- MCLocalId
    Asks <- MCAsks
    Faults = {"cut", "answer", "google", "expire"}
INVARIANTS TypeOK OneAccountPerId TokenNamesItsAccount MemberIsLetIn SignupIsExclusive
PROPERTIES AccountsArePermanent EveryCallIsAnswered
\* Every session may have been answered: then nothing is left to do.
CHECK_DEADLOCK FALSE
