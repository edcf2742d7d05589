SPECIFICATION Spec
CONSTANTS
    Clients = {c1, c2}
    Tenants = {t1, t2}
    Nobody = nobody
    Revocable = {"update", "status", "log"}
    MaxChanges = 2
SYMMETRY Symmetry
INVARIANTS
    TypeOK
    TenantsApart
    KeepsTenant
    AllowedOnly
    VoidIsRefused
    AnswersTrue

