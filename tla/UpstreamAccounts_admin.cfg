CONSTANTS
    r1 = r1
    r2 = r2
    w1 = w1
    w2 = w2
    lower = lower
    upper = upper
    k1 = k1
    k2 = k2
    Replicas = {r1, r2}
    Workers = {w1, w2}
    Host <- MCHost
    Emails = {lower, upper}
    Fold <- MCFold
    Batch <- MCBatch
    NoEmail = noEmail
    MaxIds = 3
    MaxWrites = 3
    MaxTokens = 2
    MaxSubmits = 2
    MaxExported = 1
SPECIFICATION Spec
INVARIANTS
    CredentialSurvives
    DuplicatesWereUnseen
    BatchIsPrefix
    EveryAccountAudited
