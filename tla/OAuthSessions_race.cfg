CONSTANTS
    c1 = c1
    c2 = c2
    c3 = c3
    s1 = s1
    a2 = a2
    a1 = a1
    Callers = {c1, c2, c3}
    States = {s1}
    Accounts = {a1, a2}
    Nobody = nobody
    NoAccount = noAccount
SPECIFICATION LiveSpec
INVARIANTS
    OneWinner
    TablesAgree
PROPERTIES
    OutcomeIsFinal
    CallsReturn
