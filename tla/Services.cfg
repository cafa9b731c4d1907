\* Two threads make five calls among them, of any kind, in any order: enough for
\* a target added, switched, removed and two transactions forwarded, three accounts
\* asked for, or three payments expected and two cycles.
CONSTANTS
    Threads = {t1, t2}
    MaxCalls = 5
    Kept = 2
    Words = {"word", "note", "pin", "cvv"}
    SensitiveFields <- MCSensitive
    MaxLength = 40
    TargetIds = {g1, g2}
    Documents <- MCDocuments
    Txs = {x1, x2}
    Students = {s1}
    Accounts = {a1, a2, a3}
    NoAccount = none
    Refs = {"STUDENT-12345", "STUDENT-99999"}
    MaxExpected = 3
SPECIFICATION Spec
INVARIANTS TypeOK AnswerTells CleanedExactly AccountsPerStudent SettledByDeposits
PROPERTY SentWhileOn
CHECK_DEADLOCK FALSE
SYMMETRY Symmetry
