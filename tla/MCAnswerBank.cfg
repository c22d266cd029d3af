CONSTANTS
    t1 = t1
    t2 = t2
    yes = yes
    no = no
    None = None
    Tab = {t1, t2}
    Form = {f}
    Key <- MCKey
    Text <- MCText
    Canonical <- MCCanonical
    MeansKey <- MCMeansKey
    Filled <- MCFilled
    Answer = {yes, no}
    MaxSeen = 1
SPECIFICATION Spec
SYMMETRY Names
INVARIANTS
    TypeOK
    StoredAnswerWins
    AnsweredIsOffTheList
