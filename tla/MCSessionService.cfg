SPECIFICATION Spec
CONSTANTS
    m1 = m1
    m2 = m2
    m3 = m3
    Msg = {m1, m2, m3}
    Mixes <- Triples
    Title = {t1, t2}
    UserTitle = {t1}
    Compactions = TRUE
    Crashes = 0
    Failures = FALSE
    None = None
INVARIANT AcceptedExactlyOnce
INVARIANT FollowupsInOrder
INVARIANT SettleNeverWakesTornDown
INVARIANT StartFindsLogFree
INVARIANT TitlesInOrder
CONSTRAINT TitlesApart
