SPECIFICATION Spec
CONSTANTS
    t1 = t1
    t2 = t2
    bad = bad
    Text <- MCText
    Broken <- MCBroken
    Id = {i1, i2, i3}
    MaxSessions = 1
    Lengths = {2}
    Call = {c1, c2}
    Values <- MCValues
    None = None
    Refused = Refused
SYMMETRY Symmetry
INVARIANTS PageInv OfferedAsParsed ExactWhenCalm ShowsAnEvent ShowsSource ColoursAsScanned
