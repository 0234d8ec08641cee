SPECIFICATION Spec
CONSTANTS
    f1 = f1  f2 = f2
    Floods = {f1, f2}
    NoFlood = NoFlood
    Support <- OneOfTwo
    Sos = {s1, s2}
    NoSos = NoSos
    Teams = {t1, t2}
    NoTeam = NoTeam
    Procs = {p1, p2}
INVARIANTS LinkedBothWays OnMapIsApproved NobodyForgotten CasesCounted
PROPERTIES FinalStays
SYMMETRY Symmetry
