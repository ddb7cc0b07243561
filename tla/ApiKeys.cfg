\* Two administrators rotate the key while the process fails and restarts.
CONSTANTS
    Admins = {a1, a2}
    Main = Main
    MaxKey = 4
SPECIFICATION Spec
SYMMETRY AdminSymmetry
INVARIANTS
    TypeOK
    ReplacedKeyStaysDead
    AcceptedKeyIsKnown
PROPERTIES
    LoneRotationIsKept
