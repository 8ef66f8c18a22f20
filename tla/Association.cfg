\* Two Controllers, three certificates and two recovery codes: enough for a
\* pairing, a recovery and a rotation of the device to meet a rotation of the
\* code, with a restart, a revocation and an expiry among them.
SPECIFICATION Spec
CONSTANTS
    Controllers = {k1, k2}
    NoController = none
    MaxCerts = 3
    MaxCodes = 2
    MaxStarts = 2
    MaxRevoked = 1
    MaxLapses = 1
SYMMETRY Symmetry
INVARIANTS
    RecoveryCodeWorks
PROPERTIES
    ActivatedIsHeld
CHECK_DEADLOCK FALSE
