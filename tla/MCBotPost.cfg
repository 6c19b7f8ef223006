\* The notifier implements SendOnce, safety and liveness.
SPECIFICATION LiveSpec
CONSTANTS
    Attempts = 3
INVARIANTS
    OnceInv
PROPERTIES
    SendSpec
