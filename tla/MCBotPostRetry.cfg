\* Does every attempt of post carry the payload?
SPECIFICATION Spec
CONSTANTS
    Attempts = 3
INVARIANTS
    RetryCarriesPayload
