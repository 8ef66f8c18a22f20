\* Three phrases, two documents and four snapshot names: an initialization that
\* is tried again, a change of phrase that fails and one that follows it.
SPECIFICATION VaultSpec
CONSTANTS
    MaxPhrases = 3
    MaxDocuments = 2
    MaxNames = 4
INVARIANTS
    VaultOpens
    StoredSurvives
