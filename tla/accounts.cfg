\* Two clients who want the same login, and the login of a user; two attempts;
\* meanwhile somebody searches, with pages of one or of the largest int.
CONSTANTS
    c1 = c1
    c2 = c2
    Clients = {c1, c2}
    i0 = i0
    UserIds = {i0, i1, i2}
    Logins = {1, 2}
    Emails = {1, 2, 3}
    Passwords = {1, 2}
    Account <- Rivals
    Loaded <- OneUser
    Matching = {1, 2}
    Limits = {1, 7}
    IntMax = 7
    Faulty = TRUE
    None = none
SPECIFICATION SearchSpec
INVARIANTS
    TypeOK
    ConflictMeansTaken
    RegisteredIsKnown
    TokenMatchesPassword
    SearchMeetsEveryoneOnce
    SearchFailsOnlyIfGrown
PROPERTY ImplementsRegistry
SYMMETRY Symmetry
