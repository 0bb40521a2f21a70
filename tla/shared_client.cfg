\* Two worker threads, one client.
CONSTANTS
    Threads = {t1, t2}
    Logins = {ann, bob}
    Registered = {ann}
    NotFound = notFound
    None = none
SPECIFICATION Spec
INVARIANT FoundIsAsked
