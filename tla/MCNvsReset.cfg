SPECIFICATION FairSpec
CONSTANTS
    Pairings = {p1, p2, p3}
    None = None
    Used = {"session", "sync key", "latestsync"}
INVARIANTS NoMixing ForgottenStaysForgotten
PROPERTIES PromiseHolds ResetCompletes
