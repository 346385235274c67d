CONSTANTS
    j1 = j1  j2 = j2  h1 = h1  h2 = h2
    None = None
    Jobs = {j1}
    Handlers = {h1, h2}
SPECIFICATION FairSpec
INVARIANT NeverTwice
PROPERTIES ImplementsCommand ResultNotLost EveryCallAnswered
