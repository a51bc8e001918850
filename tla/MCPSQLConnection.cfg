SPECIFICATION Spec
CONSTANTS
    Timeouts = {0, 2}
    MaxResults = 2
INVARIANTS OwnAnswer NamesAgree LosesAtMostOne
PROPERTIES ReadyAgain CallsEnd
