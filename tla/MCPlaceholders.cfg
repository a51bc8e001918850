SPECIFICATION TextSpec
CONSTANTS
    Chars = {"nl", "slash", "ast", "dash", "squote", "dquote", "qm"}
    MaxLen = 6
INVARIANT Rewrites
