--------------------------- MODULE Placeholders ---------------------------
(***************************************************************************)
(* ConvertPlaceholdersToPSQL() (sql/driver/psqlutils.cpp): turns every `?' *)
(* of a query that is not in a literal, an identifier or a comment into    *)
(* $1, $2, ... in one pass.  One step is one turn of its loop.             *)
(***************************************************************************)
EXTENDS Naturals, Sequences, FiniteSets, FiniteSetsExt

CONSTANTS Chars,    \* the characters of the input, of Special and others
          MaxLen    \* bound: its length

ASSUME LengthAssumption == MaxLen \in Nat

Special == {"nl", "slash", "ast", "dash", "squote", "dquote", "qm"}

VARIABLES in, i, out,
          inString, inQuotedIdentifier, inSingleLineComment, multiLineCommentDepth,
          paramPosCounter

modes == <<inString, inQuotedIdentifier, inSingleLineComment, multiLineCommentDepth>>
textVars == <<in, i, out, modes, paramPosCounter>>

TextInit ==
    /\ in \in UNION {[1..n -> Chars] : n \in 0..MaxLen}
    /\ i = 1 /\ out = <<>>
    /\ inString = FALSE /\ inQuotedIdentifier = FALSE
    /\ inSingleLineComment = FALSE /\ multiLineCommentDepth = 0
    /\ paramPosCounter = 1

At(t, j, c) == j <= Len(t) /\ t[j] = c
Pair(c, d) == At(in, i, c) /\ At(in, i + 1, d)

\* n characters are copied.
Copy(n) == i' = i + n /\ out' = out \o SubSeq(in, i, i + n - 1)

Code == ~inString /\ ~inQuotedIdentifier /\ ~inSingleLineComment /\ multiLineCommentDepth = 0

SingleLineComment ==
    /\ inSingleLineComment
    /\ inSingleLineComment' = (in[i] # "nl")
    /\ Copy(1)
    /\ UNCHANGED <<inString, inQuotedIdentifier, multiLineCommentDepth, paramPosCounter>>

\* Mutant: the star that opened a comment may close it (no i++).
OneChar == 1

PairLength == 2

MultiLineComment ==
    /\ multiLineCommentDepth # 0
    /\ IF Pair("slash", "ast") THEN Copy(PairLength) /\ multiLineCommentDepth' = multiLineCommentDepth + 1
       ELSE IF Pair("ast", "slash") THEN Copy(PairLength) /\ multiLineCommentDepth' = multiLineCommentDepth - 1
       ELSE Copy(1) /\ UNCHANGED multiLineCommentDepth
    /\ UNCHANGED <<inString, inQuotedIdentifier, inSingleLineComment, paramPosCounter>>

QuotedIdentifier ==
    /\ inQuotedIdentifier
    /\ inQuotedIdentifier' = (in[i] # "dquote")
    /\ Copy(1)
    /\ UNCHANGED <<inString, inSingleLineComment, multiLineCommentDepth, paramPosCounter>>

String ==
    /\ inString
    /\ inString' = (in[i] # "squote")
    /\ Copy(1)
    /\ UNCHANGED <<inQuotedIdentifier, inSingleLineComment, multiLineCommentDepth, paramPosCounter>>

(* What opens something is copied; so is any other character.              *)
OpenOrCopy ==
    /\ Code /\ in[i] # "qm"
    /\ inString' = (in[i] = "squote")
    /\ inQuotedIdentifier' = (in[i] = "dquote")
    /\ inSingleLineComment' = Pair("dash", "dash")
    /\ multiLineCommentDepth' = IF Pair("slash", "ast") THEN 1 ELSE 0
    /\ Copy(IF Pair("dash", "dash") \/ Pair("slash", "ast") THEN PairLength ELSE 1)
    /\ UNCHANGED paramPosCounter

DigitOf(n) == <<"0", "1", "2", "3", "4", "5", "6", "7", "8", "9">>[n + 1]

\* The loop writes the last digit first (for counters below 100).
Digits(n) == IF n < 10 THEN <<DigitOf(n)>> ELSE <<DigitOf(n % 10), DigitOf(n \div 10)>>

Positional == <<"$">> \o Digits(paramPosCounter)

Placeholder ==
    /\ Code /\ in[i] = "qm"
    /\ out' = out \o Positional
    /\ i' = i + 1
    /\ paramPosCounter' = paramPosCounter + 1
    /\ UNCHANGED modes

Done == i > Len(in)

TextNext ==
    /\ UNCHANGED in
    /\ \/ ~Done /\ (SingleLineComment \/ MultiLineComment \/ QuotedIdentifier \/ String
                     \/ OpenOrCopy \/ Placeholder)
       \/ Done /\ UNCHANGED textVars

TextSpec == TextInit /\ [][TextNext]_textVars

----------------------------------------------------------------------------
(* What SQL says of a text t, by the end of each token rather than by its  *)
(* insides.  A pair that opens or closes a comment, from p on, and none of *)
(* whose characters belongs to an earlier pair.                            *)
Opens(t, k) == At(t, k, "slash") /\ At(t, k + 1, "ast")
Closes(t, k) == At(t, k, "ast") /\ At(t, k + 1, "slash")
PairsFrom(t, p) ==
    LET isPair[k \in p..Len(t)] == (Opens(t, k) \/ Closes(t, k)) /\ (k = p \/ ~isPair[k - 1])
    IN  {k \in p..Len(t) : isPair[k]}

Opened(t, p, k) == {j \in PairsFrom(t, p) : j <= k /\ Opens(t, j)}
Closed(t, p, k) == {j \in PairsFrom(t, p) : j <= k /\ Closes(t, j)}
Balanced(t, p, k) == Cardinality(Opened(t, p, k)) = Cardinality(Closed(t, p, k))

CommentEnds(t, p) == {k + 2 : k \in {j \in PairsFrom(t, p) : Balanced(t, p, j)}}

EndsAfter(t, p, c) == {k + 1 : k \in {j \in (p + 1)..Len(t) : t[j] = c}}

EndsOf(t, p) ==
    CASE t[p] = "squote" -> EndsAfter(t, p, "squote")
      [] t[p] = "dquote" -> EndsAfter(t, p, "dquote")
      [] At(t, p, "dash") /\ At(t, p + 1, "dash") -> EndsAfter(t, p, "nl")
      [] Opens(t, p) -> CommentEnds(t, p)
      [] OTHER -> {p + 1}

TokenEnd(t, p) == Min({Len(t) + 1} \cup EndsOf(t, p))

Tokens(t) ==
    LET isStart[p \in 1..Len(t)] == p = 1 \/ \E q \in 1..(p - 1) : isStart[q] /\ TokenEnd(t, q) = p
    IN  {p \in 1..Len(t) : isStart[p]}

Marks(t) == {p \in Tokens(t) : t[p] = "qm"}

Decimal(n) == IF n < 10 THEN <<DigitOf(n)>> ELSE <<DigitOf(n \div 10), DigitOf(n % 10)>>

\* What becomes of the first p - 1 characters if those at marks are placeholders.
Numbered(t, marks) ==
    LET first[p \in 1..(Len(t) + 1)] ==
            IF p = 1 THEN <<>>
            ELSE first[p - 1] \o (IF p - 1 \in marks
                                  THEN <<"$">> \o Decimal(Cardinality({q \in marks : q < p}))
                                  ELSE <<t[p - 1]>>)
    IN  first

(* The placeholders are the `?' that are tokens: none in a literal, an     *)
(* identifier or a comment, and none is missed.  The k-th becomes $k, and  *)
(* nothing else is changed.                                                *)
Rewrites == Done => out = Numbered(in, Marks(in))[Len(in) + 1]

(* The result and its terminator fit the buffer of len*2+1 characters that *)
(* is allocated for them (psqlutils.cpp:162-166).                          *)
FitsBuffer == Len(out) + 1 <= 2 * Len(in) + 1
=============================================================================
