------------------------------- MODULE Lists --------------------------------
(***************************************************************************)
(* What loops over a vector pick out of it.                                *)
(***************************************************************************)
EXTENDS Integers, Sequences, SequencesExt, FiniteSetsExt

\* The items of s that are in S (a SelectSeq by a set).
Among(s, S) ==
    LET picked[i \in 0..Len(s)] ==
            IF i = 0 THEN <<>>
            ELSE IF s[i] \in S THEN Append(picked[i - 1], s[i]) ELSE picked[i - 1]
    IN picked[Len(s)]

\* The first item of s that is in S, where there is one.
FirstOf(s, S) == s[Min({i \in DOMAIN s : s[i] \in S})]
=============================================================================
