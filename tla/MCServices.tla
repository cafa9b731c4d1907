------------------------------ MODULE MCServices ------------------------------
(* Documents for TLC to forward, and what else a .cfg cannot write. *)
EXTENDS Services, TLC

Field(k, v) == [key |-> k, gap |-> <<"space">>, value |-> v]

Head2 == <<Field("transaction_id", Quoted("word")), Field("amount", <<"word">>)>>

Number  == <<"word">>
Escaped == <<"quote", "word", "backslash", "quote", "quote">>

\* A sensitive field before and behind one that is not, and two in a row; a text,
\* an empty text, a number and a text with an escaped quote.
Bodies ==
    {<<Field("pin", v), Field("note", Escaped)>> :
        v \in {Quoted("word"), <<"quote", "quote">>, Number, Escaped}}
    \cup {<<Field("note", v), Field("pin", Number)>> : v \in {Number, Escaped}}
    \cup {<<Field("cvv", v), Field("pin", Escaped)>> : v \in {Number, Escaped}}
    \cup {<<Field("pin", Quoted("injection"))>>}

\* Whole documents; one or the other required field missing; one that is too
\* long; and texts cut at the end.
MCDocuments ==
    {[fields |-> Head2 \o b, lost |-> 0] : b \in Bodies}
    \cup {[fields |-> <<Head2[i], Field("pin", Number)>>, lost |-> 0] : i \in {1, 2}}
    \cup {[fields |-> Head2 \o Head2 \o <<Field("note", Escaped)>>, lost |-> 0]}
    \cup {[fields |-> Head2 \o <<Field("pin", Escaped)>>, lost |-> n] : n \in 1..3}

MCSensitive == <<"pin", "cvv">>

Symmetry == Permutations(Threads) \cup Permutations(Accounts)

=============================================================================
