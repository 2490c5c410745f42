----------------------------- MODULE MCSession -----------------------------
EXTENDS Session, Functions

\* The next token depends on every layer and on the order of the tokens.
Weighted(s) == Len(s) + FoldFunction(LAMBDA x, y : x + y, 0, [i \in 1..Len(s) |-> i * s[i]])
Likely(seen) == 1 + (((Weighted(seen[1]) + 2 * Weighted(seen[2])) % 5) % 2)

Plain == [drafts |-> "none", layers |-> <<"delta", "kv">>]
DSpark == [drafts |-> "dspark", layers |-> <<"latent", "latent">>]
Mtp == [drafts |-> "mtp", layers |-> <<"delta", "kv">>]
Sliding == [drafts |-> "mtp", layers |-> <<"delta", "sliding">>]
AllModels == {Plain, DSpark, Mtp, Sliding}
ShortAndChunked == {<<1>>, <<2, 1, 1>>}
=============================================================================
