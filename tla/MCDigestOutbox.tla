-------------------------- MODULE MCDigestOutbox --------------------------
EXTENDS DigestOutbox, TLC

CONSTANTS m1, m2, c1, c2

OwnChats == (m1 :> c1) @@ (m2 :> c2)
MCBackoff == <<1, 2>>
Symmetry == Permutations(Pipelines)

============================================================================
