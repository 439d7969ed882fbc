-------------------------------- MODULE Queues --------------------------------
(***************************************************************************)
(* Queues without repetition and process trees, as sequences: what the     *)
(* circular lists and the sibling lists of pcb.c stand for.                *)
(***************************************************************************)
EXTENDS Integers, Sequences, FiniteSets, Functions

\* The sequence q without the members of K, in the order of q.
Without(q, K) ==
    LET kept == Range(q) \ K IN
    CHOOSE r \in [1 .. Cardinality(kept) -> kept] :
        /\ Range(r) = kept
        /\ \A i, j \in DOMAIN r : i < j =>
              \E k, l \in DOMAIN q : k < l /\ q[k] = r[i] /\ q[l] = r[j]

\* A set of processes that holds the children of all its members, where
\* kids[p] lists the children of p.
ChildClosed(kids, S) == \A p \in S : Range(kids[p]) \subseteq S

\* p and its descendants.
Descendants(kids, p) ==
    {x \in DOMAIN kids : \A S \in SUBSET DOMAIN kids :
                            p \in S /\ ChildClosed(kids, S) => x \in S}

\* p has an elder and a younger sibling.
IsMiddleChild(kids, p) ==
    \E q \in DOMAIN kids : \E i \in 2 .. Len(kids[q]) - 1 : kids[q][i] = p
===============================================================================
