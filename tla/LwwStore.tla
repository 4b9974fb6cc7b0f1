------------------------------ MODULE LwwStore ------------------------------
(***************************************************************************)
(* What the sync store promises, apart from how the server keeps it: rows  *)
(* that only ever change by whole batches of writes, each batch merged at  *)
(* once with the rule "the newest updated_at wins", and by purges that     *)
(* remove rows with the account that owned them.  Concurrent pushes have   *)
(* no other effect than such batches one after the other.                  *)
(***************************************************************************)
EXTENDS Naturals

CONSTANTS
    Key,      \* primary keys of the synchronised rows
    Row,      \* what a row holds: [parent, at, deleted]
    NoRow,    \* the key has no row
    Batches   \* the sets of writes that may arrive, each [key, parent, at, deleted]

VARIABLE store

TypeOK == store \in [Key -> Row \union {NoRow}]

Init == store = [k \in Key |-> NoRow]

Newer(old, w) == old = NoRow \/ old.at < w.at

\* The writes of W to key k that no other write of W to k is newer than.
Newest(W, k) ==
    {w \in W : w.key = k /\ \A v \in W : v.key = k => v.at <= w.at}

\* Who owns the row of key k after W: whoever did, or a writer that created it.
Parents(old, W, k) ==
    IF old = NoRow THEN {w.parent : w \in {v \in W : v.key = k}} ELSE {old.parent}

(***************************************************************************)
(* Key k may hold row after W is merged into old.  There is more than one  *)
(* such row only when W holds several writes to k: of two with the same    *)
(* updated_at either may win, and either may have created the row.         *)
(***************************************************************************)
Merges(old, W, k, row) ==
    IF \A w \in W : w.key = k => ~ Newer(old, w)
    THEN row = old
    ELSE \E p \in Parents(old, W, k), w \in Newest(W, k) :
             row = [parent |-> p, at |-> w.at, deleted |-> w.deleted]

Apply(W) ==
    /\ store' = [k \in Key |-> store'[k]]
    /\ \A k \in Key : Merges(store[k], W, k, store'[k])

Purge(K) == store' = [k \in Key |-> IF k \in K THEN NoRow ELSE store[k]]

Next ==
    \/ \E W \in Batches : Apply(W)
    \/ \E K \in SUBSET Key : Purge(K)

Spec == Init /\ [][Next]_store

-----------------------------------------------------------------------------
(***************************************************************************)
(* A row that stays never gets older, never moves to another owner or car, *)
(* and is not rewritten without a newer updated_at.                        *)
(***************************************************************************)
NewestWins ==
    [][\A k \in Key : store[k] # NoRow /\ store'[k] # NoRow =>
         /\ store[k].at <= store'[k].at
         /\ store'[k].parent = store[k].parent
         /\ store[k].at = store'[k].at => store'[k] = store[k]]_store
=============================================================================
