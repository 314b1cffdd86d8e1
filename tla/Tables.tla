-------------------------------- MODULE Tables --------------------------------
(***************************************************************************)
(* What transactions of PostgreSQL see of each other's rows at READ          *)
(* COMMITTED, for tables whose rows are deleted and written again under the  *)
(* same identifiers.  A row is a record with the fields                      *)
(*   key   what its unique index is about,                                   *)
(*   born  the request that inserted it: an updated row is the same row, one *)
(*         inserted again under the same key is another.                     *)
(* A transaction has replaced or removed the rows in del, and the rows in    *)
(* ins are its own; nobody else sees either before it commits.               *)
(***************************************************************************)
EXTENDS Integers, FiniteSets

CONSTANTS
  Workers,   \* connections
  TableNames

VARIABLES
  db,        \* per table, the committed rows
  tx         \* per worker, the transaction it is in

SameRow(r, s) == r.key = s.key /\ r.born = s.born
None == [t \in TableNames |-> {}]

\* What a statement that begins now sees.
Visible(w, t) == (db[t] \ tx[w].del[t]) \cup tx[w].ins[t]
WithKey(w, t, key) == {r \in Visible(w, t) : r.key = key}

\* A statement that meets a row another transaction has replaced waits for the
\* end of that transaction, and goes on with what has become of the row.
\* The rows it is after are those it saw when it began.
Seen(w, rows) == IF tx[w].waiting THEN tx[w].seen ELSE rows
Replaced(w, t, r) == \E v \in Workers \ {w} : \E x \in tx[v].del[t] : SameRow(x, r)
Versions(w, t, rows) == {r \in Visible(w, t) : \E x \in rows : SameRow(x, r)}

\* A unique index makes an insert wait for whoever has inserted or removed the
\* key; what it finds afterwards may be a violation.
Contested(w, t, key) ==
  \E v \in Workers \ {w} : \E r \in tx[v].ins[t] \cup tx[v].del[t] : r.key = key

\* A transaction after it has removed rows of a table and written others.
Put(x, t, removed, written) ==
  [x EXCEPT !.del[t] = @ \cup (removed \cap db[t]),
            !.ins[t] = (@ \ removed) \cup written,
            !.waiting = FALSE, !.seen = {}]

Committed(w) == [t \in TableNames |-> Visible(w, t)]
=============================================================================
