--------------------------- MODULE MaterializedView ---------------------------
(***************************************************************************)
(* One materialized view of nexora-core/src/materialized_view.rs, as       *)
(* operators on a record: the rows in memory, the secondary index on their *)
(* value, and the rows in the control-plane store.  NoRow marks a key      *)
(* without a row.  Every operator is one critical section of the storage   *)
(* lock.                                                                   *)
(***************************************************************************)
CONSTANTS RowKey, RowValue, NoRow

NoRows == [k \in RowKey |-> NoRow]

EmptyIndex == [x \in RowValue |-> {}]

(* create_view, with an empty view and its definition stored.              *)
NewView == [rows |-> NoRows, index |-> EmptyIndex, stored |-> NoRows]

Keys(rows) == {k \in RowKey : rows[k] # NoRow}

Unindexed(v, k) == [x \in RowValue |-> IF v.rows[k] = x THEN v.index[x] \ {k} ELSE v.index[x]]

(* An upsert that leaves the key indexed under its old value.              *)
UpsertRowStale(v, k, x) ==
  [v EXCEPT !.rows[k] = x, !.index[x] = @ \cup {k}, !.stored[k] = x]

(* upsert_row: drop the old index entry, set the row, index and store it.  *)
UpsertRow(v, k, x) ==
  [v EXCEPT !.rows[k] = x,
            !.index = [Unindexed(v, k) EXCEPT ![x] = @ \cup {k}],
            !.stored[k] = x]

(* delete_row: nothing happens without a row.                              *)
DeleteRow(v, k) ==
  IF v.rows[k] = NoRow THEN v
  ELSE [v EXCEPT !.rows[k] = NoRow, !.index = Unindexed(v, k), !.stored[k] = NoRow]

IndexOf(rows) == [x \in RowValue |-> {k \in RowKey : rows[k] = x}]

(* replace_all: rows and index are rebuilt, in memory only.                *)
ReplaceAll(v, rows) == [v EXCEPT !.rows = rows, !.index = IndexOf(rows)]

(* load_from_store, on open.                                               *)
LoadView(v) == [v EXCEPT !.rows = v.stored, !.index = IndexOf(v.stored)]
=============================================================================
