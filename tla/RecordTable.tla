----------------------------- MODULE RecordTable ------------------------------
(* What the write actions of a viewset promise of its table: each successful*)
(* one takes effect at one moment, on the rows as they are at that moment,  *)
(* and an update leaves every field it does not state as it finds it        *)
(* (docs/guide/list-pipeline.md, "Updates under a row lock").               *)
CONSTANTS Keys, Columns, None, Updates, Acceptable(_)

VARIABLES tbl, whole

TableInit == \A k \in Keys : tbl[k] # None => Acceptable(tbl[k])

Stated(row, fields) == [c \in Columns |-> IF c \in DOMAIN fields THEN fields[c] ELSE row[c]]

(* An update writes all of its rows; a viewset that cannot roll back may    *)
(* write some of them, and is not asked whether they are acceptable.        *)
Write(update, keys) ==
    /\ \A k \in keys : tbl[k] # None
    /\ whole => /\ keys = DOMAIN update
                /\ \A k \in keys : Acceptable(Stated(tbl[k], update[k]))
    /\ tbl' = [k \in Keys |-> IF k \in keys THEN Stated(tbl[k], update[k]) ELSE tbl[k]]

(* New rows; a mapping in memory lets one replace the row that has its key. *)
Add(keys) ==
    /\ \A k \in keys : (whole => tbl[k] = None) /\ tbl'[k] # None /\ Acceptable(tbl'[k])
    /\ \A k \in Keys \ keys : tbl'[k] = tbl[k]

(* Without transactions rows go one at a time; in memory all at once.       *)
Delete(keys) ==
    /\ \A k \in keys : tbl'[k] = None
    /\ \A k \in Keys \ keys : tbl'[k] = tbl[k]

TableNext ==
    /\ whole' = whole
    /\ \/ \E update \in Updates : \E keys \in SUBSET DOMAIN update : Write(update, keys)
       \/ \E keys \in SUBSET Keys : Add(keys) \/ Delete(keys)

TableSpec == TableInit /\ [][TableNext]_<<tbl, whole>>
=============================================================================
