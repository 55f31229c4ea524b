----------------------------- MODULE DatabaseDump -----------------------------
(***************************************************************************)
(* The dump of the database that an administrator downloads                *)
(* (services/db-export.service.ts): one read only transaction reads the    *)
(* catalogue and then one table after another, while other requests commit.*)
(*                                                                         *)
(* The script it makes is run by psql on an empty database: it creates the *)
(* tables, inserts the rows and adds the foreign keys at the end.  A row   *)
(* is its id, what each foreign key of its table points to and whether its *)
(* redacted columns carry anything; types, defaults and indexes are text.  *)
(***************************************************************************)
EXTENDS Integers, Sequences

CONSTANTS
    Tables,        \* in the order of the catalogue, by name
    ForeignKeys,   \* the foreign keys of the constraints, [tbl, ref]
    EXCLUDED_DATA, \* tables whose rows are not exported
    Redacted,      \* tables with columns that are exported as NULL
    Ids,
    Null

ASSUME DumpAssumption ==
    /\ Tables \in Seq(STRING)
    /\ \A i, j \in DOMAIN Tables : Tables[i] = Tables[j] => i = j
    /\ ForeignKeys \in Seq([tbl : {Tables[i] : i \in DOMAIN Tables},
                            ref : {Tables[i] : i \in DOMAIN Tables}])
    /\ Null \notin Ids

VARIABLES
    db,        \* the tables: rows by name
    snap,      \* the snapshot of the transaction, once it has one
    step,      \* the await the dump is at
    reading,   \* the table it reads, by position
    excluded,
    out        \* the statements of the script, in order

dumpVars == <<db, snap, step, reading, excluded, out>>

TableNames == {Tables[i] : i \in DOMAIN Tables}
KeysOf(t) == {k \in DOMAIN ForeignKeys : ForeignKeys[k].tbl = t}

RowsOf(t) ==
    [id : Ids, to : [KeysOf(t) -> Ids \cup {Null}],
     secret : IF t \in Redacted THEN BOOLEAN ELSE {FALSE}]

\* A row of t points to nothing that is not in d.
Points(d, t, r) ==
    \A k \in KeysOf(t) : r.to[k] # Null => \E q \in d[ForeignKeys[k].ref] : q.id = r.to[k]

\* What Postgres keeps at every commit: primary keys and foreign keys.
IsDatabase(d) ==
    /\ DOMAIN d = TableNames
    /\ \A t \in TableNames :
          /\ d[t] \subseteq RowsOf(t)
          /\ \A q, r \in d[t] : q.id = r.id => q = r
          /\ \A r \in d[t] : Points(d, t, r)

\* What is there when the dump begins others have committed.
DumpInit ==
    /\ db = [t \in TableNames |-> {}] /\ snap = db
    /\ step = "idle" /\ reading = 0 /\ excluded = {} /\ out = <<>>

-------------------------------------------------------------------------------
(* The awaits of generateDatabaseDump *)

\* Mutant: the transaction reads what is committed, each statement anew.
ReadCommitted(t) == db[t]

\* A table as the transaction sees it (REPEATABLE READ).
Read(t) == snap[t]

\* db.transaction and the list of tables, the first query: it takes the snapshot.
ListTables ==
    /\ step = "idle"
    /\ snap' = db /\ step' = "constraints"
    /\ UNCHANGED <<db, reading, excluded, out>>

\* The columns and the constraints, of a catalogue that no request changes.
ReadConstraints ==
    /\ step = "constraints"
    /\ excluded' = EXCLUDED_DATA /\ step' = "cascade"
    /\ UNCHANGED <<db, snap, reading, out>>

\* Mutant: no table is excluded because of another.
DependentOnNone == {}

\* The foreign keys that the loop has yet to follow.
Dependent == {k \in DOMAIN ForeignKeys :
                 ForeignKeys[k].ref \in excluded /\ ForeignKeys[k].tbl \notin excluded}

\* for (let changed = true; changed; ) ...: the loop ends when nothing is to be added.
Cascade ==
    /\ step = "cascade"
    /\ \E k \in Dependent : excluded' = excluded \cup {ForeignKeys[k].tbl}
    /\ UNCHANGED <<db, snap, step, reading, out>>

Statement(kind, t, rows, key) == [kind |-> kind, tbl |-> t, rows |-> rows, key |-> key]

CreateTables == [i \in DOMAIN Tables |-> Statement("create", Tables[i], {}, 0)]
AddKeys == [k \in DOMAIN ForeignKeys |-> Statement("key", ForeignKeys[k].tbl, {}, k)]

\* Indexes, extensions and enumerations are read; the schema is written.
WriteSchema ==
    /\ step = "cascade" /\ Dependent = {}
    /\ out' = CreateTables /\ step' = "data" /\ reading' = 1
    /\ UNCHANGED <<db, snap, excluded>>

\* Mutant: the columns of the secrets are selected as they are.
SelectAll(t) == Read(t)

\* The rows of a SELECT of a table: redacted columns are NULL.
Select(t) == {[r EXCEPT !.secret = FALSE] : r \in Read(t)}

\* One table: a SELECT, and INSERTs unless it is excluded or has no rows.
ReadTable ==
    /\ step = "data" /\ reading <= Len(Tables)
    /\ LET t == Tables[reading]
       IN out' = IF t \in excluded \/ Select(t) = {} THEN out
                 ELSE Append(out, Statement("insert", t, Select(t), 0))
    /\ reading' = reading + 1
    /\ UNCHANGED <<db, snap, step, excluded>>

\* out.push(...foreignKeys) and the commit.
Finish ==
    /\ step = "data" /\ reading > Len(Tables)
    /\ out' = out \o AddKeys /\ step' = "done"
    /\ UNCHANGED <<db, snap, reading, excluded>>

\* A query fails, or Postgres ends the transaction: the request answers 500.
DumpFails ==
    /\ step \notin {"idle", "done", "failed"}
    /\ step' = "failed" /\ out' = <<>>
    /\ UNCHANGED <<db, snap, reading, excluded>>

\* Another request commits any change to the rows of a table.  One that changes several
\* tables, or whose deletion cascades, is as many of these, dependent rows gone first.
Commit ==
    /\ \E t \in TableNames : \E rows \in SUBSET RowsOf(t) : db' = [db EXCEPT ![t] = rows]
    /\ IsDatabase(db')
    /\ UNCHANGED <<snap, step, reading, excluded, out>>

DumpNext ==
    \/ ListTables \/ ReadConstraints \/ Cascade \/ WriteSchema \/ ReadTable \/ Finish
    \/ DumpFails \/ Commit

DumpSpec == DumpInit /\ [][DumpNext]_dumpVars

-------------------------------------------------------------------------------
(* Properties *)

DumpTypeOK ==
    /\ IsDatabase(db) /\ IsDatabase(snap)
    /\ step \in {"idle", "constraints", "cascade", "data", "done", "failed"}
    /\ reading \in 0..(Len(Tables) + 1)
    /\ excluded \subseteq TableNames \cup EXCLUDED_DATA
    /\ out \in Seq([kind : {"create", "insert", "key"}, tbl : TableNames,
                    rows : SUBSET UNION {RowsOf(t) : t \in TableNames},
                    key : 0..Len(ForeignKeys)])

\* The statements of the script before the n-th that concern table t.
Before(n, kind, t) == {i \in 1..(n - 1) : out[i].kind = kind /\ out[i].tbl = t}

\* What psql answers to the n-th statement, those before it executed: a table is created
\* once and before its rows; ids do not repeat; a key holds when it is added and is not
\* disturbed by rows that come later.
Succeeds(n) ==
    LET s == out[n]
    IN CASE s.kind = "create" -> Before(n, "create", s.tbl) = {}
         [] s.kind = "insert" ->
              /\ Before(n, "create", s.tbl) # {}
              /\ \A q, r \in s.rows : q.id = r.id => q = r
              /\ Before(n, "insert", s.tbl) = {}
              /\ Before(n, "key", s.tbl) = {}
         [] s.kind = "key" ->
              LET ref == ForeignKeys[s.key].ref
              IN /\ Before(n, "create", s.tbl) # {} /\ Before(n, "create", ref) # {}
                 /\ \A i \in Before(n, "insert", s.tbl) : \A r \in out[i].rows :
                       r.to[s.key] # Null =>
                          \E j \in Before(n, "insert", ref) :
                             \E q \in out[j].rows : q.id = r.to[s.key]

\* A dump that was handed out restores: every statement of the script succeeds on an empty
\* database, whatever other requests committed between its queries; it has every foreign
\* key and every row of one instant, except for the tables of secrets and those that
\* depend on them, and no secret.
DumpRestores ==
    step = "done" =>
        /\ \A n \in DOMAIN out : Succeeds(n)
        /\ \A k \in DOMAIN ForeignKeys : \E n \in DOMAIN out :
              out[n].kind = "key" /\ out[n].key = k
        /\ \A t \in TableNames \ excluded : \A r \in snap[t] :
              \E n \in DOMAIN out : /\ out[n].kind = "insert" /\ out[n].tbl = t
                                    /\ \E q \in out[n].rows : q.id = r.id /\ q.to = r.to
        /\ \A n \in DOMAIN out : out[n].kind = "insert" =>
              /\ out[n].tbl \notin EXCLUDED_DATA
              /\ \A r \in out[n].rows : ~r.secret
===============================================================================
