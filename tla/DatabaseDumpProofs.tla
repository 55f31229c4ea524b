-------------------------- MODULE DatabaseDumpProofs --------------------------
(***************************************************************************)
(* A dump that is handed out restores, whatever the tables, the foreign    *)
(* keys, the exclusions and the commits of others while it is made.        *)
(***************************************************************************)
EXTENDS DatabaseDump, TLAPS

Statements == [kind : {"create", "insert", "key"}, tbl : TableNames,
               rows : SUBSET UNION {RowsOf(t) : t \in TableNames}, key : 0..Len(ForeignKeys)]

\* What is exported of a table of the snapshot d.
Shown(d, t) == {[r EXCEPT !.secret = FALSE] : r \in d[t]}
Insert(d, t) == Statement("insert", t, Shown(d, t), 0)

\* The statements of the script up to the m-th: every table created, then one INSERT for
\* each table read so far that has rows to export, those of the snapshot.
Body(m) ==
    /\ m \in Nat /\ Len(Tables) <= m /\ m <= Len(out)
    /\ \A i \in 1..Len(Tables) : out[i] = CreateTables[i]
    /\ \A n \in (Len(Tables) + 1)..m : \E j \in 1..(reading - 1) :
          Tables[j] \notin excluded /\ out[n] = Insert(snap, Tables[j])
    /\ \A n, o \in (Len(Tables) + 1)..m : out[n].tbl = out[o].tbl => n = o
    /\ \A j \in 1..(reading - 1) :
          Tables[j] \notin excluded /\ Shown(snap, Tables[j]) # {} =>
             \E n \in (Len(Tables) + 1)..m : out[n] = Insert(snap, Tables[j])

\* The whole script: the body, then the foreign keys.
Script ==
    /\ reading = Len(Tables) + 1
    /\ \E m \in Nat :
          /\ Body(m) /\ Len(out) = m + Len(ForeignKeys)
          /\ \A k \in 1..Len(ForeignKeys) : out[m + k] = AddKeys[k]

IInv ==
    /\ DumpTypeOK
    /\ step \in {"cascade", "data", "done"} => EXCLUDED_DATA \subseteq excluded
    /\ step \in {"data", "done"} => Dependent = {}
    /\ step = "data" => reading # 0 /\ Body(Len(out))
    /\ step = "done" => Script

-------------------------------------------------------------------------------
(* The constants *)

LEMMA Constants ==
    /\ Len(Tables) \in Nat /\ Len(ForeignKeys) \in Nat
    /\ DOMAIN Tables = 1..Len(Tables) /\ DOMAIN ForeignKeys = 1..Len(ForeignKeys)
    /\ \A i \in 1..Len(Tables) : Tables[i] \in TableNames
    /\ \A k \in 1..Len(ForeignKeys) : /\ ForeignKeys[k].tbl \in TableNames
                                      /\ ForeignKeys[k].ref \in TableNames
<1> DEFINE Key == [tbl : TableNames, ref : TableNames]
<1>1. Tables \in Seq(STRING) /\ ForeignKeys \in Seq(Key)
  BY DumpAssumption DEF TableNames
<1>2. /\ Len(Tables) \in Nat /\ DOMAIN Tables = 1..Len(Tables)
      /\ Len(ForeignKeys) \in Nat /\ DOMAIN ForeignKeys = 1..Len(ForeignKeys)
  <2> HIDE DEF Key
  <2> QED  BY <1>1
<1>3. \A i \in 1..Len(Tables) : Tables[i] \in TableNames
  BY <1>2 DEF TableNames
<1>4. \A k \in 1..Len(ForeignKeys) : ForeignKeys[k] \in Key
  <2> HIDE DEF Key
  <2> QED  BY <1>1
<1> QED  BY <1>2, <1>3, <1>4

\* CREATE TABLE and ADD CONSTRAINT are statements of the script.
LEMMA SchemaStatements ==
    CreateTables \in Seq(Statements) /\ AddKeys \in Seq(Statements)
<1>1. CreateTables \in Seq(Statements)
  <2>1. \A i \in 1..Len(Tables) : CreateTables[i] \in Statements
    BY Constants DEF CreateTables, Statement, Statements
  <2> QED  BY <2>1, Constants DEF CreateTables
<1>2. AddKeys \in Seq(Statements)
  <2>1. \A k \in 1..Len(ForeignKeys) : AddKeys[k] \in Statements
    BY Constants DEF AddKeys, Statement, Statements
  <2> QED  BY <2>1, Constants DEF AddKeys
<1> QED  BY <1>1, <1>2

LEMMA StatementFields ==
    ASSUME NEW kind, NEW t, NEW rows, NEW key
    PROVE  /\ Statement(kind, t, rows, key).kind = kind
           /\ Statement(kind, t, rows, key).tbl = t
           /\ Statement(kind, t, rows, key).rows = rows
           /\ Statement(kind, t, rows, key).key = key
BY DEF Statement

\* A SELECT of a table of the snapshot returns rows of that table, without secrets and
\* with the ids and the keys of the snapshot.
LEMMA Selected ==
    ASSUME IsDatabase(snap), NEW t \in TableNames
    PROVE  /\ Shown(snap, t) \subseteq RowsOf(t)
           /\ \A q, r \in Shown(snap, t) : q.id = r.id => q = r
           /\ \A r \in Shown(snap, t) : ~r.secret
           /\ \A r \in snap[t] : \E q \in Shown(snap, t) : q.id = r.id /\ q.to = r.to
           /\ \A q \in Shown(snap, t) : \E r \in snap[t] : q.id = r.id /\ q.to = r.to
<1> DEFINE Hidden(r) == [r EXCEPT !.secret = FALSE]
<1>1. /\ snap[t] \subseteq RowsOf(t)
      /\ \A q, r \in snap[t] : q.id = r.id => q = r
  BY DEF IsDatabase
<1>2. \A r \in RowsOf(t) : /\ Hidden(r) \in RowsOf(t) /\ ~Hidden(r).secret
                           /\ Hidden(r).id = r.id /\ Hidden(r).to = r.to
  BY DEF RowsOf
<1>3. Shown(snap, t) = {Hidden(r) : r \in snap[t]}
  BY DEF Shown
<1> HIDE DEF Hidden
<1> QED  BY <1>1, <1>2, <1>3

-------------------------------------------------------------------------------
(* The steps *)

\* A step that changes neither the script nor what it is made from leaves its body.
LEMMA BodyStays ==
    ASSUME UNCHANGED <<snap, excluded, reading, out>>, NEW m
    PROVE  Body(m) <=> Body(m)'
BY DEF Body

LEMMA InitInv == DumpInit => IInv
<1> SUFFICES ASSUME DumpInit PROVE IInv
  OBVIOUS
<1>1. IsDatabase(db) /\ IsDatabase(snap)
  BY DEF DumpInit, IsDatabase
<1>2. out \in Seq(Statements) /\ reading \in 0..(Len(Tables) + 1)
  BY Constants DEF DumpInit
<1> QED  BY <1>1, <1>2 DEF DumpInit, IInv, DumpTypeOK, Statements

LEMMA QuietStep ==
    ASSUME IInv, Commit \/ ListTables \/ DumpFails \/ UNCHANGED dumpVars
    PROVE  IInv'
<1>1. UNCHANGED <<reading, excluded>>
  BY DEF Commit, ListTables, DumpFails, dumpVars
<1>2. IsDatabase(db)' /\ IsDatabase(snap)'
  <2>1. IsDatabase(db) /\ IsDatabase(snap)
    BY DEF IInv, DumpTypeOK
  <2>2. CASE Commit
    BY <2>1, <2>2 DEF Commit, IsDatabase, Points
  <2>3. CASE ListTables \/ DumpFails \/ UNCHANGED dumpVars
    BY <2>1, <2>3 DEF ListTables, DumpFails, dumpVars, IsDatabase, Points
  <2> QED  BY <2>2, <2>3
<1>3. /\ step' \in {"idle", "constraints", "cascade", "data", "done", "failed"}
      /\ out' \in Seq(Statements)
  <2>1. <<>> \in Seq(Statements)
    OBVIOUS
  <2> QED
    BY <2>1 DEF Commit, ListTables, DumpFails, dumpVars, IInv, DumpTypeOK, Statements
<1>4. DumpTypeOK'
  BY <1>1, <1>2, <1>3 DEF DumpTypeOK, Statements, IInv
<1>5. CASE Commit \/ UNCHANGED dumpVars
  <2>1. UNCHANGED <<snap, step, reading, excluded, out>>
    BY <1>5 DEF Commit, dumpVars
  <2>2. Script <=> Script'
    BY <2>1, BodyStays DEF Script
  <2>3. Dependent' = Dependent
    BY <2>1 DEF Dependent
  <2> QED  BY <1>4, <2>1, <2>2, <2>3, BodyStays DEF IInv
<1>6. CASE ListTables \/ DumpFails
  BY <1>4, <1>6 DEF IInv, ListTables, DumpFails
<1> QED  BY <1>5, <1>6

LEMMA ReadConstraintsStep == IInv /\ ReadConstraints => IInv'
<1> SUFFICES ASSUME IInv, ReadConstraints PROVE IInv'
  OBVIOUS
<1>1. DumpTypeOK'
  BY DEF IInv, DumpTypeOK, ReadConstraints, IsDatabase, Points
<1> QED  BY <1>1 DEF IInv, ReadConstraints

LEMMA CascadeStep == IInv /\ Cascade => IInv'
<1> SUFFICES ASSUME IInv, Cascade PROVE IInv'
  OBVIOUS
<1>1. PICK k \in 1..Len(ForeignKeys) : excluded' = excluded \cup {ForeignKeys[k].tbl}
  BY Constants DEF Cascade, Dependent
<1>2. excluded' \subseteq TableNames \cup EXCLUDED_DATA
  BY <1>1, Constants DEF IInv, DumpTypeOK
<1>3. DumpTypeOK'
  BY <1>2 DEF IInv, DumpTypeOK, Cascade, IsDatabase, Points
<1> QED  BY <1>1, <1>3 DEF IInv, Cascade

LEMMA WriteSchemaStep == IInv /\ WriteSchema => IInv'
<1> SUFFICES ASSUME IInv, WriteSchema PROVE IInv'
  OBVIOUS
<1>1. reading' = 1 /\ out' = CreateTables /\ Len(out') = Len(Tables)
  BY Constants DEF WriteSchema, CreateTables
<1>2. DumpTypeOK'
  BY <1>1, SchemaStatements, Constants
     DEF IInv, DumpTypeOK, WriteSchema, Statements, IsDatabase, Points
<1>3. Body(Len(out))'
  BY <1>1, Constants DEF Body
<1>4. Dependent' = {}
  BY DEF WriteSchema, Dependent
<1> QED  BY <1>1, <1>2, <1>3, <1>4 DEF IInv, WriteSchema

LEMMA ReadTableStep == IInv /\ ReadTable => IInv'
<1> SUFFICES ASSUME IInv, ReadTable PROVE IInv'
  OBVIOUS
<1> DEFINE t == Tables[reading]
<1>1. /\ step = "data" /\ step' = "data" /\ reading' = reading + 1
      /\ reading \in 1..Len(Tables) /\ t \in TableNames
      /\ UNCHANGED <<db, snap, excluded>>
  BY Constants DEF ReadTable, IInv, DumpTypeOK
<1>2. out \in Seq(Statements) /\ Body(Len(out))
  BY <1>1 DEF IInv, DumpTypeOK, Statements
<1>3. Select(t) = Shown(snap, t)
  BY DEF Select, Read, Shown
<1>4. out' \in Seq(Statements) /\ Body(Len(out))'
  <2>1. CASE t \in excluded \/ Shown(snap, t) = {}
    <3>1. out' = out
      BY <2>1, <1>3 DEF ReadTable
    <3>2. \A j \in 1..reading : j \in 1..(reading - 1) \/ j = reading
      BY <1>1, Constants
    <3>3. 1..(reading - 1) \subseteq 1..reading /\ (reading + 1) - 1 = reading
      BY <1>1, Constants
    <3> HIDE DEF t
    <3>4. Body(Len(out))'
      BY <1>1, <1>2, <2>1, <3>1, <3>2, <3>3 DEF Body, t
    <3> QED  BY <1>2, <3>1, <3>4
  <2>2. CASE ~(t \in excluded \/ Shown(snap, t) = {})
    <3>1. out' = Append(out, Insert(snap, t))
      BY <2>2, <1>3 DEF ReadTable, Insert
    <3>2. Insert(snap, t) \in Statements
      <4>1. Shown(snap, t) \subseteq UNION {RowsOf(u) : u \in TableNames}
        BY <1>1, Selected DEF IInv, DumpTypeOK
      <4> HIDE DEF t
      <4> QED  BY <1>1, <4>1, Constants DEF Insert, Statement, Statements
    <3>3. /\ out' \in Seq(Statements) /\ Len(out') = Len(out) + 1
          /\ \A n \in 1..Len(out) : out'[n] = out[n]
          /\ out'[Len(out) + 1] = Insert(snap, t)
      BY <1>2, <3>1, <3>2
    <3>4. \A n \in (Len(Tables) + 1)..Len(out) : out[n].tbl # t
      <4>1. SUFFICES ASSUME NEW n \in (Len(Tables) + 1)..Len(out) PROVE out[n].tbl # t
        OBVIOUS
      <4>2. PICK j \in 1..(reading - 1) : out[n] = Insert(snap, Tables[j])
        BY <1>2 DEF Body
      <4>3. out[n].tbl = Tables[j]
        BY <4>2 DEF Insert, Statement
      <4>4. j \in DOMAIN Tables /\ reading \in DOMAIN Tables /\ j # reading
        BY <1>1, Constants
      <4> QED  BY <4>3, <4>4, DumpAssumption
    <3>5. Insert(snap, t).tbl = t
      BY DEF Insert, Statement
    <3>6. \A n \in (Len(Tables) + 1)..(Len(out) + 1) :
             n \in (Len(Tables) + 1)..Len(out) \/ n = Len(out) + 1
      BY <1>2 DEF Body
    <3>7. \A i \in 1..Len(Tables) : out'[i] = CreateTables[i]
      BY <1>2, <3>3, Constants DEF Body
    <3>8. \A n \in (Len(Tables) + 1)..(Len(out) + 1) : \E j \in 1..reading :
             Tables[j] \notin excluded /\ out'[n] = Insert(snap, Tables[j])
      <4>1. SUFFICES ASSUME NEW n \in (Len(Tables) + 1)..(Len(out) + 1)
                     PROVE  \E j \in 1..reading :
                               Tables[j] \notin excluded /\ out'[n] = Insert(snap, Tables[j])
        OBVIOUS
      <4>2. CASE n = Len(out) + 1
        BY <1>1, <2>2, <3>3, <4>2
      <4>3. CASE n \in (Len(Tables) + 1)..Len(out)
        <5>1. PICK j \in 1..(reading - 1) :
                 Tables[j] \notin excluded /\ out[n] = Insert(snap, Tables[j])
          BY <1>2, <4>3 DEF Body
        <5>2. j \in 1..reading /\ out'[n] = out[n]
          BY <1>1, <3>3, <4>3, Constants
        <5> QED  BY <5>1, <5>2
      <4> QED  BY <3>6, <4>2, <4>3
    <3>9. \A n, o \in (Len(Tables) + 1)..(Len(out) + 1) : out'[n].tbl = out'[o].tbl => n = o
      <4>1. \A n \in (Len(Tables) + 1)..Len(out) : out'[n] = out[n]
        BY <3>3, Constants
      <4>2. \A n, o \in (Len(Tables) + 1)..Len(out) : out[n].tbl = out[o].tbl => n = o
        BY <1>2 DEF Body
      <4> HIDE DEF t
      <4> QED  BY <3>3, <3>4, <3>5, <3>6, <4>1, <4>2
    <3>10. \A j \in 1..reading : Tables[j] \notin excluded /\ Shown(snap, Tables[j]) # {} =>
              \E n \in (Len(Tables) + 1)..(Len(out) + 1) : out'[n] = Insert(snap, Tables[j])
      <4>1. SUFFICES ASSUME NEW j \in 1..reading,
                            Tables[j] \notin excluded, Shown(snap, Tables[j]) # {}
                     PROVE  \E n \in (Len(Tables) + 1)..(Len(out) + 1) :
                               out'[n] = Insert(snap, Tables[j])
        OBVIOUS
      <4>2. CASE j = reading
        <5>1. Len(out) + 1 \in (Len(Tables) + 1)..(Len(out) + 1)
          BY <1>2, Constants DEF Body
        <5> QED  BY <3>3, <4>2, <5>1
      <4>3. CASE j # reading
        <5>1. j \in 1..(reading - 1)
          BY <1>1, <4>3
        <5>2. PICK n \in (Len(Tables) + 1)..Len(out) : out[n] = Insert(snap, Tables[j])
          BY <1>2, <4>1, <5>1 DEF Body
        <5>3. n \in (Len(Tables) + 1)..(Len(out) + 1) /\ out'[n] = out[n]
          BY <3>3, Constants
        <5> QED  BY <5>2, <5>3
      <4> QED  BY <4>2, <4>3
    <3>11. Len(Tables) <= Len(out) /\ Len(out) \in Nat
      BY <1>2 DEF Body
    <3>12. reading' - 1 = reading
      BY <1>1
    <3> HIDE DEF t
    <3>13. Body(Len(out))'
      <4>1. Len(out') \in Nat /\ Len(Tables) <= Len(out') /\ Len(out') <= Len(out')
        BY <3>3, <3>11, Constants
      <4>2. \A n \in (Len(Tables) + 1)..Len(out') : \E j \in 1..(reading' - 1) :
               Tables[j] \notin excluded' /\ out'[n] = Insert(snap', Tables[j])
        BY <1>1, <3>3, <3>8, <3>12
      <4>3. \A n, o \in (Len(Tables) + 1)..Len(out') : out'[n].tbl = out'[o].tbl => n = o
        BY <3>3, <3>9
      <4>4. \A j \in 1..(reading' - 1) :
               Tables[j] \notin excluded' /\ Shown(snap', Tables[j]) # {} =>
                  \E n \in (Len(Tables) + 1)..Len(out') : out'[n] = Insert(snap', Tables[j])
        BY <1>1, <3>3, <3>10, <3>12
      <4> QED  BY <3>7, <4>1, <4>2, <4>3, <4>4 DEF Body
    <3> QED  BY <3>3, <3>13
  <2> QED  BY <2>1, <2>2
<1>5. DumpTypeOK'
  BY <1>1, <1>4, Constants DEF IInv, DumpTypeOK, Statements, IsDatabase, Points
<1>6. Dependent' = Dependent
  BY <1>1 DEF Dependent
<1> QED  BY <1>1, <1>4, <1>5, <1>6 DEF IInv

LEMMA FinishStep == IInv /\ Finish => IInv'
<1> SUFFICES ASSUME IInv, Finish PROVE IInv'
  OBVIOUS
<1>1. /\ step = "data" /\ step' = "done" /\ out' = out \o AddKeys
      /\ reading = Len(Tables) + 1
      /\ UNCHANGED <<db, snap, reading, excluded>>
  BY Constants DEF Finish, IInv, DumpTypeOK
<1>2. out \in Seq(Statements) /\ Body(Len(out))
  BY <1>1 DEF IInv, DumpTypeOK, Statements
<1>3. /\ out' \in Seq(Statements) /\ Len(out') = Len(out) + Len(ForeignKeys)
      /\ \A n \in 1..Len(out) : out'[n] = out[n]
      /\ \A k \in 1..Len(ForeignKeys) : out'[Len(out) + k] = AddKeys[k]
  <2>1. Len(AddKeys) = Len(ForeignKeys)
    BY Constants DEF AddKeys
  <2>2. \A k \in 1..Len(AddKeys) : Len(out) + k \in (Len(out) + 1)..(Len(out) + Len(AddKeys))
    BY <1>2, <2>1, Constants
  <2> HIDE DEF Statements
  <2>3. out \in Seq(Statements) /\ AddKeys \in Seq(Statements)
    BY <1>2, SchemaStatements
  <2>4. /\ out \o AddKeys \in Seq(Statements)
        /\ Len(out \o AddKeys) = Len(out) + Len(AddKeys)
        /\ \A n \in 1..Len(out) : (out \o AddKeys)[n] = out[n]
        /\ \A k \in 1..Len(AddKeys) : (out \o AddKeys)[Len(out) + k] = AddKeys[k]
    BY <2>3
  <2> QED  BY <1>1, <2>1, <2>4
<1>4. \A n \in (Len(Tables) + 1)..Len(out) : out'[n] = out[n]
  <2>1. \A n \in (Len(Tables) + 1)..Len(out) : n \in 1..Len(out)
    BY <1>2, Constants DEF Body
  <2> QED  BY <1>3, <2>1
<1>5. \A i \in 1..Len(Tables) : out'[i] = out[i]
  <2>1. \A i \in 1..Len(Tables) : i \in 1..Len(out)
    BY <1>2, Constants DEF Body
  <2> QED  BY <1>3, <2>1
<1>6. Len(out) <= Len(out')
  BY <1>2, <1>3, Constants
<1>7. ASSUME NEW m, m = Len(out) PROVE Body(m)'
  <2>1. Body(m)
    BY <1>2, <1>7
  <2>2. m \in Nat /\ Len(Tables) <= m /\ m <= Len(out')
    BY <1>6, <1>7, <2>1 DEF Body
  <2>3. \A i \in 1..Len(Tables) : out'[i] = CreateTables[i]
    BY <1>5, <2>1 DEF Body
  <2>4. \A n \in (Len(Tables) + 1)..m : out'[n] = out[n]
    BY <1>4, <1>7
  <2>5. \A n \in (Len(Tables) + 1)..m : \E j \in 1..(reading' - 1) :
           Tables[j] \notin excluded' /\ out'[n] = Insert(snap', Tables[j])
    BY <1>1, <2>1, <2>4 DEF Body
  <2>6. \A n, o \in (Len(Tables) + 1)..m : out'[n].tbl = out'[o].tbl => n = o
    BY <2>1, <2>4 DEF Body
  <2>7. \A j \in 1..(reading' - 1) :
           Tables[j] \notin excluded' /\ Shown(snap', Tables[j]) # {} =>
              \E n \in (Len(Tables) + 1)..m : out'[n] = Insert(snap', Tables[j])
    <3>1. \A j \in 1..(reading - 1) :
             Tables[j] \notin excluded /\ Shown(snap, Tables[j]) # {} =>
                \E n \in (Len(Tables) + 1)..m : out[n] = Insert(snap, Tables[j])
      BY <2>1 DEF Body
    <3> QED  BY <1>1, <2>4, <3>1
  <2> QED  BY <2>2, <2>3, <2>5, <2>6, <2>7 DEF Body
<1>8. Script'
  <2>1. PICK m \in Nat : m = Len(out)
    BY <1>2 DEF Body
  <2>2. Body(m)'
    BY <1>7, <2>1
  <2>3. Len(out') = m + Len(ForeignKeys)
        /\ \A k \in 1..Len(ForeignKeys) : out'[m + k] = AddKeys[k]
    BY <1>3, <2>1
  <2> QED  BY <1>1, <2>2, <2>3 DEF Script, AddKeys, Statement
<1>9. DumpTypeOK'
  BY <1>1, <1>3 DEF IInv, DumpTypeOK, Statements, IsDatabase, Points
<1>10. Dependent' = Dependent
  BY <1>1 DEF Dependent
<1> QED  BY <1>1, <1>8, <1>9, <1>10 DEF IInv

LEMMA InvStep == IInv /\ [DumpNext]_dumpVars => IInv'
BY QuietStep, ReadConstraintsStep, CascadeStep, WriteSchemaStep, ReadTableStep, FinishStep
   DEF DumpNext

-------------------------------------------------------------------------------
(* The script *)

\* What the statements of a finished script are, by position.
LEMMA FinishedScript ==
    ASSUME IInv, step = "done"
    PROVE  \E m \in Nat :
              /\ Body(m) /\ DOMAIN out = 1..(m + Len(ForeignKeys))
              /\ \A i \in 1..Len(Tables) :
                    out[i] = Statement("create", Tables[i], {}, 0)
              /\ \A n \in (Len(Tables) + 1)..m : \E j \in 1..Len(Tables) :
                    Tables[j] \notin excluded /\ out[n] = Insert(snap, Tables[j])
              /\ \A j \in 1..Len(Tables) :
                    Tables[j] \notin excluded /\ Shown(snap, Tables[j]) # {} =>
                       \E n \in (Len(Tables) + 1)..m : out[n] = Insert(snap, Tables[j])
              /\ \A k \in 1..Len(ForeignKeys) :
                    out[m + k] = Statement("key", ForeignKeys[k].tbl, {}, k)
<1>1. Script
  BY DEF IInv
<1>2. PICK m \in Nat : /\ Body(m) /\ Len(out) = m + Len(ForeignKeys)
                       /\ \A k \in 1..Len(ForeignKeys) : out[m + k] = AddKeys[k]
  BY <1>1 DEF Script
<1>3. reading - 1 = Len(Tables)
  BY <1>1, Constants DEF Script
<1>4. DOMAIN out = 1..(m + Len(ForeignKeys))
  <2>1. out \in Seq(Statements)
    BY DEF IInv, DumpTypeOK, Statements
  <2> HIDE DEF Statements
  <2> QED  BY <1>2, <2>1
<1>5. \A i \in 1..Len(Tables) : out[i] = Statement("create", Tables[i], {}, 0)
  BY <1>2, Constants DEF Body, CreateTables
<1>6. \A k \in 1..Len(ForeignKeys) : out[m + k] = Statement("key", ForeignKeys[k].tbl, {}, k)
  BY <1>2, Constants DEF AddKeys
<1>7. \A n \in (Len(Tables) + 1)..m : \E j \in 1..Len(Tables) :
         Tables[j] \notin excluded /\ out[n] = Insert(snap, Tables[j])
  BY <1>2, <1>3 DEF Body
<1>8. \A j \in 1..Len(Tables) :
         Tables[j] \notin excluded /\ Shown(snap, Tables[j]) # {} =>
            \E n \in (Len(Tables) + 1)..m : out[n] = Insert(snap, Tables[j])
  BY <1>2, <1>3 DEF Body
<1> QED  BY <1>2, <1>4, <1>5, <1>6, <1>7, <1>8

LEMMA Restores == IInv => DumpRestores
<1> SUFFICES ASSUME IInv, step = "done" PROVE DumpRestores
  BY DEF DumpRestores
<1> DEFINE N == Len(Tables)
           K == Len(ForeignKeys)
<1>1. PICK m \in Nat :
         /\ Body(m) /\ DOMAIN out = 1..(m + K)
         /\ \A i \in 1..N : out[i] = Statement("create", Tables[i], {}, 0)
         /\ \A n \in (N + 1)..m : \E j \in 1..N :
               Tables[j] \notin excluded /\ out[n] = Insert(snap, Tables[j])
         /\ \A j \in 1..N : Tables[j] \notin excluded /\ Shown(snap, Tables[j]) # {} =>
               \E n \in (N + 1)..m : out[n] = Insert(snap, Tables[j])
         /\ \A k \in 1..K : out[m + k] = Statement("key", ForeignKeys[k].tbl, {}, k)
  BY FinishedScript
<1>2. N \in Nat /\ K \in Nat /\ N <= m
  BY <1>1, Constants DEF Body
<1>3. \A n, o \in (N + 1)..m : out[n].tbl = out[o].tbl => n = o
  BY <1>1 DEF Body
<1>4. IsDatabase(snap) /\ EXCLUDED_DATA \subseteq excluded /\ Dependent = {}
  BY DEF IInv, DumpTypeOK
<1>5. \A i \in 1..N : out[i].kind = "create" /\ out[i].tbl = Tables[i]
  BY <1>1, StatementFields
<1>6. \A n \in (N + 1)..m : \E j \in 1..N :
         /\ Tables[j] \notin excluded /\ out[n].kind = "insert" /\ out[n].tbl = Tables[j]
         /\ out[n].rows = Shown(snap, Tables[j])
  BY <1>1, StatementFields DEF Insert
<1>7. \A k \in 1..K : /\ out[m + k].kind = "key" /\ out[m + k].tbl = ForeignKeys[k].tbl
                      /\ out[m + k].key = k
  BY <1>1, StatementFields
<1>8. \A n \in 1..(m + K) : n \in 1..N \/ n \in (N + 1)..m \/ \E k \in 1..K : n = m + k
  <2>1. SUFFICES ASSUME NEW n \in 1..(m + K), n > m PROVE \E k \in 1..K : n = m + k
    BY <1>2
  <2>2. n - m \in 1..K /\ n = m + (n - m)
    BY <1>2, <2>1
  <2> QED  BY <2>2
<1>9. \A n \in 1..(m + K) : out[n].kind = "insert" => n \in (N + 1)..m
  BY <1>5, <1>7, <1>8
<1>10. \A n \in 1..(m + K) : out[n].kind = "key" => \E k \in 1..K : n = m + k
  BY <1>5, <1>6, <1>8
<1>11. \A n \in 1..(m + K) : out[n].kind = "create" => n \in 1..N
  BY <1>6, <1>7, <1>8
<1>12. \A t \in TableNames : \E j \in 1..N : Tables[j] = t
  BY Constants DEF TableNames
<1> HIDE DEF N, K
<1>13. ASSUME NEW t \in TableNames, t \notin excluded, NEW r \in snap[t]
       PROVE  \E n \in (N + 1)..m : /\ out[n].kind = "insert" /\ out[n].tbl = t
                                    /\ \E q \in out[n].rows : q.id = r.id /\ q.to = r.to
  <2>1. PICK q \in Shown(snap, t) : q.id = r.id /\ q.to = r.to
    BY <1>4, <1>13, Selected
  <2>2. PICK j \in 1..N : Tables[j] = t
    BY <1>12
  <2>3. PICK n \in (N + 1)..m : out[n] = Insert(snap, t)
    BY <1>1, <1>13, <2>1, <2>2
  <2> QED  BY <2>1, <2>3 DEF Insert, Statement
<1>14. ASSUME NEW n \in 1..N PROVE Succeeds(n)
  <2>1. \A i \in 1..(n - 1) : i \in 1..N /\ i # n
    BY <1>2
  <2>2. \A i \in 1..(n - 1) : out[i].tbl # out[n].tbl
    BY <1>5, <2>1, Constants, DumpAssumption DEF N
  <2> QED  BY <1>5, <2>2 DEF Succeeds, Before
<1>15. ASSUME NEW n \in (N + 1)..m PROVE Succeeds(n)
  <2>1. PICK j \in 1..N : /\ out[n].kind = "insert" /\ out[n].tbl = Tables[j]
                          /\ out[n].rows = Shown(snap, Tables[j])
    BY <1>6
  <2>2. \A i \in 1..(n - 1) : i \in 1..(m + K) /\ i # n /\ \A k \in 1..K : i # m + k
    BY <1>2
  <2>3. j \in Before(n, "create", out[n].tbl)
    BY <1>2, <1>5, <2>1 DEF Before
  <2>4. \A q, r \in out[n].rows : q.id = r.id => q = r
    <3>1. Tables[j] \in TableNames
      BY Constants DEF N
    <3> QED  BY <1>4, <2>1, <3>1, Selected
  <2>5. Before(n, "insert", out[n].tbl) = {}
    BY <1>3, <1>9, <2>2 DEF Before
  <2>6. Before(n, "key", out[n].tbl) = {}
    BY <1>10, <2>2 DEF Before
  <2> QED  BY <2>1, <2>3, <2>4, <2>5, <2>6 DEF Succeeds
<1>16. ASSUME NEW k \in 1..K PROVE Succeeds(m + k)
  <2> DEFINE n == m + k
             tbl == ForeignKeys[k].tbl
             ref == ForeignKeys[k].ref
  <2>1. /\ out[n].kind = "key" /\ out[n].tbl = tbl /\ out[n].key = k
        /\ tbl \in TableNames /\ ref \in TableNames
    BY <1>7, Constants DEF K
  <2>2. \A t \in TableNames : Before(n, "create", t) # {}
    <3>1. SUFFICES ASSUME NEW t \in TableNames PROVE Before(n, "create", t) # {}
      OBVIOUS
    <3>2. PICK j \in 1..N : Tables[j] = t
      BY <1>12
    <3>3. j \in Before(n, "create", t)
      BY <1>2, <1>5, <3>2 DEF Before
    <3> QED  BY <3>3
  <2>3. ASSUME NEW i \in Before(n, "insert", tbl), NEW r \in out[i].rows, r.to[k] # Null
        PROVE  \E j \in Before(n, "insert", ref) : \E q \in out[j].rows : q.id = r.to[k]
    <3>1. i \in 1..(m + K) /\ out[i].kind = "insert" /\ out[i].tbl = tbl
      BY <1>2 DEF Before
    <3>2. i \in (N + 1)..m
      BY <1>9, <3>1
    <3>3. tbl \notin excluded /\ out[i].rows = Shown(snap, tbl)
      BY <1>6, <3>1, <3>2
    <3>4. PICK r0 \in snap[tbl] : r0.to = r.to
      BY <1>4, <2>1, <2>3, <3>3, Selected
    <3>5. k \in KeysOf(tbl) /\ ref \notin excluded
      BY <1>4, <3>3, Constants DEF KeysOf, Dependent, K
    <3>6. PICK q0 \in snap[ref] : q0.id = r.to[k]
      <4>1. Points(snap, tbl, r0)
        BY <1>4, <2>1 DEF IsDatabase
      <4> QED  BY <2>3, <3>4, <3>5, <4>1 DEF Points
    <3>7. PICK j \in (N + 1)..m : /\ out[j].kind = "insert" /\ out[j].tbl = ref
                                  /\ \E q \in out[j].rows : q.id = q0.id
      BY <1>13, <2>1, <3>5
    <3>8. j \in Before(n, "insert", ref)
      BY <1>2, <3>7 DEF Before
    <3> QED  BY <3>6, <3>7, <3>8
  <2> QED  BY <2>1, <2>2, <2>3 DEF Succeeds
<1>17. \A n \in DOMAIN out : Succeeds(n)
  BY <1>1, <1>8, <1>14, <1>15, <1>16
<1>18. \A k \in DOMAIN ForeignKeys : \E n \in DOMAIN out :
          out[n].kind = "key" /\ out[n].key = k
  <2>1. \A k \in 1..K : m + k \in 1..(m + K)
    BY <1>2
  <2> QED  BY <1>1, <1>7, <2>1, Constants DEF K
<1>19. (N + 1)..m \subseteq DOMAIN out
  BY <1>1, <1>2
<1>20. \A n \in DOMAIN out : out[n].kind = "insert" =>
          out[n].tbl \notin EXCLUDED_DATA /\ \A r \in out[n].rows : ~r.secret
  <2>1. SUFFICES ASSUME NEW n \in (N + 1)..m
                 PROVE  out[n].tbl \notin EXCLUDED_DATA /\ \A r \in out[n].rows : ~r.secret
    BY <1>1, <1>9
  <2>2. PICK j \in 1..N : /\ Tables[j] \notin excluded /\ out[n].tbl = Tables[j]
                          /\ out[n].rows = Shown(snap, Tables[j])
    BY <1>6
  <2>3. Tables[j] \in TableNames
    BY Constants DEF N
  <2> QED  BY <1>4, <2>2, <2>3, Selected
<1> QED  BY <1>13, <1>17, <1>18, <1>19, <1>20 DEF DumpRestores

-------------------------------------------------------------------------------
(* The theorems *)

\* The inductive invariant of a dump, for any catalogue.
THEOREM DumpInvariant == DumpSpec => []IInv
BY InitInv, InvStep, PTL DEF DumpSpec

\* Tables and script stay well formed.
THEOREM DumpTypes == DumpSpec => []DumpTypeOK
<1>1. IInv => DumpTypeOK
  BY DEF IInv
<1> QED  BY <1>1, DumpInvariant, PTL

\* Every dump that is handed out restores the snapshot it was read in, less its secrets,
\* for any tables and foreign keys and whatever commits meanwhile.
THEOREM DumpsRestore == DumpSpec => []DumpRestores
BY DumpInvariant, Restores, PTL
===============================================================================
