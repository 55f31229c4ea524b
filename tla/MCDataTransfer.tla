---------------------------- MODULE MCDataTransfer ----------------------------
(***************************************************************************)
(* What administrators move as files: EmployeeImport and DatabaseDump for  *)
(* TLC.  They share no state; a behaviour watches one of them.             *)
(***************************************************************************)
EXTENDS EmployeeImport, DatabaseDump, TLC

VARIABLE tool   \* the one that is watched

transferVars == <<importVars, dumpVars, tool>>

\* No file and nobody to import, while the dump is watched.
NothingToImport == people = <<>> /\ file = <<CHOOSE r \in Row : ~r.role /\ r.id = None>>

\* The e-mails that there are in the tables and the file.
MailsNamed ==
    ({people[i].mail : i \in DOMAIN people} \cup {file[i].mail : i \in DOMAIN file}) \ {None}

\* Two rows meet in their keys: one e-mail is enough, and no roles.
KeysOnly == Cardinality(MailsNamed) <= 1 /\ \A i \in DOMAIN file : ~file[i].role

\* Others change the tables while a row meets two entries or two rows meet one; two rows
\* meet two entries alone.
TransferInit ==
    /\ tool \in {"import", "alone", "dump"}
    /\ DumpInit /\ ImportInit
    /\ Len(file) > 1 => KeysOnly
    /\ tool = "alone" <=> Len(file) > 1 /\ Cardinality(DOMAIN people) > 1
    /\ tool = "dump" => NothingToImport

TransferNext ==
    \/ tool # "dump" /\ ImportNext /\ (tool = "alone" => ~stale') /\ UNCHANGED <<dumpVars, tool>>
    \/ tool = "dump" /\ DumpNext /\ UNCHANGED <<importVars, tool>>

TransferSpec == TransferInit /\ [][TransferNext]_transferVars

\* Of the one that moves, the tables, the dialog and the script stay well formed: no CI or
\* e-mail twice, a plan and an outcome for each row of the file, statements of tables that
\* exist.
TransferTypeOK == IF tool = "dump" THEN DumpTypeOK ELSE ImportTypeOK

\* No property names a CI, a name or an e-mail.
MCSymmetry == Permutations(Cis) \cup Permutations(Names) \cup Permutations(Mails)

\* The tables of a login, a table of secrets and one that depends on it.
MCTables == <<"account", "session", "session_system", "user">>
MCForeignKeys == <<[tbl |-> "account", ref |-> "user"],
                   [tbl |-> "session", ref |-> "user"],
                   [tbl |-> "session_system", ref |-> "session"],
                   [tbl |-> "session_system", ref |-> "user"]>>
MCExcluded == {"session"}
MCRedacted == {"account"}
===============================================================================
