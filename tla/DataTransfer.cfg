\* Two rows against two entries, the file opened twice, one change by somebody else; a dump
\* of four tables while others commit, one row in each.
SPECIFICATION TransferSpec
CONSTANTS
    c1 = c1  c2 = c2  n1 = n1  n2 = n2  m1 = m1  m2 = m2
    Cis = {c1, c2}
    Names = {n1, n2}
    Mails = {m1, m2}
    MaxPeople = 2
    MaxRows = 2
    MaxImports = 2
    MaxOthers = 1
    None = None
    Tables <- MCTables
    ForeignKeys <- MCForeignKeys
    EXCLUDED_DATA <- MCExcluded
    Redacted <- MCRedacted
    Ids = {i1}
    Null = Null
INVARIANTS TransferTypeOK AcceptedRowsRun NobodyTwice DumpRestores
PROPERTY OkMeansDone
SYMMETRY MCSymmetry
CHECK_DEADLOCK FALSE
