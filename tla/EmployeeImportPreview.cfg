\* One row against one entry; nobody else changes anything and no call fails first.
SPECIFICATION ImportSpec
CONSTANTS
    Cis = {c1}
    Names = {n1}
    Mails = {m1}
    MaxPeople = 1
    MaxRows = 1
    MaxImports = 1
    MaxOthers = 0
    None = None
INVARIANT RefusalsShowInPreview
CHECK_DEADLOCK FALSE
