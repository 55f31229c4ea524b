-------------------------- MODULE MCEmployeeAccounts --------------------------
\* Constants of EmployeeAccounts for TLC.
EXTENDS EmployeeAccounts, TLC

\* No property names an account, an employee or a request.
MCSymmetry == Permutations(Requests) \cup Permutations(Users) \cup Permutations(Employees)
===============================================================================
