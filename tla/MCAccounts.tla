------------------------------- MODULE MCAccounts -------------------------------
(* Small instances of Accounts for TLC.                                           *)
EXTENDS Accounts, TLC

CONSTANTS u1, u2, s1, s2, b1, b2, h1, h2

\* Administration by two people at once, without a clock; and one browser with two
\* requests in flight while sessions age.
Administration == [browsers |-> {b1, b2}, staff |-> {u1, u2}, logins |-> 2,
                   kinds |-> {"login", "update"}, horizon |-> 0]
Enrolment      == [browsers |-> {b1}, staff |-> {u1, u2}, logins |-> 2,
                   kinds |-> {"login", "create"}, horizon |-> 0]
Aging          == [browsers |-> {b1}, staff |-> {u1}, logins |-> 1,
                   kinds |-> {"login", "page", "work"}, horizon |-> 4]
Leaving        == [browsers |-> {b1}, staff |-> {u1}, logins |-> 2,
                   kinds |-> {"login", "logout", "work"}, horizon |-> 0]
AllScenarios   == {Administration, Enrolment, Aging, Leaving}
OnlyAging      == {Aging}

\* Disable, enable or demote somebody.
SomeChanges    == {[NoChange EXCEPT !.status = "DISABLED"], [NoChange EXCEPT !.status = "ACTIVE"],
                   [NoChange EXCEPT !.role = "STAFF"]}
Symmetry       == Permutations({h1, h2}) \cup Permutations({s1, s2})
=============================================================================
