------------------------------ MODULE MCSession ------------------------------
(* An instance of Session for TLC. *)
EXTENDS Session

CONSTANT s1

\* One page of each kind the router tells apart.
AllKinds == {"Case Management", "Incomplete Seed Recovery",
             "Recovery Problem Selector", "Live Address Lookup",
             "Recovery Report Exporter", "Clear Session"}

\* One role of each column of the rules: no recovery pages, locked pages,
\* and everything.
SomeRoles == {"Viewer", "Senior Analyst", "Admin"}

Licence == {"recovery", "forensic", "reports"}
=============================================================================
