-------------------------- MODULE MCControlSession --------------------------
(* ControlSession on small instances; the runs differ in the .cfg.         *)
EXTENDS ControlSession, TLC

CONSTANT h1, u1

\* the sessions run in one host, as the windows of one agent do
OneHost == [s \in Sessions |-> h1]

\* tabs that are not open at the start are alike, and so are sessions
Alike ==
    {p @@ q : p \in Permutations(Sessions), q \in Permutations(Tabs \ UserTabs)}
=============================================================================
