----------------------------- MODULE MCCompany ------------------------------
(* One argument of CompanyRoot at a time: the watch and the scheduler are  *)
(* tasks that share no state.  Projects depend on the watch alone.         *)
EXTENDS Company

CONSTANTS a1, a2, p1

MCAgents == {a1, a2}
MCProjects == {p1}
MCSleepers == {a1}
MCConfigs == {{"health", "projects"}, {"data"}}
MCHealth == {{"health", "projects"}}
=============================================================================
