------------------------------ MODULE OltpServerMC ------------------------------
(***************************************************************************)
(* OltpServer and its refinement of SqlSessions for TLC.                   *)
(***************************************************************************)
EXTENDS OltpServerSessions

Three == <<3>>
AllButBlank == <<{"use", "create", "query", "exit"}>>

(* One session that selects a database and executes in it, with the        *)
(* directory there or not; another that changes the manager's database.    *)
TwoOne == <<2, 1>>
SelectAndQuery == <<{"use", "query"}, {"use", "blank"}>>
=============================================================================
