----------------------- MODULE MCRepositoryProvisioning -----------------------
(* Two projects, one repository that exists and one that is created, and     *)
(* requests that race: two creations, a creation and a connection, deliveries*)
(* beside a connection.                                                      *)
EXTENDS RepositoryProvisioning

CONSTANTS project1, project2, name1, name2, file1, file2,
          create1, create2, connect1, hook1, hook2, delivery1, delivery2

MCScenarios == {{create1, create2}, {create1, connect1}, {connect1, hook1, hook2}}
MCFiles == <<file1, file2>>
=============================================================================
