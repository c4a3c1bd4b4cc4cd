---------------------------- MODULE MCFileStore ----------------------------
(***************************************************************************)
(* The scenarios of FileStore that TLC explores.                           *)
(***************************************************************************)
EXTENDS FileStore

CONSTANTS r1, r2

\* Two tasks get a record while the loop advances it; nothing goes wrong.
Gets == [readers |-> {r1, r2}, mishaps |-> {}, last |-> 3, saves |-> 4, crashes |-> 0]

\* Crashes between the steps of the loop's saves; nobody else gets the record.
Crashes == [readers |-> {}, mishaps |-> {"crash"}, last |-> 5, saves |-> 7, crashes |-> 3]

\* Everything goes wrong that can.
Everything == [readers |-> {r1}, mishaps |-> Kinds, last |-> 3, saves |-> 4, crashes |-> 1]

MCScenarios == {Gets, Crashes, Everything}
=============================================================================
