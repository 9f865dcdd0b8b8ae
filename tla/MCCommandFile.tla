---------------------------- MODULE MCCommandFile ----------------------------
(* A small instance of CommandFile.                                         *)
EXTENDS CommandFile

MCScripts == [1 .. MaxWritten -> Commands]
=============================================================================
