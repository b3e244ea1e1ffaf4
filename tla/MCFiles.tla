------------------------------- MODULE MCFiles -------------------------------
(***************************************************************************)
(* A small instance of Files for TLC: two files, two channels, two         *)
(* records, mappings that fill a record or exceed it.                      *)
(***************************************************************************)
EXTENDS FilesProps, TLC

CONSTANTS fileA, fileB

DataFiles == Permutations(FileNames)
=============================================================================
