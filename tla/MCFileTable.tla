----------------------------- MODULE MCFileTable -----------------------------
(***************************************************************************)
(* FileTable for TLC: the calls and the flags of each question.            *)
(***************************************************************************)
EXTENDS FileTable

Mixed == {{"RDWR", "TRUNC"}, {"WRONLY", "APPEND"}}
=============================================================================
