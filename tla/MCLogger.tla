------------------------------ MODULE MCLogger ------------------------------
(***************************************************************************)
(* Instances of Logger for TLC.                                            *)
(***************************************************************************)
EXTENDS Logger, TLC

Settings == {
  [client |-> "with", write |-> "whole", close |-> TRUE],
  [client |-> "free", write |-> "whole", close |-> TRUE],
  [client |-> "free", write |-> "short", close |-> TRUE]}
RecordSymmetry == Permutations(Record)

ShortWrites == {[client |-> "with", write |-> "short", close |-> FALSE]}
=============================================================================
