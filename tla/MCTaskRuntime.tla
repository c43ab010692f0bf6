---------------------------- MODULE MCTaskRuntime ----------------------------
(* Finite instances of TaskRuntime for TLC. *)
EXTENDS TaskRuntimeProperties

ReadPlans == {<<"read">>}
WritePlans == {<<"write">>}
MixedPlans == {<<"model">>, <<"model", "write">>, <<"read">>}
=============================================================================
