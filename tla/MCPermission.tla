---------------------------- MODULE MCPermission ----------------------------
(* Small instances of Permission for TLC.                                   *)
EXTENDS Permission, TLC

CONSTANTS a, b, s, agent, bash

(* All top-level calls name one tool, so that an allow-always of one of them *)
(* covers the others.                                                        *)
OneTool == [c \in Calls |-> bash]

(* They are interchangeable then. *)
SameCalls == Permutations(TopCalls)

(* The top-level call delegates to the child that makes the other call. *)
Delegated == [c \in Calls |-> IF c = a THEN agent ELSE bash]
=============================================================================
