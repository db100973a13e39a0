------------------------------- MODULE MCRetrier -------------------------------
(* Retrier for TLC: who calls what. *)
EXTENDS Retrier

CONSTANTS c1, c2

WithCtx   == [c \in Callers |-> {"DoWithContext"}]
OneOfEach == [c \in Callers |-> IF c = c1 THEN {"DoWithContext"} ELSE {"Do"}]
================================================================================
