------------------------------ MODULE MCExecution ------------------------------
(* Execution for TLC: errors, one of which wraps another, and three jobs. *)
EXTENDS Execution

\* opClosed stands for a net.OpError that wraps net.ErrClosed.
Wraps == {<<e, e>> : e \in Errs} \cup {<<"opClosed", "closed">>}
DefaultErrors == <<"deadline", "closed">>

\* A job without a policy ...
Plain == {[codes |-> {}, temporary |-> <<>>, callback |-> TRUE]}

\* ... one that retries 503, and one with an error of its own.
Jobs ==
    Plain \cup
    {[codes |-> {503}, temporary |-> <<>>, callback |-> FALSE],
     [codes |-> {}, temporary |-> <<"closed">>, callback |-> TRUE]}
================================================================================
