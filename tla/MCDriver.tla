------------------------------ MODULE MCDriver -------------------------------
(* Instances of Driver for model checking. *)
EXTENDS Driver

Read == [class |-> "io", fd |-> 3, dir |-> "read"]
Connect == [class |-> "connect", fd |-> 3, dir |-> "write"]
PoolJob == [class |-> "block", fd |-> 3, dir |-> "read"]

\* A read with a job of the pool; on kqueue also with a connect and with a
\* second read of the same descriptor.
MCOffered == [b \in Backends |-> {<<Read, PoolJob>>} \cup
                (IF b = "kqueue" THEN {<<Read, Connect>>, <<Read, Read>>} ELSE {})]
MCUnder == [o \in Ops |-> {"s"}]
MCWaited == [b \in Backends |-> IF b = "kqueue" THEN Sources ELSE {}]
=============================================================================
