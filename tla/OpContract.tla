----------------------------- MODULE OpContract ------------------------------
(***************************************************************************)
(* What the driver promises of an operation, whatever the platform: the    *)
(* contract written in prose over Op and the operation traits              *)
(* (driver/ops.rs).  A payload (buffers, paths, descriptors) is owned by   *)
(* the caller, by the operation's future, by the driver once the future is *)
(* gone, or by nobody.  While the kernel or a pool thread uses it, it      *)
(* stays with its future or the driver, and it ends in exactly one way.    *)
(***************************************************************************)
EXTENDS Naturals

CONSTANT Ops

VARIABLE payload   \* [Ops -> [owner, busy, fate]]

Owners == {"caller", "future", "driver", "gone"}
Fates == {"none", "refused", "returned", "cleaned", "dropped", "lost"}
Payloads == [owner : Owners, busy : BOOLEAN, fate : Fates]

Fresh == [owner |-> "caller", busy |-> FALSE, fate |-> "none"]

ContractInit == payload = [o \in Ops |-> Fresh]

\* submit_op: the payload moves into a future, or is handed back at once.
Starts(p, q) ==
  /\ p.owner = "caller"
  /\ \/ q.owner = "future" /\ q.fate = "none"
     \/ q.owner = "gone" /\ q.fate = "refused" /\ ~q.busy

\* The kernel or a pool thread takes up or finishes the work of a payload
\* that is kept alive.
Works(p, q) ==
  /\ p.owner \in {"future", "driver"}
  /\ q = [p EXCEPT !.busy = ~@]
  /\ p.owner = "driver" => p.busy

\* Op::poll hands the result over, once the work is done.
Returns(p, q) ==
  p.owner = "future" /\ q = [owner |-> "gone", busy |-> FALSE, fate |-> "returned"]
  /\ ~p.busy

\* Op::drop: a payload in use goes to the driver.
Detaches(p, q) ==
  /\ p.owner = "future"
  /\ \/ q = [p EXCEPT !.owner = "driver"]
     \/ ~p.busy /\ \E f \in {"cleaned", "dropped"} :
          q = [p EXCEPT !.owner = "gone", !.fate = f]

\* The driver disposes of a detached payload, never while it is in use.
Disposes(p, q) ==
  /\ p.owner = "driver" /\ ~q.busy
  /\ q.owner = "gone" /\ q.fate \in {"cleaned", "lost"}

Move(p, q) == Starts(p, q) \/ Works(p, q) \/ Returns(p, q) \/ Detaches(p, q)
              \/ Disposes(p, q)

ContractNext ==
  /\ payload' \in [Ops -> Payloads]
  /\ \A o \in Ops : payload'[o] = payload[o] \/ Move(payload[o], payload'[o])

ContractSpec == ContractInit /\ [][ContractNext]_payload

-----------------------------------------------------------------------------
\* A payload the kernel or a pool thread is using is never freed: it is in
\* its future or in the driver.
Pinned == \A o \in Ops : payload[o].busy => payload[o].owner \in {"future", "driver"}
=============================================================================
