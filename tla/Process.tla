------------------------------- MODULE Process -------------------------------
(***************************************************************************)
(* A child process and its handle (process/child.rs, command.rs, stdio.rs, *)
(* driver/ops/wait_process.rs): wait, try_wait, kill, wait_with_output and *)
(* drop, against a child that writes to two bounded pipes.                 *)
(***************************************************************************)
EXTENDS Naturals, Sequences

CONSTANTS Scripts,     \* what a child may write: sequences over Streams
          PipeCapacity \* a full pipe blocks the child

ASSUME PipeCapacityAssumption == PipeCapacity \in Nat \ {0}

Streams == {"stdout", "stderr"}

VARIABLES proc,        \* the process: [st, script, eof]
          pipe,        \* [Streams -> bytes in the pipe]
          drain,       \* [Streams -> the task that reads it]
          collected,   \* [Streams -> bytes read]
          child,       \* the Child: [std, status, killOnDrop, stdin]
          user,        \* what the owner of the Child does
          wrote        \* the script the process started with

processVars == <<proc, pipe, drain, collected, child, user, wrote>>

ProcessInit ==
    /\ wrote \in Scripts
    /\ \E eof \in BOOLEAN : proc = [st |-> "running", script |-> wrote, eof |-> eof]
    /\ pipe = [s \in Streams |-> 0]
    /\ drain = [s \in Streams |-> "held"]
    /\ collected = [s \in Streams |-> 0]
    /\ \E kill \in BOOLEAN :
        child = [std |-> "handle", status |-> FALSE, killOnDrop |-> kill, stdin |-> TRUE]
    /\ user = "idle"

\* std::process::Child::kill: SIGKILL, unless the child has been reaped.
Killed == IF proc.st = "running" THEN [proc EXCEPT !.st = "exited"] ELSE proc

\* The Child is dropped, with what it still holds of stdin, stdout and stderr.
DropChild(outcome) ==
    /\ proc' = IF child.killOnDrop /\ child.std = "handle" THEN Killed ELSE proc
    /\ child' = [child EXCEPT !.std = IF @ = "handle" THEN "dropped" ELSE @, !.stdin = FALSE]
    /\ drain' = [s \in Streams |-> IF drain[s] = "held" THEN "closed" ELSE drain[s]]
    /\ user' = outcome

-----------------------------------------------------------------------------
\* The process: it may wait for EOF on stdin, writes its script, and exits.  A
\* pipe nobody can read any more ends it.
ProcessWrites ==
    /\ proc.st = "running" /\ proc.script # <<>> /\ (proc.eof => ~child.stdin)
    /\ LET s == Head(proc.script) IN
        \/ /\ drain[s] # "closed" /\ pipe[s] < PipeCapacity
           /\ pipe' = [pipe EXCEPT ![s] = @ + 1]
           /\ proc' = [proc EXCEPT !.script = Tail(@)]
        \/ /\ drain[s] = "closed"
           /\ proc' = [proc EXCEPT !.st = "exited"]
           /\ UNCHANGED pipe
    /\ UNCHANGED <<drain, collected, child, user, wrote>>

ProcessExits ==
    /\ proc.st = "running" /\ proc.script = <<>> /\ (proc.eof => ~child.stdin)
    /\ proc' = [proc EXCEPT !.st = "exited"]
    /\ UNCHANGED <<pipe, drain, collected, child, user, wrote>>

-----------------------------------------------------------------------------
\* try_wait reaps an exited child and caches its status.
TryWait ==
    /\ user = "idle" /\ ~child.status /\ child.std = "handle" /\ proc.st = "exited"
    /\ proc' = [proc EXCEPT !.st = "reaped"]
    /\ child' = [child EXCEPT !.status = TRUE]
    /\ UNCHANGED <<pipe, drain, collected, user, wrote>>

\* wait, once try_wait found the child running: the standard child moves into
\* the pidfd operation, or into a blocking job where there is no pidfd.  With the
\* child gone already, `expect` panics and the unwinding owner drops the handle.
Wait ==
    /\ user \in {"idle", "drained"} /\ (child.status => user = "drained")
    /\ \/ /\ child.status /\ user' = "collected" /\ UNCHANGED <<proc, child, drain>>
       \/ /\ child.std = "handle" /\ proc.st = "running"
          /\ \E to \in {"op", "job"} : child' = [child EXCEPT !.std = to]
          /\ user' = IF user = "idle" THEN "waiting" ELSE "reaping"
          /\ UNCHANGED <<proc, drain>>
       \/ /\ child.std = "handle" /\ proc.st = "exited" /\ user = "drained"   \* by try_wait
          /\ proc' = [proc EXCEPT !.st = "reaped"]
          /\ child' = [child EXCEPT !.status = TRUE]
          /\ user' = "collected" /\ UNCHANGED drain
       \/ /\ child.std # "handle" /\ ~child.status /\ DropChild("panicked")
    /\ UNCHANGED <<pipe, collected, wrote>>

\* The pidfd is readable, or the pool's child.wait() returns: the child is reaped.
WaitDone ==
    /\ child.std \in {"op", "job"} /\ proc.st = "exited"
    /\ proc' = [proc EXCEPT !.st = "reaped"]
    /\ child' = [child EXCEPT !.std = "dropped", !.status = user \in {"waiting", "reaping"}]
    /\ user' = CASE user = "waiting" -> "idle" [] user = "reaping" -> "collected"
                 [] OTHER -> user
    /\ UNCHANGED <<pipe, drain, collected, wrote>>

\* The submission, the operation or the job fails, and drops the standard child
\* unreaped; the error ends wait_with_output.
WaitFails ==
    /\ \/ user \in {"idle", "drained"} /\ ~child.status /\ child.std = "handle" /\ proc.st = "running"
       \/ child.std \in {"op", "job"}
    /\ child' = [child EXCEPT !.std = "dropped"]
    /\ user' = CASE user = "waiting" -> "idle" [] user \in {"drained", "reaping"} -> "failed"
                 [] OTHER -> user
    /\ UNCHANGED <<proc, pipe, drain, collected, wrote>>

\* try_wait fails in wait_with_output, which drops the Child.  (Elsewhere its
\* error changes nothing.)
TryWaitFails ==
    /\ user = "drained" /\ ~child.status /\ child.std = "handle"
    /\ DropChild("failed")
    /\ UNCHANGED <<pipe, collected, wrote>>

\* The wait future is dropped: its operation is cancelled and the standard child
\* dropped with it; a pool job runs on.
CancelWait ==
    /\ user = "waiting"
    /\ child' = [child EXCEPT !.std = IF @ = "op" THEN "dropped" ELSE @]
    /\ user' = "idle"
    /\ UNCHANGED <<proc, pipe, drain, collected, wrote>>

\* kill and start_kill: an error once the standard child has been moved out.
Kill ==
    /\ user = "idle" /\ child.std = "handle" /\ proc.st = "running"
    /\ proc' = Killed
    /\ UNCHANGED <<pipe, drain, collected, child, user, wrote>>

\* The streams may be taken and dropped at any time.
TakeStdin ==
    /\ user = "idle" /\ child.stdin
    /\ child' = [child EXCEPT !.stdin = FALSE]
    /\ UNCHANGED <<proc, pipe, drain, collected, user, wrote>>

DropOwner ==
    /\ user = "idle"
    /\ DropChild("dropped")
    /\ UNCHANGED <<pipe, collected, wrote>>

-----------------------------------------------------------------------------
\* wait_with_output: stdin is dropped, both streams are drained by tasks of
\* their own, then the child is awaited.
WaitWithOutput ==
    /\ user = "idle"
    /\ child' = [child EXCEPT !.stdin = FALSE]
    /\ drain' = [s \in Streams |-> "reading"]
    /\ user' = "output"
    /\ UNCHANGED <<proc, pipe, collected, wrote>>

\* Fault: stderr is read only once stdout has ended
ReadingInTurn(s) == drain[s] = "reading" /\ (s = "stderr" => drain["stdout"] # "reading")

\* Each stream has a reader of its own.
Reading(s) == drain[s] = "reading"

\* read_to_end: until a read returns 0, which it does at the end of the pipe.
ReadToEnd(s) ==
    /\ Reading(s)
    /\ \/ /\ pipe[s] > 0
          /\ pipe' = [pipe EXCEPT ![s] = @ - 1]
          /\ collected' = [collected EXCEPT ![s] = @ + 1]
          /\ UNCHANGED drain
       \/ /\ pipe[s] = 0 /\ proc.st # "running"
          /\ drain' = [drain EXCEPT ![s] = "done"]
          /\ UNCHANGED <<pipe, collected>>
    /\ UNCHANGED <<proc, child, user, wrote>>

\* A read fails: its task drops the stream; stdout's result is awaited first, and
\* an error drops the Child.
ReadFails(s) ==
    /\ drain[s] = "reading"
    /\ drain' = [drain EXCEPT ![s] = "closed"]
    /\ UNCHANGED <<proc, pipe, collected, child, user, wrote>>

OutputFails ==
    /\ user = "output"
    /\ drain["stdout"] = "closed" \/ (drain["stdout"] = "done" /\ drain["stderr"] = "closed")
    /\ DropChild("failed")
    /\ UNCHANGED <<pipe, collected, wrote>>

Drained ==
    /\ user = "output" /\ \A s \in Streams : drain[s] = "done"
    /\ user' = "drained"
    /\ UNCHANGED <<proc, pipe, drain, collected, child, wrote>>

ProcessNext ==
    \/ ProcessWrites \/ ProcessExits
    \/ TryWait \/ Wait \/ WaitDone \/ WaitFails \/ TryWaitFails \/ CancelWait \/ Kill \/ TakeStdin \/ DropOwner
    \/ WaitWithOutput \/ (\E s \in Streams : ReadToEnd(s) \/ ReadFails(s)) \/ OutputFails \/ Drained

\* The child makes progress, reads are served, and the owner's task is polled.
ProcessSteps ==
    \/ ProcessWrites \/ ProcessExits \/ Drained \/ OutputFails \/ WaitDone
    \/ user = "drained" /\ Wait
    \/ \E s \in Streams : ReadToEnd(s)
CanProcessStep ==
    \/ /\ proc.st = "running" /\ (proc.eof => ~child.stdin)
       /\ proc.script = <<>> \/ drain[Head(proc.script)] = "closed" \/ pipe[Head(proc.script)] < PipeCapacity
    \/ \E s \in Streams : Reading(s) /\ (pipe[s] > 0 \/ proc.st # "running")
    \/ user = "output" /\ (drain["stdout"] = "closed" \/ \A s \in Streams : drain[s] # "reading")
    \/ user = "drained" \/ (child.std \in {"op", "job"} /\ proc.st = "exited")

-----------------------------------------------------------------------------
\* What wait_with_output returns is the whole output: every byte the child wrote
\* on either stream, of a child that has exited and been reaped.
WholeOutput ==
    /\ proc.st = "reaped"
    /\ proc.script = <<>> =>
          \A s \in Streams : collected[s] = Len(SelectSeq(wrote, LAMBDA x : x = s))

\* wait_with_output ends, and with the whole output unless a read or the wait
\* fails, whatever the child writes on which stream and even if it reads its
\* stdin to the end: both streams "are drained concurrently (avoiding the
\* classic pipe-full deadlock)" (process/child.rs:162-206).
OutputEnds ==
    (user = "output") ~> /\ user \notin {"output", "drained", "reaping"}
                         /\ user = "collected" => WholeOutput
=============================================================================
