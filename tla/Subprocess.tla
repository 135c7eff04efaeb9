----------------------------- MODULE Subprocess -----------------------------
(***************************************************************************)
(* lib/cxxll/subprocess.cpp, with the part of fd_handle.cpp that it uses:  *)
(* a record is the object together with what the kernel knows of it, the   *)
(* descriptors that are open in this process and the child.  Every call    *)
(* that start makes may fail, and then its exception has to leave nothing  *)
(* behind.                                                                 *)
(***************************************************************************)
EXTENDS Integers, Sequences, SequencesExt

CONSTANT None

in == 0
out == 1
err == 2

(* subprocess::impl.  exc is the exception that the last call has thrown.  *)
impl ==
  [image |-> None, argv |-> <<>>, activity |-> [i \in 0..2 |-> "inherit"],
   pipes |-> [i \in 0..2 |-> None], pid |-> 0, exc |-> None,
   fds |-> {}, child |-> "none"]

Throw(p, e) == [p EXCEPT !.exc = e]

command(p, cmd) ==
  [p EXCEPT !.image = cmd, !.argv = IF @ = <<>> THEN <<cmd>> ELSE [@ EXCEPT ![1] = cmd]]
arg(p, str) == [p EXCEPT !.argv = Append(@, str)]
redirect(p, fd, act) == [p EXCEPT !.activity[fd] = act]

(* The ends of the pipe for a standard descriptor.  They are closed in the *)
(* child when it executes the command (O_CLOEXEC, addclose).               *)
Parent(i) == <<i, "parent">>
Child(i) == <<i, "child">>

(* fd_handle::reset, and close_nothrow of several handles.                 *)
reset(p, i, fd) == [p EXCEPT !.fds = (@ \ {p.pipes[i]}) \cup {fd}, !.pipes[i] = fd]
close_pipes(p) ==
  [p EXCEPT !.fds = @ \ {p.pipes[i] : i \in 0..2}, !.pipes = [i \in 0..2 |-> None]]

(* The calls of start, one of which may fail.                              *)
Calls ==
  {<<0, "posix_spawnattr_setsigmask">>, <<0, "posix_spawn">>} \cup
  {<<i, f>> : i \in 0..2, f \in {"pipe2", "addopen", "adddup2", "addclose"}}

ASSUME SubprocessAssumption ==
  /\ None \notin {"pipe2", "adddup2", "addopen", "posix_spawn", "attr", "logic_error"}
  /\ None \notin {Parent(i) : i \in 0..2} \cup {Child(i) : i \in 0..2} \cup Calls

Piped(p, i, fails) ==
  LET opened == [reset(p, i, Parent(i)) EXCEPT !.fds = @ \cup {Child(i)}] IN
  CASE <<i, "pipe2">> = fails -> Throw(p, "pipe2")
    [] fails \in {<<i, "adddup2">>, <<i, "addclose">>} -> Throw(opened, "adddup2")
    [] OTHER -> opened

Redirected(p, i, fails) ==
  CASE p.exc # None \/ p.activity[i] = "inherit" -> p
    [] p.exc = None /\ p.activity[i] = "null" ->
         IF fails = <<i, "addopen">> THEN Throw(p, "addopen") ELSE p
    [] p.exc = None /\ p.activity[i] = "pipe" -> Piped(p, i, fails)

AllRedirected(p, fails) ==
  Redirected(Redirected(Redirected(p, in, fails), out, fails), err, fails)

posix_spawn(p, fails) ==
  CASE p.exc # None -> p
    [] p.exc = None /\ fails = <<0, "posix_spawn">> -> Throw(p, "posix_spawn")
    [] OTHER -> [p EXCEPT !.pid = 1, !.child = "alive"]

(* The destructors of child_pipes run in any case, the handler afterwards. *)
\* MUTANT: the ends of the child are closed only if all goes well.
start_leaking(p, fails) ==
  LET q == posix_spawn(AllRedirected(p, fails), fails)
  IN  CASE p.pid # 0 -> Throw(p, "logic_error")
        [] p.pid = 0 /\ fails = <<0, "posix_spawnattr_setsigmask">> -> Throw(p, "attr")
        [] OTHER -> IF q.exc # None THEN close_pipes(q)
                    ELSE [q EXCEPT !.fds = @ \ {Child(i) : i \in 0..2}]

start(p, fails) ==
  LET q == posix_spawn(AllRedirected(p, fails), fails)
      unwound == [q EXCEPT !.fds = @ \ {Child(i) : i \in 0..2}]
  IN  CASE p.pid # 0 -> Throw(p, "logic_error")
        [] p.pid = 0 /\ fails = <<0, "posix_spawnattr_setsigmask">> -> Throw(p, "attr")
        [] OTHER -> IF q.exc # None THEN close_pipes(unwound) ELSE unwound

running(p) == p.pid > 0

(* The destructor: kill and waitpid, and then the handles are closed.      *)
destroy_nothrow(p) ==
  IF p.pid # 0 THEN [p EXCEPT !.pid = 0, !.child = "none"] ELSE p
destroy(p) ==
  LET q == close_pipes(destroy_nothrow(p))
  IN  [impl EXCEPT !.fds = q.fds, !.child = q.child]
=============================================================================
