----------------------- MODULE PythonAnalyzer_proofs -----------------------
(***************************************************************************)
(* python_analyzer, for all sources and trees, pipes of any capacity and   *)
(* any number of calls:                                                    *)
(*   - no call leaves a descriptor or a process behind, whichever call of  *)
(*     start fails (HelpersOK, NothingLeaks);                              *)
(*   - what parse returns is the analysis of the source that it was given  *)
(*     (Faithful, ResultRight).                                            *)
(* The second rests on what the encoding means.  Its facts go from the     *)
(* sequences (FlattenSeq, sorted) over the text of an answer (From) to the *)
(* position of the reader in it (At); induction over data is by the least  *)
(* counterexample, as a set of numbers.                                    *)
(***************************************************************************)
EXTENDS PythonAnalyzer, FiniteSetTheorems, SequenceTheorems, WellFoundedInduction, TLAPS

Ends == {Parent(i) : i \in 0..2} \cup {Child(i) : i \in 0..2}
Exceptions == {"pipe2", "adddup2", "addopen", "posix_spawn", "attr", "logic_error"}
Arguments == Versions \cup {"-c", Script}

Process ==
  [image : Versions \cup {None}, argv : Seq(Arguments),
   activity : [0..2 -> {"inherit", "null", "pipe"}], pipes : [0..2 -> Ends \cup {None}],
   pid : {0, 1}, exc : Exceptions \cup {None}, fds : SUBSET Ends,
   child : {"none", "alive", "zombie"}]

(* Whatever is open has an owner: impl::pipes, or child_pipes of start.    *)
Owned(p) == p.fds \subseteq {p.pipes[i] : i \in 0..2} \cup {Child(i) : i \in 0..2}

(* The fields that the redirections do not touch.                          *)
SameCommand(p, q) ==
  /\ q.image = p.image /\ q.argv = p.argv /\ q.activity = p.activity
  /\ q.pid = p.pid /\ q.child = p.child

-----------------------------------------------------------------------------
(* arg, for the argument vector as it grows: what Append makes of a        *)
(* sequence of one, and of two.                                            *)
LEMMA AppendToOne ==
  ASSUME NEW S, NEW a \in S, NEW b \in S
  PROVE  Append(<<a>>, b) = <<a, b>>
  <1> DEFINE s == Append(<<a>>, b)
             t == <<a, b>>
  <1>1. s \in Seq(S) /\ Len(s) = 2 /\ s[1] = a /\ s[2] = b
    <2>1. <<a>> \in Seq(S) /\ Len(<<a>>) = 1 /\ <<a>>[1] = a
      OBVIOUS
    <2> QED
      BY <2>1, AppendProperties
  <1>2. t \in Seq(S) /\ Len(t) = 2 /\ t[1] = a /\ t[2] = b
    OBVIOUS
  <1> HIDE DEF s, t
  <1>3. \A i \in 1..Len(s) : i = 1 \/ i = 2
    BY <1>1
  <1>4. s = t
    BY <1>1, <1>2, <1>3, SeqEqual
  <1> QED
    BY <1>4 DEF s, t

(* The same for the script, which comes third.                             *)
LEMMA AppendToTwo ==
  ASSUME NEW S, NEW a \in S, NEW b \in S, NEW c \in S
  PROVE  Append(<<a, b>>, c) = <<a, b, c>>
  <1> DEFINE s == Append(<<a, b>>, c)
             t == <<a, b, c>>
  <1>1. s \in Seq(S) /\ Len(s) = 3 /\ s[1] = a /\ s[2] = b /\ s[3] = c
    <2>1. <<a, b>> \in Seq(S) /\ Len(<<a, b>>) = 2 /\ <<a, b>>[1] = a /\ <<a, b>>[2] = b
      OBVIOUS
    <2> QED
      BY <2>1, AppendProperties
  <1>2. t \in Seq(S) /\ Len(t) = 3 /\ t[1] = a /\ t[2] = b /\ t[3] = c
    OBVIOUS
  <1> HIDE DEF s, t
  <1>3. \A i \in 1..Len(s) : i = 1 \/ i = 2 \/ i = 3
    BY <1>1
  <1>4. s = t
    BY <1>1, <1>2, <1>3, SeqEqual
  <1> QED
    BY <1>4 DEF s, t

(* subprocess::impl begins with nothing open.                              *)
LEMMA ImplType == impl \in Process /\ impl.fds = {} /\ impl.exc = None /\ impl.pid = 0
                  /\ impl.pipes = [i \in 0..2 |-> None] /\ impl.child = "none"
                  /\ impl.activity = [i \in 0..2 |-> "inherit"] /\ impl.argv = <<>>
  BY DEF impl, Process

(* The subprocess that the constructor of interpreter starts: its argument *)
(* vector, and pipes for the two standard descriptors that it talks over.  *)
LEMMA Prepared ==
  ASSUME NEW v \in Versions
  PROVE  LET p == redirect(redirect(arg(arg(command(impl, v), "-c"), Script),
                                    in, "pipe"), out, "pipe")
         IN  /\ p \in Process
             /\ p.image = v /\ p.argv = <<v, "-c", Script>>
             /\ p.activity[in] = "pipe" /\ p.activity[out] = "pipe"
             /\ p.activity[err] = "inherit"
             /\ p.pipes = [i \in 0..2 |-> None]
             /\ p.pid = 0 /\ p.exc = None /\ p.fds = {} /\ p.child = "none"
  <1> DEFINE c == command(impl, v)
             a == arg(c, "-c")
             b == arg(a, Script)
             r == redirect(b, in, "pipe")
             s == redirect(r, out, "pipe")
             Rest(p) == p.pipes = [i \in 0..2 |-> None] /\ p.pid = 0 /\ p.exc = None
                        /\ p.fds = {} /\ p.child = "none" /\ p.image = v
  <1>0. v \in Arguments /\ "-c" \in Arguments /\ Script \in Arguments
    BY DEF Arguments
  <1>1. c \in Process /\ c.argv = <<v>> /\ c.activity = [i \in 0..2 |-> "inherit"] /\ Rest(c)
    <2>1. c = [impl EXCEPT !.image = v, !.argv = <<v>>]
      BY ImplType DEF command
    <2>2. <<v>> \in Seq(Arguments)
      BY <1>0
    <2> QED
      BY <2>1, <2>2, ImplType DEF Process
  <1> HIDE DEF c
  <1>2. a \in Process /\ a.argv = <<v, "-c">> /\ a.activity = [i \in 0..2 |-> "inherit"] /\ Rest(a)
    <2>1. Append(<<v>>, "-c") = <<v, "-c">> /\ <<v, "-c">> \in Seq(Arguments)
      BY <1>0, AppendToOne
    <2>2. a = [c EXCEPT !.argv = <<v, "-c">>]
      BY <1>1, <2>1 DEF arg
    <2> QED
      BY <1>1, <2>1, <2>2 DEF Process
  <1> HIDE DEF a
  <1>3. b \in Process /\ b.argv = <<v, "-c", Script>> /\ b.activity = [i \in 0..2 |-> "inherit"]
        /\ Rest(b)
    <2>1. /\ Append(<<v, "-c">>, Script) = <<v, "-c", Script>>
          /\ <<v, "-c", Script>> \in Seq(Arguments)
      BY <1>0, AppendToTwo
    <2>2. b = [a EXCEPT !.argv = <<v, "-c", Script>>]
      BY <1>2, <2>1 DEF arg
    <2> QED
      BY <1>2, <2>1, <2>2 DEF Process
  <1> HIDE DEF b
  <1>4. r \in Process /\ r.argv = b.argv /\ r.activity = [b.activity EXCEPT ![in] = "pipe"]
        /\ Rest(r)
    <2>1. r = [b EXCEPT !.activity = [b.activity EXCEPT ![in] = "pipe"]]
      BY <1>3 DEF redirect, Process
    <2>2. [b.activity EXCEPT ![in] = "pipe"] \in [0..2 -> {"inherit", "null", "pipe"}]
      BY <1>3 DEF Process
    <2> QED
      BY <1>3, <2>1, <2>2 DEF Process
  <1> HIDE DEF r
  <1>5. s \in Process /\ s.argv = b.argv /\ s.activity = [r.activity EXCEPT ![out] = "pipe"]
        /\ Rest(s)
    <2>1. s = [r EXCEPT !.activity = [r.activity EXCEPT ![out] = "pipe"]]
      BY <1>4 DEF redirect, Process
    <2>2. [r.activity EXCEPT ![out] = "pipe"] \in [0..2 -> {"inherit", "null", "pipe"}]
      BY <1>4 DEF Process
    <2> QED
      BY <1>4, <2>1, <2>2 DEF Process
  <1> HIDE DEF s
  <1>6. s.activity[in] = "pipe" /\ s.activity[out] = "pipe" /\ s.activity[err] = "inherit"
    <2>1. in = 0 /\ out = 1 /\ err = 2 /\ in \in 0..2 /\ out \in 0..2 /\ err \in 0..2
      BY DEF in, out, err
    <2> QED
      BY <1>3, <1>4, <1>5, <2>1
  <1> QED
    BY <1>3, <1>5, <1>6 DEF s, r, b, a, c

-----------------------------------------------------------------------------
PipeStep(p, i, q) ==
  /\ q \in Process /\ SameCommand(p, q) /\ Owned(q)
  /\ q.exc = None =>
       /\ q.pipes[i] = Parent(i)
       /\ \A j \in 0..2 \ {i} : q.pipes[j] = p.pipes[j]
       /\ q.fds = p.fds \cup {Parent(i), Child(i)}

(* One turn of the loop of start, for a descriptor that gets a pipe: the   *)
(* pipe is open and both ends have owners, or an exception is thrown and   *)
(* what is open has owners nevertheless.                                   *)
LEMMA PipeRedirected ==
  ASSUME NEW p \in Process, NEW i \in 0..2, NEW fails,
         p.exc = None, p.activity[i] = "pipe", p.pipes[i] = None, Owned(p)
  PROVE  PipeStep(p, i, Redirected(p, i, fails))
  <1> DEFINE opened == [reset(p, i, Parent(i)) EXCEPT !.fds = @ \cup {Child(i)}]
             pipes == [p.pipes EXCEPT ![i] = Parent(i)]
             fds == p.fds \cup {Parent(i), Child(i)}
  <1>1. Parent(i) \in Ends /\ Child(i) \in Ends /\ None \notin Ends /\ None \notin Exceptions
    BY SubprocessAssumption DEF Ends, Exceptions
  <1>2. pipes \in [0..2 -> Ends \cup {None}] /\ fds \in SUBSET Ends
    BY <1>1 DEF Process
  <1>3. opened = [p EXCEPT !.pipes = pipes, !.fds = fds]
    <2>1. reset(p, i, Parent(i)) = [p EXCEPT !.fds = p.fds \cup {Parent(i)}, !.pipes = pipes]
      <3>1. (p.fds \ {p.pipes[i]}) \cup {Parent(i)} = p.fds \cup {Parent(i)}
        BY <1>1 DEF Process
      <3> QED
        BY <3>1 DEF reset, Process
    <2>2. (p.fds \cup {Parent(i)}) \cup {Child(i)} = fds
      OBVIOUS
    <2> QED
      BY <2>1, <2>2 DEF Process
  <1> HIDE DEF opened, pipes, fds
  <1>4. /\ opened \in Process /\ SameCommand(p, opened) /\ opened.exc = None
        /\ opened.pipes = pipes /\ opened.fds = fds
    BY <1>2, <1>3 DEF Process, SameCommand
  <1>5. Owned(opened)
    <2>1. \A j \in 0..2 : p.pipes[j] # None => pipes[j] = p.pipes[j]
      BY DEF pipes, Process
    <2>2. pipes[i] = Parent(i)
      BY DEF pipes, Process
    <2>3. \A fd \in p.fds : fd # None
      BY <1>1 DEF Process
    <2> QED
      BY <1>4, <2>1, <2>2, <2>3 DEF Owned, fds
  <1>6. Redirected(p, i, fails) = Piped(p, i, fails)
    BY DEF Redirected
  <1>7. CASE fails = <<i, "pipe2">>
    <2>1. Redirected(p, i, fails) = [p EXCEPT !.exc = "pipe2"]
      BY <1>6, <1>7 DEF Piped, Throw
    <2>2. "pipe2" \in Exceptions /\ "pipe2" # None
      BY <1>1 DEF Exceptions
    <2> DEFINE q == [p EXCEPT !.exc = "pipe2"]
    <2>3. /\ q \in Process /\ SameCommand(p, q)
          /\ q.exc # None /\ q.pipes = p.pipes /\ q.fds = p.fds
      BY <2>2 DEF Process, SameCommand
    <2> HIDE DEF q
    <2>4. PipeStep(p, i, q)
      BY <2>3 DEF Owned, PipeStep
    <2> QED
      BY <2>1, <2>4 DEF q
  <1>8. CASE fails # <<i, "pipe2">> /\ fails \in {<<i, "adddup2">>, <<i, "addclose">>}
    <2>1. Redirected(p, i, fails) = [opened EXCEPT !.exc = "adddup2"]
      BY <1>6, <1>8 DEF Piped, Throw, opened
    <2>2. "adddup2" \in Exceptions /\ "adddup2" # None
      BY <1>1 DEF Exceptions
    <2> DEFINE q == [opened EXCEPT !.exc = "adddup2"]
    <2>3. /\ q \in Process /\ SameCommand(p, q)
          /\ q.exc # None /\ q.pipes = opened.pipes /\ q.fds = opened.fds
      BY <1>4, <2>2 DEF Process, SameCommand
    <2> HIDE DEF q
    <2>4. PipeStep(p, i, q)
      BY <1>5, <2>3 DEF Owned, PipeStep
    <2> QED
      BY <2>1, <2>4 DEF q
  <1>9. CASE fails # <<i, "pipe2">> /\ fails \notin {<<i, "adddup2">>, <<i, "addclose">>}
    <2>1. Redirected(p, i, fails) = opened
      BY <1>6, <1>9 DEF Piped, opened
    <2>2. pipes[i] = Parent(i) /\ \A j \in 0..2 \ {i} : pipes[j] = p.pipes[j]
      BY DEF pipes, Process
    <2> QED
      BY <1>4, <1>5, <2>1, <2>2 DEF fds, PipeStep
  <1> QED
    BY <1>7, <1>8, <1>9

(* After an exception the loop is over, and an inherited descriptor needs  *)
(* no call.                                                                *)
LEMMA NotRedirected ==
  ASSUME NEW p, NEW i, NEW fails, p.exc # None \/ p.activity[i] = "inherit"
  PROVE  Redirected(p, i, fails) = p
  BY DEF Redirected

(* close_pipes, once child_pipes are gone, closes everything.              *)
LEMMA PipesClosed ==
  ASSUME NEW p \in Process, p.fds \subseteq {p.pipes[i] : i \in 0..2}
  PROVE  /\ close_pipes(p) \in Process /\ close_pipes(p).fds = {}
         /\ SameCommand(p, close_pipes(p)) /\ close_pipes(p).exc = p.exc
  <1>1. close_pipes(p) = [p EXCEPT !.fds = {}, !.pipes = [i \in 0..2 |-> None]]
    <2>1. p.fds \ {p.pipes[i] : i \in 0..2} = {}
      OBVIOUS
    <2> QED
      BY <2>1 DEF close_pipes, Process
  <1>2. [i \in 0..2 |-> None] \in [0..2 -> Ends \cup {None}] /\ {} \in SUBSET Ends
    OBVIOUS
  <1> QED
    BY <1>1, <1>2 DEF Process, SameCommand

-----------------------------------------------------------------------------
Idle(p) == p.fds = {} /\ p.child = "none" /\ p.pid = 0

(* An interpreter that is spoken to.                                       *)
Talking(v, p) ==
  /\ p.pid = 1 /\ p.child # "none"
  /\ p.fds = {Parent(in), Parent(out)}
  /\ p.pipes[in] = Parent(in) /\ p.pipes[out] = Parent(out)
  /\ p.image = v /\ p.argv = <<v, "-c", Script>>

(* start, for what the constructor of interpreter prepares: the child runs *)
(* and this process has its ends of the two pipes, or start throws and     *)
(* there is nothing.                                                       *)
LEMMA Started ==
  ASSUME NEW v \in Versions, NEW fails, NEW p \in Process,
         p.image = v, p.argv = <<v, "-c", Script>>,
         p.activity[in] = "pipe", p.activity[out] = "pipe", p.activity[err] = "inherit",
         p.pipes = [i \in 0..2 |-> None],
         p.pid = 0, p.exc = None, p.fds = {}, p.child = "none"
  PROVE  LET q == start(p, fails)
         IN  /\ q \in Process
             /\ q.exc # None => Idle(q)
             /\ q.exc = None => Talking(v, q)
  <1>0. /\ None \notin Ends /\ None \notin Exceptions
        /\ in \in 0..2 /\ out \in 0..2 /\ err \in 0..2 /\ in # out
    BY SubprocessAssumption DEF Ends, Exceptions, in, out, err
  <1>1. CASE fails = <<0, "posix_spawnattr_setsigmask">>
    <2>1. start(p, fails) = [p EXCEPT !.exc = "attr"]
      BY <1>1 DEF start, Throw
    <2>2. "attr" \in Exceptions /\ "attr" # None
      BY <1>0 DEF Exceptions
    <2> QED
      BY <2>1, <2>2 DEF Process, Idle
  <1>2. CASE fails # <<0, "posix_spawnattr_setsigmask">>
    <2> DEFINE a == Redirected(p, in, fails)
               b == Redirected(a, out, fails)
               c == AllRedirected(p, fails)
               q == posix_spawn(c, fails)
               unwound == [q EXCEPT !.fds = @ \ {Child(i) : i \in 0..2}]
    <2>1. /\ a \in Process /\ SameCommand(p, a) /\ Owned(a)
          /\ a.exc = None => /\ a.pipes[in] = Parent(in) /\ a.pipes[out] = None
                             /\ a.fds = {Parent(in), Child(in)}
      <3>1. p.pipes[in] = None /\ Owned(p)
        BY <1>0 DEF Owned
      <3>2. PipeStep(p, in, a)
        BY <1>0, <3>1, PipeRedirected
      <3> HIDE DEF a
      <3> QED
        BY <1>0, <3>2 DEF PipeStep
    <2>2. c = Redirected(b, err, fails)
      BY DEF AllRedirected
    <2> HIDE DEF a
    <2>3. /\ b \in Process /\ SameCommand(p, b) /\ Owned(b)
          /\ b.exc = None => /\ b.pipes[in] = Parent(in) /\ b.pipes[out] = Parent(out)
                             /\ b.fds = {Parent(in), Child(in), Parent(out), Child(out)}
      <3>1. CASE a.exc # None
        <4>1. b = a
          BY <3>1, NotRedirected
        <4> QED
          BY <2>1, <3>1, <4>1
      <3>2. CASE a.exc = None
        <4>1. a.pipes[out] = None /\ a.pipes[in] = Parent(in) /\ a.activity[out] = "pipe"
          BY <2>1, <3>2 DEF SameCommand
        <4>2. PipeStep(a, out, b)
          BY <1>0, <2>1, <3>2, <4>1, PipeRedirected
        <4> HIDE DEF b
        <4>3. SameCommand(p, b)
          BY <2>1, <4>2 DEF SameCommand, PipeStep
        <4>4. ASSUME b.exc = None
              PROVE  /\ b.pipes[in] = Parent(in) /\ b.pipes[out] = Parent(out)
                     /\ b.fds = {Parent(in), Child(in), Parent(out), Child(out)}
          <5>1. b.pipes[in] = Parent(in) /\ b.pipes[out] = Parent(out)
            BY <1>0, <4>1, <4>2, <4>4 DEF PipeStep
          <5>2. b.fds = {Parent(in), Child(in), Parent(out), Child(out)}
            BY <2>1, <3>2, <4>2, <4>4 DEF PipeStep
          <5> QED
            BY <5>1, <5>2
        <4> QED
          BY <4>2, <4>3, <4>4 DEF PipeStep
      <3> QED
        BY <3>1, <3>2
    <2> HIDE DEF b
    <2>4. c = b
      BY <2>2, <2>3, NotRedirected DEF SameCommand
    <2> HIDE DEF c
    <2>5. /\ q \in Process /\ Owned(q) /\ q.image = v /\ q.argv = <<v, "-c", Script>>
          /\ q.exc # None => q.pid = 0 /\ q.child = "none"
          /\ q.exc = None => /\ q.pid = 1 /\ q.child = "alive"
                             /\ q.pipes[in] = Parent(in) /\ q.pipes[out] = Parent(out)
                             /\ q.fds = {Parent(in), Child(in), Parent(out), Child(out)}
      <3>0. c \in Process /\ Owned(c) /\ SameCommand(p, c)
        BY <2>3, <2>4
      <3>1. CASE c.exc # None
        <4>1. q = c
          BY <3>1 DEF posix_spawn
        <4> QED
          BY <3>0, <3>1, <4>1 DEF SameCommand
      <3>2. CASE c.exc = None /\ fails = <<0, "posix_spawn">>
        <4>1. q = [c EXCEPT !.exc = "posix_spawn"]
          BY <3>2 DEF posix_spawn, Throw
        <4>2. "posix_spawn" \in Exceptions /\ "posix_spawn" # None
          BY <1>0 DEF Exceptions
        <4> HIDE DEF q
        <4>3. q \in Process /\ SameCommand(c, q) /\ q.exc # None
              /\ q.fds = c.fds /\ q.pipes = c.pipes
          BY <3>0, <4>1, <4>2 DEF Process, SameCommand
        <4> QED
          BY <3>0, <4>3 DEF SameCommand, Owned
      <3>3. CASE c.exc = None /\ fails # <<0, "posix_spawn">>
        <4>1. q = [c EXCEPT !.pid = 1, !.child = "alive"]
          BY <3>3 DEF posix_spawn
        <4>2. /\ q \in Process /\ q.exc = None /\ q.fds = c.fds /\ q.pipes = c.pipes
              /\ q.image = c.image /\ q.argv = c.argv /\ q.pid = 1 /\ q.child = "alive"
          BY <3>0, <3>3, <4>1 DEF Process
        <4> HIDE DEF q
        <4> QED
          BY <2>3, <2>4, <3>0, <3>3, <4>2 DEF SameCommand, Owned
      <3> QED
        BY <3>1, <3>2, <3>3
    <2>6. start(p, fails) = IF q.exc # None THEN close_pipes(unwound) ELSE unwound
      BY <1>2 DEF start, c
    <2> HIDE DEF q
    <2>7. /\ unwound \in Process /\ unwound.fds = q.fds \ {Child(i) : i \in 0..2}
          /\ unwound.exc = q.exc /\ unwound.pipes = q.pipes /\ SameCommand(q, unwound)
      BY <2>5 DEF Process, SameCommand
    <2> HIDE DEF unwound
    <2>8. CASE q.exc # None
      <3>1. unwound.fds \subseteq {unwound.pipes[i] : i \in 0..2}
        BY <2>5, <2>7 DEF Owned
      <3> QED
        BY <2>5, <2>6, <2>7, <2>8, <3>1, PipesClosed DEF SameCommand, Idle
    <2>9. CASE q.exc = None
      <3>1. unwound.fds = {Parent(in), Parent(out)}
        <4>1. \A i, j \in 0..2 : Parent(i) # Child(j)
          BY DEF Parent, Child
        <4>2. Child(in) \in {Child(i) : i \in 0..2} /\ Child(out) \in {Child(i) : i \in 0..2}
          BY <1>0
        <4>3. {Parent(in), Parent(out)} \cap {Child(i) : i \in 0..2} = {}
          BY <1>0, <4>1
        <4> QED
          BY <2>5, <2>7, <2>9, <4>2, <4>3
      <3> QED
        BY <2>5, <2>6, <2>7, <2>9, <3>1 DEF SameCommand, Talking
    <2> QED
      BY <2>8, <2>9
  <1> QED
    BY <1>1, <1>2

(* ~subprocess kills the child and closes the pipes, whether it was        *)
(* started or not.                                                         *)
LEMMA Destroyed ==
  ASSUME NEW v \in Versions, NEW p \in Process, Idle(p) \/ Talking(v, p)
  PROVE  destroy(p) \in Process /\ Idle(destroy(p))
  <1> DEFINE d == destroy_nothrow(p)
             q == close_pipes(d)
  <1>1. d \in Process /\ d.child = "none" /\ d.pipes = p.pipes /\ d.fds = p.fds
    <2>1. CASE Idle(p)
      BY <2>1 DEF destroy_nothrow, Idle
    <2>2. CASE Talking(v, p)
      <3>1. d = [p EXCEPT !.pid = 0, !.child = "none"]
        BY <2>2 DEF destroy_nothrow, Talking
      <3> QED
        BY <3>1 DEF Process
    <2> QED
      BY <2>1, <2>2
  <1> HIDE DEF d
  <1>2. d.fds \subseteq {d.pipes[i] : i \in 0..2}
    BY <1>1 DEF Idle, Talking, in, out
  <1>3. q.fds = {} /\ q.child = "none"
    BY <1>1, <1>2, PipesClosed DEF SameCommand
  <1>4. destroy(p) = [impl EXCEPT !.fds = q.fds, !.child = q.child]
    BY DEF destroy, d
  <1> HIDE DEF q
  <1> QED
    BY <1>3, <1>4, ImplType DEF Process, Idle

(* The constructor of interpreter leaves an interpreter or nothing.        *)
LEMMA Constructed ==
  ASSUME NEW v \in Versions, NEW fails
  PROVE  LET p == interpreter(v, impl, fails)
         IN  p \in Process /\ (Idle(p) \/ Talking(v, p))
  <1> DEFINE r == redirect(redirect(arg(arg(command(impl, v), "-c"), Script),
                                    in, "pipe"), out, "pipe")
             q == start(r, fails)
  <1>1. /\ r \in Process
        /\ r.image = v /\ r.argv = <<v, "-c", Script>>
        /\ r.activity[in] = "pipe" /\ r.activity[out] = "pipe"
        /\ r.activity[err] = "inherit"
        /\ r.pipes = [i \in 0..2 |-> None]
        /\ r.pid = 0 /\ r.exc = None /\ r.fds = {} /\ r.child = "none"
    BY Prepared
  <1>2. interpreter(v, impl, fails) = IF q.exc # None THEN destroy(q) ELSE q
    BY DEF interpreter
  <1> HIDE DEF r
  <1>3. q \in Process /\ (q.exc # None => Idle(q)) /\ (q.exc = None => Talking(v, q))
    BY <1>1, Started
  <1> HIDE DEF q
  <1> QED
    BY <1>2, <1>3, Destroyed

-----------------------------------------------------------------------------
(* The inductive invariant: an interpreter that is not running has nothing *)
(* open and no child, and one that is running has the ends of its pipes    *)
(* where the destructor and the next call find them.                       *)
InterpreterOK(v, h) ==
  /\ "process" \in DOMAIN h
  /\ h.process \in Process
  /\ Idle(h.process) \/ Talking(v, h.process)

HelpersOK ==
  /\ helper = [v \in Versions |-> helper[v]]
  /\ \A v \in Versions : InterpreterOK(v, helper[v])

(* A new helper of which the subprocess is in order.                       *)
LEMMA NewHelper ==
  ASSUME NEW v \in Versions, NEW p \in Process, Idle(p) \/ Talking(v, p)
  PROVE  InterpreterOK(v, [NoHelper EXCEPT !.process = p])
  <1> DEFINE h == [NoHelper EXCEPT !.process = p]
  <1>1. h.process = p /\ "process" \in DOMAIN h
    BY DEF NoHelper
  <1> HIDE DEF h
  <1>2. InterpreterOK(v, h)
    BY <1>1 DEF InterpreterOK
  <1> QED
    BY <1>2 DEF h

(* One helper changes, and stays in order.                                 *)
LEMMA OneChanges ==
  ASSUME HelpersOK, NEW v \in Versions, NEW h, InterpreterOK(v, h),
         helper' = [helper EXCEPT ![v] = h]
  PROVE  HelpersOK'
  BY DEF HelpersOK, InterpreterOK, Idle, Talking

(* maybe_start starts an interpreter, finds one, or leaves nothing.        *)
LEMMA MaybeStarted ==
  ASSUME HelpersOK, NEW v \in Versions, NEW fails
  PROVE  InterpreterOK(v, maybe_start(v, fails))
  <1>1. InterpreterOK(v, helper[v])
    BY DEF HelpersOK
  <1>2. CASE running(helper[v].process)
    BY <1>1, <1>2 DEF maybe_start
  <1>3. CASE ~running(helper[v].process)
    <2>1. helper[v].process.fds = {}
      BY <1>1, <1>3 DEF InterpreterOK, running, Idle, Talking
    <2>2. [impl EXCEPT !.fds = helper[v].process.fds] = impl
      <3>1. [impl EXCEPT !.fds = {}] = impl
        BY ImplType DEF Process
      <3> QED
        BY <2>1, <3>1
    <2> DEFINE p == interpreter(v, impl, fails)
    <2>3. p \in Process /\ (Idle(p) \/ Talking(v, p))
      BY Constructed
    <2>4. maybe_start(v, fails) = [NoHelper EXCEPT !.process = p]
      BY <1>3, <2>2 DEF maybe_start
    <2> HIDE DEF p
    <2> QED
      BY <2>3, <2>4, NewHelper
  <1> QED
    BY <1>2, <1>3

(* The pipes of a helper are used and the subprocess object is not.        *)
LEMMA PipesUsed ==
  ASSUME HelpersOK, helper' = [v \in Versions |-> helper'[v]],
         \A v \in Versions : "process" \in DOMAIN helper'[v]
                             /\ helper'[v].process = helper[v].process
  PROVE  HelpersOK'
  BY DEF HelpersOK, InterpreterOK, Idle, Talking

-----------------------------------------------------------------------------
(* python_analyzer has no interpreters at first.                           *)
LEMMA InitHelpers == Init => HelpersOK
  <1> SUFFICES ASSUME Init PROVE HelpersOK
    OBVIOUS
  <1>1. \A v \in Versions : helper[v] = NoHelper
    BY DEF Init
  <1>2. \A v \in Versions : InterpreterOK(v, NoHelper)
    BY ImplType DEF InterpreterOK, NoHelper, Idle
  <1> QED
    BY <1>1, <1>2 DEF Init, HelpersOK

(* Each step of the caller and of the interpreters keeps them in order.    *)
LEMMA NextHelpers == HelpersOK /\ [Next]_vars => HelpersOK'
  <1> SUFFICES ASSUME HelpersOK, [Next]_vars PROVE HelpersOK'
    OBVIOUS
  <1>0. helper = [v \in Versions |-> helper[v]] /\ 2 \in Versions /\ 3 \in Versions
        /\ \A v \in Versions : InterpreterOK(v, helper[v])
    BY DEF HelpersOK, Versions
  <1>s. ASSUME helper' = helper PROVE HelpersOK'
    BY <1>s DEF HelpersOK, InterpreterOK, Idle, Talking
  <1>r. ASSUME NEW v \in Versions, NEW s, Request(v, s) PROVE HelpersOK'
    <2>1. PICK fails \in Failures(v) : helper' = [helper EXCEPT ![v] = maybe_start(v, fails)]
      BY <1>r DEF Request
    <2> QED
      BY <2>1, MaybeStarted, OneChanges
  <1>1. ASSUME NEW s \in Sources, parse(s) PROVE HelpersOK'
    <2>1. CASE NulAt(s) # 0
      <3>1. BadString(s)
        BY <1>1, <2>1 DEF parse
      <3>2. PICK fails \in Failures(2) : helper' = [helper EXCEPT ![2] = maybe_start(2, fails)]
        BY <3>1 DEF BadString
      <3> QED
        BY <1>0, <3>2, MaybeStarted, OneChanges
    <2>2. CASE NulAt(s) = 0
      <3>1. Request(2, s)
        BY <1>1, <2>2 DEF parse
      <3> QED
        BY <1>0, <1>r, <3>1
    <2> QED
      BY <2>1, <2>2
  <1>2. CASE send_string
    <2>1. \/ helper' = helper
          \/ helper' = [helper EXCEPT ![caller.version].in = Append(@, Head(caller.send))]
      BY <1>2 DEF send_string
    <2>2. CASE helper' = [helper EXCEPT ![caller.version].in = Append(@, Head(caller.send))]
      <3>1. helper' = [v \in Versions |-> helper'[v]]
        BY <1>0, <2>2
      <3>2. \A v \in Versions : "process" \in DOMAIN helper'[v]
                                /\ helper'[v].process = helper[v].process
        BY <1>0, <2>2 DEF InterpreterOK
      <3> QED
        BY <3>1, <3>2, PipesUsed
    <2> QED
      BY <1>s, <2>1, <2>2
  <1>3. CASE ReadUnit
    <2>1. helper' = [helper EXCEPT ![caller.version].out = Tail(@)]
      BY <1>3 DEF ReadUnit
    <2>2. helper' = [v \in Versions |-> helper'[v]]
      BY <1>0, <2>1
    <2>3. \A v \in Versions : "process" \in DOMAIN helper'[v]
                              /\ helper'[v].process = helper[v].process
      BY <1>0, <2>1 DEF InterpreterOK
    <2> QED
      BY <2>2, <2>3, PipesUsed
  <1>4. CASE eof_exception
    BY <1>s, <1>4 DEF eof_exception
  <1>5. CASE Answered
    <2>1. helper' = helper \/ Request(3, caller.source)
      BY <1>5 DEF Answered
    <2> QED
      BY <1>0, <1>r, <1>s, <2>1
  <1>6. CASE DestroyAnalyzer
    <2>1. helper' = [v \in Versions |-> [NoHelper EXCEPT !.process = destroy(helper[v].process)]]
      BY <1>6 DEF DestroyAnalyzer
    <2>2. ASSUME NEW v \in Versions
          PROVE  InterpreterOK(v, [NoHelper EXCEPT !.process = destroy(helper[v].process)])
      <3>1. /\ helper[v].process \in Process
            /\ Idle(helper[v].process) \/ Talking(v, helper[v].process)
        BY <1>0 DEF InterpreterOK
      <3>2. /\ destroy(helper[v].process) \in Process
            /\ Idle(destroy(helper[v].process))
        BY <3>1, Destroyed
      <3> QED
        BY <3>2, NewHelper
    <2> QED
      BY <2>1, <2>2 DEF HelpersOK, InterpreterOK, Idle, Talking
  <1>7. ASSUME NEW v \in Versions, HelperReads(v) PROVE HelpersOK'
    <2>1. PICK got, reply : helper' = [helper EXCEPT ![v].in = Tail(@), ![v].got = got,
                                                     ![v].reply = reply]
      BY <1>7 DEF HelperReads
    <2>2. helper' = [w \in Versions |-> helper'[w]]
      BY <1>0, <2>1
    <2>3. \A w \in Versions : "process" \in DOMAIN helper'[w]
                              /\ helper'[w].process = helper[w].process
      BY <1>0, <2>1 DEF InterpreterOK
    <2> QED
      BY <2>2, <2>3, PipesUsed
  <1>8. ASSUME NEW v \in Versions, HelperWrites(v) PROVE HelpersOK'
    <2>1. helper' = [helper EXCEPT ![v].out = Append(@, Head(helper[v].reply)),
                                   ![v].reply = Tail(@)]
      BY <1>8 DEF HelperWrites
    <2>2. helper' = [w \in Versions |-> helper'[w]]
      BY <1>0, <2>1
    <2>3. \A w \in Versions : "process" \in DOMAIN helper'[w]
                              /\ helper'[w].process = helper[w].process
      BY <1>0, <2>1 DEF InterpreterOK
    <2> QED
      BY <2>2, <2>3, PipesUsed
  <1>9. ASSUME NEW v \in Versions, HelperDies(v) PROVE HelpersOK'
    <2> DEFINE p == [helper[v].process EXCEPT !.child = "zombie"]
    <2>1. helper' = [helper EXCEPT ![v].process.child = "zombie", ![v].reply = <<>>]
      BY <1>9 DEF HelperDies
    <2>2. p \in Process /\ Talking(v, p)
      <3>1. helper[v].process \in Process /\ Talking(v, helper[v].process)
        BY <1>0, <1>9 DEF HelperDies, Alive, InterpreterOK, Idle
      <3> QED
        BY <3>1 DEF Process, Talking
    <2>3. helper'[v].process = p /\ "process" \in DOMAIN helper'[v]
      BY <1>0, <2>1 DEF InterpreterOK
    <2> HIDE DEF p
    <2>4. InterpreterOK(v, helper'[v])
      BY <2>2, <2>3 DEF InterpreterOK
    <2>5. helper' = [helper EXCEPT ![v] = helper'[v]]
      BY <1>0, <2>1
    <2> QED
      BY <2>4, <2>5, OneChanges
  <1>10. CASE UNCHANGED vars
    BY <1>s, <1>10 DEF vars
  <1> QED
    BY <1>1, <1>2, <1>3, <1>4, <1>5, <1>6, <1>7, <1>8, <1>9, <1>10 DEF Next, Caller

(* The interpreters stay in order: each is either not there at all, or     *)
(* runs its own version on the script with its two pipes.                  *)
THEOREM InterpretersInOrder == Spec => []HelpersOK
  <1> QED
    BY InitHelpers, NextHelpers, PTL DEF Spec

(* Whichever call of start fails and whenever an interpreter dies, no      *)
(* descriptor and no process is left over, for all sources, any capacity   *)
(* of the pipes and any number of calls of parse.                          *)
THEOREM NothingLeaks == Spec => []NothingLeftOpen
  <1>1. HelpersOK => NothingLeftOpen
    BY DEF HelpersOK, InterpreterOK, NothingLeftOpen, Idle, Talking, running, Process
  <1> QED
    BY <1>1, InterpretersInOrder, PTL

-----------------------------------------------------------------------------
(* It does not matter where three sequences are joined first.  A name for  *)
(* the equation lets the provers find its instances.                       *)
Regroups(a, b, c) == (a \o b) \o c = a \o (b \o c)

LEMMA Regrouped ==
  ASSUME NEW T, NEW a \in Seq(T), NEW b \in Seq(T), NEW c \in Seq(T)
  PROVE  Regroups(a, b, c)
  BY ConcatAssociative DEF Regroups

(* The least element of a set of numbers.  Induction over lengths is by    *)
(* the least counterexample.                                               *)
LEMMA Below ==
  \E R : IsWellFoundedOn(R, Nat) /\ \A y \in Nat, x \in Nat : <<y, x>> \in R <=> y < x
  <1> DEFINE R == OpToRel(<, Nat)
  <1>1. IsWellFoundedOn(R, Nat)
    BY NatLessThanWellFounded
  <1>2. \A y \in Nat, x \in Nat : <<y, x>> \in R <=> y < x
    BY DEF OpToRel
  <1>3. WITNESS R
  <1> QED
    BY <1>1, <1>2

(* A set of numbers that is not empty has a least element.                 *)
LEMMA LeastOf ==
  ASSUME NEW S \in SUBSET Nat, S # {}
  PROVE  \E m \in S : \A k \in S : m <= k
  <1>1. PICK R : IsWellFoundedOn(R, Nat) /\ \A y \in Nat, x \in Nat : <<y, x>> \in R <=> y < x
    BY Below
  <1>2. \A y \in Nat, x \in Nat : <<y, x>> \in R <=> y < x
    BY <1>1
  <1>3. S \subseteq Nat
    OBVIOUS
  <1>0. IsWellFoundedOn(R, Nat)
    BY <1>1
  <1>4. \E x \in S : \A y \in S : ~(<<y, x>> \in R)
    BY <1>0, <1>3, WFMin, Zenon
  <1>5. PICK m \in S : \A y \in S : ~(<<y, m>> \in R)
    BY <1>4, Zenon
  <1>6. \A y \in S : ~(y < m)
    BY <1>2, <1>3, <1>5, Zenon
  <1> HIDE <1>2, <1>5
  <1>7. m \in S /\ \A y \in S : m <= y
    BY <1>3, <1>6, SMT
  <1> QED
    BY <1>7, Zenon

(* A set that holds 0 and the successor of each of its numbers holds all   *)
(* of them.                                                                *)
LEMMA Induction ==
  ASSUME NEW S \in SUBSET Nat, 0 \in S, \A n \in S : n + 1 \in S
  PROVE  S = Nat
  <1>1. SUFFICES ASSUME Nat \ S # {} PROVE FALSE
    OBVIOUS
  <1>2. PICK m \in Nat \ S : \A k \in Nat \ S : m <= k
    BY <1>1, LeastOf
  <1>3. m # 0 /\ m - 1 \in Nat
    BY <1>2
  <1>4. m - 1 \in S
    BY <1>2, <1>3
  <1> QED
    BY <1>2, <1>3, <1>4

(* The equation of the function in FlattenSeq.                             *)
FlatUpTo(f, s, n) == f = [i \in 1..n |-> IF i = 1 THEN s[i] ELSE f[i - 1] \o s[i]]

(* There is such a function for each length, so the CHOOSE in FlattenSeq   *)
(* finds one.                                                              *)
LEMMA FlatExists ==
  ASSUME NEW s, NEW n \in Nat
  PROVE  \E f : FlatUpTo(f, s, n)
  <1> DEFINE S == {m \in Nat : \E f : FlatUpTo(f, s, m)}
  <1>1. 0 \in S
    <2> DEFINE f == [i \in 1..0 |-> s[i]]
    <2>1. FlatUpTo(f, s, 0)
      BY DEF FlatUpTo
    <2> QED
      BY <2>1, Zenon
  <1>2. ASSUME NEW m \in S PROVE m + 1 \in S
    <2>1. PICK f : FlatUpTo(f, s, m)
      OBVIOUS
    <2> DEFINE g == [i \in 1..m + 1 |-> IF i = 1 THEN s[i] ELSE f[i - 1] \o s[i]]
    <2>2. \A i \in 1..m : f[i] = IF i = 1 THEN s[i] ELSE f[i - 1] \o s[i]
      BY <2>1 DEF FlatUpTo
    <2>3. \A i \in 1..m : g[i] = f[i]
      BY <2>2
    <2>4. \A i \in 1..m + 1 : i # 1 => g[i - 1] = f[i - 1]
      <3> m \in Nat
        OBVIOUS
      <3> HIDE DEF g, S
      <3> QED
        BY <2>3
    <2>5. g = [i \in 1..m + 1 |-> IF i = 1 THEN s[i] ELSE g[i - 1] \o s[i]]
      BY <2>4
    <2>6. FlatUpTo(g, s, m + 1)
      BY <2>5 DEF FlatUpTo
    <2> HIDE DEF g
    <2> QED
      BY <2>6
  <1> HIDE DEF S
  <1>3. S = Nat
    BY <1>1, <1>2, Induction DEF S
  <1> QED
    BY <1>3 DEF S

(* FlattenSeq puts the first element in front of the rest.                 *)
LEMMA FlattenEmpty == FlattenSeq(<<>>) = <<>>
  BY DEF FlattenSeq

IsFlat(f, s, n) ==
  /\ n > 0 => f[1] = s[1]
  /\ \A i \in Nat : i \in 1..n /\ i + 1 \in 1..n => f[i + 1] = f[i] \o s[i + 1]

(* What the equation says of each place.                                   *)
LEMMA FlatSteps ==
  ASSUME NEW s, NEW n \in Nat, NEW f, FlatUpTo(f, s, n)
  PROVE  IsFlat(f, s, n)
  <1>1. \A i \in 1..n : f[i] = IF i = 1 THEN s[i] ELSE f[i - 1] \o s[i]
    BY DEF FlatUpTo
  <1>2. ASSUME NEW i \in Nat, i \in 1..n, i + 1 \in 1..n
        PROVE  f[i + 1] = f[i] \o s[i + 1]
    <2>1. i + 1 # 1 /\ (i + 1) - 1 = i
      BY <1>2
    <2> QED
      BY <1>1, <1>2, <2>1, Zenon
  <1>3. ASSUME n > 0 PROVE f[1] = s[1]
    <2>1. 1 \in 1..n
      BY <1>3
    <2> QED
      BY <1>1, <2>1, Zenon
  <1> QED
    BY <1>2, <1>3, Zenon DEF IsFlat

(* FlattenSeq is the last value of such a function.                        *)
LEMMA FlattenEquation ==
  ASSUME NEW s, Len(s) \in Nat \ {0}
  PROVE  \E f : IsFlat(f, s, Len(s)) /\ FlattenSeq(s) = f[Len(s)]
  <1> DEFINE f == CHOOSE g : FlatUpTo(g, s, Len(s))
  <1>1. FlatUpTo(f, s, Len(s))
    BY FlatExists, Zenon
  <1>2. FlattenSeq(s) = f[Len(s)]
    BY DEF FlattenSeq, FlatUpTo
  <1> HIDE DEF f
  <1>3. IsFlat(f, s, Len(s))
    BY <1>1, FlatSteps, Zenon
  <1> QED
    BY <1>2, <1>3, Zenon

(* Each part that FlattenSeq puts together is a sequence of the elements.  *)
LEMMA FlatType ==
  ASSUME NEW T, NEW s \in Seq(Seq(T)), NEW f, IsFlat(f, s, Len(s))
  PROVE  \A n \in 1..Len(s) : f[n] \in Seq(T)
  <1> DEFINE S == {n \in Nat : n \in 1..Len(s) => f[n] \in Seq(T)}
  <1>1. 0 \in S
    OBVIOUS
  <1>2. ASSUME NEW n \in S PROVE n + 1 \in S
    <2>1. n \in Nat /\ Len(s) \in Nat
      OBVIOUS
    <2>2. SUFFICES ASSUME n + 1 \in 1..Len(s) PROVE f[n + 1] \in Seq(T)
      BY <2>1
    <2>3. s[n + 1] \in Seq(T)
      BY <2>2
    <2>4. CASE n = 0
      <3>1. f[1] = s[1]
        BY <2>1, <2>2 DEF IsFlat
      <3> QED
        BY <2>3, <2>4, <3>1
    <2>5. CASE n # 0
      <3>1. f[n] \in Seq(T)
        BY <2>1, <2>2, <2>5
      <3>2. f[n + 1] = f[n] \o s[n + 1]
        <4>1. n \in 1..Len(s)
          BY <2>1, <2>2, <2>5
        <4> QED
          BY <2>1, <2>2, <4>1, Zenon DEF IsFlat
      <3> QED
        BY <3>1, <3>2, <2>3
    <2> QED
      BY <2>4, <2>5
  <1> HIDE DEF S
  <1>3. S = Nat
    BY <1>1, <1>2, Induction DEF S
  <1> QED
    BY <1>3 DEF S

(* FlattenSeq of sequences over a set is a sequence over that set.         *)
LEMMA FlattenType ==
  ASSUME NEW T, NEW s \in Seq(Seq(T))
  PROVE  FlattenSeq(s) \in Seq(T)
  <1>1. CASE s = <<>>
    <2>1. FlattenSeq(s) = <<>>
      BY <1>1, FlattenEmpty, Zenon
    <2> QED
      BY <2>1
  <1>2. CASE s # <<>>
    <2>1. Len(s) \in Nat \ {0}
      BY <1>2
    <2>2. PICK f : IsFlat(f, s, Len(s)) /\ FlattenSeq(s) = f[Len(s)]
      BY <2>1, FlattenEquation
    <2>3. \A n \in 1..Len(s) : f[n] \in Seq(T)
      BY <2>2, FlatType
    <2> QED
      BY <2>1, <2>2, <2>3
  <1> QED
    BY <1>1, <1>2

(* FlattenSeq begins with the first sequence and goes on with the rest:    *)
(* the equation that RECURSIVE would have stated.                          *)
LEMMA FlattenCons ==
  ASSUME NEW T, NEW s \in Seq(Seq(T)), s # <<>>
  PROVE  FlattenSeq(s) = s[1] \o FlattenSeq(Tail(s))
  <1>1. Len(s) \in Nat \ {0} /\ s[1] \in Seq(T)
    OBVIOUS
  <1>2. PICK f : IsFlat(f, s, Len(s)) /\ FlattenSeq(s) = f[Len(s)]
    BY <1>1, FlattenEquation
  <1>3. f[1] = s[1]
    BY <1>1, <1>2 DEF IsFlat
  <1>4. CASE Len(s) = 1
    <2>1. Tail(s) \in Seq(Seq(T)) /\ Len(Tail(s)) = 0
      BY <1>4, HeadTailProperties
    <2>2. Tail(s) = <<>>
      BY <2>1, EmptySeq
    <2>3. FlattenSeq(Tail(s)) = <<>>
      BY <2>2, FlattenEmpty, Zenon
    <2>4. FlattenSeq(s) = s[1]
      BY <1>2, <1>3, <1>4
    <2> HIDE <2>2
    <2> QED
      BY <1>1, <2>3, <2>4, ConcatEmptySeq
  <1>5. CASE Len(s) # 1
    <2> DEFINE t == Tail(s)
    <2>1. t \in Seq(Seq(T)) /\ Len(t) = Len(s) - 1 /\ \A i \in 1..Len(t) : t[i] = s[i + 1]
      BY HeadTailProperties
    <2> HIDE DEF t
    <2>2. PICK g : IsFlat(g, t, Len(t)) /\ FlattenSeq(t) = g[Len(t)]
      <3>1. Len(t) \in Nat \ {0}
        BY <1>1, <1>5, <2>1
      <3> QED
        BY <3>1, FlattenEquation, Zenon
    <2>3. g[1] = t[1]
      BY <1>1, <1>5, <2>1, <2>2 DEF IsFlat
    <2>4. \A n \in 1..Len(t) : g[n] \in Seq(T)
      BY <2>1, <2>2, FlatType
    <2> DEFINE S == {n \in Nat : n \in 1..Len(t) => f[n + 1] = s[1] \o g[n]}
    <2>5. 0 \in S
      OBVIOUS
    <2>6. ASSUME NEW n \in S PROVE n + 1 \in S
      <3>1. n \in Nat /\ Len(t) \in Nat
        BY <2>1
      <3>2. SUFFICES ASSUME n + 1 \in 1..Len(t) PROVE f[(n + 1) + 1] = s[1] \o g[n + 1]
        <4>1. n + 1 \in Nat
          BY <3>1
        <4> QED
          BY <4>1, Zenon
      <3>3. f[(n + 1) + 1] = f[n + 1] \o s[(n + 1) + 1]
        <4>1. n + 1 \in Nat /\ n + 1 \in 1..Len(s) /\ (n + 1) + 1 \in 1..Len(s)
          BY <3>1, <3>2, <2>1, <1>1
        <4> QED
          BY <1>2, <4>1, Zenon DEF IsFlat
      <3>4. t[n + 1] = s[(n + 1) + 1] /\ t[n + 1] \in Seq(T)
        BY <2>1, <3>1, <3>2
      <3>5. CASE n = 0
        <4>1. f[n + 1] = s[1] /\ g[n + 1] = t[n + 1]
          BY <1>1, <1>3, <2>3, <3>2, <3>5
        <4> QED
          BY <3>3, <3>4, <4>1
      <3>6. CASE n # 0
        <4>1. n \in 1..Len(t)
          BY <3>1, <3>2, <3>6
        <4>2. f[n + 1] = s[1] \o g[n]
          BY <4>1
        <4>3. g[n + 1] = g[n] \o t[n + 1] /\ g[n] \in Seq(T)
          BY <2>2, <2>4, <3>1, <3>2, <4>1, Zenon DEF IsFlat
        <4>4. (s[1] \o g[n]) \o t[n + 1] = s[1] \o (g[n] \o t[n + 1])
          <5> DEFINE a == s[1]
                     b == g[n]
                     c == t[n + 1]
          <5>1. a \in Seq(T) /\ b \in Seq(T) /\ c \in Seq(T)
            BY <1>1, <3>4, <4>3
          <5> HIDE DEF a, b, c
          <5>2. (a \o b) \o c = a \o (b \o c)
            <6>1. Regroups(a, b, c)
              BY <5>1, Regrouped, Zenon
            <6> QED
              BY <6>1 DEF Regroups
          <5> QED
            BY <5>2 DEF a, b, c
        <4> QED
          BY <3>3, <3>4, <4>2, <4>3, <4>4, Zenon
      <3> QED
        BY <3>5, <3>6
    <2> HIDE DEF S
    <2>7. S = Nat
      BY <2>5, <2>6, Induction DEF S
    <2>8. Len(t) \in Nat /\ Len(t) \in 1..Len(t) /\ Len(t) + 1 = Len(s)
      BY <1>1, <1>5, <2>1
    <2>9. f[Len(t) + 1] = s[1] \o g[Len(t)]
      <3>1. Len(t) \in S
        BY <2>7, <2>8
      <3> QED
        BY <2>8, <3>1 DEF S
    <2> QED
      BY <1>2, <2>2, <2>8, <2>9, Zenon DEF t
  <1> QED
    BY <1>4, <1>5

-----------------------------------------------------------------------------
(* sorted: a strict total order of texts, and a place for each of a set.   *)
LEMMA BeforeOrder ==
  /\ \A a \in Text : ~Before(a, a)
  /\ \A a, b, c \in Text : Before(a, b) /\ Before(b, c) => Before(a, c)
  /\ \A a, b \in Text : a # b => Before(a, b) \/ Before(b, a)
  <1>1. ASSUME NEW a \in Text PROVE ~Before(a, a)
    BY DEF Before, Text
  <1>2. ASSUME NEW a \in Text, NEW b \in Text, NEW c \in Text, Before(a, b), Before(b, c)
        PROVE  Before(a, c)
    <2>0. Len(a) \in Nat /\ Len(b) \in Nat /\ Len(c) \in Nat
      BY DEF Text
    <2>1. PICK i \in 1..Len(b) : /\ i <= Len(a) + 1
                                 /\ \A k \in 1..i - 1 : a[k] = b[k]
                                 /\ i <= Len(a) => a[i] < b[i]
      BY <1>2 DEF Before
    <2>2. PICK j \in 1..Len(c) : /\ j <= Len(b) + 1
                                 /\ \A k \in 1..j - 1 : b[k] = c[k]
                                 /\ j <= Len(b) => b[j] < c[j]
      BY <1>2 DEF Before
    <2> DEFINE m == IF i <= j THEN i ELSE j
    <2>3. m \in 1..Len(c) /\ m <= Len(a) + 1
      BY <2>0, <2>1, <2>2
    <2>4. \A k \in 1..m - 1 : a[k] = c[k]
      BY <2>0, <2>1, <2>2
    <2>5. m <= Len(a) => a[m] < c[m]
      <3>1. \A k \in 1..Len(a) : a[k] \in Nat
        BY DEF Text
      <3>2. \A k \in 1..Len(b) : b[k] \in Nat
        BY DEF Text
      <3>3. \A k \in 1..Len(c) : c[k] \in Nat
        BY DEF Text
      <3>4. CASE i < j
        <4>1. m = i /\ i \in 1..j - 1
          BY <3>4, <2>0, <2>1, <2>2
        <4> QED
          BY <4>1, <2>1, <2>2
      <3>5. CASE i = j
        BY <3>1, <3>2, <3>3, <3>5, <2>0, <2>1, <2>2
      <3>6. CASE i > j
        <4>1. m = j /\ j \in 1..i - 1
          BY <3>6, <2>0, <2>1, <2>2
        <4> QED
          BY <4>1, <2>0, <2>1, <2>2
      <3> QED
        BY <3>4, <3>5, <3>6, <2>1, <2>2
    <2> HIDE DEF m
    <2> QED
      BY <2>3, <2>4, <2>5 DEF Before
  <1>3. ASSUME NEW a \in Text, NEW b \in Text, a # b
        PROVE  Before(a, b) \/ Before(b, a)
    <2>0. Len(a) \in Nat /\ Len(b) \in Nat
      BY DEF Text
    <2> DEFINE D == {i \in Nat : /\ i \in 1..Len(a) + 1 /\ i \in 1..Len(b) + 1
                                 /\ i \in 1..Len(a) /\ i \in 1..Len(b) => a[i] # b[i]}
    <2>1. D # {} /\ D \in SUBSET Nat
      <3>1. CASE Len(a) <= Len(b)
        BY <2>0, <3>1, Len(a) + 1 \in D
      <3>2. CASE Len(b) < Len(a)
        BY <2>0, <3>2, Len(b) + 1 \in D
      <3> QED
        BY <3>1, <3>2, <2>0
    <2>2. PICK m \in D : \A k \in D : m <= k
      <3> HIDE DEF D
      <3> QED
        BY <2>1, LeastOf
    <2>3. m \in Nat /\ m \in 1..Len(a) + 1 /\ m \in 1..Len(b) + 1
      BY <2>2
    <2>4. \A k \in 1..m - 1 : a[k] = b[k]
      <3> SUFFICES ASSUME NEW k \in 1..m - 1, a[k] # b[k] PROVE FALSE
        OBVIOUS
      <3>1. k \in D
        BY <2>0, <2>3
      <3> QED
        BY <3>1, <2>2, <2>3
    <2>5. CASE m \in 1..Len(a) /\ m \in 1..Len(b)
      <3>1. a[m] # b[m] /\ a[m] \in Nat /\ b[m] \in Nat
        BY <2>2, <2>5 DEF Text
      <3>2. CASE a[m] < b[m]
        BY <2>0, <2>3, <2>4, <2>5, <3>2 DEF Before
      <3>3. CASE b[m] < a[m]
        BY <2>0, <2>3, <2>4, <2>5, <3>3 DEF Before
      <3> QED
        BY <3>1, <3>2, <3>3
    <2>6. CASE m \notin 1..Len(a) /\ m \in 1..Len(b)
      BY <2>0, <2>3, <2>4, <2>6 DEF Before
    <2>7. CASE m \in 1..Len(a) /\ m \notin 1..Len(b)
      BY <2>0, <2>3, <2>4, <2>7 DEF Before
    <2>8. CASE m \notin 1..Len(a) /\ m \notin 1..Len(b)
      <3>1. Len(a) = Len(b) /\ \A k \in 1..Len(a) : a[k] = b[k]
        BY <2>0, <2>3, <2>4, <2>8
      <3>2. a = b
        BY <3>1, SeqEqual DEF Text
      <3> QED
        BY <1>3, <3>2
    <2> QED
      BY <2>5, <2>6, <2>7, <2>8
  <1> QED
    BY <1>1, <1>2, <1>3

(* sorted: the place of a text is one more than the number of texts of the *)
(* set before it, so that the sequence that CHOOSE looks for exists.       *)
LEMMA SortedExists ==
  ASSUME NEW S, S \subseteq Text, IsFiniteSet(S)
  PROVE  \E seq \in [1..Cardinality(S) -> S] :
           \A i, j \in 1..Cardinality(S) : i < j => Before(seq[i], seq[j])
  <1> DEFINE n == Cardinality(S)
             Less(x) == {y \in S : Before(y, x)}
             rank == [x \in S |-> Cardinality(Less(x)) + 1]
  <1>1. n \in Nat
    BY FS_CardinalityType
  <1>2. \A x \in S : /\ IsFiniteSet(Less(x)) /\ Cardinality(Less(x)) \in Nat
                     /\ Cardinality(Less(x)) < n
    <2> SUFFICES ASSUME NEW x \in S
                 PROVE  /\ IsFiniteSet(Less(x)) /\ Cardinality(Less(x)) \in Nat
                        /\ Cardinality(Less(x)) < n
      OBVIOUS
    <2>1. Less(x) \in SUBSET S /\ x \notin Less(x)
      BY BeforeOrder
    <2> HIDE DEF Less
    <2>2. IsFiniteSet(Less(x)) /\ Cardinality(Less(x)) <= n /\ n # Cardinality(Less(x))
      BY <2>1, FS_Subset
    <2>3. Cardinality(Less(x)) \in Nat
      BY <2>2, FS_CardinalityType
    <2> QED
      BY <1>1, <2>2, <2>3
  <1>3. \A x, y \in S : Before(x, y) => Cardinality(Less(x)) < Cardinality(Less(y))
    <2> SUFFICES ASSUME NEW x \in S, NEW y \in S, Before(x, y)
                 PROVE  Cardinality(Less(x)) < Cardinality(Less(y))
      OBVIOUS
    <2>1. Less(x) \in SUBSET Less(y)
      BY BeforeOrder
    <2>2. x \in Less(y) /\ x \notin Less(x)
      BY BeforeOrder
    <2>3. /\ IsFiniteSet(Less(y)) /\ Cardinality(Less(x)) \in Nat
          /\ Cardinality(Less(y)) \in Nat
      BY <1>2
    <2> HIDE DEF Less
    <2>4. /\ Cardinality(Less(x)) <= Cardinality(Less(y))
          /\ Cardinality(Less(y)) # Cardinality(Less(x))
      BY <2>1, <2>2, <2>3, FS_Subset
    <2> QED
      BY <2>3, <2>4
  <1>4. \A x \in S : rank[x] = Cardinality(Less(x)) + 1 /\ rank[x] \in 1..n
    <2> HIDE DEF Less
    <2> QED
      BY <1>1, <1>2
  <1>5. \A x, y \in S : Before(x, y) => rank[x] < rank[y]
    <2> HIDE DEF Less, rank
    <2> QED
      BY <1>2, <1>3, <1>4
  <1>6. rank \in [S -> 1..n]
    BY <1>4
  <1> HIDE DEF rank, Less
  <1>7. \A x, y \in S : rank[x] = rank[y] => x = y
    <2> SUFFICES ASSUME NEW x \in S, NEW y \in S, rank[x] = rank[y], x # y PROVE FALSE
      OBVIOUS
    <2>1. Before(x, y) \/ Before(y, x)
      BY BeforeOrder
    <2> QED
      BY <1>1, <1>4, <1>5, <2>1
  <1>8. rank \in Surjection(S, 1..n)
    <2>1. rank \in Injection(S, 1..n)
      BY <1>6, <1>7 DEF Injection, IsInjective
    <2>2. IsFiniteSet(1..n) /\ Cardinality(1..n) = n
      BY <1>1, FS_Interval
    <2> QED
      BY <2>1, <2>2, FS_Injection
  <1>9. \A i \in 1..n : \E x \in S : rank[x] = i
    BY <1>8 DEF Surjection
  <1> DEFINE seq == [i \in 1..n |-> CHOOSE x \in S : rank[x] = i]
  <1>10. \A i \in 1..n : seq[i] \in S /\ rank[seq[i]] = i
    BY <1>9
  <1>11. seq \in [1..n -> S]
    BY <1>10
  <1> HIDE DEF seq
  <1>12. \A i, j \in 1..n : i < j => Before(seq[i], seq[j])
    <2> SUFFICES ASSUME NEW i \in 1..n, NEW j \in 1..n, i < j PROVE Before(seq[i], seq[j])
      OBVIOUS
    <2>1. seq[i] # seq[j]
      BY <1>1, <1>10
    <2>2. ~Before(seq[j], seq[i])
      BY <1>1, <1>5, <1>10
    <2> QED
      BY <1>10, <2>1, <2>2, BeforeOrder
  <1> QED
    BY <1>11, <1>12

(* sorted of a finite set of names is a sequence of names.                 *)
LEMMA SortedType ==
  ASSUME NEW S, S \subseteq Text, IsFiniteSet(S)
  PROVE  sorted(S) \in Seq(Text)
  <1>1. sorted(S) \in [1..Cardinality(S) -> S]
    BY SortedExists DEF sorted
  <1>2. Cardinality(S) \in Nat
    BY FS_CardinalityType
  <1> QED
    BY <1>1, <1>2

(* The names that the visitor has collected.                               *)
LEMMA DefinedType ==
  ASSUME NEW nodes \in Seq(Node), NEW type \in {"Attribute", "FunctionDef", "ClassDef"}
  PROVE  Defined(nodes, type) \in Seq(Text)
  <1> DEFINE M == {m \in ToSet(nodes) : m.type = type}
             S == {n.name : n \in M}
             names == [m \in M |-> m.name]
             element == [i \in 1..Len(nodes) |-> nodes[i]]
  <1>1. ToSet(nodes) \subseteq Node
    BY DEF ToSet
  <1>2. S \subseteq Text
    <2> SUFFICES ASSUME NEW m \in Node, m.type = type PROVE m.name \in Text
      BY <1>1
    <2> QED
      BY DEF Node
  <1>3. IsFiniteSet(ToSet(nodes))
    <2>1. Len(nodes) \in Nat /\ IsFiniteSet(1..Len(nodes))
      BY FS_Interval
    <2>2. element \in Surjection(1..Len(nodes), ToSet(nodes))
      BY DEF ToSet, Surjection
    <2> QED
      BY <2>1, <2>2, FS_Surjection
  <1>4. IsFiniteSet(M)
    BY <1>3, FS_Subset
  <1>5. IsFiniteSet(S)
    <2> HIDE DEF M
    <2>1. names \in Surjection(M, S)
      BY DEF Surjection
    <2> QED
      BY <1>4, <2>1, FS_Surjection
  <1> QED
    BY <1>2, <1>5, SortedType DEF Defined

-----------------------------------------------------------------------------
(* The fields of interpreter::result_, and what the script makes of a      *)
(* source.                                                                 *)
Result == [error : Text, line : Nat, imports : Seq(Text), attributes : Seq(Text),
           functions : Seq(Text), classes : Seq(Text)]

(* The result of a new interpreter.                                        *)
LEMMA NoResultType == NoResult \in Result
  <1>1. <<>> \in Text /\ <<>> \in Seq(Text)
    BY DEF Text
  <1> QED
    BY <1>1 DEF NoResult, Result

(* visit_Import and visit_ImportFrom.                                      *)
LEMMA ImportsType ==
  ASSUME NEW node \in Node
  PROVE  Imports(node) \in Seq(Text)
  <1>1. CASE node.type = "Import"
    <2>1. node.names \in Seq(Text)
      BY <1>1 DEF Node
    <2> QED
      BY <1>1, <2>1 DEF Imports, visit_Import
  <1>2. CASE node.type = "ImportFrom"
    <2>1. node.level \in Nat /\ node.module \in Text /\ node.names \in Seq(Text)
      BY <1>2 DEF Node
    <2> DEFINE dots == [i \in 1..node.level |-> dot]
               module == IF node.module # <<>> THEN dots \o node.module \o <<dot>> ELSE dots
    <2>2. dots \in Text /\ <<dot>> \in Text
      BY <2>1 DEF Text, dot
    <2> HIDE DEF dots
    <2>3. dots \o node.module \in Text
      BY <2>1, <2>2, ConcatProperties DEF Text
    <2>4. module \in Text
      BY <2>2, <2>3, ConcatProperties DEF Text
    <2> HIDE DEF module
    <2>5. \A i \in 1..Len(node.names) : node.names[i] \in Text
      BY <2>1
    <2>6. \A i \in 1..Len(node.names) : module \o node.names[i] \in Text
      BY <2>4, <2>5, ConcatProperties DEF Text
    <2>7. [i \in 1..Len(node.names) |-> module \o node.names[i]] \in Seq(Text)
      BY <2>1, <2>6
    <2>8. Imports(node) = visit_ImportFrom(node)
      BY <1>2 DEF Imports
    <2> QED
      BY <2>7, <2>8 DEF visit_ImportFrom, module, dots
  <1>3. CASE node.type \notin {"Import", "ImportFrom"}
    BY <1>3 DEF Imports
  <1> QED
    BY <1>1, <1>2, <1>3

(* What the script finds in a source.                                      *)
LEMMA AnalysisType ==
  ASSUME NEW v \in Versions, NEW s \in Sources
  PROVE  Analysis(v, s) \in Result
  <1> DEFINE tree == Parsed[v][s]
             found == [i \in 1..Len(tree.nodes) |-> Imports(tree.nodes[i])]
  <1>1. tree \in [failed : BOOLEAN, lineno : Nat, msg : Text, nodes : Seq(Node)]
    BY ParsedAssumption DEF Versions
  <1>2. <<>> \in Text /\ <<>> \in Seq(Text)
    BY DEF Text
  <1> HIDE DEF tree
  <1>3. CASE tree.failed
    <2>1. Analysis(v, s) = [NoResult EXCEPT !.error = tree.msg, !.line = tree.lineno]
      BY <1>3 DEF Analysis, tree
    <2> QED
      BY <1>1, <2>1, NoResultType DEF Result
  <1>4. CASE ~tree.failed
    <2>1. Len(tree.nodes) \in Nat /\ \A i \in 1..Len(tree.nodes) : tree.nodes[i] \in Node
      BY <1>1
    <2>2. \A i \in 1..Len(tree.nodes) : Imports(tree.nodes[i]) \in Seq(Text)
      BY <2>1, ImportsType
    <2>3. found \in Seq(Seq(Text))
      BY <2>1, <2>2
    <2> HIDE DEF found
    <2>4. FlattenSeq(found) \in Seq(Text)
      BY <2>3, FlattenType
    <2>5. /\ Defined(tree.nodes, "Attribute") \in Seq(Text)
          /\ Defined(tree.nodes, "FunctionDef") \in Seq(Text)
          /\ Defined(tree.nodes, "ClassDef") \in Seq(Text)
      BY <1>1, DefinedType
    <2>6. Analysis(v, s) =
            [error |-> <<>>, line |-> 0, imports |-> FlattenSeq(found),
             attributes |-> Defined(tree.nodes, "Attribute"),
             functions |-> Defined(tree.nodes, "FunctionDef"),
             classes |-> Defined(tree.nodes, "ClassDef")]
      BY <1>4 DEF Analysis, tree, found
    <2> QED
      BY <1>2, <2>4, <2>5, <2>6 DEF Result
  <1> QED
    BY <1>3, <1>4

-----------------------------------------------------------------------------
(* What a pipe does: units leave at the front and come in at the back.     *)
LEMMA HeadOfConcat ==
  ASSUME NEW T, NEW s \in Seq(T), NEW t \in Seq(T), s # <<>>
  PROVE  s \o t # <<>> /\ Head(s \o t) = Head(s) /\ Tail(s \o t) = Tail(s) \o t
  <1> DEFINE c == s \o t
             l == Tail(c)
             r == Tail(s) \o t
  <1>1. Len(s) \in Nat \ {0} /\ Len(t) \in Nat
    BY EmptySeq
  <1>2. c \in Seq(T) /\ Len(c) = Len(s) + Len(t)
        /\ \A i \in 1..Len(s) + Len(t) : c[i] = IF i <= Len(s) THEN s[i] ELSE t[i - Len(s)]
    BY ConcatProperties
  <1> HIDE DEF c
  <1>3. c # <<>> /\ Head(c) = Head(s)
    BY <1>1, <1>2
  <1>4. l \in Seq(T) /\ Len(l) = Len(c) - 1 /\ \A i \in 1..Len(l) : l[i] = c[i + 1]
    BY <1>2, <1>3, HeadTailProperties
  <1>5. Tail(s) \in Seq(T) /\ Len(Tail(s)) = Len(s) - 1
        /\ \A i \in 1..Len(Tail(s)) : Tail(s)[i] = s[i + 1]
    BY HeadTailProperties
  <1>6. r \in Seq(T) /\ Len(r) = Len(Tail(s)) + Len(t)
        /\ \A i \in 1..Len(Tail(s)) + Len(t) :
             r[i] = IF i <= Len(Tail(s)) THEN Tail(s)[i] ELSE t[i - Len(Tail(s))]
    BY <1>5, ConcatProperties
  <1> HIDE DEF l, r
  <1>7. Len(l) = Len(r)
    BY <1>1, <1>2, <1>4, <1>5, <1>6
  <1>8. \A i \in 1..Len(l) : l[i] = r[i]
    <2> SUFFICES ASSUME NEW i \in 1..Len(l) PROVE l[i] = r[i]
      OBVIOUS
    <2>1. i \in Nat /\ i + 1 \in 1..Len(s) + Len(t) /\ i \in 1..Len(Tail(s)) + Len(t)
      BY <1>1, <1>2, <1>4, <1>5
    <2>2. l[i] = c[i + 1]
      BY <1>4
    <2>3. CASE i <= Len(Tail(s))
      BY <1>1, <1>2, <1>5, <1>6, <2>1, <2>2, <2>3
    <2>4. CASE ~(i <= Len(Tail(s)))
      <3>1. r[i] = t[i - Len(Tail(s))]
        BY <1>6, <2>1, <2>4
      <3>2. c[i + 1] = t[(i + 1) - Len(s)]
        BY <1>1, <1>2, <1>5, <2>1, <2>4
      <3>3. i - Len(Tail(s)) = (i + 1) - Len(s)
        BY <1>1, <1>5, <2>1
      <3> QED
        BY <2>2, <3>1, <3>2, <3>3
    <2> QED
      BY <2>3, <2>4
  <1>9. l = r
    BY <1>4, <1>6, <1>7, <1>8, SeqEqual
  <1> QED
    BY <1>3, <1>9 DEF c, l, r

(* A unit moves from the head of one sequence to the end of another:       *)
(* together they stay the same.  send_string, the script and the pipes do  *)
(* that.                                                                   *)
LEMMA AppendHead ==
  ASSUME NEW T, NEW s \in Seq(T), NEW t \in Seq(T), t # <<>>
  PROVE  Append(s, Head(t)) \o Tail(t) = s \o t
  <1> DEFINE h == <<Head(t)>>
             u == Tail(t)
  <1>1. h \in Seq(T) /\ u \in Seq(T) /\ Head(t) \in T
    BY HeadTailProperties
  <1>2. Append(s, Head(t)) = s \o h
    BY <1>1, AppendIsConcat
  <1>3. h \o u = t
    <2>1. /\ h \o u \in Seq(T) /\ Len(h \o u) = Len(t)
          /\ \A i \in 1..Len(t) : (h \o u)[i] = t[i]
      <3>1. /\ Len(u) = Len(t) - 1 /\ Len(t) \in Nat \ {0}
            /\ \A i \in 1..Len(u) : u[i] = t[i + 1]
        BY HeadTailProperties, EmptySeq
      <3>2. Len(h) = 1 /\ h[1] = t[1]
        OBVIOUS
      <3> HIDE DEF h, u
      <3>3. /\ h \o u \in Seq(T) /\ Len(h \o u) = Len(h) + Len(u)
            /\ \A i \in 1..Len(h) + Len(u) :
                 (h \o u)[i] = IF i <= Len(h) THEN h[i] ELSE u[i - Len(h)]
        BY <1>1, ConcatProperties
      <3> QED
        BY <3>1, <3>2, <3>3
    <2> HIDE DEF h, u
    <2> QED
      BY <2>1, SeqEqual
  <1> HIDE DEF h, u
  <1>4. (s \o h) \o u = s \o (h \o u)
    <2>1. Regroups(s, h, u)
      BY <1>1, Regrouped, Zenon
    <2> QED
      BY <2>1 DEF Regroups
  <1> QED
    BY <1>2, <1>3, <1>4 DEF u

-----------------------------------------------------------------------------
(* The encoding, from the reader's side.  Strings is what is left of an    *)
(* array after its number, and From what the script writes from a field    *)
(* on.                                                                     *)
Strings(a) == FlattenSeq([i \in 1..Len(a) |-> String(a[i])])

FromFunctions(r) == Array(r.functions) \o Array(r.classes)
FromAttributes(r) == Array(r.attributes) \o FromFunctions(r)
FromImports(r) == Array(r.imports) \o FromAttributes(r)
FromLine(r) == <<r.line>> \o FromImports(r)

From(r, k) ==
  CASE k = 1 -> String(r.error) \o FromLine(r)
    [] k = 2 -> FromLine(r)
    [] k = 3 -> FromImports(r)
    [] k = 4 -> FromAttributes(r)
    [] k = 5 -> FromFunctions(r)
    [] k = 6 -> Array(r.classes)
    [] OTHER -> <<>>

(* send_string and write_string: the number of bytes first, then the       *)
(* bytes.                                                                  *)
LEMMA StringType ==
  ASSUME NEW s \in Text
  PROVE  /\ String(s) \in Text /\ String(s) # <<>> /\ Head(String(s)) = Len(s)
         /\ Tail(String(s)) = s /\ Len(String(s)) = Len(s) + 1
  <1> DEFINE n == <<Len(s)>>
  <1>1. n \in Seq(Nat) /\ n # <<>> /\ Head(n) = Len(s) /\ Len(n) = 1
    BY DEF Text
  <1>2. Tail(n) = <<>>
    <2>1. Tail(n) \in Seq(Nat) /\ Len(Tail(n)) = 0
      BY <1>1, HeadTailProperties
    <2> QED
      BY <2>1, EmptySeq
  <1> HIDE DEF n
  <1>3. n \o s \in Seq(Nat) /\ Len(n \o s) = Len(n) + Len(s)
    BY <1>1, ConcatProperties DEF Text
  <1>4. n \o s # <<>> /\ Head(n \o s) = Head(n) /\ Tail(n \o s) = Tail(n) \o s
    BY <1>1, HeadOfConcat DEF Text
  <1>5. <<>> \o s = s
    BY ConcatEmptySeq DEF Text
  <1>6. String(s) = n \o s
    BY DEF String, n
  <1>7. Len(s) \in Nat
    BY DEF Text
  <1> QED
    BY <1>1, <1>2, <1>3, <1>4, <1>5, <1>6, <1>7 DEF Text

(* The strings of an array come one after the other.                       *)
LEMMA StringsType ==
  ASSUME NEW a \in Seq(Text)
  PROVE  Strings(a) \in Text
  <1> DEFINE e == [i \in 1..Len(a) |-> String(a[i])]
  <1>1. Len(a) \in Nat /\ \A i \in 1..Len(a) : a[i] \in Text
    OBVIOUS
  <1>2. \A i \in 1..Len(a) : String(a[i]) \in Seq(Nat)
    BY <1>1, StringType DEF Text
  <1>3. e \in Seq(Seq(Nat))
    BY <1>1, <1>2
  <1> HIDE DEF e
  <1> QED
    BY <1>3, FlattenType DEF Strings, Text, e

(* Nothing is left of an empty array.                                      *)
LEMMA StringsEmpty == Strings(<<>>) = <<>>
  <1>1. [i \in 1..Len(<<>>) |-> String(<<>>[i])] = <<>>
    OBVIOUS
  <1> QED
    BY <1>1, FlattenEmpty DEF Strings

(* What is left of an array begins with its first string.                  *)
LEMMA StringsCons ==
  ASSUME NEW a \in Seq(Text), a # <<>>
  PROVE  Strings(a) = String(a[1]) \o Strings(Tail(a))
  <1> DEFINE t == Tail(a)
             e == [i \in 1..Len(a) |-> String(a[i])]
             d == [i \in 1..Len(t) |-> String(t[i])]
  <1>1. Len(a) \in Nat \ {0} /\ \A i \in 1..Len(a) : a[i] \in Text
    OBVIOUS
  <1>2. t \in Seq(Text) /\ Len(t) = Len(a) - 1 /\ \A i \in 1..Len(t) : t[i] = a[i + 1]
    BY HeadTailProperties
  <1> HIDE DEF t
  <1>3. \A i \in 1..Len(a) : String(a[i]) \in Seq(Nat)
    BY <1>1, StringType DEF Text
  <1>4. e \in Seq(Seq(Nat)) /\ Len(e) = Len(a) /\ \A i \in 1..Len(a) : e[i] = String(a[i])
    <2>1. \A i \in 1..Len(a) : e[i] = String(a[i])
      OBVIOUS
    <2>2. e \in Seq(Seq(Nat))
      BY <1>1, <1>3
    <2>3. Len(e) = Len(a)
      BY <1>1
    <2> QED
      BY <2>1, <2>2, <2>3
  <1>5. \A i \in 1..Len(t) : String(t[i]) \in Seq(Nat)
    <2>1. t \in Seq(Text)
      BY <1>2
    <2>2. \A i \in 1..Len(t) : t[i] \in Text
      BY <2>1
    <2> QED
      BY <2>2, StringType DEF Text
  <1>6. d \in Seq(Seq(Nat)) /\ Len(d) = Len(t) /\ \A i \in 1..Len(t) : d[i] = String(t[i])
    <2>1. \A i \in 1..Len(t) : d[i] = String(t[i])
      OBVIOUS
    <2>2. d \in Seq(Seq(Nat))
      BY <1>2, <1>5
    <2>3. Len(d) = Len(t)
      BY <1>2
    <2> QED
      BY <2>1, <2>2, <2>3
  <1> HIDE DEF e, d
  <1>7. e # <<>>
    BY <1>1, <1>4
  <1>8. Tail(e) = d
    <2> DEFINE f == Tail(e)
    <2>1. f \in Seq(Seq(Nat)) /\ Len(f) = Len(e) - 1 /\ \A i \in 1..Len(f) : f[i] = e[i + 1]
      BY <1>4, <1>7, HeadTailProperties
    <2> HIDE DEF f
    <2>2. Len(f) = Len(d)
      BY <1>2, <1>4, <1>6, <2>1
    <2>3. \A i \in 1..Len(f) : f[i] = d[i]
      <3> SUFFICES ASSUME NEW i \in 1..Len(f) PROVE f[i] = d[i]
        OBVIOUS
      <3>1. i \in 1..Len(t) /\ i + 1 \in 1..Len(a)
        BY <1>1, <1>2, <1>4, <2>1
      <3>2. f[i] = e[i + 1] /\ t[i] = a[i + 1]
        BY <1>2, <2>1, <3>1
      <3>3. e[i + 1] = String(a[i + 1])
        BY <1>4, <3>1, Zenon
      <3>4. d[i] = String(t[i])
        BY <1>6, <3>1, Zenon
      <3> QED
        BY <3>2, <3>3, <3>4, Zenon
    <2> QED
      BY <1>6, <2>1, <2>2, <2>3, SeqEqual DEF f
  <1>9. FlattenSeq(e) = e[1] \o FlattenSeq(Tail(e))
    BY <1>4, <1>7, FlattenCons
  <1>10. e[1] = String(a[1])
    BY <1>1, <1>4
  <1> QED
    BY <1>8, <1>9, <1>10, Zenon DEF Strings, e, d, t

(* write_array: the number of strings first, then the strings; with what   *)
(* the script writes after it.                                             *)
LEMMA ArrayIs ==
  ASSUME NEW a \in Seq(Text), NEW t \in Text
  PROVE  /\ Array(a) \o t \in Text /\ Array(a) \o t # <<>>
         /\ Head(Array(a) \o t) = Len(a) /\ Tail(Array(a) \o t) = Strings(a) \o t
  <1> DEFINE n == <<Len(a)>>
             s == Strings(a)
  <1>1. n \in Seq(Nat) /\ n # <<>> /\ Head(n) = Len(a) /\ Len(n) = 1
    OBVIOUS
  <1>2. Tail(n) = <<>>
    <2>1. Tail(n) \in Seq(Nat) /\ Len(Tail(n)) = 0
      BY <1>1, HeadTailProperties
    <2> QED
      BY <2>1, EmptySeq
  <1>3. s \in Seq(Nat) /\ t \in Seq(Nat)
    BY StringsType DEF Text
  <1>4. Array(a) = n \o s
    BY DEF Array, Strings
  <1> HIDE DEF n, s
  <1>5. n \o s \in Seq(Nat) /\ (n \o s) \o t \in Seq(Nat)
    BY <1>1, <1>3, ConcatProperties
  <1>6. /\ n \o s # <<>> /\ Head(n \o s) = Len(a) /\ Tail(n \o s) = <<>> \o s
    BY <1>1, <1>2, <1>3, HeadOfConcat
  <1>7. <<>> \o s = s
    BY <1>3, ConcatEmptySeq
  <1>8. /\ (n \o s) \o t # <<>> /\ Head((n \o s) \o t) = Head(n \o s)
        /\ Tail((n \o s) \o t) = Tail(n \o s) \o t
    BY <1>3, <1>5, <1>6, HeadOfConcat
  <1> QED
    BY <1>4, <1>5, <1>6, <1>7, <1>8 DEF s, Text

(* An array as it is in the pipe.                                          *)
LEMMA ArrayType ==
  ASSUME NEW a \in Seq(Text)
  PROVE  Array(a) \in Text
  <1> DEFINE n == <<Len(a)>>
             s == Strings(a)
  <1>1. n \in Seq(Nat) /\ s \in Seq(Nat)
    BY StringsType DEF Text
  <1>2. Array(a) = n \o s
    BY DEF Array, Strings
  <1> HIDE DEF n, s
  <1> QED
    BY <1>1, <1>2, ConcatProperties DEF Text

(* The cases of From.                                                      *)
LEMMA FromIs ==
  ASSUME NEW r
  PROVE  /\ From(r, 1) = String(r.error) \o FromLine(r)
         /\ From(r, 2) = FromLine(r) /\ From(r, 3) = FromImports(r)
         /\ From(r, 4) = FromAttributes(r) /\ From(r, 5) = FromFunctions(r)
         /\ From(r, 6) = Array(r.classes) /\ From(r, 7) = <<>>
  BY DEF From

(* The order in which interpreter::parse reads the fields.                 *)
LEMMA FieldNames ==
  /\ Fields[1] = "error" /\ Fields[2] = "line" /\ Fields[3] = "imports"
  /\ Fields[4] = "attributes" /\ Fields[5] = "functions" /\ Fields[6] = "classes"
  /\ Len(Fields) = 6
  BY DEF Fields

(* All that the script writes are units.                                   *)
LEMMA FromType ==
  ASSUME NEW r \in Result
  PROVE  /\ String(r.error) \in Text /\ <<r.line>> \in Text
         /\ Array(r.imports) \in Text /\ Array(r.attributes) \in Text
         /\ Array(r.functions) \in Text /\ Array(r.classes) \in Text
         /\ FromLine(r) \in Text /\ FromImports(r) \in Text /\ FromAttributes(r) \in Text
         /\ FromFunctions(r) \in Text
         /\ \A k \in 1..7 : From(r, k) \in Text
  <1>1. /\ String(r.error) \in Text /\ Array(r.imports) \in Text
        /\ Array(r.attributes) \in Text /\ Array(r.functions) \in Text
        /\ Array(r.classes) \in Text
    BY StringType, ArrayType DEF Result
  <1>2. <<r.line>> \in Text
    BY DEF Result, Text
  <1>3. FromFunctions(r) \in Text
    BY <1>1, ConcatProperties DEF FromFunctions, Text
  <1>4. FromAttributes(r) \in Text
    BY <1>1, <1>3, ConcatProperties DEF FromAttributes, Text
  <1>5. FromImports(r) \in Text
    BY <1>1, <1>4, ConcatProperties DEF FromImports, Text
  <1>6. FromLine(r) \in Text
    BY <1>2, <1>5, ConcatProperties DEF FromLine, Text
  <1>7. String(r.error) \o FromLine(r) \in Text
    BY <1>1, <1>6, ConcatProperties DEF Text
  <1>8. <<>> \in Text
    BY DEF Text
  <1>9. \A k \in 1..7 : From(r, k) \in Text
    <2>1. \A k \in 1..7 : k = 1 \/ k = 2 \/ k = 3 \/ k = 4 \/ k = 5 \/ k = 6 \/ k = 7
      OBVIOUS
    <2> QED
      BY <1>1, <1>3, <1>4, <1>5, <1>6, <1>7, <1>8, <2>1, FromIs, Zenon
  <1> QED
    BY <1>1, <1>2, <1>3, <1>4, <1>5, <1>6, <1>9

(* From one array to the next.                                             *)
LEMMA FromArray ==
  ASSUME NEW r \in Result, NEW k \in 3..6
  PROVE  /\ Fields[k] \in Arrays /\ r[Fields[k]] \in Seq(Text)
         /\ From(r, k) = Array(r[Fields[k]]) \o From(r, k + 1)
  <1>1. Array(r.classes) \o <<>> = Array(r.classes)
    BY FromType, ConcatEmptySeq DEF Text
  <1>2. /\ r.imports \in Seq(Text) /\ r.attributes \in Seq(Text)
        /\ r.functions \in Seq(Text) /\ r.classes \in Seq(Text)
    BY DEF Result
  <1>3. CASE k = 3
    <2>1. k + 1 = 4
      BY <1>3
    <2> QED
      BY <1>2, <1>3, <2>1, FromIs, FieldNames, Zenon DEF FromImports, Arrays
  <1>4. CASE k = 4
    <2>1. k + 1 = 5
      BY <1>4
    <2> QED
      BY <1>2, <1>4, <2>1, FromIs, FieldNames, Zenon DEF FromAttributes, Arrays
  <1>5. CASE k = 5
    <2>1. k + 1 = 6
      BY <1>5
    <2> QED
      BY <1>2, <1>5, <2>1, FromIs, FieldNames, Zenon DEF FromFunctions, Arrays
  <1>6. CASE k = 6
    <2>1. k + 1 = 7
      BY <1>6
    <2> QED
      BY <1>1, <1>2, <1>6, <2>1, FromIs, FieldNames, Zenon DEF Arrays
  <1>7. k = 3 \/ k = 4 \/ k = 5 \/ k = 6
    OBVIOUS
  <1> QED
    BY <1>3, <1>4, <1>5, <1>6, <1>7, Zenon

(* Concatenation of texts.                                                 *)
LEMMA TextConcat ==
  ASSUME NEW s \in Text, NEW t \in Text
  PROVE  s \o t \in Text
  BY ConcatProperties DEF Text

(* It does not matter where the pipe cuts a text.                          *)
LEMMA TextRegroups ==
  ASSUME NEW s \in Text, NEW t \in Text, NEW u \in Text
  PROVE  Regroups(s, t, u)
  BY Regrouped, Zenon DEF Text

(* The script writes the fields in the order in which the caller reads.    *)
LEMMA AnswerIs ==
  ASSUME NEW r \in Result
  PROVE  String(r.error) \o <<r.line>> \o Array(r.imports) \o Array(r.attributes)
           \o Array(r.functions) \o Array(r.classes) = From(r, 1)
  <1> DEFINE e == String(r.error)
             l == <<r.line>>
             i == Array(r.imports)
             a == Array(r.attributes)
             f == Array(r.functions)
             c == Array(r.classes)
             fc == FromFunctions(r)
             afc == FromAttributes(r)
             iafc == FromImports(r)
             el == e \o l
             eli == el \o i
             elia == eli \o a
  <1>e. e \in Text
    BY FromType
  <1>l. l \in Text
    BY FromType
  <1>i. i \in Text
    BY FromType
  <1>a. a \in Text
    BY FromType
  <1>f. f \in Text
    BY FromType
  <1>c. c \in Text
    BY FromType
  <1>1. fc \in Text /\ fc = f \o c
    BY FromType DEF FromFunctions
  <1>2. afc \in Text /\ afc = a \o fc
    BY FromType DEF FromAttributes
  <1>3. iafc \in Text /\ iafc = i \o afc
    BY FromType DEF FromImports
  <1>4. el \in Text /\ el = e \o l
    BY FromType, TextConcat
  <1>5. eli \in Text /\ eli = el \o i
    BY FromType, <1>4, TextConcat
  <1>6. elia \in Text /\ elia = eli \o a
    BY FromType, <1>5, TextConcat
  <1>7. From(r, 1) = e \o (l \o iafc)
    BY FromIs DEF FromLine
  <1> HIDE DEF e, l, i, a, f, c, fc, afc, iafc, el, eli, elia
  <1>8. (elia \o f) \o c = elia \o fc
    <2>1. elia \in Text
      BY <1>6
    <2>2. (elia \o f) \o c = elia \o (f \o c)
      <3>1. Regroups(elia, f, c)
        BY <1>f, <1>c, <2>1, TextRegroups, Zenon
      <3> QED
        BY <3>1 DEF Regroups
    <2> QED
      BY <1>1, <2>2, Zenon
  <1>9. elia \o fc = eli \o afc
    <2>1. eli \in Text /\ fc \in Text
      BY <1>1, <1>5
    <2>2. (eli \o a) \o fc = eli \o (a \o fc)
      <3>1. Regroups(eli, a, fc)
        BY <1>a, <2>1, TextRegroups, Zenon
      <3> QED
        BY <3>1 DEF Regroups
    <2> QED
      BY <1>2, <1>6, <2>2, Zenon
  <1>10. eli \o afc = el \o iafc
    <2>1. el \in Text /\ afc \in Text
      BY <1>2, <1>4
    <2>2. (el \o i) \o afc = el \o (i \o afc)
      <3>1. Regroups(el, i, afc)
        BY <1>i, <2>1, TextRegroups, Zenon
      <3> QED
        BY <3>1 DEF Regroups
    <2> QED
      BY <1>3, <1>5, <2>2, Zenon
  <1>11. el \o iafc = e \o (l \o iafc)
    <2>1. iafc \in Text
      BY <1>3
    <2>2. (e \o l) \o iafc = e \o (l \o iafc)
      <3>1. Regroups(e, l, iafc)
        BY <1>e, <1>l, <2>1, TextRegroups, Zenon
      <3> QED
        BY <3>1 DEF Regroups
    <2> QED
      BY <1>4, <2>2, Zenon
  <1>12. (elia \o f) \o c = From(r, 1)
    BY <1>7, <1>8, <1>9, <1>10, <1>11, Zenon
  <1> QED
    BY <1>12, Zenon DEF e, l, i, a, f, c, el, eli, elia

-----------------------------------------------------------------------------
(* The call of parse, and how it reads the answer.                         *)
Call == [pc : {"idle", "send", "read", "returned", "thrown", "killed"}, source : Text,
         version : Versions, send : Text, field : 1..7, count : Int, size : Int, text : Text]

(* Where the caller is in reading: u is what is left of the string str,    *)
(* and rest what is left of the answer r.                                  *)
InText(c, str, u) ==
  \/ c.size = -1 /\ c.text = <<>> /\ u = String(str)
  \/ c.size = Len(u) /\ u # <<>> /\ c.text \o u = str

Fresh(c) == c.count = -1 /\ c.size = -1 /\ c.text = <<>>

InArray(c, a, done, after, rest) ==
  \E todo \in Seq(Text), u \in Text :
    /\ todo # <<>> /\ c.count = Len(todo) /\ done \o todo = a
    /\ InText(c, todo[1], u)
    /\ rest = u \o (Strings(Tail(todo)) \o after)

At(c, r, res, rest) ==
  /\ \A k \in 1..6 : k < c.field => res[Fields[k]] = r[Fields[k]]
  /\ \/ /\ c.field = 1 /\ c.count = -1
        /\ \E u \in Text : InText(c, r.error, u) /\ rest = u \o From(r, 2)
     \/ c.field \in 2..7 /\ Fresh(c) /\ rest = From(r, c.field)
     \/ /\ c.field \in 3..6
        /\ InArray(c, r[Fields[c.field]], res[Fields[c.field]], From(r, c.field + 1), rest)

(* The first unit of a text, and what is left without it.                  *)
LEMMA TextHead ==
  ASSUME NEW s \in Text, NEW t \in Text, s # <<>>
  PROVE  s \o t # <<>> /\ Head(s \o t) = Head(s) /\ Tail(s \o t) = Tail(s) \o t
  BY HeadOfConcat DEF Text

(* Only the empty text has the length 0.                                   *)
LEMMA TextLength ==
  ASSUME NEW s \in Text
  PROVE  Len(s) \in Nat /\ (Len(s) = 0 <=> s = <<>>)
  <1>1. \A T : \A x \in Seq(T) : Len(x) \in Nat /\ (Len(x) = 0 <=> x = <<>>)
    BY EmptySeq
  <1>2. \A x \in Seq(Nat) : Len(x) \in Nat /\ (Len(x) = 0 <=> x = <<>>)
    BY <1>1, SMT
  <1> QED
    BY <1>2 DEF Text

(* One unit x of a string is read: it completes the string, or the caller  *)
(* stays in it.                                                            *)
TextRead(c, str, u, x) ==
  /\ u # <<>> /\ x \in Nat /\ Tail(u) \in Text
  /\ Completes(c, x) => /\ Tail(u) = <<>> /\ CompleteText(c, x) = str
                        /\ InString(c, x) = EndString(c)
  /\ ~Completes(c, x) => /\ InString(c, x) \in Call
                         /\ InString(c, x).field = c.field
                         /\ InString(c, x).count = c.count
                         /\ InText(InString(c, x), str, Tail(u))

(* read_string, one unit at a time: with each unit less is left of the     *)
(* string, and the last one completes it.                                  *)
LEMMA TextStep ==
  ASSUME NEW c \in Call, NEW str \in Text, NEW u \in Text, InText(c, str, u)
  PROVE  TextRead(c, str, u, Head(u))
  <1> DEFINE x == Head(u)
             d == InString(c, x)
  <1>1. CASE c.size = -1 /\ c.text = <<>> /\ u = String(str)
    <2>1. u # <<>> /\ x = Len(str) /\ Tail(u) = str /\ Len(str) \in Nat
      BY <1>1, StringType, TextLength, Zenon
    <2> HIDE DEF x
    <2>2. CASE Completes(c, x)
      <3>1. x = 0
        BY <1>1, <2>2 DEF Completes
      <3>2. str = <<>>
        BY <2>1, <3>1, TextLength, Zenon
      <3>3. CompleteText(c, x) = <<>> /\ d = EndString(c)
        BY <1>1, <3>1 DEF CompleteText, InString
      <3> QED
        BY <2>1, <2>2, <3>2, <3>3 DEF x, TextRead
    <2>3. CASE ~Completes(c, x)
      <3>1. x # 0
        BY <1>1, <2>3 DEF Completes
      <3>2. d = [c EXCEPT !.size = x]
        BY <1>1, <3>1 DEF InString
      <3> HIDE DEF d
      <3>3. /\ d \in Call /\ d.field = c.field /\ d.count = c.count
            /\ d.size = x /\ d.text = <<>>
        BY <1>1, <2>1, <3>2 DEF Call
      <3>4. str # <<>>
        BY <2>1, <3>1, TextLength
      <3>5. <<>> \o str = str
        BY ConcatEmptySeq DEF Text
      <3>6. InText(d, str, str)
        BY <2>1, <3>3, <3>4, <3>5 DEF InText
      <3> QED
        BY <2>1, <2>3, <3>3, <3>6 DEF d, x, TextRead
    <2> QED
      BY <2>2, <2>3 DEF x
  <1>2. CASE c.size = Len(u) /\ u # <<>> /\ c.text \o u = str
    <2>0. c.text \in Seq(Nat) /\ u \in Seq(Nat)
      BY DEF Call, Text
    <2>1. Len(u) \in Nat \ {0} /\ x \in Nat /\ Tail(u) \in Text /\ Len(Tail(u)) = Len(u) - 1
      BY <1>2, <2>0, HeadTailProperties, EmptySeq DEF Text
    <2>2. Append(c.text, x) \o Tail(u) = str
      BY <1>2, <2>0, AppendHead
    <2>3. Append(c.text, x) \in Text
      BY <2>0, <2>1, AppendProperties DEF Text
    <2> HIDE DEF x
    <2>4. CASE c.size = 1
      <3>1. Tail(u) = <<>>
        <4>1. Len(Tail(u)) = 0
          BY <1>2, <2>1, <2>4
        <4> QED
          BY <2>1, <4>1, TextLength, Zenon
      <3>2. Append(c.text, x) = str
        BY <2>2, <2>3, <3>1, ConcatEmptySeq DEF Text
      <3>3. CompleteText(c, x) = str /\ d = EndString(c) /\ Completes(c, x)
        BY <2>4, <3>2 DEF CompleteText, InString, Completes
      <3> QED
        BY <1>2, <2>1, <3>1, <3>3 DEF x, TextRead
    <2>5. CASE c.size # 1
      <3>1. ~Completes(c, x) /\ c.size # -1 /\ c.size - 1 = Len(Tail(u)) /\ Tail(u) # <<>>
        <4>1. c.size # -1 /\ c.size - 1 = Len(Tail(u)) /\ Len(Tail(u)) # 0
          BY <1>2, <2>1, <2>5
        <4>2. Tail(u) # <<>>
          BY <2>1, <4>1, TextLength, Zenon
        <4> QED
          BY <2>5, <4>1, <4>2 DEF Completes
      <3>2. d = [c EXCEPT !.size = c.size - 1, !.text = Append(c.text, x)]
        BY <2>5, <3>1 DEF InString, Call
      <3> HIDE DEF d
      <3>3. /\ d \in Call /\ d.field = c.field /\ d.count = c.count
            /\ d.size = c.size - 1 /\ d.text = Append(c.text, x)
        <4>1. c.size - 1 \in Int
          BY DEF Call
        <4> DEFINE n == c.size - 1
                   t == Append(c.text, x)
        <4>2. n \in Int /\ t \in Text /\ d = [c EXCEPT !.size = n, !.text = t]
          BY <2>3, <3>2, <4>1
        <4> HIDE DEF n, t
        <4>3. /\ d \in Call /\ d.field = c.field /\ d.count = c.count
              /\ d.size = n /\ d.text = t
          BY <4>2 DEF Call
        <4> QED
          BY <4>3 DEF n, t
      <3>4. InText(d, str, Tail(u))
        BY <2>2, <3>1, <3>3 DEF InText
      <3> QED
        BY <1>2, <2>1, <3>1, <3>3, <3>4 DEF d, x, TextRead
    <2> QED
      BY <2>4, <2>5
  <1> QED
    BY <1>1, <1>2 DEF InText

(* When a field is complete, the next one begins.                          *)
LEMMA FieldBegins ==
  ASSUME NEW c \in Call, NEW r \in Result, NEW res \in Result, c.field \in 1..6,
         \A k \in 1..6 : k <= c.field => res[Fields[k]] = r[Fields[k]]
  PROVE  LET d == NextField(c) IN
         /\ d \in Call /\ At(d, r, res, From(r, c.field + 1))
  <1> DEFINE d == NextField(c)
  <1>1. d = [c EXCEPT !.field = c.field + 1, !.count = -1, !.size = -1, !.text = <<>>]
    BY DEF NextField, Call
  <1>2. <<>> \in Text
    BY DEF Text
  <1> HIDE DEF d
  <1>3. d \in Call /\ d.field = c.field + 1 /\ Fresh(d)
    <2> DEFINE n == c.field + 1
    <2>1. /\ n \in 1..7 /\ -1 \in Int
          /\ d = [c EXCEPT !.field = n, !.count = -1, !.size = -1, !.text = <<>>]
      BY <1>1
    <2> HIDE DEF n
    <2>2. d \in Call
      BY <1>2, <2>1 DEF Call
    <2>3. d.field = n /\ d.count = -1 /\ d.size = -1 /\ d.text = <<>>
      BY <2>1 DEF Call
    <2> QED
      BY <2>2, <2>3 DEF Fresh, n
  <1>4. d.field \in 2..7 /\ From(r, c.field + 1) = From(r, d.field)
    BY <1>3
  <1>5. \A k \in 1..6 : k < d.field => res[Fields[k]] = r[Fields[k]]
    <2> SUFFICES ASSUME NEW k \in 1..6, k < d.field PROVE res[Fields[k]] = r[Fields[k]]
      OBVIOUS
    <2>1. k <= c.field
      BY <1>3
    <2> QED
      BY <2>1, Zenon
  <1>6. At(d, r, res, From(r, c.field + 1))
    BY <1>3, <1>4, <1>5, Zenon DEF At
  <1> QED
    BY <1>3, <1>6 DEF d

FieldSet(res, k, a, q) ==
  /\ q \in Result /\ q[Fields[k]] = a
  /\ \A j \in 1..6 : j # k => q[Fields[j]] = res[Fields[j]]

(* An array of the result is replaced.                                     *)
LEMMA SetField ==
  ASSUME NEW res \in Result, NEW k \in 3..6, NEW a \in Seq(Text)
  PROVE  FieldSet(res, k, a, [res EXCEPT ![Fields[k]] = a])
  <1>1. \A j \in 1..6 : j = 1 \/ j = 2 \/ j = 3 \/ j = 4 \/ j = 5 \/ j = 6
    OBVIOUS
  <1>2. CASE k = 3
    BY <1>1, <1>2, FieldNames DEF Result, FieldSet
  <1>3. CASE k = 4
    BY <1>1, <1>3, FieldNames DEF Result, FieldSet
  <1>4. CASE k = 5
    BY <1>1, <1>4, FieldNames DEF Result, FieldSet
  <1>5. CASE k = 6
    BY <1>1, <1>5, FieldNames DEF Result, FieldSet
  <1> QED
    BY <1>2, <1>3, <1>4, <1>5

(* The branches of AfterUnit and WithUnit for the arrays.                  *)
LEMMA UnitOfArray ==
  ASSUME NEW c, c.field \in 3..6, NEW u, NEW res
  PROVE  /\ AfterUnit(c, u) = IF c.count = -1
                              THEN IF u = 0 THEN NextField(c) ELSE [c EXCEPT !.count = u]
                              ELSE InString(c, u)
         /\ WithUnit(res, c, u) =
              IF c.count = -1 THEN [res EXCEPT ![Fields[c.field]] = <<>>]
              ELSE IF Completes(c, u)
              THEN [res EXCEPT ![Fields[c.field]] = Append(@, CompleteText(c, u))]
              ELSE res
  <1>1. Fields[c.field] # "line" /\ Fields[c.field] # "error"
    <2>1. c.field = 3 \/ c.field = 4 \/ c.field = 5 \/ c.field = 6
      OBVIOUS
    <2> QED
      BY <2>1, FieldNames
  <1> QED
    BY <1>1, Zenon DEF AfterUnit, WithUnit

(* A unit of the error message.                                            *)
LEMMA ErrorStep ==
  ASSUME NEW c \in Call, NEW r \in Result, NEW res \in Result, NEW u \in Text,
         c.field = 1, c.count = -1, InText(c, r.error, u)
  PROVE  LET x == Head(u)
         IN  /\ AfterUnit(c, x) \in Call /\ WithUnit(res, c, x) \in Result
             /\ At(AfterUnit(c, x), r, WithUnit(res, c, x), Tail(u) \o From(r, 2))
  <1> DEFINE x == Head(u)
             d == AfterUnit(c, x)
             q == WithUnit(res, c, x)
  <1>0. r.error \in Text /\ From(r, 2) \in Text
    <2>1. 2 \in 1..7 /\ r.error \in Text
      BY DEF Result
    <2> QED
      BY <2>1, FromType, Zenon
  <1>1. /\ d = InString(c, x)
        /\ q = IF Completes(c, x) THEN [res EXCEPT !.error = CompleteText(c, x)] ELSE res
    BY FieldNames DEF AfterUnit, WithUnit
  <1>2. TextRead(c, r.error, u, x)
    BY <1>0, TextStep
  <1> HIDE DEF x, d, q
  <1>3. CASE Completes(c, x)
    <2>1. q = [res EXCEPT !.error = r.error]
      BY <1>1, <1>2, <1>3, Zenon DEF TextRead
    <2>2. q \in Result /\ q.error = r.error
      BY <1>0, <2>1 DEF Result
    <2>3. \A k \in 1..6 : k <= c.field => q[Fields[k]] = r[Fields[k]]
      <3> SUFFICES ASSUME NEW k \in 1..6, k <= c.field PROVE q[Fields[k]] = r[Fields[k]]
        OBVIOUS
      <3>1. k = 1
        OBVIOUS
      <3> QED
        BY <2>2, <3>1, FieldNames
    <2>4. d = NextField(c)
      BY <1>1, <1>2, <1>3 DEF EndString, TextRead
    <2>5. c.field \in 1..6 /\ c.field + 1 = 2
      OBVIOUS
    <2>6. d \in Call /\ At(d, r, q, From(r, 2))
      BY <2>2, <2>3, <2>4, <2>5, FieldBegins
    <2>7. Tail(u) \o From(r, 2) = From(r, 2)
      BY <1>0, <1>2, <1>3, ConcatEmptySeq DEF Text, TextRead
    <2> QED
      BY <2>2, <2>6, <2>7 DEF d, q, x
  <1>4. CASE ~Completes(c, x)
    <2>1. d \in Call /\ d.field = 1 /\ d.count = -1 /\ InText(d, r.error, Tail(u)) /\ q = res
      BY <1>1, <1>2, <1>4, Zenon DEF TextRead
    <2>2. \A k \in 1..6 : k < d.field => q[Fields[k]] = r[Fields[k]]
      BY <2>1
    <2>3. At(d, r, q, Tail(u) \o From(r, 2))
      BY <1>2, <2>1, <2>2, Zenon DEF At, TextRead
    <2> QED
      BY <2>1, <2>3 DEF d, q, x
  <1> QED
    BY <1>3, <1>4

(* The line number is one unit.                                            *)
LEMMA LineStep ==
  ASSUME NEW c \in Call, NEW r \in Result, NEW res \in Result, c.field = 2,
         res.error = r.error
  PROVE  /\ AfterUnit(c, r.line) \in Call /\ WithUnit(res, c, r.line) \in Result
         /\ At(AfterUnit(c, r.line), r, WithUnit(res, c, r.line), From(r, 3))
  <1> DEFINE d == AfterUnit(c, r.line)
             q == WithUnit(res, c, r.line)
  <1>1. d = NextField(c) /\ q = [res EXCEPT !.line = r.line]
    BY FieldNames DEF AfterUnit, WithUnit
  <1> HIDE DEF d, q
  <1>2. q \in Result /\ q.line = r.line /\ q.error = r.error
    BY <1>1 DEF Result
  <1>3. \A k \in 1..6 : k <= c.field => q[Fields[k]] = r[Fields[k]]
    <2> SUFFICES ASSUME NEW k \in 1..6, k <= c.field PROVE q[Fields[k]] = r[Fields[k]]
      OBVIOUS
    <2>1. k = 1 \/ k = 2
      OBVIOUS
    <2> QED
      BY <1>2, <2>1, FieldNames
  <1>4. c.field \in 1..6 /\ c.field + 1 = 3
    OBVIOUS
  <1>5. d \in Call /\ At(d, r, q, From(r, 3))
    BY <1>1, <1>2, <1>3, <1>4, FieldBegins
  <1> QED
    BY <1>2, <1>5 DEF d, q

(* The number of strings of an array.                                      *)
LEMMA CountStep ==
  ASSUME NEW c \in Call, NEW r \in Result, NEW res \in Result, c.field \in 3..6, Fresh(c),
         \A k \in 1..6 : k < c.field => res[Fields[k]] = r[Fields[k]],
         NEW a \in Seq(Text), a = r[Fields[c.field]],
         NEW after \in Text, after = From(r, c.field + 1)
  PROVE  /\ AfterUnit(c, Len(a)) \in Call /\ WithUnit(res, c, Len(a)) \in Result
         /\ At(AfterUnit(c, Len(a)), r, WithUnit(res, c, Len(a)), Strings(a) \o after)
  <1> DEFINE d == AfterUnit(c, Len(a))
             q == WithUnit(res, c, Len(a))
             f == Fields[c.field]
  <1>0. Len(a) \in Nat /\ <<>> \in Seq(Text)
    OBVIOUS
  <1>1. q = [res EXCEPT ![f] = <<>>]
    BY UnitOfArray DEF Fresh
  <1>2. d = IF Len(a) = 0 THEN NextField(c) ELSE [c EXCEPT !.count = Len(a)]
    BY UnitOfArray DEF Fresh
  <1> HIDE DEF d, q
  <1>3. /\ q \in Result /\ q[f] = <<>>
        /\ \A j \in 1..6 : j # c.field => q[Fields[j]] = res[Fields[j]]
    <2>1. FieldSet(res, c.field, <<>>, [res EXCEPT ![Fields[c.field]] = <<>>])
      BY <1>0, SetField
    <2> QED
      BY <1>1, <2>1, Zenon DEF FieldSet
  <1>4. \A k \in 1..6 : k < c.field => q[Fields[k]] = r[Fields[k]]
    <2> SUFFICES ASSUME NEW k \in 1..6, k < c.field PROVE q[Fields[k]] = r[Fields[k]]
      OBVIOUS
    <2>1. k # c.field
      OBVIOUS
    <2> QED
      BY <1>3, <2>1, Zenon
  <1> HIDE DEF f
  <1>5. CASE Len(a) = 0
    <2>1. a = <<>>
      BY <1>5, EmptySeq
    <2>2. Strings(a) = <<>>
      BY <2>1, StringsEmpty, Zenon
    <2>3. Strings(a) \o after = after
      BY <2>2, ConcatEmptySeq DEF Text
    <2>4. \A k \in 1..6 : k <= c.field => q[Fields[k]] = r[Fields[k]]
      <3> SUFFICES ASSUME NEW k \in 1..6, k <= c.field PROVE q[Fields[k]] = r[Fields[k]]
        OBVIOUS
      <3>1. CASE k = c.field
        BY <1>3, <2>1, <3>1 DEF f
      <3>2. CASE k # c.field
        <4>1. k < c.field
          BY <3>2
        <4> QED
          BY <1>4, <4>1, Zenon
      <3> QED
        BY <3>1, <3>2
    <2>5. d = NextField(c) /\ c.field \in 1..6
      BY <1>2, <1>5
    <2>6. d \in Call /\ At(d, r, q, From(r, c.field + 1))
      BY <1>3, <2>4, <2>5, FieldBegins
    <2>7. d \in Call /\ At(d, r, q, Strings(a) \o after)
      BY <2>3, <2>6, Zenon
    <2> QED
      BY <1>3, <2>7 DEF d, q
  <1>6. CASE Len(a) # 0
    <2>1. a # <<>> /\ a[1] \in Text /\ Tail(a) \in Seq(Text)
      BY <1>6, HeadTailProperties, EmptySeq
    <2>2. d = [c EXCEPT !.count = Len(a)]
      BY <1>2, <1>6
    <2> DEFINE n == Len(a)
    <2>3. n \in Int
      BY <1>0
    <2> HIDE DEF n
    <2>4. /\ d \in Call /\ d.field = c.field /\ d.count = n
          /\ d.size = c.size /\ d.text = c.text
      BY <2>2, <2>3 DEF Call, n
    <2> DEFINE u == String(a[1])
               t == Strings(Tail(a))
    <2>5. u \in Text /\ t \in Text
      BY <2>1, StringType, StringsType
    <2>6. Strings(a) = u \o t
      BY <2>1, StringsCons
    <2> HIDE DEF t
    <2>7. InText(d, a[1], u)
      BY <2>4 DEF InText, Fresh
    <2> HIDE DEF u
    <2>8. (u \o t) \o after = u \o (t \o after)
      <3>1. Regroups(u, t, after)
        BY <2>5, TextRegroups, Zenon
      <3> QED
        BY <3>1 DEF Regroups
    <2>9. <<>> \o a = a
      BY ConcatEmptySeq
    <2>10. Strings(a) \o after = u \o (Strings(Tail(a)) \o after)
      BY <2>6, <2>8, Zenon DEF t
    <2>11. InArray(d, a, <<>>, after, Strings(a) \o after)
      BY <2>1, <2>4, <2>5, <2>7, <2>9, <2>10, Zenon DEF InArray, n
    <2>12. InArray(d, r[Fields[d.field]], q[Fields[d.field]], From(r, d.field + 1), Strings(a) \o after)
      BY <1>3, <2>4, <2>11 DEF f
    <2>13. d.field \in 3..6 /\ \A k \in 1..6 : k < d.field => q[Fields[k]] = r[Fields[k]]
      BY <1>4, <2>4, Zenon
    <2>14. At(d, r, q, Strings(a) \o after)
      BY <2>12, <2>13, Zenon DEF At
    <2> QED
      BY <1>3, <2>4, <2>14 DEF d, q
  <1> QED
    BY <1>5, <1>6

(* The same once the number of strings is known.                           *)
ElementRead(c, u, res) ==
  /\ AfterUnit(c, u) = InString(c, u)
  /\ WithUnit(res, c, u) =
       IF Completes(c, u)
       THEN [res EXCEPT ![Fields[c.field]] = Append(@, CompleteText(c, u))]
       ELSE res

(* What the caller does with a unit of a string.                           *)
LEMMA UnitOfElement ==
  ASSUME NEW c, c.field \in 3..6, c.count # -1, NEW u, NEW res
  PROVE  ElementRead(c, u, res)
  <1>1. Fields[c.field] # "line" /\ Fields[c.field] # "error"
    <2>1. c.field = 3 \/ c.field = 4 \/ c.field = 5 \/ c.field = 6
      OBVIOUS
    <2> QED
      BY <2>1, FieldNames
  <1> QED
    BY <1>1, Zenon DEF AfterUnit, WithUnit, ElementRead

(* A unit of a string of an array.                                         *)
LEMMA ElementStep ==
  ASSUME NEW c \in Call, NEW r \in Result, NEW res \in Result, c.field \in 3..6,
         \A k \in 1..6 : k < c.field => res[Fields[k]] = r[Fields[k]],
         NEW a \in Seq(Text), a = r[Fields[c.field]],
         NEW done \in Seq(Text), done = res[Fields[c.field]],
         NEW after \in Text, after = From(r, c.field + 1),
         NEW todo \in Seq(Text), NEW u \in Text,
         todo # <<>>, c.count = Len(todo), done \o todo = a, InText(c, todo[1], u)
  PROVE  LET x == Head(u)
         IN  /\ AfterUnit(c, x) \in Call /\ WithUnit(res, c, x) \in Result
             /\ At(AfterUnit(c, x), r, WithUnit(res, c, x),
                   Tail(u) \o (Strings(Tail(todo)) \o after))
  <1> DEFINE x == Head(u)
             d == AfterUnit(c, x)
             q == WithUnit(res, c, x)
             f == Fields[c.field]
             str == todo[1]
             tail == Tail(todo)
             rest == Strings(tail) \o after
  <1>0. /\ Len(todo) \in Nat \ {0} /\ str \in Text /\ tail \in Seq(Text)
        /\ Len(tail) = Len(todo) - 1 /\ Head(todo) = str
    BY HeadTailProperties, EmptySeq
  <1> HIDE DEF x
  <1>c. c.count # -1 /\ c.count \in Nat /\ Len(tail) = c.count - 1
    BY <1>0
  <1>d. Len(tail) = 0 => c.count <= 1
    <2>1. \A n \in Nat : \A m : m = n - 1 /\ m = 0 => n <= 1
      OBVIOUS
    <2> QED
      BY <1>c, <2>1, Zenon
  <1>e. ElementRead(c, x, res)
    BY <1>c, UnitOfElement, Zenon
  <1>1. d = InString(c, x)
    BY <1>e, Zenon DEF ElementRead
  <1>2. q = IF Completes(c, x) THEN [res EXCEPT ![f] = Append(@, CompleteText(c, x))] ELSE res
    BY <1>e, Zenon DEF ElementRead
  <1>3. TextRead(c, str, u, x)
    BY <1>0, TextStep DEF x
  <1>4. Strings(tail) \in Text /\ rest \in Text
    BY <1>0, StringsType, TextConcat
  <1>5. Append(done, str) \o tail = a /\ Append(done, str) \in Seq(Text)
    <2>1. Append(done, Head(todo)) \o Tail(todo) = done \o todo
      BY AppendHead
    <2>2. Append(done, str) \in Seq(Text)
      BY <1>0, AppendProperties
    <2> QED
      BY <1>0, <2>1, <2>2
  <1> HIDE DEF x, d, q, str, tail, rest, f
  <1>6. CASE ~Completes(c, x)
    <2>1. /\ d \in Call /\ d.field = c.field /\ d.count = c.count /\ q = res
          /\ InText(d, str, Tail(u)) /\ Tail(u) \in Text
      BY <1>1, <1>2, <1>3, <1>6, Zenon DEF TextRead
    <2>2. InArray(d, a, done, after, Tail(u) \o rest)
      BY <2>1, Zenon DEF InArray, str, tail, rest
    <2>3. InArray(d, r[Fields[d.field]], q[Fields[d.field]], From(r, d.field + 1), Tail(u) \o rest)
      BY <2>1, <2>2 DEF f
    <2>4. d.field \in 3..6 /\ \A k \in 1..6 : k < d.field => q[Fields[k]] = r[Fields[k]]
      BY <2>1, Zenon
    <2>5. At(d, r, q, Tail(u) \o rest)
      BY <2>3, <2>4, Zenon DEF At
    <2> QED
      BY <2>1, <2>5, Zenon DEF d, q, x, rest, tail
  <1>7. CASE Completes(c, x)
    <2>1. Tail(u) = <<>> /\ CompleteText(c, x) = str /\ d = EndString(c)
      BY <1>1, <1>3, <1>7, Zenon DEF TextRead
    <2>2. Tail(u) \o rest = rest
      BY <1>4, <2>1, ConcatEmptySeq DEF Text
    <2>3. q = [res EXCEPT ![f] = Append(done, str)]
      BY <1>2, <1>7, <2>1 DEF f
    <2>4. /\ q \in Result /\ q[f] = Append(done, str)
          /\ \A j \in 1..6 : j # c.field => q[Fields[j]] = res[Fields[j]]
      <3> DEFINE b == Append(done, str)
      <3>1. b \in Seq(Text) /\ q = [res EXCEPT ![Fields[c.field]] = b]
        BY <1>5, <2>3 DEF f
      <3> HIDE DEF b
      <3>2. FieldSet(res, c.field, b, [res EXCEPT ![Fields[c.field]] = b])
        BY <3>1, SetField
      <3> QED
        BY <3>1, <3>2, Zenon DEF FieldSet, b, f
    <2>5. \A k \in 1..6 : k < c.field => q[Fields[k]] = r[Fields[k]]
      <3> SUFFICES ASSUME NEW k \in 1..6, k < c.field PROVE q[Fields[k]] = r[Fields[k]]
        OBVIOUS
      <3>1. k # c.field
        OBVIOUS
      <3> QED
        BY <2>4, <3>1, Zenon
    <2>6. CASE Len(tail) = 0
      <3>1. tail = <<>>
        BY <1>0, <2>6, EmptySeq
      <3>2. rest = after
        <4>1. Strings(tail) = <<>>
          BY <3>1, StringsEmpty, Zenon
        <4> QED
          BY <4>1, ConcatEmptySeq DEF Text, rest
      <3>3. Append(done, str) = a
        BY <1>5, <3>1, ConcatEmptySeq
      <3>4. \A k \in 1..6 : k <= c.field => q[Fields[k]] = r[Fields[k]]
        <4> SUFFICES ASSUME NEW k \in 1..6, k <= c.field PROVE q[Fields[k]] = r[Fields[k]]
          OBVIOUS
        <4>1. CASE k = c.field
          BY <2>4, <3>3, <4>1, Zenon DEF f
        <4>2. CASE k # c.field
          <5>1. k < c.field
            BY <4>2
          <5> QED
            BY <2>5, <5>1, Zenon
        <4> QED
          BY <4>1, <4>2
      <3>5. d = NextField(c) /\ c.field \in 1..6
        <4>0. c.field \in 1..6
          OBVIOUS
        <4>1. c.count <= 1
          BY <1>d, <2>6, Zenon
        <4> QED
          BY <2>1, <4>0, <4>1, Zenon DEF EndString
      <3>6. d \in Call /\ At(d, r, q, From(r, c.field + 1))
        BY <2>4, <3>4, <3>5, FieldBegins
      <3>7. At(d, r, q, Tail(u) \o rest)
        BY <2>2, <3>2, <3>6, Zenon
      <3> QED
        BY <2>4, <3>6, <3>7, Zenon DEF d, q, x, rest, tail
    <2>7. CASE Len(tail) # 0
      <3> DEFINE n == c.count - 1
      <3>1. n = Len(tail) /\ n \in Int /\ ~(c.count <= 1)
        BY <1>0, <2>7
      <3>2. d = [c EXCEPT !.count = n, !.size = -1, !.text = <<>>]
        BY <2>1, <3>1 DEF EndString, Call
      <3> HIDE DEF n
      <3>3. <<>> \in Text /\ -1 \in Int
        BY DEF Text
      <3>4. d \in Call /\ d.field = c.field /\ d.count = n /\ d.size = -1 /\ d.text = <<>>
        BY <3>1, <3>2, <3>3 DEF Call
      <3>5. tail # <<>> /\ tail[1] \in Text /\ Tail(tail) \in Seq(Text)
        <4>1. tail # <<>>
          BY <1>0, <2>7, EmptySeq
        <4> HIDE DEF tail
        <4> QED
          BY <1>0, <4>1, HeadTailProperties
      <3> DEFINE v == String(tail[1])
                 t == Strings(Tail(tail))
      <3>6. v \in Text /\ t \in Text
        BY <3>5, StringType, StringsType
      <3>7. Strings(tail) = v \o t
        BY <1>0, <3>5, StringsCons
      <3>8. InText(d, tail[1], v)
        BY <3>4 DEF InText
      <3> HIDE DEF v, t
      <3>9. (v \o t) \o after = v \o (t \o after)
        <4>1. Regroups(v, t, after)
          BY <3>6, TextRegroups, Zenon
        <4> QED
          BY <4>1 DEF Regroups
      <3>10. rest = v \o (Strings(Tail(tail)) \o after)
        BY <3>7, <3>9, Zenon DEF rest, t
      <3>11. InArray(d, a, Append(done, str), after, rest)
        BY <1>0, <1>5, <3>1, <3>4, <3>5, <3>6, <3>8, <3>10, Zenon DEF InArray
      <3>12. InArray(d, r[Fields[d.field]], q[Fields[d.field]], From(r, d.field + 1), rest)
        BY <2>4, <3>4, <3>11 DEF f
      <3>13. d.field \in 3..6 /\ \A k \in 1..6 : k < d.field => q[Fields[k]] = r[Fields[k]]
        BY <2>5, <3>4, Zenon
      <3>14. At(d, r, q, rest)
        BY <3>12, <3>13, Zenon DEF At
      <3>15. At(d, r, q, Tail(u) \o rest)
        BY <2>2, <3>14, Zenon
      <3> QED
        BY <2>4, <3>4, <3>15, Zenon DEF d, q, x, rest, tail
    <2> QED
      BY <2>6, <2>7
  <1> QED
    BY <1>6, <1>7

(* The position moves with what is read, whatever the answer is.           *)
LEMMA ReadStep ==
  ASSUME NEW c \in Call, NEW r \in Result, NEW res \in Result, NEW rest \in Text,
         c.field \in 1..6, At(c, r, res, rest)
  PROVE  /\ AfterUnit(c, Head(rest)) \in Call /\ WithUnit(res, c, Head(rest)) \in Result
         /\ At(AfterUnit(c, Head(rest)), r, WithUnit(res, c, Head(rest)), Tail(rest))
  <1>0. \A k \in 1..6 : k < c.field => res[Fields[k]] = r[Fields[k]]
    BY DEF At
  <1>1. CASE c.field = 1
    <2>1. c.count = -1 /\ \E u \in Text : InText(c, r.error, u) /\ rest = u \o From(r, 2)
      BY <1>1 DEF At
    <2>2. PICK u \in Text : InText(c, r.error, u) /\ rest = u \o From(r, 2)
      BY <2>1
    <2>3. 2 \in 1..7 /\ r.error \in Text
      BY DEF Result
    <2>4. From(r, 2) \in Text
      BY <2>3, FromType, Zenon
    <2>5. u # <<>>
      BY <2>2, <2>3, TextStep DEF TextRead
    <2>6. Head(rest) = Head(u) /\ Tail(rest) = Tail(u) \o From(r, 2)
      BY <2>2, <2>4, <2>5, TextHead
    <2>7. /\ AfterUnit(c, Head(u)) \in Call /\ WithUnit(res, c, Head(u)) \in Result
          /\ At(AfterUnit(c, Head(u)), r, WithUnit(res, c, Head(u)), Tail(u) \o From(r, 2))
      BY <1>1, <2>1, <2>2, ErrorStep, Zenon
    <2> QED
      BY <2>6, <2>7, Zenon
  <1>2. CASE c.field = 2
    <2>1. rest = From(r, 2)
      BY <1>2 DEF At
    <2>2. rest = <<r.line>> \o From(r, 3)
      BY <2>1, FromIs, Zenon DEF FromLine
    <2>3. 3 \in 1..7 /\ r.line \in Nat
      BY DEF Result
    <2>4. From(r, 3) \in Text /\ <<r.line>> \in Text
      BY <2>3, FromType, Zenon
    <2>5. <<r.line>> # <<>> /\ Head(<<r.line>>) = r.line /\ Tail(<<r.line>>) = <<>>
      <3>1. \A x : <<x>> # <<>> /\ Head(<<x>>) = x /\ Tail(<<x>>) = <<>>
        OBVIOUS
      <3> QED
        BY <3>1, Zenon
    <2>6. Head(rest) = r.line /\ Tail(rest) = <<>> \o From(r, 3)
      <3> DEFINE l == <<r.line>>
                 after == From(r, 3)
      <3>1. l \in Text /\ after \in Text /\ l # <<>> /\ rest = l \o after
        BY <2>2, <2>4, <2>5
      <3>2. Head(l) = r.line /\ Tail(l) = <<>>
        BY <2>5
      <3> HIDE DEF l, after
      <3>3. Head(l \o after) = Head(l) /\ Tail(l \o after) = Tail(l) \o after
        BY <3>1, TextHead
      <3>4. Head(rest) = r.line /\ Tail(rest) = <<>> \o after
        BY <3>1, <3>2, <3>3
      <3> QED
        BY <3>4 DEF after
    <2>7. <<>> \o From(r, 3) = From(r, 3)
      BY <2>4, ConcatEmptySeq DEF Text
    <2>8. res.error = r.error
      <3>1. 1 \in 1..6 /\ 1 < c.field
        BY <1>2
      <3>2. res[Fields[1]] = r[Fields[1]]
        BY <1>0, <3>1, Zenon
      <3> QED
        BY <3>2, FieldNames
    <2>9. /\ AfterUnit(c, r.line) \in Call /\ WithUnit(res, c, r.line) \in Result
          /\ At(AfterUnit(c, r.line), r, WithUnit(res, c, r.line), From(r, 3))
      BY <1>2, <2>8, LineStep
    <2> QED
      BY <2>6, <2>7, <2>9, Zenon
  <1>3. CASE c.field \in 3..6
    <2> DEFINE a == r[Fields[c.field]]
               done == res[Fields[c.field]]
               after == From(r, c.field + 1)
    <2>1. a \in Seq(Text) /\ done \in Seq(Text) /\ From(r, c.field) = Array(a) \o after
      BY <1>3, FromArray
    <2>2. after \in Text
      <3>1. c.field + 1 \in 1..7
        BY <1>3
      <3> QED
        BY <3>1, FromType, Zenon
    <2> HIDE DEF a, done, after
    <2>3. \/ Fresh(c) /\ rest = From(r, c.field)
          \/ InArray(c, a, done, after, rest)
      BY <1>3 DEF At, a, done, after
    <2>4. CASE Fresh(c) /\ rest = From(r, c.field)
      <3>1. Head(rest) = Len(a) /\ Tail(rest) = Strings(a) \o after
        BY <2>1, <2>2, <2>4, ArrayIs, Zenon
      <3>2. /\ AfterUnit(c, Len(a)) \in Call /\ WithUnit(res, c, Len(a)) \in Result
            /\ At(AfterUnit(c, Len(a)), r, WithUnit(res, c, Len(a)), Strings(a) \o after)
        BY <1>0, <1>3, <2>1, <2>2, <2>4, CountStep, Zenon DEF a, after
      <3> QED
        BY <3>1, <3>2, Zenon
    <2>5. CASE InArray(c, a, done, after, rest)
      <3>1. PICK todo \in Seq(Text), u \in Text :
              /\ todo # <<>> /\ c.count = Len(todo) /\ done \o todo = a
              /\ InText(c, todo[1], u)
              /\ rest = u \o (Strings(Tail(todo)) \o after)
        BY <2>5 DEF InArray
      <3> DEFINE more == Strings(Tail(todo)) \o after
      <3>2. todo[1] \in Text /\ Tail(todo) \in Seq(Text)
        BY <3>1, HeadTailProperties, EmptySeq
      <3>3. more \in Text
        BY <2>2, <3>2, StringsType, TextConcat
      <3>4. u # <<>>
        BY <3>1, <3>2, TextStep DEF TextRead
      <3>5. /\ AfterUnit(c, Head(u)) \in Call /\ WithUnit(res, c, Head(u)) \in Result
            /\ At(AfterUnit(c, Head(u)), r, WithUnit(res, c, Head(u)), Tail(u) \o more)
        BY <1>0, <1>3, <2>1, <2>2, <3>1, ElementStep, Zenon DEF a, done, after
      <3> HIDE DEF more
      <3>6. rest = u \o more
        BY <3>1 DEF more
      <3>7. Head(rest) = Head(u) /\ Tail(rest) = Tail(u) \o more
        BY <3>3, <3>4, <3>6, TextHead
      <3> QED
        BY <3>5, <3>7, Zenon
    <2> QED
      BY <2>3, <2>4, <2>5
  <1> QED
    BY <1>1, <1>2, <1>3

(* Reading moves the caller in the answer and nowhere else.                *)
LEMMA SameCall ==
  ASSUME NEW c \in Call, NEW u
  PROVE  LET d == AfterUnit(c, u)
         IN  d.pc = c.pc /\ d.source = c.source /\ d.version = c.version /\ d.send = c.send
  <1> DEFINE Same(d) == /\ d.pc = c.pc /\ d.source = c.source
                        /\ d.version = c.version /\ d.send = c.send
  <1>1. Same(NextField(c))
    BY DEF NextField, Call
  <1>2. Same(EndString(c))
    BY <1>1 DEF EndString, Call
  <1>3. Same(InString(c, u))
    BY <1>2 DEF InString, Call
  <1>4. Same([c EXCEPT !.count = u])
    BY DEF Call
  <1>5. AfterUnit(c, u) \in {NextField(c), InString(c, u), [c EXCEPT !.count = u]}
    BY DEF AfterUnit
  <1> HIDE DEF Same
  <1>6. Same(AfterUnit(c, u))
    BY <1>1, <1>3, <1>4, <1>5, Zenon
  <1> QED
    BY <1>6 DEF Same

-----------------------------------------------------------------------------
(* The conversation between the caller and the interpreters.               *)
Pipes == [process : Process, in : Text, out : Text, got : Text, reply : Text]

(* The types of the caller, of the pipes and of the results.               *)
Typed ==
  /\ caller \in Call
  /\ helper \in [Versions -> Pipes]
  /\ result_ \in [Versions -> Result]

(* Nothing is on its way to or from an interpreter.                        *)
Quiet(h) == h.in = <<>> /\ h.out = <<>> /\ h.got = <<>> /\ h.reply = <<>>

(* The request is on its way, in three parts.                              *)
Unanswered(c, h) ==
  /\ c.field = 1 /\ Fresh(c)
  /\ h.out = <<>> /\ h.reply = <<>>
  /\ (h.got \o h.in) \o c.send = String(c.source)
  /\ Len(h.got) <= Len(c.source)

(* The answer r is on its way back.  What an interpreter has not written   *)
(* is lost with it.                                                        *)
AnsweredWith(c, h, r, res) ==
  /\ h.got = <<>> /\ h.in = <<>> /\ c.send = <<>>
  /\ \E lost \in Text : /\ h.process.child = "alive" => lost = <<>>
                        /\ At(c, r, res, (h.out \o h.reply) \o lost)

(* interpreter::parse: the request or the answer is on its way, the other  *)
(* interpreter is silent, and Python 3 is asked only when Python 2 has     *)
(* reported an error.                                                      *)
Conversation ==
  caller.pc \in {"send", "read"} =>
    LET s == caller.source
        v == caller.version
    IN  /\ s \in Sources /\ NulAt(s) = 0 /\ active_ = None
        /\ caller.pc = "read" => caller.send = <<>>
        /\ v = 3 => result_[2] = Analysis(2, s) /\ Analysis(2, s).line # 0
        /\ \A w \in Versions : w # v => Quiet(helper[w])
        /\ \/ Unanswered(caller, helper[v])
           \/ AnsweredWith(caller, helper[v], Analysis(v, s), result_[v])

(* Between two calls nothing is on its way.                                *)
Silence == caller.pc \in {"idle", "returned"} => \A w \in Versions : Quiet(helper[w])

(* The interpreter whose result counts: the first one that accepts the     *)
(* source, or else the one that got further.                               *)
Right(s) ==
  IF Analysis(2, s).line = 0 THEN 2
  ELSE IF Analysis(3, s).line = 0 THEN 3
  ELSE IF Analysis(3, s).line > Analysis(2, s).line THEN 3 ELSE 2

(* python_analyzer::parse has returned the analysis of that interpreter,   *)
(* an error for a source with a NUL, or nothing after an exception.        *)
Outcome ==
  /\ caller.pc = "thrown" => active_ = None
  /\ caller.pc = "returned" =>
       IF NulAt(caller.source) # 0
       THEN active_ = 2 /\ result_[2].line > 0 /\ result_[2].imports = <<>>
       ELSE /\ active_ = Right(caller.source)
            /\ result_[Right(caller.source)] = Analysis(Right(caller.source), caller.source)

Faithful == Typed /\ Conversation /\ Silence /\ Outcome

(* python_analyzer begins with nothing said.                               *)
LEMMA NothingSaid ==
  /\ NoCall \in Call /\ NoHelper \in Pipes /\ Quiet(NoHelper)
  /\ \A p \in Process : LET h == [NoHelper EXCEPT !.process = p]
                        IN  h \in Pipes /\ Quiet(h) /\ h.process = p
  <1>1. <<>> \in Text /\ -1 \in Int /\ 2 \in Versions /\ 1 \in 1..7
    BY DEF Text, Versions
  <1>2. NoCall \in Call
    BY <1>1 DEF NoCall, Call
  <1>3. NoHelper \in Pipes /\ Quiet(NoHelper)
    BY <1>1, ImplType DEF NoHelper, Pipes, Quiet
  <1>4. ASSUME NEW p \in Process
        PROVE  LET h == [NoHelper EXCEPT !.process = p]
               IN  h \in Pipes /\ Quiet(h) /\ h.process = p
    BY <1>3 DEF Pipes, Quiet
  <1> QED
    BY <1>2, <1>3, <1>4

(* At the start nothing was said.                                          *)
LEMMA InitFaithful == Init => Faithful
  <1> SUFFICES ASSUME Init PROVE Faithful
    OBVIOUS
  <1>1. /\ caller = NoCall /\ helper = [v \in Versions |-> NoHelper]
        /\ result_ = [v \in Versions |-> NoResult]
    BY DEF Init
  <1>2. NoCall.pc = "idle"
    BY DEF NoCall
  <1>3. Typed
    BY <1>1, NothingSaid, NoResultType DEF Typed
  <1>4. Silence
    BY <1>1, NothingSaid DEF Silence
  <1>5. Conversation /\ Outcome
    BY <1>1, <1>2 DEF Conversation, Outcome
  <1> QED
    BY <1>3, <1>4, <1>5 DEF Faithful

(* maybe_start gives an interpreter to which nothing was said, if nothing  *)
(* was said to the one that it finds.                                      *)
LEMMA StartedQuiet ==
  ASSUME Typed, HelpersOK, NEW v \in Versions, NEW fails, Quiet(helper[v])
  PROVE  maybe_start(v, fails) \in Pipes /\ Quiet(maybe_start(v, fails))
  <1>1. InterpreterOK(v, maybe_start(v, fails))
    BY MaybeStarted
  <1>2. CASE running(helper[v].process)
    BY <1>2 DEF maybe_start, Typed
  <1>3. CASE ~running(helper[v].process)
    <2> DEFINE p == interpreter(v, [impl EXCEPT !.fds = helper[v].process.fds], fails)
    <2>1. maybe_start(v, fails) = [NoHelper EXCEPT !.process = p]
      BY <1>3 DEF maybe_start
    <2> HIDE DEF p
    <2>2. [NoHelper EXCEPT !.process = p].process = p
      BY DEF NoHelper
    <2>3. p \in Process
      BY <1>1, <2>1, <2>2 DEF InterpreterOK
    <2> QED
      BY <2>1, <2>3, NothingSaid
  <1> QED
    BY <1>2, <1>3

(* A request is made when nothing is left of the one before.               *)
LEMMA RequestStep ==
  ASSUME Typed, HelpersOK, NEW v \in Versions, NEW s \in Sources, NulAt(s) = 0,
         \A w \in Versions : Quiet(helper[w]), Request(v, s), active_' = None,
         v = 3 => result_[2] = Analysis(2, s) /\ Analysis(2, s).line # 0
  PROVE  Faithful'
  <1>1. PICK fails \in Failures(v) :
          /\ helper' = [helper EXCEPT ![v] = maybe_start(v, fails)]
          /\ caller' = IF running(helper'[v].process)
                       THEN [NoCall EXCEPT !.pc = "send", !.source = s, !.version = v,
                                           !.send = String(s)]
                       ELSE [NoCall EXCEPT !.pc = "thrown", !.source = s]
          /\ result_' = IF running(helper[v].process) THEN result_
                        ELSE [result_ EXCEPT ![v] = NoResult]
    BY DEF Request
  <1> DEFINE h == maybe_start(v, fails)
  <1>2. h \in Pipes /\ Quiet(h)
    BY StartedQuiet
  <1> HIDE DEF h
  <1>3. helper' \in [Versions -> Pipes] /\ \A w \in Versions : Quiet(helper'[w])
    <2>1. helper' = [helper EXCEPT ![v] = h] /\ helper \in [Versions -> Pipes]
      BY <1>1 DEF h, Typed
    <2> QED
      BY <1>2, <2>1
  <1>4. result_' \in [Versions -> Result] /\ (v = 3 => result_'[2] = result_[2])
    BY <1>1, NoResultType DEF Typed, Versions
  <1>5. s \in Text /\ String(s) \in Text
    BY ParsedAssumption, StringType
  <1>6. CASE running(helper'[v].process)
    <2>1. caller' = [NoCall EXCEPT !.pc = "send", !.source = s, !.version = v,
                                   !.send = String(s)]
      BY <1>1, <1>6
    <2>2. /\ caller' \in Call /\ caller'.pc = "send" /\ caller'.source = s
          /\ caller'.version = v /\ caller'.send = String(s) /\ caller'.field = 1
          /\ Fresh(caller')
      <3>1. NoCall \in Call /\ NoCall.field = 1 /\ Fresh(NoCall)
        BY NothingSaid DEF NoCall, Fresh
      <3> DEFINE t == String(s)
      <3> HIDE DEF t
      <3>2. caller' = [NoCall EXCEPT !.pc = "send", !.source = s, !.version = v, !.send = t]
            /\ t \in Text
        BY <2>1, <1>5 DEF t
      <3>3. /\ caller' \in Call /\ caller'.pc = "send" /\ caller'.source = s
            /\ caller'.version = v /\ caller'.send = t /\ caller'.field = 1
        BY <1>5, <3>1, <3>2 DEF Call
      <3>4. Fresh(caller')
        BY <3>1, <3>2 DEF Call, Fresh
      <3> QED
        BY <3>3, <3>4 DEF t
    <2>3. (<<>> \o <<>>) \o String(s) = String(s)
      BY <1>5, ConcatEmptySeq DEF Text
    <2>4. Len(<<>>) <= Len(s)
      BY <1>5, TextLength
    <2>5. Unanswered(caller', helper'[v])
      BY <1>3, <2>2, <2>3, <2>4 DEF Unanswered, Quiet
    <2>6. Conversation'
      BY <1>3, <1>4, <2>2, <2>5 DEF Conversation
    <2>7. Silence' /\ Outcome'
      BY <2>2 DEF Silence, Outcome
    <2> QED
      BY <1>3, <1>4, <2>2, <2>6, <2>7 DEF Faithful, Typed
  <1>7. CASE ~running(helper'[v].process)
    <2>1. caller' = [NoCall EXCEPT !.pc = "thrown", !.source = s]
      BY <1>1, <1>7
    <2>2. caller' \in Call /\ caller'.pc = "thrown"
      BY <1>5, <2>1, NothingSaid DEF Call
    <2> QED
      BY <1>3, <1>4, <2>2 DEF Faithful, Typed, Conversation, Silence, Outcome
  <1> QED
    BY <1>6, <1>7

(* bad_string answers without an interpreter.                              *)
LEMMA BadStringStep ==
  ASSUME Typed, HelpersOK, NEW s \in Sources, NulAt(s) # 0,
         \A w \in Versions : Quiet(helper[w]), BadString(s)
  PROVE  Faithful'
  <1> DEFINE lines == Len(SelectSeq(SubSeq(s, 1, NulAt(s) - 1), LAMBDA b : b = newline))
  <1>1. PICK fails \in Failures(2) :
          /\ helper' = [helper EXCEPT ![2] = maybe_start(2, fails)]
          /\ IF running(helper'[2].process)
             THEN /\ caller' = [NoCall EXCEPT !.pc = "returned", !.source = s]
                  /\ result_' = [result_ EXCEPT
                       ![2].error = <<NUL>>, ![2].line = 1 + lines,
                       ![2].imports = <<>>, ![2].attributes = <<>>]
                  /\ active_' = 2
             ELSE /\ caller' = [NoCall EXCEPT !.pc = "thrown", !.source = s]
                  /\ active_' = None /\ UNCHANGED result_
    BY DEF BadString
  <1>2. lines \in Nat
    OBVIOUS
  <1> HIDE DEF lines
  <1> DEFINE h == maybe_start(2, fails)
  <1>3. 2 \in Versions
    BY DEF Versions
  <1>4. h \in Pipes /\ Quiet(h)
    BY <1>3, StartedQuiet
  <1> HIDE DEF h
  <1>5. helper' \in [Versions -> Pipes] /\ \A w \in Versions : Quiet(helper'[w])
    <2>1. helper' = [helper EXCEPT ![2] = h] /\ helper \in [Versions -> Pipes]
      BY <1>1 DEF h, Typed
    <2> QED
      BY <1>3, <1>4, <2>1
  <1>6. s \in Text
    BY ParsedAssumption
  <1>7. CASE running(helper'[2].process)
    <2>1. /\ caller' = [NoCall EXCEPT !.pc = "returned", !.source = s]
          /\ result_' = [result_ EXCEPT
               ![2].error = <<NUL>>, ![2].line = 1 + lines,
               ![2].imports = <<>>, ![2].attributes = <<>>]
          /\ active_' = 2
      BY <1>1, <1>7
    <2>2. caller' \in Call /\ caller'.pc = "returned" /\ caller'.source = s
      BY <1>6, <2>1, NothingSaid DEF Call
    <2> DEFINE n == 1 + lines
    <2>3. n \in Nat /\ n > 0 /\ <<NUL>> \in Text /\ <<>> \in Seq(Text)
      BY <1>2 DEF Text, NUL
    <2> HIDE DEF n
    <2>4. /\ result_' \in [Versions -> Result] /\ result_'[2].line = n
          /\ result_'[2].imports = <<>>
      <3> DEFINE x == result_[2]
                 e == <<NUL>>
                 q == [x EXCEPT !.error = e, !.line = n, !.imports = <<>>, !.attributes = <<>>]
      <3>1. result_ \in [Versions -> Result] /\ x \in Result
        BY <1>3 DEF Typed
      <3>2. result_' = [result_ EXCEPT ![2] = q]
        BY <1>3, <2>1, <3>1 DEF n
      <3>3. e \in Text
        BY <2>3
      <3> HIDE DEF x, e
      <3>4. q \in Result /\ q.line = n /\ q.imports = <<>>
        BY <2>3, <3>1, <3>3 DEF Result
      <3> HIDE DEF q
      <3> QED
        BY <1>3, <3>1, <3>2, <3>4
    <2>5. Conversation' /\ Silence'
      BY <1>5, <2>2 DEF Conversation, Silence
    <2>6. Outcome'
      BY <2>1, <2>2, <2>3, <2>4 DEF Outcome
    <2> QED
      BY <1>5, <2>2, <2>4, <2>5, <2>6 DEF Faithful, Typed
  <1>8. CASE ~running(helper'[2].process)
    <2>1. /\ caller' = [NoCall EXCEPT !.pc = "thrown", !.source = s]
          /\ active_' = None /\ result_' = result_
      BY <1>1, <1>8
    <2>2. caller' \in Call /\ caller'.pc = "thrown"
      BY <1>6, <2>1, NothingSaid DEF Call
    <2> QED
      BY <1>5, <2>1, <2>2 DEF Faithful, Typed, Conversation, Silence, Outcome
  <1> QED
    BY <1>7, <1>8

(* The position in the answer is in these fields.                          *)
LEMMA SamePosition ==
  ASSUME NEW c, NEW d, d.field = c.field, d.count = c.count, d.size = c.size, d.text = c.text,
         NEW r, NEW res, NEW rest, At(c, r, res, rest)
  PROVE  At(d, r, res, rest)
  <1>1. \A str, u : InText(c, str, u) => InText(d, str, u)
    BY Zenon DEF InText
  <1>2. Fresh(c) => Fresh(d)
    BY DEF Fresh
  <1>3. \A a, done, after : InArray(c, a, done, after, rest) => InArray(d, a, done, after, rest)
    BY <1>1, Zenon DEF InArray
  <1> QED
    BY <1>1, <1>2, <1>3, Zenon DEF At

(* A unit goes into the pipe.                                              *)
LEMMA SendStep ==
  ASSUME Faithful, HelpersOK, send_string
  PROVE  Faithful'
  <1> DEFINE v == caller.version
             s == caller.source
             r == Analysis(v, s)
  <1>0. /\ caller.pc = "send" /\ caller \in Call /\ v \in Versions
        /\ helper \in [Versions -> Pipes] /\ result_ \in [Versions -> Result]
        /\ result_' = result_ /\ active_' = active_
    BY DEF send_string, Faithful, Typed, Call
  <1>1. /\ s \in Sources /\ NulAt(s) = 0 /\ active_ = None
        /\ v = 3 => result_[2] = Analysis(2, s) /\ Analysis(2, s).line # 0
        /\ \A w \in Versions : w # v => Quiet(helper[w])
        /\ \/ Unanswered(caller, helper[v])
           \/ AnsweredWith(caller, helper[v], r, result_[v])
    BY <1>0 DEF Faithful, Conversation
  <1>2. CASE caller.send = <<>>
    <2>1. caller' = [caller EXCEPT !.pc = "read"] /\ helper' = helper
      BY <1>2 DEF send_string
    <2>2. /\ caller' \in Call /\ caller'.pc = "read" /\ caller'.source = s /\ caller'.version = v
          /\ caller'.send = <<>> /\ caller'.field = caller.field /\ caller'.count = caller.count
          /\ caller'.size = caller.size /\ caller'.text = caller.text
      BY <1>0, <1>2, <2>1 DEF Call
    <2>3. /\ Unanswered(caller, helper[v]) => Unanswered(caller', helper'[v])
          /\ AnsweredWith(caller, helper[v], r, result_[v])
               => AnsweredWith(caller', helper'[v], r, result_'[v])
      <3>1. Unanswered(caller, helper[v]) => Unanswered(caller', helper'[v])
        BY <1>2, <2>1, <2>2 DEF Unanswered, Fresh
      <3>2. ASSUME AnsweredWith(caller, helper[v], r, result_[v])
            PROVE  AnsweredWith(caller', helper'[v], r, result_'[v])
        <4> HIDE DEF r
        <4>1. PICK lost \in Text :
                /\ helper[v].process.child = "alive" => lost = <<>>
                /\ At(caller, r, result_[v], (helper[v].out \o helper[v].reply) \o lost)
          BY <3>2 DEF AnsweredWith
        <4>2. At(caller', r, result_[v], (helper[v].out \o helper[v].reply) \o lost)
          BY <2>2, <4>1, SamePosition, Zenon
        <4> QED
          BY <1>0, <2>1, <2>2, <3>2, <4>1, <4>2, Zenon DEF AnsweredWith
      <3> QED
        BY <3>1, <3>2
    <2> HIDE DEF r
    <2>4. Conversation'
      BY <1>0, <1>1, <2>1, <2>2, <2>3 DEF Conversation, r
    <2> QED
      BY <1>0, <2>1, <2>2, <2>4 DEF Faithful, Typed, Silence, Outcome
  <1>3. CASE caller.send # <<>> /\ ~Alive(v) /\ Child(in) \notin helper[v].process.fds
    <2>1. caller' = [NoCall EXCEPT !.pc = "killed"] /\ helper' = helper
      BY <1>3 DEF send_string
    <2>2. caller' \in Call /\ caller'.pc = "killed"
      BY <2>1, NothingSaid DEF Call
    <2> QED
      BY <1>0, <2>1, <2>2 DEF Faithful, Typed, Conversation, Silence, Outcome
  <1>4. CASE caller.send # <<>> /\ ~(~Alive(v) /\ Child(in) \notin helper[v].process.fds)
    <2> DEFINE x == Head(caller.send)
               t == Tail(caller.send)
               i == Append(helper[v].in, x)
    <2>1. /\ caller' = [caller EXCEPT !.send = t]
          /\ helper' = [helper EXCEPT ![v].in = i]
      BY <1>0, <1>4 DEF send_string
    <2>2. /\ caller.send \in Seq(Nat) /\ helper[v].in \in Seq(Nat) /\ helper[v].got \in Seq(Nat)
          /\ helper[v] \in Pipes
      BY <1>0 DEF Call, Pipes, Text
    <2>3. x \in Nat /\ t \in Text
      BY <1>4, <2>2, HeadTailProperties DEF Text
    <2>4. i \in Text
      BY <2>2, <2>3, AppendProperties DEF Text
    <2>5. i \o t = helper[v].in \o caller.send
      BY <1>4, <2>2, AppendHead
    <2> HIDE DEF x, t, i
    <2>6. /\ caller' \in Call /\ caller'.pc = "send" /\ caller'.source = s /\ caller'.version = v
          /\ caller'.send = t /\ caller'.field = caller.field /\ caller'.count = caller.count
          /\ caller'.size = caller.size /\ caller'.text = caller.text
      BY <1>0, <2>1, <2>3 DEF Call
    <2>7. /\ helper' \in [Versions -> Pipes]
          /\ \A w \in Versions : w # v => helper'[w] = helper[w]
          /\ helper'[v].in = i /\ helper'[v].out = helper[v].out
          /\ helper'[v].got = helper[v].got /\ helper'[v].reply = helper[v].reply
      BY <1>0, <2>1, <2>4 DEF Pipes
    <2>8. Unanswered(caller, helper[v])
      BY <1>1, <1>4 DEF AnsweredWith
    <2>9. (helper[v].got \o i) \o t = (helper[v].got \o helper[v].in) \o caller.send
      <3> DEFINE g == helper[v].got
                 j == helper[v].in
                 d == caller.send
      <3>1. g \in Text /\ j \in Text /\ d \in Text
        BY <2>2 DEF Text
      <3>2. i \o t = j \o d
        BY <2>5
      <3> HIDE DEF g, j, d
      <3>3. (g \o i) \o t = g \o (i \o t)
        <4>1. Regroups(g, i, t)
          BY <2>3, <2>4, <3>1, TextRegroups, Zenon
        <4> QED
          BY <4>1 DEF Regroups
      <3>4. (g \o j) \o d = g \o (j \o d)
        <4>1. Regroups(g, j, d)
          BY <3>1, TextRegroups, Zenon
        <4> QED
          BY <4>1 DEF Regroups
      <3>5. (g \o i) \o t = (g \o j) \o d
        BY <3>2, <3>3, <3>4, Zenon
      <3> QED
        BY <3>5 DEF g, j, d
    <2>10. Unanswered(caller', helper'[v])
      BY <2>6, <2>7, <2>8, <2>9 DEF Unanswered, Fresh
    <2>11. Conversation'
      BY <1>0, <1>1, <2>6, <2>7, <2>10 DEF Conversation, Quiet
    <2> QED
      BY <1>0, <2>6, <2>7, <2>11 DEF Faithful, Typed, Silence, Outcome
  <1> QED
    BY <1>2, <1>3, <1>4

(* During a call, what the invariant says of it.                           *)
LEMMA InCall ==
  ASSUME Faithful, caller.pc \in {"send", "read"}
  PROVE  /\ caller \in Call /\ caller.version \in Versions /\ caller.source \in Sources
         /\ caller.source \in Text /\ NulAt(caller.source) = 0 /\ active_ = None
         /\ helper \in [Versions -> Pipes] /\ result_ \in [Versions -> Result]
         /\ caller.pc = "read" => caller.send = <<>>
         /\ caller.version = 3 => /\ result_[2] = Analysis(2, caller.source)
                                 /\ Analysis(2, caller.source).line # 0
         /\ \A w \in Versions : w # caller.version => Quiet(helper[w])
         /\ Analysis(caller.version, caller.source) \in Result
         /\ \/ Unanswered(caller, helper[caller.version])
            \/ AnsweredWith(caller, helper[caller.version],
                            Analysis(caller.version, caller.source), result_[caller.version])
  <1>1. /\ caller \in Call /\ caller.version \in Versions /\ caller.source \in Text
        /\ helper \in [Versions -> Pipes] /\ result_ \in [Versions -> Result]
    BY DEF Faithful, Typed, Call
  <1>2. /\ caller.source \in Sources /\ NulAt(caller.source) = 0 /\ active_ = None
        /\ caller.pc = "read" => caller.send = <<>>
        /\ caller.version = 3 => /\ result_[2] = Analysis(2, caller.source)
                                /\ Analysis(2, caller.source).line # 0
        /\ \A w \in Versions : w # caller.version => Quiet(helper[w])
        /\ \/ Unanswered(caller, helper[caller.version])
           \/ AnsweredWith(caller, helper[caller.version],
                           Analysis(caller.version, caller.source), result_[caller.version])
    BY DEF Faithful, Conversation
  <1>3. Analysis(caller.version, caller.source) \in Result
    BY <1>1, <1>2, AnalysisType
  <1> QED
    BY <1>1, <1>2, <1>3, Zenon

(* A unit of the answer is read.                                           *)
LEMMA ReadUnitStep ==
  ASSUME Faithful, ReadUnit
  PROVE  Faithful'
  <1> DEFINE v == caller.version
             s == caller.source
             r == Analysis(v, s)
             h == helper[v]
             res == result_[v]
             u == Head(h.out)
             d == AfterUnit(caller, u)
             q == WithUnit(res, caller, u)
  <1>0. caller.pc = "read" /\ caller.field <= 6 /\ h.out # <<>> /\ active_' = active_
    BY FieldNames DEF ReadUnit, Reading
  <1>1. /\ caller \in Call /\ v \in Versions /\ s \in Sources /\ NulAt(s) = 0 /\ active_ = None
        /\ helper \in [Versions -> Pipes] /\ result_ \in [Versions -> Result]
        /\ caller.send = <<>>
        /\ v = 3 => result_[2] = Analysis(2, s) /\ Analysis(2, s).line # 0
        /\ \A w \in Versions : w # v => Quiet(helper[w])
        /\ r \in Result
        /\ Unanswered(caller, h) \/ AnsweredWith(caller, h, r, res)
    BY <1>0, InCall
  <1>2. helper' = [helper EXCEPT ![v].out = Tail(h.out)] /\ result_' = [result_ EXCEPT ![v] = q]
        /\ caller' = d
    BY <1>1 DEF ReadUnit
  <1> HIDE DEF r
  <1>3. AnsweredWith(caller, h, r, res)
    BY <1>0, <1>1 DEF Unanswered
  <1>4. PICK lost \in Text :
          /\ h.process.child = "alive" => lost = <<>>
          /\ At(caller, r, res, (h.out \o h.reply) \o lost)
    BY <1>3 DEF AnsweredWith
  <1>5. h \in Pipes /\ h.out \in Text /\ h.reply \in Text /\ res \in Result
    BY <1>1 DEF Pipes
  <1> DEFINE o == h.out
             p == h.reply
             rest == (o \o p) \o lost
  <1>6. rest \in Text /\ Head(rest) = u /\ Tail(rest) = (Tail(o) \o p) \o lost /\ Tail(o) \in Text
    <2>1. o \in Text /\ p \in Text /\ o # <<>> /\ u = Head(o)
      BY <1>0, <1>5
    <2> HIDE DEF o, p, u
    <2>2. o \o p \in Text /\ (o \o p) \o lost \in Text
      BY <1>4, <2>1, TextConcat
    <2>3. o \o p # <<>> /\ Head(o \o p) = Head(o) /\ Tail(o \o p) = Tail(o) \o p
      BY <2>1, TextHead
    <2>4. Head((o \o p) \o lost) = Head(o \o p) /\ Tail((o \o p) \o lost) = Tail(o \o p) \o lost
      BY <1>4, <2>2, <2>3, TextHead, Zenon
    <2>5. Tail(o) \in Text
      BY <2>1, HeadTailProperties DEF Text
    <2> QED
      BY <2>1, <2>2, <2>3, <2>4, <2>5, Zenon
  <1>7. caller.field \in 1..6
    BY <1>0, <1>1 DEF Call
  <1>8. /\ d \in Call /\ q \in Result
        /\ At(d, r, q, (Tail(o) \o p) \o lost)
    <2>1. At(caller, r, res, rest)
      BY <1>4
    <2> HIDE DEF rest
    <2>2. /\ AfterUnit(caller, Head(rest)) \in Call /\ WithUnit(res, caller, Head(rest)) \in Result
          /\ At(AfterUnit(caller, Head(rest)), r, WithUnit(res, caller, Head(rest)), Tail(rest))
      BY <1>1, <1>5, <1>6, <1>7, <2>1, ReadStep, Zenon
    <2> QED
      BY <1>6, <2>2, Zenon
  <1>9. d.pc = "read" /\ d.source = s /\ d.version = v /\ d.send = <<>>
    BY <1>0, <1>1, SameCall
  <1> HIDE DEF d, q, o, rest
  <1>10. /\ helper' \in [Versions -> Pipes]
         /\ \A w \in Versions : w # v => helper'[w] = helper[w]
         /\ helper'[v].in = h.in /\ helper'[v].out = Tail(o) /\ helper'[v].got = h.got
         /\ helper'[v].reply = p /\ helper'[v].process = h.process
    <2> DEFINE t == Tail(o)
    <2>1. t \in Text /\ helper' = [helper EXCEPT ![v].out = t]
      BY <1>2, <1>6 DEF o
    <2> HIDE DEF t
    <2>2. /\ helper' \in [Versions -> Pipes]
          /\ \A w \in Versions : w # v => helper'[w] = helper[w]
          /\ helper'[v].in = h.in /\ helper'[v].out = t /\ helper'[v].got = h.got
          /\ helper'[v].reply = p /\ helper'[v].process = h.process
      BY <1>1, <2>1 DEF Pipes
    <2> QED
      BY <2>2 DEF t
  <1>11. result_' \in [Versions -> Result] /\ result_'[v] = q /\ (v = 3 => result_'[2] = result_[2])
    BY <1>1, <1>2, <1>8 DEF Versions
  <1>12. AnsweredWith(caller', helper'[v], r, result_'[v])
    <2>1. h.got = <<>> /\ h.in = <<>>
      BY <1>3 DEF AnsweredWith
    <2>2. At(caller', r, result_'[v], (helper'[v].out \o helper'[v].reply) \o lost)
      BY <1>2, <1>8, <1>10, <1>11
    <2>3. helper'[v].process.child = "alive" => lost = <<>>
      BY <1>4, <1>10
    <2> QED
      BY <1>2, <1>9, <1>10, <2>1, <2>2, <2>3, Zenon DEF AnsweredWith
  <1>13. Conversation'
    BY <1>0, <1>1, <1>2, <1>9, <1>10, <1>11, <1>12 DEF Conversation, Quiet, r
  <1> QED
    BY <1>2, <1>8, <1>9, <1>10, <1>11, <1>13 DEF Faithful, Typed, Silence, Outcome

(* Two results with the same fields.                                       *)
LEMMA SameResult ==
  ASSUME NEW r \in Result, NEW res \in Result,
         \A k \in 1..6 : res[Fields[k]] = r[Fields[k]]
  PROVE  res = r
  <1>1. /\ res[Fields[1]] = r[Fields[1]] /\ res[Fields[2]] = r[Fields[2]]
        /\ res[Fields[3]] = r[Fields[3]] /\ res[Fields[4]] = r[Fields[4]]
        /\ res[Fields[5]] = r[Fields[5]] /\ res[Fields[6]] = r[Fields[6]]
    OBVIOUS
  <1>2. /\ res.error = r.error /\ res.line = r.line /\ res.imports = r.imports
        /\ res.attributes = r.attributes /\ res.functions = r.functions
        /\ res.classes = r.classes
    BY <1>1, FieldNames
  <1>3. \A x \in Result : x = [error |-> x.error, line |-> x.line, imports |-> x.imports,
                               attributes |-> x.attributes, functions |-> x.functions,
                               classes |-> x.classes]
    BY DEF Result
  <1>4. /\ r = [error |-> r.error, line |-> r.line, imports |-> r.imports,
                attributes |-> r.attributes, functions |-> r.functions,
                classes |-> r.classes]
        /\ res = [error |-> res.error, line |-> res.line, imports |-> res.imports,
                  attributes |-> res.attributes, functions |-> res.functions,
                  classes |-> res.classes]
    BY <1>3, Zenon
  <1> QED
    BY <1>2, <1>4, Zenon

(* At the end of the answer all of it has been read.                       *)
LEMMA EndOfAnswer ==
  ASSUME Faithful, caller.pc = "read", caller.field > Len(Fields)
  PROVE  /\ \A w \in Versions : Quiet(helper[w])
         /\ result_[caller.version] = Analysis(caller.version, caller.source)
  <1> DEFINE v == caller.version
             r == Analysis(v, caller.source)
             h == helper[v]
             res == result_[v]
  <1>1. /\ caller \in Call /\ v \in Versions /\ helper \in [Versions -> Pipes]
        /\ result_ \in [Versions -> Result] /\ r \in Result
        /\ \A w \in Versions : w # v => Quiet(helper[w])
        /\ Unanswered(caller, h) \/ AnsweredWith(caller, h, r, res)
    BY InCall
  <1>2. caller.field = 7
    BY <1>1, FieldNames DEF Call
  <1> HIDE DEF r
  <1>3. AnsweredWith(caller, h, r, res)
    BY <1>1, <1>2 DEF Unanswered
  <1>4. PICK lost \in Text : At(caller, r, res, (h.out \o h.reply) \o lost)
    BY <1>3 DEF AnsweredWith
  <1>5. h.out \in Text /\ h.reply \in Text /\ res \in Result
    BY <1>1 DEF Pipes
  <1>6. (h.out \o h.reply) \o lost = <<>>
    <2> DEFINE rest == (h.out \o h.reply) \o lost
    <2>1. At(caller, r, res, rest)
      BY <1>4
    <2> HIDE DEF rest
    <2>2. ~(caller.field = 1) /\ ~(caller.field \in 3..6)
      BY <1>2
    <2>3. rest = From(r, caller.field)
      BY <2>1, <2>2, Zenon DEF At
    <2>4. rest = <<>>
      BY <1>2, <2>3, FromIs, Zenon
    <2> QED
      BY <2>4 DEF rest
  <1>7. h.out = <<>> /\ h.reply = <<>>
    <2> DEFINE o == h.out
               p == h.reply
    <2>1. o \in Text /\ p \in Text /\ lost \in Text /\ (o \o p) \o lost = <<>>
      BY <1>4, <1>5, <1>6
    <2> HIDE DEF o, p
    <2>2. o \o p \in Text
      BY <2>1, TextConcat
    <2>3. o \o p = <<>>
      BY <2>1, <2>2, TextHead, Zenon
    <2>4. o = <<>>
      BY <2>1, <2>3, TextHead, Zenon
    <2>5. <<>> \o p = p
      BY <2>1, ConcatEmptySeq DEF Text
    <2> QED
      BY <2>3, <2>4, <2>5, Zenon DEF o, p
  <1>8. Quiet(h)
    BY <1>3, <1>7 DEF AnsweredWith, Quiet
  <1>9. \A k \in 1..6 : res[Fields[k]] = r[Fields[k]]
    <2>1. \A k \in 1..6 : k < caller.field
      BY <1>2
    <2> QED
      BY <1>4, <2>1, Zenon DEF At
  <1>10. res = r
    BY <1>1, <1>5, <1>9, SameResult, Zenon
  <1> QED
    BY <1>1, <1>8, <1>10, Zenon DEF r

(* The answer counts, or the other interpreter is asked.                   *)
LEMMA AnsweredStep ==
  ASSUME Faithful, HelpersOK, Answered
  PROVE  Faithful'
  <1> DEFINE v == caller.version
             s == caller.source
  <1>0. caller.pc = "read" /\ caller.field > Len(Fields)
    BY DEF Answered
  <1>1. /\ caller \in Call /\ v \in Versions /\ s \in Sources /\ NulAt(s) = 0 /\ active_ = None
        /\ helper \in [Versions -> Pipes] /\ result_ \in [Versions -> Result]
        /\ v = 3 => result_[2] = Analysis(2, s) /\ Analysis(2, s).line # 0
    BY <1>0, InCall
  <1>2. (\A w \in Versions : Quiet(helper[w])) /\ result_[v] = Analysis(v, s)
    BY <1>0, EndOfAnswer
  <1>3. CASE result_[v].line # 0 /\ v = 2
    <2>1. Request(3, s) /\ active_' = active_
      BY <1>3 DEF Answered
    <2>2. Typed /\ 3 \in Versions /\ result_[2] = Analysis(2, s) /\ Analysis(2, s).line # 0
      BY <1>2, <1>3 DEF Faithful, Versions
    <2>3. active_' = None
      BY <1>1, <2>1
    <2> QED
      BY <1>1, <1>2, <2>1, <2>2, <2>3, RequestStep, Zenon
  <1>4. CASE ~(result_[v].line # 0 /\ v = 2)
    <2>1. /\ caller' = [caller EXCEPT !.pc = "returned"] /\ helper' = helper /\ result_' = result_
          /\ active_' = IF result_[v].line = 0 THEN v ELSE Later(result_[2], result_[3])
      BY <1>4 DEF Answered
    <2>2. caller' \in Call /\ caller'.pc = "returned" /\ caller'.source = s
      BY <1>1, <2>1 DEF Call
    <2>3. active_' = Right(s) /\ result_[Right(s)] = Analysis(Right(s), s)
      <3>1. CASE v = 2
        BY <1>2, <1>4, <2>1, <3>1 DEF Right
      <3>2. CASE v = 3
        <4> HIDE DEF s
        <4>1. /\ result_[2] = Analysis(2, s) /\ Analysis(2, s).line # 0
              /\ result_[3] = Analysis(3, s)
          BY <1>1, <1>2, <3>2
        <4> QED
          BY <2>1, <3>2, <4>1 DEF Right, Later
      <3> QED
        BY <1>1, <3>1, <3>2 DEF Versions
    <2>4. Outcome'
      BY <1>1, <2>1, <2>2, <2>3 DEF Outcome
    <2> QED
      BY <1>1, <1>2, <2>1, <2>2, <2>4 DEF Faithful, Typed, Conversation, Silence
  <1> QED
    BY <1>3, <1>4

(* The end of file: the call throws, and there is no result.               *)
LEMMA EofStep ==
  ASSUME Faithful, eof_exception
  PROVE  Faithful'
  <1>1. /\ caller.pc = "read" /\ caller' = [caller EXCEPT !.pc = "thrown"]
        /\ helper' = helper /\ result_' = result_ /\ active_' = active_
    BY DEF eof_exception, Reading
  <1>2. /\ caller \in Call /\ active_ = None
        /\ helper \in [Versions -> Pipes] /\ result_ \in [Versions -> Result]
    BY <1>1, InCall
  <1>3. caller' \in Call /\ caller'.pc = "thrown"
    BY <1>1, <1>2 DEF Call
  <1> QED
    BY <1>1, <1>2, <1>3 DEF Faithful, Typed, Conversation, Silence, Outcome

(* The next package has a new analyzer.                                    *)
LEMMA DestroyStep ==
  ASSUME HelpersOK, DestroyAnalyzer
  PROVE  Faithful'
  <1>1. /\ caller' = NoCall /\ result_' = [v \in Versions |-> NoResult]
        /\ helper' = [v \in Versions |-> [NoHelper EXCEPT !.process = destroy(helper[v].process)]]
    BY DEF DestroyAnalyzer
  <1>2. NoCall.pc = "idle" /\ NoCall \in Call
    BY NothingSaid DEF NoCall
  <1>3. ASSUME NEW v \in Versions
        PROVE  helper'[v] \in Pipes /\ Quiet(helper'[v])
    <2>1. /\ helper[v].process \in Process
          /\ Idle(helper[v].process) \/ Talking(v, helper[v].process)
      BY DEF HelpersOK, InterpreterOK
    <2>2. destroy(helper[v].process) \in Process
      BY <2>1, Destroyed
    <2>3. helper'[v] = [NoHelper EXCEPT !.process = destroy(helper[v].process)]
      BY <1>1
    <2> QED
      BY <2>2, <2>3, NothingSaid
  <1>4. helper' \in [Versions -> Pipes] /\ result_' \in [Versions -> Result]
    BY <1>1, <1>3, NoResultType
  <1> QED
    BY <1>1, <1>2, <1>3, <1>4 DEF Faithful, Typed, Conversation, Silence, Outcome

(* A call begins when nothing is left of the one before.                   *)
LEMMA ParseStep ==
  ASSUME Faithful, HelpersOK, NEW s \in Sources, parse(s)
  PROVE  Faithful'
  <1>1. Typed /\ \A w \in Versions : Quiet(helper[w])
    BY DEF parse, Faithful, Silence
  <1>2. CASE NulAt(s) # 0
    <2>1. BadString(s)
      BY <1>2 DEF parse
    <2> QED
      BY <1>1, <1>2, <2>1, BadStringStep, Zenon
  <1>3. CASE NulAt(s) = 0
    <2>1. Request(2, s) /\ active_' = None
      BY <1>3 DEF parse
    <2>2. 2 \in Versions /\ ~(2 = 3)
      BY DEF Versions
    <2> QED
      BY <1>1, <1>3, <2>1, <2>2, RequestStep, Zenon
  <1> QED
    BY <1>2, <1>3

(* What a step of interpreter v leaves as it is.                           *)
OnlyHelper(v) ==
  /\ caller' = caller /\ result_' = result_ /\ active_' = active_
  /\ \A w \in Versions : w # v => helper'[w] = helper[w]

(* An interpreter takes a step of its own.  In a call it is the one that   *)
(* is spoken to; between two calls it has nothing to do.                   *)
LEMMA HelperStep ==
  ASSUME Faithful, NEW v \in Versions, OnlyHelper(v), helper' \in [Versions -> Pipes],
         Quiet(helper[v]) => Quiet(helper'[v]),
         caller.pc \in {"send", "read"} /\ v = caller.version =>
           \/ Unanswered(caller, helper'[v])
           \/ AnsweredWith(caller, helper'[v], Analysis(v, caller.source), result_[v])
  PROVE  Faithful'
  <1>1. Typed'
    BY DEF Faithful, Typed, OnlyHelper
  <1>2. Outcome'
    BY DEF Faithful, Outcome, OnlyHelper
  <1>3. Silence'
    BY DEF Faithful, Silence, OnlyHelper, Quiet
  <1>4. ASSUME caller.pc \in {"send", "read"}
        PROVE  Conversation'
    <2> DEFINE u == caller.version
               r == Analysis(u, caller.source)
    <2>1. /\ u \in Versions /\ caller.source \in Sources /\ NulAt(caller.source) = 0
          /\ active_ = None /\ (caller.pc = "read" => caller.send = <<>>)
          /\ u = 3 => result_[2] = Analysis(2, caller.source) /\ Analysis(2, caller.source).line # 0
          /\ \A w \in Versions : w # u => Quiet(helper[w])
          /\ Unanswered(caller, helper[u]) \/ AnsweredWith(caller, helper[u], r, result_[u])
      BY <1>4, InCall
    <2>2. \A w \in Versions : w # u => Quiet(helper'[w])
      BY <2>1 DEF OnlyHelper
    <2>3. Unanswered(caller, helper'[u]) \/ AnsweredWith(caller, helper'[u], r, result_[u])
      <3>1. CASE v = u
        BY <1>4, <3>1
      <3>2. CASE v # u
        <4>1. helper'[u] = helper[u]
          BY <2>1, <3>2 DEF OnlyHelper
        <4> QED
          BY <2>1, <4>1
      <3> QED
        BY <3>1, <3>2
    <2> QED
      BY <2>1, <2>2, <2>3 DEF Conversation, OnlyHelper
  <1>5. ASSUME caller.pc \notin {"send", "read"}
        PROVE  Conversation'
    BY <1>5 DEF Conversation, OnlyHelper
  <1> QED
    BY <1>1, <1>2, <1>3, <1>4, <1>5 DEF Faithful

(* A unit of the answer goes into the pipe.                                *)
LEMMA WritesStep ==
  ASSUME Faithful, NEW v \in Versions, HelperWrites(v)
  PROVE  Faithful'
  <1> DEFINE h == helper[v]
             g == helper'[v]
             o == Append(h.out, Head(h.reply))
             p == Tail(h.reply)
  <1>1. /\ helper' = [helper EXCEPT ![v].out = o, ![v].reply = p] /\ h.reply # <<>>
        /\ caller' = caller /\ result_' = result_ /\ active_' = active_
    BY DEF HelperWrites
  <1>2. helper \in [Versions -> Pipes] /\ h \in Pipes
    BY DEF Faithful, Typed
  <1>3. h.out \in Seq(Nat) /\ h.reply \in Seq(Nat)
    BY <1>2 DEF Pipes, Text
  <1>4. o \in Text /\ p \in Text
    BY <1>1, <1>3, HeadTailProperties, AppendProperties DEF Text
  <1>5. o \o p = h.out \o h.reply
    BY <1>1, <1>3, AppendHead
  <1> HIDE DEF o, p
  <1>6. /\ helper' \in [Versions -> Pipes] /\ g.in = h.in /\ g.got = h.got
        /\ g.out = o /\ g.reply = p /\ g.process = h.process
        /\ \A w \in Versions : w # v => helper'[w] = helper[w]
    BY <1>1, <1>2, <1>4 DEF Pipes
  <1>7. ~Quiet(h) /\ ~Unanswered(caller, h)
    BY <1>1 DEF Quiet, Unanswered
  <1>8. ASSUME caller.pc \in {"send", "read"}, v = caller.version
        PROVE  AnsweredWith(caller, g, Analysis(v, caller.source), result_[v])
    <2> DEFINE r == Analysis(v, caller.source)
               res == result_[v]
    <2>1. AnsweredWith(caller, h, r, res)
      BY <1>7, <1>8, InCall
    <2> HIDE DEF r, res, g, h
    <2>2. PICK lost \in Text : /\ h.process.child = "alive" => lost = <<>>
                               /\ At(caller, r, res, (h.out \o h.reply) \o lost)
      BY <2>1 DEF AnsweredWith
    <2>3. At(caller, r, res, (g.out \o g.reply) \o lost)
      BY <1>5, <1>6, <2>2, Zenon
    <2>4. AnsweredWith(caller, g, r, res)
      BY <1>6, <2>1, <2>2, <2>3, Zenon DEF AnsweredWith
    <2> QED
      BY <2>4 DEF r, res
  <1> QED
    BY <1>1, <1>6, <1>7, <1>8, HelperStep DEF OnlyHelper

(* An interpreter dies: what it had not written of the answer is lost.     *)
LEMMA DiesStep ==
  ASSUME Faithful, NEW v \in Versions, HelperDies(v)
  PROVE  Faithful'
  <1> DEFINE h == helper[v]
             g == helper'[v]
  <1>1. /\ helper' = [helper EXCEPT ![v].process.child = "zombie", ![v].reply = <<>>]
        /\ h.process.child = "alive"
        /\ caller' = caller /\ result_' = result_ /\ active_' = active_
    BY DEF HelperDies, Alive
  <1>2. helper \in [Versions -> Pipes] /\ h \in Pipes
    BY DEF Faithful, Typed
  <1>3. <<>> \in Text /\ h.out \in Text /\ h.reply \in Text /\ h.process \in Process
    BY <1>2 DEF Pipes, Text
  <1> DEFINE p == [h.process EXCEPT !.child = "zombie"]
  <1>4. p \in Process /\ p.child = "zombie"
    BY <1>3 DEF Process
  <1>5. helper' = [helper EXCEPT ![v].process = p, ![v].reply = <<>>]
    BY <1>1, <1>2 DEF Pipes
  <1> HIDE DEF p
  <1>6. /\ helper' \in [Versions -> Pipes] /\ g.in = h.in /\ g.got = h.got
        /\ g.out = h.out /\ g.reply = <<>> /\ g.process = p
        /\ \A w \in Versions : w # v => helper'[w] = helper[w]
    BY <1>2, <1>3, <1>4, <1>5 DEF Pipes
  <1>7. Quiet(h) => Quiet(g)
    BY <1>6 DEF Quiet
  <1>8. ASSUME caller.pc \in {"send", "read"}, v = caller.version
        PROVE  \/ Unanswered(caller, g)
               \/ AnsweredWith(caller, g, Analysis(v, caller.source), result_[v])
    <2> DEFINE r == Analysis(v, caller.source)
               res == result_[v]
    <2>1. Unanswered(caller, h) \/ AnsweredWith(caller, h, r, res)
      BY <1>8, InCall
    <2> HIDE DEF r, res, g, h
    <2>2. CASE Unanswered(caller, h)
      BY <1>6, <2>2 DEF Unanswered
    <2>3. CASE AnsweredWith(caller, h, r, res)
      <3>1. PICK lost \in Text : /\ h.process.child = "alive" => lost = <<>>
                                 /\ At(caller, r, res, (h.out \o h.reply) \o lost)
        BY <2>3 DEF AnsweredWith
      <3>2. lost = <<>>
        BY <1>1, <3>1
      <3> DEFINE o == h.out
                 q == h.reply
      <3>3. o \in Text /\ q \in Text
        BY <1>3
      <3> HIDE DEF o, q
      <3>4. o \o q \in Text
        BY <3>3, TextConcat
      <3>5. \A x \in Text : x \o <<>> = x
        BY ConcatEmptySeq DEF Text
      <3>6. (o \o q) \o lost = (o \o <<>>) \o q
        BY <3>2, <3>3, <3>4, <3>5, Zenon
      <3>7. (h.out \o h.reply) \o lost = (g.out \o g.reply) \o q
        BY <1>6, <3>6, Zenon DEF o, q
      <3>8. At(caller, r, res, (g.out \o g.reply) \o q)
        BY <3>1, <3>7, Zenon
      <3>9. g.process.child = "zombie"
        BY <1>4, <1>6
      <3>10. AnsweredWith(caller, g, r, res)
        BY <1>6, <2>3, <3>3, <3>8, <3>9 DEF AnsweredWith
      <3> QED
        BY <3>10 DEF r, res
    <2> QED
      BY <2>1, <2>2, <2>3 DEF r, res
  <1> QED
    BY <1>1, <1>6, <1>7, <1>8, HelperStep DEF OnlyHelper

(* The script, once it has read a unit more of a request.                  *)
Heard(v) == Append(helper[v].got, Head(helper[v].in))
Replied(v) ==
  IF Len(Heard(v)) = Heard(v)[1] + 1 /\ Tail(Heard(v)) \in Sources
  THEN Answer(v, Tail(Heard(v))) ELSE <<>>

(* What it writes is its own analysis of what it has read.                 *)
LEMMA AnswerOf ==
  ASSUME HelpersOK, NEW v \in Versions, Alive(v), NEW s \in Sources
  PROVE  Answer(v, s) = From(Analysis(v, s), 1) /\ Answer(v, s) \in Text
  <1>1. helper[v].process.image = v
    BY DEF HelpersOK, InterpreterOK, Idle, Talking, Alive
  <1> DEFINE r == Analysis(v, s)
  <1>2. r \in Result
    BY AnalysisType
  <1>3. Answer(v, s) = String(r.error) \o <<r.line>> \o Array(r.imports)
                         \o Array(r.attributes) \o Array(r.functions) \o Array(r.classes)
    BY <1>1 DEF Answer
  <1> HIDE DEF r
  <1>4. Answer(v, s) = From(r, 1)
    BY <1>2, <1>3, AnswerIs, Zenon
  <1>5. From(r, 1) \in Text
    <2>1. 1 \in 1..7
      OBVIOUS
    <2> QED
      BY <1>2, <2>1, FromType, Zenon
  <1> QED
    BY <1>4, <1>5 DEF r

RequestWith(got, i, d, s) ==
  /\ (got \o i) \o d = String(s)
  /\ got[1] = Len(s) /\ Len(got) <= Len(s) + 1
  /\ Len(got) = Len(s) + 1 => got = String(s) /\ i = <<>> /\ d = <<>>

(* The length of a concatenation, and what it begins with.                 *)
LEMMA PartsOfConcat ==
  ASSUME NEW T, NEW a \in Seq(T), NEW b \in Seq(T)
  PROVE  /\ Len(a \o b) = Len(a) + Len(b) /\ Len(b) \in Nat
         /\ \A k \in 1..Len(a) : (a \o b)[k] = a[k]
  BY ConcatProperties, LenProperties

(* What the script has got of a request of source s, with the unit that it *)
(* reads now: it is complete just when it is all there is.                 *)
LEMMA HeardOf ==
  ASSUME NEW s \in Text, NEW g \in Text, NEW i \in Text, NEW d \in Text, i # <<>>,
         (g \o i) \o d = String(s), Len(g) <= Len(s)
  PROVE  RequestWith(Append(g, Head(i)), Tail(i), d, s)
  <1> DEFINE got == Append(g, Head(i))
             t == Tail(i)
             str == String(s)
  <1>1. got \in Seq(Nat) /\ t \in Seq(Nat) /\ Len(got) = Len(g) + 1
    BY HeadTailProperties, AppendProperties DEF Text
  <1>2. got \o t = g \o i
    BY AppendHead DEF Text
  <1>3. str \in Seq(Nat) /\ Len(str) = Len(s) + 1 /\ str # <<>> /\ Head(str) = Len(s)
    BY StringType DEF Text
  <1>4. (got \o t) \o d = str
    BY <1>2
  <1>5. Len(g) \in Nat /\ Len(s) \in Nat
    BY TextLength
  <1> HIDE DEF got, t, str
  <1>6. str[1] = Len(s)
    BY <1>3
  <1> DEFINE rest == t \o d
  <1>7. rest \in Seq(Nat) /\ got \o rest = str
    <2>1. got \in Text /\ t \in Text
      BY <1>1 DEF Text
    <2>2. (got \o t) \o d = got \o (t \o d)
      <3>1. Regroups(got, t, d)
        BY <2>1, TextRegroups, Zenon
      <3> QED
        BY <3>1 DEF Regroups
    <2>3. t \o d \in Text
      BY <2>1, TextConcat
    <2> QED
      BY <1>4, <2>2, <2>3 DEF Text
  <1> HIDE DEF rest
  <1>8. Len(str) = Len(got) + Len(rest) /\ Len(rest) \in Nat
        /\ \A k \in 1..Len(got) : str[k] = got[k]
    BY <1>1, <1>7, PartsOfConcat, Zenon
  <1>9. got[1] = Len(s)
    BY <1>1, <1>5, <1>6, <1>8
  <1>10. ASSUME Len(got) = Len(s) + 1
         PROVE  got = str /\ t = <<>> /\ d = <<>>
    <2>1. Len(rest) = 0
      BY <1>3, <1>5, <1>8, <1>10
    <2>2. rest = <<>>
      BY <1>7, <2>1, EmptySeq
    <2>3. got \o <<>> = got
      BY <1>1, ConcatEmptySeq
    <2>4. got = str
      BY <1>7, <2>2, <2>3
    <2>5. t \in Text
      BY <1>1 DEF Text
    <2>6. t = <<>>
      BY <2>2, <2>5, TextHead, Zenon DEF rest
    <2>7. <<>> \o d = d
      BY ConcatEmptySeq DEF Text
    <2>8. d = <<>>
      BY <2>2, <2>6, <2>7, Zenon DEF rest
    <2> QED
      BY <2>4, <2>6, <2>8
  <1>11. Len(got) <= Len(s) + 1
    BY <1>1, <1>5
  <1> QED
    BY <1>4, <1>9, <1>10, <1>11, Zenon DEF RequestWith, got, t, str

(* The script reads a unit of a request.                                   *)
LEMMA ReadsStep ==
  ASSUME Faithful, HelpersOK, NEW v \in Versions, HelperReads(v)
  PROVE  Faithful'
  <1> DEFINE h == helper[v]
             g == helper'[v]
             got == Heard(v)
             full == Len(got) = got[1] + 1
             t == Tail(h.in)
             kept == IF full THEN <<>> ELSE got
             reply == Replied(v)
  <1>1. /\ helper' = [helper EXCEPT ![v].in = t, ![v].got = kept, ![v].reply = reply]
        /\ h.in # <<>> /\ h.reply = <<>> /\ Alive(v)
        /\ caller' = caller /\ result_' = result_ /\ active_' = active_
    BY DEF HelperReads, Heard, Replied
  <1>2. helper \in [Versions -> Pipes] /\ h \in Pipes
    BY DEF Faithful, Typed
  <1>3. h.in \in Text /\ h.got \in Text /\ h.out \in Text /\ <<>> \in Text
    BY <1>2 DEF Pipes, Text
  <1>4. t \in Text /\ got \in Text
    BY <1>1, <1>3, HeadTailProperties, AppendProperties DEF Text, Heard
  <1>5. kept \in Text /\ reply \in Text
    BY <1>1, <1>3, <1>4, AnswerOf DEF Replied
  <1> HIDE DEF t, kept, reply, got
  <1>6. /\ helper' \in [Versions -> Pipes] /\ g.in = t /\ g.got = kept
        /\ g.out = h.out /\ g.reply = reply /\ g.process = h.process
        /\ \A w \in Versions : w # v => helper'[w] = helper[w]
    BY <1>1, <1>2, <1>4, <1>5 DEF Pipes
  <1>7. ~Quiet(h)
    BY <1>1 DEF Quiet
  <1>8. ASSUME caller.pc \in {"send", "read"}, v = caller.version
        PROVE  \/ Unanswered(caller, g)
               \/ AnsweredWith(caller, g, Analysis(v, caller.source), result_[v])
    <2> DEFINE s == caller.source
               d == caller.send
               r == Analysis(v, s)
    <2>1. /\ s \in Sources /\ s \in Text /\ caller \in Call /\ r \in Result
          /\ result_ \in [Versions -> Result] /\ Unanswered(caller, h)
      BY <1>1, <1>8, InCall DEF AnsweredWith
    <2>2. d \in Text
      BY <2>1 DEF Call
    <2>3. /\ (h.got \o h.in) \o d = String(s) /\ Len(h.got) <= Len(s)
          /\ caller.field = 1 /\ Fresh(caller) /\ h.out = <<>>
      BY <2>1 DEF Unanswered
    <2>4. /\ (got \o t) \o d = String(s)
          /\ got[1] = Len(s) /\ Len(got) <= Len(s) + 1
          /\ Len(got) = Len(s) + 1 => got = String(s) /\ t = <<>> /\ d = <<>>
      <3> DEFINE a == h.got
                 b == h.in
      <3>1. a \in Text /\ b \in Text /\ b # <<>> /\ (a \o b) \o d = String(s) /\ Len(a) <= Len(s)
        BY <1>1, <1>3, <2>3
      <3>2. got = Append(a, Head(b)) /\ t = Tail(b)
        BY DEF got, t, Heard
      <3> HIDE DEF a, b, s, d
      <3>3. RequestWith(Append(a, Head(b)), Tail(b), d, s)
        BY <2>1, <2>2, <3>1, HeardOf, Zenon
      <3> QED
        BY <3>2, <3>3, Zenon DEF RequestWith
    <2>5. Len(got) \in Nat /\ Len(s) \in Nat
      BY <1>4, <2>1, TextLength
    <2>6. CASE full
      <3>1. got = String(s) /\ t = <<>> /\ d = <<>>
        BY <2>4, <2>6
      <3>2. Tail(got) = s
        BY <2>1, <3>1, StringType
      <3>3. reply = Answer(v, s)
        BY <2>1, <2>6, <3>2 DEF reply, Replied, got
      <3>4. reply = From(r, 1)
        BY <1>1, <2>1, <3>3, AnswerOf
      <3> HIDE DEF r
      <3> DEFINE u == String(r.error)
                 l == FromLine(r)
      <3>5. u \in Text /\ l \in Text /\ reply = u \o l /\ From(r, 2) = l
        BY <2>1, <3>4, FromType, FromIs
      <3>6. InText(caller, r.error, u)
        BY <2>3 DEF InText, Fresh
      <3> HIDE DEF u, l
      <3>7. (h.out \o reply) \o <<>> = u \o l
        <4>1. \A x \in Text : x \o <<>> = x /\ <<>> \o x = x
          BY ConcatEmptySeq DEF Text
        <4> QED
          BY <1>5, <2>3, <3>5, <4>1, Zenon
      <3>8. At(caller, r, result_[v], (h.out \o reply) \o <<>>)
        <4>1. \A k \in 1..6 : ~(k < caller.field)
          BY <2>3
        <4>2. caller.count = -1
          BY <2>3 DEF Fresh
        <4> QED
          BY <2>3, <3>5, <3>6, <3>7, <4>1, <4>2, Zenon DEF At
      <3>9. AnsweredWith(caller, g, r, result_[v])
        <4>1. g.got = <<>> /\ g.in = <<>>
          BY <1>6, <2>6, <3>1 DEF kept
        <4>2. At(caller, r, result_[v], (g.out \o g.reply) \o <<>>)
          BY <1>6, <3>8, Zenon
        <4> QED
          BY <1>3, <3>1, <4>1, <4>2, Zenon DEF AnsweredWith
      <3> QED
        BY <3>9 DEF r
    <2>7. CASE ~full
      <3>1. g.got = got /\ g.reply = <<>>
        BY <1>6, <2>7 DEF kept, reply, Replied, got
      <3>2. Len(got) <= Len(s)
        BY <2>4, <2>5, <2>7
      <3> QED
        BY <1>6, <2>3, <2>4, <3>1, <3>2 DEF Unanswered
    <2> QED
      BY <2>6, <2>7
  <1> QED
    BY <1>1, <1>6, <1>7, <1>8, HelperStep DEF OnlyHelper

(* Each step of the two sides keeps the conversation.                      *)
LEMMA NextFaithful == Faithful /\ HelpersOK /\ [Next]_vars => Faithful'
  <1> SUFFICES ASSUME Faithful, HelpersOK, [Next]_vars PROVE Faithful'
    OBVIOUS
  <1>1. ASSUME NEW s \in Sources, parse(s) PROVE Faithful'
    BY <1>1, ParseStep
  <1>2. CASE Caller
    BY <1>2, SendStep, ReadUnitStep, EofStep, AnsweredStep DEF Caller
  <1>3. CASE DestroyAnalyzer
    BY <1>3, DestroyStep
  <1>4. ASSUME NEW v \in Versions, HelperReads(v) \/ HelperWrites(v) \/ HelperDies(v)
        PROVE  Faithful'
    BY <1>4, ReadsStep, WritesStep, DiesStep
  <1>5. CASE UNCHANGED vars
    BY <1>5 DEF vars, Faithful, Typed, Conversation, Silence, Outcome
  <1> QED
    BY <1>1, <1>2, <1>3, <1>4, <1>5 DEF Next

(* What is in the pipes is always the rest of one request or of the answer *)
(* to it, and the caller is where that rest begins.                        *)
THEOREM ConversationInStep == Spec => []Faithful
  <1> QED
    BY InitFaithful, NextFaithful, InterpretersInOrder, PTL DEF Spec

(* What parse returns is about the source that it was given, from the      *)
(* right interpreter and complete, whatever was analysed before and        *)
(* wherever the pipe cut the answer; an exception leaves no result, and    *)
(* nothing is left in the pipes between two calls.  For all sources and    *)
(* trees, pipes of any capacity and any number of calls.                   *)
THEOREM ResultRight == Spec => []ResultOfThisSource
  <1>1. ASSUME Faithful PROVE ResultOfThisSource
    <2> DEFINE s == caller.source
    <2>1. caller.pc = "returned" =>
            IF NulAt(s) # 0
            THEN active_ = 2 /\ result_[2].line > 0 /\ result_[2].imports = <<>>
            ELSE active_ = Right(s) /\ result_[Right(s)] = Analysis(Right(s), s)
      BY <1>1 DEF Faithful, Outcome
    <2>2. caller.pc \in {"thrown", "send", "read"} => active_ = None
      BY <1>1 DEF Faithful, Conversation, Outcome
    <2>3. ASSUME caller.pc = "returned", NEW v \in Versions
          PROVE  helper[v].in \o helper[v].out \o helper[v].reply \o helper[v].got = <<>>
      <3>1. /\ helper[v].in = <<>> /\ helper[v].out = <<>>
            /\ helper[v].reply = <<>> /\ helper[v].got = <<>>
        BY <1>1, <2>3 DEF Faithful, Silence, Quiet
      <3>2. <<>> \o <<>> = <<>>
        OBVIOUS
      <3> QED
        BY <3>1, <3>2, Zenon
    <2> QED
      BY <2>1, <2>2, <2>3 DEF ResultOfThisSource, Right
  <1> QED
    BY <1>1, ConversationInStep, PTL
=============================================================================
