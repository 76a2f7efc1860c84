----------------------------- MODULE ChildStatus -----------------------------
(***************************************************************************)
(* How a ChildProcess object learns what became of its process             *)
(* (child-process.c, quickjs-child-process.c): spawn(), wait(), kill() and *)
(* the exited/exitcode/signaled/termsig getters, against the kernel's      *)
(* process table.  A process ends at any moment, becomes a zombie, and is  *)
(* collected by one waitpid.  The program is single-threaded: while it is  *)
(* inside wait() or kill() it does nothing else, but processes go on.      *)
(*                                                                         *)
(* Identifiers of processes are not reused here.                           *)
(***************************************************************************)
EXTENDS Integers, FiniteSets

CONSTANTS Child,     \* ChildProcess objects, named by the pid their fork gets
          Codes,     \* exit statuses
          Signals,   \* the signals that end processes
          Kill       \* the one of them no process can ignore

ASSUME StatusAssumption ==
  /\ Child \subseteq Nat \ {0}
  /\ Codes \subseteq Nat
  /\ Signals \subseteq Nat \ {0}
  /\ Kill \in Signals

VARIABLES cp,        \* the fields pid, exitcode and termsig of each object
          process,   \* the kernel's entry for each process
          call,      \* the call the program is in
          fate,      \* how each process ended (the kernel)
          collector  \* which call collected that (history)

vars == <<cp, process, call, fate, collector>>

Unknown == -1

Fate == ({"exit"} \X Codes) \cup ({"signal"} \X Signals)
NoFate == <<"alive", 0>>
NoCall == <<"none", 0>>

\* js_mallocz leaves every field zero
Init ==
  /\ cp = [c \in Child |-> [pid |-> 0, exitcode |-> 0, termsig |-> 0]]
  /\ process = [c \in Child |-> "none"]
  /\ call = NoCall
  /\ fate = [c \in Child |-> NoFate]
  /\ collector = [c \in Child |-> "none"]

Alive == {c \in Child : process[c] \in {"running", "doomed"}}
Zombies == {c \in Child : process[c] = "zombie"}

----------------------------------------------------------------------------
(* The processes.                                                          *)

\* a process exits or is ended by a signal, its own or one sent to it; one
\* that has been sent Kill can only end by that
Ends(p, f) ==
  /\ p \in Alive
  /\ process[p] = "doomed" => f = <<"signal", Kill>>
  /\ process' = [process EXCEPT ![p] = "zombie"]
  /\ fate' = [fate EXCEPT ![p] = f]
  /\ UNCHANGED <<cp, call, collector>>

----------------------------------------------------------------------------
(* spawn()                                                                 *)

Idle == call = NoCall

Made(c) == process[c] # "none"

Spawn(c) ==
  /\ Idle
  /\ ~Made(c)
  /\ cp' = [cp EXCEPT ![c].pid = c]
  /\ process' = [process EXCEPT ![c] = "running"]
  /\ UNCHANGED <<call, fate, collector>>

\* fork fails, and its result is stored unexamined; or the object comes from
\* the constructor and is never given a process
Stray(c) ==
  /\ Idle
  /\ ~Made(c)
  /\ process' = [process EXCEPT ![c] = "never"]
  /\ \E pid \in {-1, 0} : cp' = [cp EXCEPT ![c].pid = pid]
  /\ UNCHANGED <<call, fate, collector>>

----------------------------------------------------------------------------
(* waitpid                                                                 *)

\* the children waitpid(pid) waits for; -1 stands for all of them, and so does
\* 0 as long as they stay in the program's process group
Waited(pid) == IF pid \in {-1, 0} THEN Child ELSE {pid}

Collect(p, who) ==
  /\ process' = [process EXCEPT ![p] = "collected"]
  /\ collector' = [collector EXCEPT ![p] = who]

----------------------------------------------------------------------------
(* wait()                                                                  *)

Wait(c) ==
  /\ Idle
  /\ Made(c)
  /\ call' = <<"wait", c>>
  /\ UNCHANGED <<cp, process, fate, collector>>

\* A mutant: waitpid is called again until it succeeds.
WaitRetries(c) ==
  /\ call = <<"wait", c>>
  /\ Waited(cp[c].pid) \cap (Alive \cup Zombies) = {}
  /\ UNCHANGED vars

\* waitpid answers -1: there is no child to wait for
WaitFails(c) ==
  /\ call = <<"wait", c>>
  /\ Waited(cp[c].pid) \cap (Alive \cup Zombies) = {}
  /\ call' = NoCall
  /\ UNCHANGED <<cp, process, fate, collector>>

\* the two fields after the reset and one assignment
Ended(c, f) ==
  [cp[c] EXCEPT !.exitcode = IF f[1] = "exit" THEN f[2] ELSE Unknown,
                !.termsig = IF f[1] = "signal" THEN f[2] ELSE Unknown]

\* A mutant: it waits for whichever child ends first.
WaitCollectsAny(c) ==
  /\ call = <<"wait", c>>
  /\ \E p \in Zombies :
       /\ Collect(p, IF p = cp[c].pid THEN "wait" ELSE "other")
       /\ cp' = [cp EXCEPT ![c] = Ended(c, fate[p])]
  /\ call' = NoCall
  /\ UNCHANGED fate

WaitCollects(c) ==
  /\ call = <<"wait", c>>
  /\ \E p \in Waited(cp[c].pid) \cap Zombies :
       \/ /\ p = cp[c].pid
          /\ Collect(p, "wait")
          /\ cp' = [cp EXCEPT ![c] = Ended(c, fate[p])]
       \/ /\ p # cp[c].pid
          /\ Collect(p, "other")
          /\ cp' = [cp EXCEPT ![c].exitcode = Unknown, ![c].termsig = Unknown]
  /\ call' = NoCall
  /\ UNCHANGED fate

----------------------------------------------------------------------------
(* kill()                                                                  *)

\* kill(2) fails and kill() returns at once when there is nothing to signal;
\* the children are not all that kill(-1) reaches
SignalFails(c) == cp[c].pid # -1 /\ cp[c].pid \notin Alive \cup Zombies

\* the first half of kill(): the signal is on its way (with the pid 0 it would
\* go to the program itself, which is left out)
Signal(c, s) ==
  /\ Idle
  /\ Made(c) /\ cp[c].pid # 0
  /\ ~SignalFails(c)
  /\ process' = [p \in Child |->
                   IF p \in Waited(cp[c].pid) /\ p \in Alive /\ s = Kill
                     THEN "doomed" ELSE process[p]]
  /\ call' = <<"poll", c>>
  /\ UNCHANGED <<cp, fate, collector>>

\* the second half: WNOHANG finds nothing to collect
PollNone(c) ==
  /\ call = <<"poll", c>>
  /\ Waited(cp[c].pid) \cap Zombies = {}
  /\ Waited(cp[c].pid) \cap Alive # {}
  /\ call' = NoCall
  /\ UNCHANGED <<cp, process, fate, collector>>

\* the field that does not apply keeps what it had
PollCollects(c) ==
  /\ call = <<"poll", c>>
  /\ \E p \in Waited(cp[c].pid) \cap Zombies :
       \/ /\ p = cp[c].pid
          /\ Collect(p, "kill")
          /\ cp' = [cp EXCEPT ![c] =
                     IF fate[p][1] = "exit" THEN [@ EXCEPT !.exitcode = fate[p][2]]
                                            ELSE [@ EXCEPT !.termsig = fate[p][2]]]
       \/ /\ p # cp[c].pid
          /\ Collect(p, "other")
          /\ UNCHANGED cp
  /\ call' = NoCall
  /\ UNCHANGED fate

\* waitpid answers -1, which is the pid of an object whose fork failed: the
\* status it did not write is taken for the status of the child
PollGarbage(c) ==
  /\ call = <<"poll", c>>
  /\ Waited(cp[c].pid) \cap (Alive \cup Zombies) = {}
  /\ cp[c].pid = -1
  /\ \/ \E n \in Codes : cp' = [cp EXCEPT ![c].exitcode = n]
     \/ \E s \in Signals : cp' = [cp EXCEPT ![c].termsig = s]
     \/ UNCHANGED cp
  /\ call' = NoCall
  /\ UNCHANGED <<process, fate, collector>>

----------------------------------------------------------------------------

Kernel(c) == WaitFails(c) \/ WaitCollects(c) \/ PollNone(c) \/ PollCollects(c) \/ PollGarbage(c)

Next ==
  \E c \in Child :
    \/ \E f \in Fate : Ends(c, f)
    \/ Spawn(c) \/ Stray(c)
    \/ Wait(c)
    \/ \E s \in Signals : Signal(c, s)
    \/ Kernel(c)

Spec == Init /\ [][Next]_vars

\* A system call that can return does, and a process that was sent a signal
\* it cannot ignore ends.  Nothing else makes a process end.
FairSpec ==
  /\ Spec
  /\ \A c \in Child :
       /\ WF_vars(Kernel(c))
       /\ WF_vars(process[c] = "doomed" /\ Ends(c, <<"signal", Kill>>))

----------------------------------------------------------------------------
(* Properties.                                                             *)

Exited(c) == cp[c].exitcode # Unknown
Signaled(c) == cp[c].termsig # Unknown

\* What wait() collected is what happened to the process, the getters say so
\* and nothing else, and they go on saying so whatever is called later; what
\* kill() collected is in the field that applies.  No call on one object takes
\* the status of the process of another, unless there is an object without a
\* process of its own.
StatusKept ==
  \A c \in Child :
    /\ collector[c] = "wait" =>
         /\ Exited(c) => fate[c] = <<"exit", cp[c].exitcode>>
         /\ Signaled(c) => fate[c] = <<"signal", cp[c].termsig>>
         /\ Exited(c) \/ Signaled(c)
    /\ collector[c] = "kill" =>
         fate[c] \in {<<"exit", cp[c].exitcode>>, <<"signal", cp[c].termsig>>}
    /\ collector[c] = "other" => \E d \in Child : process[d] = "never"

\* wait() on a process that was killed returns, although kill() itself may
\* have been the one to collect it.
WaitAfterKill ==
  \A c \in Child :
    call = <<"wait", c>> /\ process[c] \in {"doomed", "zombie", "collected"}
      ~> call # <<"wait", c>>

\* exited and signaled are answered by a process that has ended.
EndedWhenTold ==
  \A c \in Child : process[c] = "running" => ~Exited(c) /\ ~Signaled(c)
=============================================================================
