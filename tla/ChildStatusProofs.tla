-------------------------- MODULE ChildStatusProofs --------------------------
(***************************************************************************)
(* ChildStatus for any number of children, any codes and any signals: what *)
(* wait() and kill() put into an object is what became of its process.     *)
(*                                                                         *)
(* StatusKept does not stand alone.  That a status is written to the right *)
(* object needs that the pid in an object is its own child's as long as    *)
(* there is one (OwnPid); that nothing writes over it later needs that a   *)
(* process is collected once and has a collector from then on              *)
(* (CollectedOnce); and what was collected must have ended (EndedHaveFate).*)
(***************************************************************************)
EXTENDS ChildStatus, TLAPS

Processes == {"none", "running", "doomed", "zombie", "collected", "never"}

Field == [pid : Child \cup {-1, 0}, exitcode : {-1} \cup Nat, termsig : {-1} \cup Nat]

\* The types of the variables.
TypeOK ==
  /\ cp \in [Child -> Field]
  /\ process \in [Child -> Processes]
  /\ call \in {NoCall} \cup ({"wait", "poll"} \X Child)
  /\ fate \in [Child -> Fate \cup {NoFate}]
  /\ collector \in [Child -> {"none", "wait", "kill", "other"}]

\* An object's pid is its child's, except when it has no child.
OwnPid ==
  \A c \in Child :
    IF process[c] \in {"none", "never"} THEN cp[c].pid \in {-1, 0} ELSE cp[c].pid = c

\* An object that is in a call has been spawned.
CallersMade == \A c \in Child : call \in {<<"wait", c>>, <<"poll", c>>} => Made(c)

\* A process that is over ended somehow.
EndedHaveFate == \A c \in Child : process[c] \in {"zombie", "collected"} => fate[c] \in Fate

\* Only what is collected has a collector.
CollectedOnce == \A c \in Child : collector[c] # "none" => process[c] = "collected"

Inv == TypeOK /\ OwnPid /\ CallersMade /\ EndedHaveFate /\ CollectedOnce /\ StatusKept

----------------------------------------------------------------------------
(* How an end is told.                                                     *)

\* Every fate is one of the two kinds, with a code or a signal that is not
\* what stands for unknown (Ended tells them apart by the macros WIFEXITED
\* and WIFSIGNALED).
LEMMA FateKinds ==
  ASSUME NEW f \in Fate
  PROVE  \/ f[1] = "exit" /\ f[2] \in Codes /\ f = <<"exit", f[2]>>
            /\ f[2] \in Nat /\ f[2] # Unknown
         \/ f[1] = "signal" /\ f[2] \in Signals /\ f = <<"signal", f[2]>>
            /\ f[2] \in Nat /\ f[2] # Unknown
<1>1. CASE f \in {"exit"} \X Codes
  <2>1. PICK n \in Codes : f = <<"exit", n>>
    BY <1>1
  <2>2. n \in Nat /\ n # Unknown
    BY StatusAssumption DEF Unknown
  <2> QED
    BY <2>1, <2>2
<1>2. CASE f \in {"signal"} \X Signals
  <2>1. PICK n \in Signals : f = <<"signal", n>>
    BY <1>2
  <2>2. n \in Nat /\ n # Unknown
    BY StatusAssumption DEF Unknown
  <2> QED
    BY <2>1, <2>2
<1> QED
  BY <1>1, <1>2 DEF Fate

\* waitpid with the pid of an object that has a child waits for that child and
\* no other; an object without one may collect any.
LEMMA WaitedIsOwn ==
  ASSUME TypeOK, OwnPid, NEW c \in Child
  PROVE  /\ cp[c].pid \in Child => cp[c].pid = c /\ Waited(cp[c].pid) = {c}
         /\ cp[c].pid \in Child <=> process[c] \notin {"none", "never"}
BY StatusAssumption DEF TypeOK, OwnPid, Waited, Field, Processes

----------------------------------------------------------------------------
(* The inductive invariant.                                                *)

\* js_mallocz: an object that was just allocated satisfies all parts.
LEMMA InitInv == Init => Inv
<1> SUFFICES ASSUME Init PROVE Inv
  OBVIOUS
<1>1. TypeOK
  BY DEF Init, TypeOK, Field, Processes
<1>2. OwnPid /\ CallersMade /\ EndedHaveFate /\ CollectedOnce /\ StatusKept
  BY DEF Init, OwnPid, CallersMade, EndedHaveFate, CollectedOnce, StatusKept, NoCall
<1> QED
  BY <1>1, <1>2 DEF Inv

\* A process may end at any moment: nothing has been told of it yet.
LEMMA EndsKeepsInv ==
  ASSUME Inv, NEW c \in Child, NEW f \in Fate, Ends(c, f)
  PROVE  Inv'
<1> USE DEF Inv, Ends, Alive
<1>1. TypeOK'
  BY DEF TypeOK, Processes
<1>2. OwnPid' /\ CallersMade' /\ EndedHaveFate' /\ CollectedOnce'
  BY DEF TypeOK, OwnPid, CallersMade, EndedHaveFate, CollectedOnce, Made
<1>3. collector[c] = "none"
  BY DEF CollectedOnce, TypeOK
<1>4. StatusKept'
  BY <1>3 DEF TypeOK, StatusKept, Exited, Signaled
<1> QED
  BY <1>1, <1>2, <1>4

\* spawn(), and an object that gets no process.
LEMMA SpawnKeepsInv ==
  ASSUME Inv, NEW c \in Child, Spawn(c) \/ Stray(c)
  PROVE  Inv'
<1> USE DEF Inv, Spawn, Stray, Made, Idle
<1>1. TypeOK'
  BY DEF TypeOK, Processes, Field
<1>2. OwnPid'
  BY DEF TypeOK, OwnPid, Field
<1>3. CallersMade' /\ EndedHaveFate' /\ CollectedOnce'
  BY DEF TypeOK, CallersMade, EndedHaveFate, CollectedOnce, NoCall
<1>4. collector[c] = "none"
  BY DEF CollectedOnce, TypeOK
<1>5. \A d \in Child : cp'[d].exitcode = cp[d].exitcode /\ cp'[d].termsig = cp[d].termsig
  BY DEF TypeOK, Field
<1>6. \A d \in Child : process[d] = "never" => process'[d] = "never"
  BY DEF TypeOK
<1>7. StatusKept'
  BY <1>5, <1>6 DEF StatusKept, Exited, Signaled
<1> QED
  BY <1>1, <1>2, <1>3, <1>7

\* The first halves of wait() and kill(), and the calls that find nothing.
LEMMA CallsKeepInv ==
  ASSUME Inv, NEW c \in Child,
         Wait(c) \/ WaitFails(c) \/ PollNone(c) \/ \E s \in Signals : Signal(c, s)
  PROVE  Inv'
<1> USE DEF Inv
<1>1. CASE Wait(c) \/ WaitFails(c) \/ PollNone(c)
  BY <1>1 DEF Wait, WaitFails, PollNone, Made, TypeOK, OwnPid, CallersMade, EndedHaveFate,
              CollectedOnce, StatusKept, Exited, Signaled, NoCall
<1>2. CASE \E s \in Signals : Signal(c, s)
  <2>1. \A d \in Child : \/ process'[d] = process[d]
                         \/ process[d] \in {"running", "doomed"} /\ process'[d] = "doomed"
    BY <1>2 DEF Signal, Alive
  <2>2. TypeOK'
    BY <1>2, <2>1 DEF TypeOK, Signal, Alive, Processes
  <2>3. OwnPid' /\ CallersMade' /\ EndedHaveFate' /\ CollectedOnce'
    BY <1>2, <2>1 DEF TypeOK, OwnPid, CallersMade, EndedHaveFate, CollectedOnce, Made, Signal
  <2>4. StatusKept'
    BY <1>2, <2>1 DEF StatusKept, Exited, Signaled, Signal
  <2> QED
    BY <2>2, <2>3, <2>4
<1> QED
  BY <1>1, <1>2

\* A process p is collected by a call on c.  Whatever the call does to the
\* fields of c, the status of no other object is touched, and c itself is
\* either the object of p or one without a process.
LEMMA CollectKeepsInv ==
  ASSUME Inv, NEW c \in Child, NEW p \in Waited(cp[c].pid) \cap Zombies,
         call \in {<<"wait", c>>, <<"poll", c>>}, NEW who \in {"wait", "kill", "other"},
         Collect(p, who), call' = NoCall, UNCHANGED fate,
         NEW n \in {-1} \cup Nat, NEW t \in {-1} \cup Nat,
         cp' = [cp EXCEPT ![c] = [pid |-> cp[c].pid, exitcode |-> n, termsig |-> t]],
         who = "other" <=> p # cp[c].pid,
         who = "wait" => \/ fate[p] = <<"exit", n>> /\ n # Unknown /\ t = Unknown
                         \/ fate[p] = <<"signal", t>> /\ t # Unknown /\ n = Unknown,
         who = "kill" => fate[p] \in {<<"exit", n>>, <<"signal", t>>}
  PROVE  Inv'
<1> USE DEF Inv
<1>1. p \in Child /\ process[p] = "zombie" /\ collector[p] = "none"
  BY DEF Zombies, CollectedOnce, TypeOK
<1>2. /\ process' = [process EXCEPT ![p] = "collected"]
      /\ collector' = [collector EXCEPT ![p] = who]
  BY DEF Collect
<1>3. TypeOK'
  <2>1. cp' \in [Child -> Field]
    BY DEF TypeOK, Field
  <2>2. process' \in [Child -> Processes]
    BY <1>2 DEF TypeOK, Processes
  <2>3. collector' \in [Child -> {"none", "wait", "kill", "other"}]
    BY <1>2 DEF TypeOK
  <2> QED
    BY <2>1, <2>2, <2>3 DEF TypeOK
<1>4. OwnPid' /\ CallersMade' /\ EndedHaveFate' /\ CollectedOnce'
  BY <1>1, <1>2 DEF TypeOK, Field, OwnPid, CallersMade, EndedHaveFate, CollectedOnce, NoCall, Made
<1>5. CASE p = cp[c].pid
  <2>1. p = c
    BY <1>1, <1>5, WaitedIsOwn
  <2>2. \A d \in Child \ {c} : cp'[d] = cp[d] /\ collector'[d] = collector[d]
    BY <1>2, <2>1 DEF TypeOK
  <2>3. cp'[c].exitcode = n /\ cp'[c].termsig = t /\ collector'[c] = who
    BY <1>2, <2>1 DEF TypeOK, Field
  <2>4. \A d \in Child : process[d] = "never" => process'[d] = "never"
    BY <1>1, <1>2 DEF TypeOK
  <2> QED
    BY <1>3, <1>4, <1>5, <2>1, <2>2, <2>3, <2>4 DEF StatusKept, Exited, Signaled, Unknown
<1>6. CASE p # cp[c].pid
  <2>1. process[c] = "never" /\ collector[c] = "none"
    <3>1. Made(c)
      BY DEF CallersMade
    <3>2. cp[c].pid \notin Child
      BY <1>1, <1>6, WaitedIsOwn
    <3> QED
      BY <3>1, <3>2, WaitedIsOwn DEF Made, CollectedOnce, TypeOK
  <2>2. c # p
    BY <1>1, <2>1
  <2>3. process'[c] = "never" /\ collector'[c] = "none" /\ collector'[p] = "other"
    BY <1>1, <1>2, <1>6, <2>1, <2>2 DEF TypeOK
  <2>4. \A d \in Child \ {c, p} : cp'[d] = cp[d] /\ collector'[d] = collector[d]
    BY <1>2 DEF TypeOK
  <2>5. StatusKept'
    BY <2>3, <2>4 DEF StatusKept, Exited, Signaled
  <2> QED
    BY <1>3, <1>4, <2>5
<1> QED
  BY <1>5, <1>6

\* What waitpid hands to wait() and to kill().
LEMMA WaitCollectsKeepsInv ==
  ASSUME Inv, NEW c \in Child, WaitCollects(c) \/ PollCollects(c)
  PROVE  Inv'
<1> USE DEF Inv
<1>1. cp[c] = [pid |-> cp[c].pid, exitcode |-> cp[c].exitcode, termsig |-> cp[c].termsig]
  BY DEF TypeOK, Field
<1>2. cp[c].exitcode \in {-1} \cup Nat /\ cp[c].termsig \in {-1} \cup Nat
  BY DEF TypeOK, Field
<1>3. -1 \in {-1} \cup Nat /\ Unknown = -1
  BY DEF Unknown
<1>4. CASE WaitCollects(c)
  <2>1. call \in {<<"wait", c>>, <<"poll", c>>} /\ call' = NoCall /\ UNCHANGED fate
    BY <1>4 DEF WaitCollects
  <2>2. PICK p \in Waited(cp[c].pid) \cap Zombies :
          \/ /\ p = cp[c].pid
             /\ Collect(p, "wait")
             /\ cp' = [cp EXCEPT ![c] = Ended(c, fate[p])]
          \/ /\ p # cp[c].pid
             /\ Collect(p, "other")
             /\ cp' = [cp EXCEPT ![c].exitcode = Unknown, ![c].termsig = Unknown]
    BY <1>4 DEF WaitCollects
  <2>3. fate[p] \in Fate
    BY DEF Zombies, EndedHaveFate
  <2>4. CASE p = cp[c].pid
    <3> DEFINE n == IF fate[p][1] = "exit" THEN fate[p][2] ELSE Unknown
               t == IF fate[p][1] = "signal" THEN fate[p][2] ELSE Unknown
    <3>1. Ended(c, fate[p]) = [pid |-> cp[c].pid, exitcode |-> n, termsig |-> t]
      <4>1. Ended(c, fate[p]) = [cp[c] EXCEPT !.exitcode = n, !.termsig = t]
        BY DEF Ended
      <4> HIDE DEF n, t
      <4>2. cp[c] \in Field
        BY DEF TypeOK
      <4> QED
        BY <4>1, <4>2 DEF Field
    <3>2. \/ fate[p] = <<"exit", n>> /\ n # Unknown /\ t = Unknown
          \/ fate[p] = <<"signal", t>> /\ t # Unknown /\ n = Unknown
      BY <2>3, FateKinds
    <3>3. n \in {-1} \cup Nat /\ t \in {-1} \cup Nat
      BY <1>3, <2>3, FateKinds
    <3>4. cp' = [cp EXCEPT ![c] = [pid |-> cp[c].pid, exitcode |-> n, termsig |-> t]]
      BY <2>2, <2>4, <3>1
    <3> HIDE DEF n, t
    <3> QED
      BY <2>1, <2>2, <2>4, <3>2, <3>3, <3>4, CollectKeepsInv
  <2>5. CASE p # cp[c].pid
    <3>1. cp' = [cp EXCEPT ![c] = [pid |-> cp[c].pid, exitcode |-> -1, termsig |-> -1]]
      BY <1>1, <1>3, <2>2, <2>5 DEF TypeOK, Field
    <3> QED
      BY <1>3, <2>1, <2>2, <2>5, <3>1, CollectKeepsInv
  <2> QED
    BY <2>4, <2>5
<1>5. CASE PollCollects(c)
  <2>1. call \in {<<"wait", c>>, <<"poll", c>>} /\ call' = NoCall /\ UNCHANGED fate
    BY <1>5 DEF PollCollects
  <2>2. PICK p \in Waited(cp[c].pid) \cap Zombies :
          \/ /\ p = cp[c].pid
             /\ Collect(p, "kill")
             /\ cp' = [cp EXCEPT ![c] =
                        IF fate[p][1] = "exit" THEN [@ EXCEPT !.exitcode = fate[p][2]]
                                               ELSE [@ EXCEPT !.termsig = fate[p][2]]]
          \/ /\ p # cp[c].pid
             /\ Collect(p, "other")
             /\ UNCHANGED cp
    BY <1>5 DEF PollCollects
  <2>3. fate[p] \in Fate
    BY DEF Zombies, EndedHaveFate
  <2>4. CASE p = cp[c].pid
    <3> DEFINE n == IF fate[p][1] = "exit" THEN fate[p][2] ELSE cp[c].exitcode
               t == IF fate[p][1] = "exit" THEN cp[c].termsig ELSE fate[p][2]
    <3>1. cp' = [cp EXCEPT ![c] = [pid |-> cp[c].pid, exitcode |-> n, termsig |-> t]]
      BY <1>1, <2>2, <2>4 DEF TypeOK, Field
    <3>2. fate[p] \in {<<"exit", n>>, <<"signal", t>>}
      BY <2>3, FateKinds
    <3>3. n \in {-1} \cup Nat /\ t \in {-1} \cup Nat
      BY <1>2, <2>3, FateKinds
    <3> HIDE DEF n, t
    <3> QED
      BY <2>1, <2>2, <2>4, <3>1, <3>2, <3>3, CollectKeepsInv
  <2>5. CASE p # cp[c].pid
    <3>1. cp' = [cp EXCEPT ![c] = [pid |-> cp[c].pid, exitcode |-> cp[c].exitcode,
                                   termsig |-> cp[c].termsig]]
      BY <1>1, <2>2, <2>5 DEF TypeOK, Field
    <3> QED
      BY <1>2, <2>1, <2>2, <2>5, <3>1, CollectKeepsInv
  <2> QED
    BY <2>4, <2>5
<1> QED
  BY <1>4, <1>5

\* kill() after waitpid answered -1: the object written to has no child, so
\* that there is no status of it to spoil.
LEMMA PollGarbageKeepsInv ==
  ASSUME Inv, NEW c \in Child, PollGarbage(c)
  PROVE  Inv'
<1> USE DEF Inv, PollGarbage
<1>1. TypeOK'
  <2>1. cp' \in [Child -> Field]
    BY StatusAssumption DEF TypeOK, Field
  <2> QED
    BY <2>1 DEF TypeOK
<1>2. \A d \in Child : cp'[d].pid = cp[d].pid
  BY DEF TypeOK, Field
<1>3. OwnPid' /\ CallersMade' /\ EndedHaveFate' /\ CollectedOnce'
  BY <1>2 DEF OwnPid, CallersMade, EndedHaveFate, CollectedOnce, NoCall, Made
<1>4. cp[c].pid \notin Child
  BY StatusAssumption
<1>5. collector[c] = "none"
  BY <1>4, WaitedIsOwn DEF TypeOK, CollectedOnce
<1>6. \A d \in Child \ {c} : cp'[d] = cp[d]
  BY DEF TypeOK
<1>7. StatusKept'
  BY <1>5, <1>6 DEF StatusKept, Exited, Signaled
<1> QED
  BY <1>1, <1>3, <1>7

\* No step of the program or of the kernel breaks the invariant.
LEMMA StepKeepsInv == Inv /\ [Next]_vars => Inv'
<1> SUFFICES ASSUME Inv, [Next]_vars PROVE Inv'
  OBVIOUS
<1>1. CASE UNCHANGED vars
  BY <1>1 DEF vars, Inv, TypeOK, OwnPid, CallersMade, EndedHaveFate, CollectedOnce, StatusKept,
              Made, Exited, Signaled
<1>2. CASE Next
  <2> PICK c \in Child :
        \/ \E f \in Fate : Ends(c, f)
        \/ Spawn(c) \/ Stray(c)
        \/ Wait(c)
        \/ \E s \in Signals : Signal(c, s)
        \/ Kernel(c)
    BY <1>2 DEF Next
  <2> QED
    BY EndsKeepsInv, SpawnKeepsInv, CallsKeepInv, WaitCollectsKeepsInv, PollGarbageKeepsInv
    DEF Kernel
<1> QED
  BY <1>1, <1>2

\* The fields of a ChildProcess object say what became of its process, for any
\* number of children and however their ends, wait() and kill() interleave.
THEOREM StatusIsKept == Spec => []StatusKept
<1>1. Inv => StatusKept
  BY DEF Inv
<1> QED
  BY <1>1, InitInv, StepKeepsInv, PTL DEF Spec

\* What the getters answer of a process that was collected they answer from
\* then on: no later wait() or kill(), of this object or of another, changes a
\* field of it or collects its process again.
AnswersStay ==
  [][\A c \in Child : process[c] = "collected" =>
       cp'[c] = cp[c] /\ process'[c] = "collected" /\ collector'[c] = collector[c]]_vars

\* AnswersStay, because an object that is still written to has a child that
\* was not collected, or never had one (OwnPid).
THEOREM AnswersDoStay == Spec => AnswersStay
<1>1. ASSUME Inv, Next, NEW d \in Child, process[d] = "collected"
      PROVE  cp'[d] = cp[d] /\ process'[d] = "collected" /\ collector'[d] = collector[d]
  <2> USE <1>1 DEF Inv
  <2> PICK c \in Child :
        \/ \E f \in Fate : Ends(c, f)
        \/ Spawn(c) \/ Stray(c)
        \/ Wait(c)
        \/ \E s \in Signals : Signal(c, s)
        \/ Kernel(c)
    BY DEF Next
  <2>1. CASE \E f \in Fate : Ends(c, f)
    BY <2>1 DEF Ends, Alive, TypeOK
  <2>2. CASE Spawn(c) \/ Stray(c)
    BY <2>2 DEF Spawn, Stray, Made, TypeOK
  <2>3. CASE Wait(c) \/ WaitFails(c) \/ PollNone(c)
    BY <2>3 DEF Wait, WaitFails, PollNone
  <2>4. CASE \E s \in Signals : Signal(c, s)
    BY <2>4 DEF Signal, Alive
  <2>5. CASE WaitCollects(c) \/ PollCollects(c)
    <3>1. PICK p \in Waited(cp[c].pid) \cap Zombies, who \in {"wait", "kill", "other"} :
            Collect(p, who) /\ (p = cp[c].pid \/ who = "other")
      BY <2>5 DEF WaitCollects, PollCollects
    <3>2. p \in Child /\ p # d
      BY DEF Zombies
    <3>3. c # d
      <4>1. CASE p = cp[c].pid
        BY <3>2, <4>1, WaitedIsOwn
      <4>2. CASE p # cp[c].pid
        BY <3>1, <3>2, <4>2, WaitedIsOwn DEF Waited
      <4> QED
        BY <4>1, <4>2
    <3>4. cp'[d] = cp[d]
      BY <2>5, <3>3 DEF WaitCollects, PollCollects, TypeOK
    <3> QED
      BY <3>1, <3>2, <3>4 DEF Collect, TypeOK
  <2>6. CASE PollGarbage(c)
    <3>1. cp[c].pid \notin Child
      BY <2>6, StatusAssumption DEF PollGarbage
    <3>2. c # d
      BY <3>1, WaitedIsOwn
    <3> QED
      BY <2>6, <3>2 DEF PollGarbage, TypeOK
  <2> QED
    BY <2>1, <2>2, <2>3, <2>4, <2>5, <2>6 DEF Kernel
<1>2. ASSUME Inv, [Next]_vars
      PROVE  [\A c \in Child : process[c] = "collected" =>
                cp'[c] = cp[c] /\ process'[c] = "collected" /\ collector'[c] = collector[c]]_vars
  BY <1>1, <1>2
<1> QED
  BY <1>2, InitInv, StepKeepsInv, PTL DEF Spec, AnswersStay

=============================================================================
