------------------------------ MODULE ChildStdio ------------------------------
(***************************************************************************)
(* File descriptors across spawn() (js_child_process_spawn and             *)
(* child_process_spawn): pipes are made, fork copies the program's table   *)
(* to the child, the child moves its ends to their slots and closes the    *)
(* program's, and the program closes the child's.  The program and the     *)
(* children go on concurrently; a later child is forked while pipes of an  *)
(* earlier one are open.                                                   *)
(*                                                                         *)
(* A table maps descriptors to what they are open on: a side of the pipe   *)
(* for a slot of a child, or a file.                                       *)
(***************************************************************************)
EXTENDS Integers, FiniteSets

CONSTANTS Child,    \* the children, numbered from 1
          Limit,    \* the number of descriptors a process may have
          Start,    \* the program's table when it starts
          Numbers   \* the descriptors it passes as numbers in stdio

Fd == 0..(Limit - 1)
Slot == 0..2

Closed == [on |-> "closed", of |-> 0, slot |-> 0]
File(n) == [on |-> "file", of |-> 0, slot |-> n]
Reader(c, s) == [on |-> "reader", of |-> c, slot |-> s]
Writer(c, s) == [on |-> "writer", of |-> c, slot |-> s]

\* the two ends of the pipe for a slot
ChildEnd(c, s) == IF s = 0 THEN Reader(c, s) ELSE Writer(c, s)
ParentEnd(c, s) == IF s = 0 THEN Writer(c, s) ELSE Reader(c, s)

Open ==
  {Closed} \cup {File(n) : n \in Fd}
    \cup [on : {"reader", "writer"}, of : Child, slot : Slot]
Table == [Fd -> Open]

Items == {"pipe", "inherit", "other"} \X {0} \cup {"number"} \X Numbers

ASSUME StdioAssumption ==
  /\ Child \subseteq Nat \ {0}
  /\ Limit \in Nat /\ Limit > 3
  /\ Start \in [Fd -> {Closed} \cup {File(n) : n \in Fd}]
  /\ Numbers \subseteq Fd

VARIABLES parent,      \* the program's table
          child,       \* the table of each child
          stage,       \* how far each child is
          spawning,    \* the child whose spawn() has forked but not returned
          child_fds,   \* cp->child_fds
          parent_fds,  \* cp->parent_fds
          asked        \* what each slot was to be connected to (history)

vars == <<parent, child, stage, spawning, child_fds, parent_fds, asked>>

Nothing == [fd \in Fd |-> Closed]

Init ==
  /\ parent = Start
  /\ child = [c \in Child |-> Nothing]
  /\ stage = [c \in Child |-> "none"]
  /\ spawning = 0
  /\ child_fds = [c \in Child |-> [s \in Slot |-> -1]]
  /\ parent_fds = [c \in Child |-> [s \in Slot |-> -1]]
  /\ asked = [c \in Child |-> [s \in Slot |-> Closed]]

----------------------------------------------------------------------------
(* js_child_process_spawn up to the fork.                                  *)

Free(t) == {fd \in Fd : t[fd] = Closed}

Least(S) == CHOOSE x \in S : \A y \in S : x <= y

\* pipe() takes the two lowest free descriptors, the first to read from; the
\* array holds -1 for the descriptors of a pipe() that fails
Pipe(t) ==
  LET a == Least(Free(t))
  IN  IF Cardinality(Free(t)) < 2 THEN <<-1, -1>> ELSE <<a, Least(Free(t) \ {a})>>

\* one turn of the loop over the stdio array, for slot s of child c
Prepared(c, s, item, made) ==
  LET fds == Pipe(made.table)
      mine == IF s = 0 THEN fds[2] ELSE fds[1]
      its == IF s = 0 THEN fds[1] ELSE fds[2]
  IN  CASE item[1] = "pipe" /\ fds[1] # -1 ->
             [table |-> [made.table EXCEPT ![mine] = ParentEnd(c, s), ![its] = ChildEnd(c, s)],
              its |-> [made.its EXCEPT ![s] = its],
              mine |-> [made.mine EXCEPT ![s] = mine]]
        [] item[1] = "inherit" -> [made EXCEPT !.its[s] = s]
        [] item[1] = "number" -> [made EXCEPT !.its[s] = item[2]]
        [] OTHER -> made

\* the whole loop
AllPrepared(c, stdio) ==
  LET none == [s \in Slot |-> -1]
      Turn(s, made) == Prepared(c, s, stdio[s], made)
  IN  Turn(2, Turn(1, Turn(0, [table |-> parent, its |-> none, mine |-> none])))

\* The program passes descriptors it has open, each once.
Proper(stdio) ==
  \A s \in Slot : stdio[s][1] = "number" =>
    /\ parent[stdio[s][2]] # Closed
    /\ \A r \in Slot \ {s} : stdio[r] # stdio[s]

\* what the array asks for, by what was open when spawn() was called
Asked(c, s, item, its) ==
  CASE item[1] = "pipe" /\ its # -1 -> ChildEnd(c, s)
    [] item[1] = "inherit" -> parent[s]
    [] item[1] = "number" -> parent[item[2]]
    [] OTHER -> Closed

\* fork copies the table; when it fails there is no child to have it
Spawn(c, stdio) ==
  /\ spawning = 0
  /\ stage[c] = "none"
  /\ \A b \in Child : b < c => stage[b] # "none"
  /\ Proper(stdio)
  /\ LET made == AllPrepared(c, stdio)
     IN  /\ parent' = made.table
         /\ child_fds' = [child_fds EXCEPT ![c] = made.its]
         /\ parent_fds' = [parent_fds EXCEPT ![c] = made.mine]
         /\ asked' = [asked EXCEPT ![c] = [s \in Slot |-> Asked(c, s, stdio[s], made.its[s])]]
         /\ \/ /\ stage' = [stage EXCEPT ![c] = "forked"]
               /\ child' = [child EXCEPT ![c] = made.table]
            \/ /\ stage' = [stage EXCEPT ![c] = "ended"]
               /\ UNCHANGED child
  /\ spawning' = c

----------------------------------------------------------------------------
(* child_process_spawn after the fork.                                     *)

Close(t, fds) == [fd \in Fd |-> IF fd \in fds THEN Closed ELSE t[fd]]

\* A mutant: a descriptor that is in its slot already is closed.
MoveAlways(t, from, s) ==
  IF from = -1 THEN t ELSE Close(IF t[from] = Closed THEN t ELSE [t EXCEPT ![s] = t[from]], {from})

\* dup2 and close for one slot; dup2 of a closed descriptor does nothing
Move(t, from, s) ==
  IF from = -1 \/ from = s
    THEN t
    ELSE Close(IF t[from] = Closed THEN t ELSE [t EXCEPT ![s] = t[from]], {from})

\* the child closes the program's ends, then moves its own in the order of
\* the slots
Rewired(c) ==
  LET own == Close(child[c], {parent_fds[c][s] : s \in Slot})
      from == child_fds[c]
  IN  Move(Move(Move(own, from[0], 0), from[1], 1), from[2], 2)

Rewire(c) ==
  /\ stage[c] = "forked"
  /\ child' = [child EXCEPT ![c] = Rewired(c)]
  /\ stage' = [stage EXCEPT ![c] = "running"]
  /\ UNCHANGED <<parent, spawning, child_fds, parent_fds, asked>>

\* A mutant: the program keeps the child's ends.
ReturnOpen(c) ==
  /\ spawning = c
  /\ spawning' = 0
  /\ UNCHANGED <<parent, child, stage, child_fds, parent_fds, asked>>

\* the program closes the child's ends unless they are in their slots
Return(c) ==
  /\ spawning = c
  /\ parent' = Close(parent, {child_fds[c][s] : s \in {r \in Slot : child_fds[c][r] # r}})
  /\ spawning' = 0
  /\ UNCHANGED <<child, stage, child_fds, parent_fds, asked>>

\* the program closes its end of a pipe
CloseStdio(c, s) ==
  /\ spawning = 0
  /\ parent_fds[c][s] # -1
  /\ parent[parent_fds[c][s]] = ParentEnd(c, s)
  /\ parent' = Close(parent, {parent_fds[c][s]})
  /\ UNCHANGED <<child, stage, spawning, child_fds, parent_fds, asked>>

\* a process that ends closes everything, as one does whose exec fails
End(c) ==
  /\ stage[c] = "running"
  /\ stage' = [stage EXCEPT ![c] = "ended"]
  /\ child' = [child EXCEPT ![c] = Nothing]
  /\ UNCHANGED <<parent, spawning, child_fds, parent_fds, asked>>

Next ==
  \E c \in Child :
    \/ \E stdio \in [Slot -> Items] : Spawn(c, stdio)
    \/ Rewire(c)
    \/ Return(c)
    \/ \E s \in Slot : CloseStdio(c, s)
    \/ End(c)

Spec == Init /\ [][Next]_vars

----------------------------------------------------------------------------
(* Properties.                                                             *)

\* The array can be satisfied slot by slot: no slot comes from a descriptor that
\* is itself a slot, unless nothing is asked of that one or it is moved later.
Untangled(c) ==
  \A s \in Slot : \A r \in Slot \ {s} : child_fds[c][s] = r =>
    asked[c][r] = Closed \/ (s < r /\ child_fds[c][r] # r)

\* No end of a pipe was made in its slot, which would keep the program from
\* closing it.  That can be when the program runs with the slot closed.
Apart(c) == \A s \in Slot : asked[c][s] = ChildEnd(c, s) => child_fds[c][s] # s

\* What spawn() leaves a running child with.  Its slots are what the stdio array
\* asked for, if that can be had slot by slot, also when the kernel put pipes at
\* descriptors that are slots or that other slots come from, and when it was
\* out of descriptors for some.  Of the program's ends it holds those of children
\* spawned before it at most, which fork gives it and nobody closes, and none
\* of its own or of later ones: a child comes to the end of its input once the
\* program has closed it and the children spawned after it are gone.
Wired ==
  \A c \in Child : stage[c] = "running" =>
    /\ Untangled(c) => \A s \in Slot : asked[c][s] # Closed => child[c][s] = asked[c][s]
    /\ \A d \in Child, s \in Slot, fd \in Fd : child[c][fd] = ParentEnd(d, s) => d < c

\* Once a child has ended nothing has its ends of its pipes open, neither the
\* program nor a child spawned meanwhile: a program that reads its output to
\* the end comes to the end.
EndComes ==
  \A c \in Child : stage[c] = "ended" /\ spawning # c /\ Apart(c) =>
    \A s \in Slot, fd \in Fd :
      /\ parent[fd] # ChildEnd(c, s)
      /\ \A d \in Child : child[d][fd] # ChildEnd(c, s)
=============================================================================
