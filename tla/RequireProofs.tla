----------------------------- MODULE RequireProofs -----------------------------
(***************************************************************************)
(* For any files, packages and scripts, and loads nested without bound:    *)
(* the script of a file is started once, the two stacks of lib/require.js  *)
(* follow the calls, what require() returns is complete, and a package is  *)
(* found where it was found before. And, for any files, aliases and        *)
(* imports, what the loader of qjsm makes of a name (ModuleLoader).        *)
(***************************************************************************)
EXTENDS Require, ModuleLoader, SequenceTheorems, WellFoundedInduction, TLAPS

\* The types the first theorems need, in which the search for packages plays no part.
Types ==
  /\ modules \in [Id -> Objects]
  /\ ctx \in [Id -> Objects]
  /\ filename \in Path \cup {Absent} /\ filenames \in Seq(Path)
  /\ module \in Id \cup {Absent} /\ contexts \in Seq(Id)
  /\ running \in Seq(Path)
  /\ runs \in [Id -> Nat]
  /\ stray \in BOOLEAN

\* a file that is not in the cache has not been started
Once == \A i \in Id : runs[i] <= 1 /\ (modules[i] = Absent => runs[i] = 0)

\* a script that runs has exports, so that what replaces the entry is an object
Given == \A k \in 1..Len(running) : ctx[Real[running[k]]] # Absent

\* StacksFollowCalls, place by place
Following ==
  /\ Len(filenames) = Len(running)
  /\ \A k \in 1..Len(running) : filenames[k] = IF k = 1 THEN Main ELSE running[k - 1]
  /\ filename = IF running = << >> THEN Main ELSE running[Len(running)]
  /\ Len(contexts) = IF running = << >> THEN 0 ELSE Len(running) - 1
  /\ \A k \in 1..Len(contexts) : contexts[k] = Real[running[k]]
  /\ module = IF running = << >> THEN Absent ELSE Real[running[Len(running)]]

IInv == Types /\ Once /\ Given /\ (~stray => Following)

\* A value and its place in a sequence that has grown.
LEMMA Grown ==
  ASSUME NEW S, NEW s \in Seq(S), NEW e \in S
  PROVE  /\ Append(s, e) \in Seq(S) /\ Append(s, e) # << >>
         /\ Len(Append(s, e)) = Len(s) + 1
         /\ \A k \in 1..Len(s) : Append(s, e)[k] = s[k]
         /\ Append(s, e)[Len(s) + 1] = e
  OBVIOUS

\* A sequence without its last value.
LEMMA Shrunk ==
  ASSUME NEW S, NEW s \in Seq(S), s # << >>
  PROVE  /\ Len(s) \in Nat \ {0}
         /\ Front(s) \in Seq(S) /\ Len(Front(s)) = Len(s) - 1
         /\ \A k \in 1..(Len(s) - 1) : Front(s)[k] = s[k]
         /\ Last(s) \in S /\ Last(s) = s[Len(s)]
         /\ Front(s) = << >> <=> Len(s) = 1
<1>1. Len(s) \in Nat \ {0}
  OBVIOUS
<1>2. /\ Front(s) \in Seq(S) /\ Len(Front(s)) = Len(s) - 1
      /\ \A k \in 1..(Len(s) - 1) : Front(s)[k] = s[k]
  <2>1. \A k \in 1..(Len(s) - 1) : s[k] \in S
    BY <1>1
  <2>2. 1 \in Int /\ Len(s) - 1 \in Int
    BY <1>1
  <2>3. /\ SubSeq(s, 1, Len(s) - 1) \in Seq(S)
        /\ Len(SubSeq(s, 1, Len(s) - 1)) = IF 1 <= Len(s) - 1 THEN (Len(s) - 1) - 1 + 1 ELSE 0
        /\ \A k \in 1..((Len(s) - 1) - 1 + 1) : SubSeq(s, 1, Len(s) - 1)[k] = s[1 + k - 1]
    BY <2>1, <2>2, SubSeqProperties
  <2>4. Front(s) = SubSeq(s, 1, Len(s) - 1)
    BY DEF Front
  <2>5. Len(Front(s)) = Len(s) - 1
    <3>1. Len(Front(s)) = IF 1 <= Len(s) - 1 THEN (Len(s) - 1) - 1 + 1 ELSE 0
      BY <2>3, <2>4
    <3>2. ASSUME NEW n \in Nat \ {0}
          PROVE  (IF 1 <= n - 1 THEN (n - 1) - 1 + 1 ELSE 0) = n - 1
      OBVIOUS
    <3> QED
      BY <1>1, <3>1, <3>2
  <2>6. \A k \in 1..(Len(s) - 1) : Front(s)[k] = s[k]
    <3>1. \A k \in 1..(Len(s) - 1) : k \in 1..((Len(s) - 1) - 1 + 1) /\ 1 + k - 1 = k
      BY <1>1
    <3> QED
      BY <2>3, <2>4, <3>1
  <2> QED
    BY <2>3, <2>4, <2>5, <2>6
<1>3. Last(s) \in S /\ Last(s) = s[Len(s)]
  BY <1>1 DEF Last
<1> QED
  BY <1>1, <1>2, <1>3

\* The invariant holds at the start.
LEMMA InitIInv == Init => IInv
<1> SUFFICES ASSUME Init PROVE IInv
  OBVIOUS
<1>1. Types
  <2>1. modules \in [Id -> Objects] /\ ctx \in [Id -> Objects] /\ runs \in [Id -> Nat]
    BY DEF Init, Objects
  <2>2. filename \in Path \cup {Absent} /\ module \in Id \cup {Absent} /\ stray \in BOOLEAN
    BY PathAssumption DEF Init
  <2>3. filenames \in Seq(Path) /\ contexts \in Seq(Id) /\ running \in Seq(Path)
    BY DEF Init
  <2> QED
    BY <2>1, <2>2, <2>3 DEF Types
<1>2. Once
  BY DEF Init, Once
<1>3. Given /\ Following
  BY DEF Init, Given, Following
<1> QED
  BY <1>1, <1>2, <1>3 DEF IInv

\* The pushes of load() keep the stacks at the calls.
LEMMA LoadFollows ==
  ASSUME Types, Following, NEW file \in Path,
         filename' = file, filenames' = Saved(filenames, filename),
         module' = Real[file], contexts' = Saved(contexts, module),
         running' = Append(running, file)
  PROVE  Following'
<1> DEFINE n == Len(running)
<1>1. /\ running' \in Seq(Path) /\ running' # << >> /\ Len(running') = n + 1
      /\ \A k \in 1..n : running'[k] = running[k]
      /\ running'[n + 1] = file
      /\ n \in Nat /\ (running = << >> <=> n = 0)
  BY Grown DEF Types
<1>2. filename \in Path /\ filename # Absent
  <2>1. CASE n = 0
    BY <1>1, <2>1, PathAssumption DEF Following
  <2>2. CASE n # 0
    <3>1. filename = running[n] /\ running[n] \in Path
      BY <1>1, <2>2 DEF Following, Types
    <3> QED
      BY <3>1, PathAssumption
  <2> QED
    BY <2>1, <2>2
<1>3. /\ filenames' \in Seq(Path) /\ Len(filenames') = n + 1
      /\ \A k \in 1..n : filenames'[k] = filenames[k]
      /\ filenames'[n + 1] = filename
  BY <1>2, Grown DEF Following, Types, Saved
<1>4. \A k \in 1..(n + 1) : filenames'[k] = IF k = 1 THEN Main ELSE running'[k - 1]
  BY <1>1, <1>3 DEF Following
<1>5. CASE n = 0
  <2>1. contexts' = contexts /\ Len(contexts) = 0
    BY <1>1, <1>5 DEF Following, Saved
  <2> QED
    BY <1>1, <1>3, <1>4, <1>5, <2>1 DEF Following
<1>6. CASE n # 0
  <2>1. module \in Id /\ module # Absent /\ module = Real[running[n]]
    <3>1. running[n] \in Path /\ module = Real[running[n]]
      BY <1>1, <1>6 DEF Following, Types
    <3> QED
      BY <3>1, PathAssumption
  <2>2. /\ Len(contexts') = n
        /\ \A k \in 1..(n - 1) : contexts'[k] = contexts[k]
        /\ contexts'[n] = module
    BY <1>1, <1>6, <2>1, Grown DEF Following, Types, Saved
  <2>3. \A k \in 1..n : contexts'[k] = Real[running'[k]]
    BY <1>1, <1>6, <2>1, <2>2 DEF Following
  <2> QED
    BY <1>1, <1>3, <1>4, <1>6, <2>2, <2>3 DEF Following
<1> QED
  BY <1>5, <1>6

\* The pops after a script bring the stacks back to the call before.
LEMMA PopFollows ==
  ASSUME Types, Following, running # << >>, Pop, running' = Front(running)
  PROVE  Following'
<1> DEFINE n == Len(running)
<1>1. /\ n \in Nat \ {0} /\ running' \in Seq(Path) /\ Len(running') = n - 1
      /\ \A k \in 1..(n - 1) : running'[k] = running[k]
      /\ running' = << >> <=> n = 1
  BY Shrunk DEF Types
<1>2. /\ filenames # << >> /\ Len(filenames) = n
      /\ filename' = filenames[n] /\ Len(filenames') = n - 1
      /\ \A k \in 1..(n - 1) : filenames'[k] = filenames[k]
  <2>1. filenames \in Seq(Path) /\ Len(filenames) = n /\ filenames # << >>
    BY <1>1 DEF Following, Types
  <2>2. filename' = Last(filenames) /\ filenames' = Front(filenames)
    BY <2>1 DEF Pop, PoppedTop, PoppedBelow
  <2> QED
    BY <2>1, <2>2, Shrunk
<1>3. /\ filename' = IF n = 1 THEN Main ELSE running'[n - 1]
      /\ \A k \in 1..(n - 1) : filenames'[k] = IF k = 1 THEN Main ELSE running'[k - 1]
  <2>1. /\ filename' = filenames[n]
        /\ \A k \in 1..n : filenames[k] = IF k = 1 THEN Main ELSE running[k - 1]
    BY <1>2 DEF Following
  <2>2. filenames[n] = IF n = 1 THEN Main ELSE running[n - 1]
    BY <1>1, <2>1
  <2>3. \A k \in 2..n : running[k - 1] = running'[k - 1]
    BY <1>1
  <2> QED
    BY <1>1, <1>2, <2>1, <2>2, <2>3
<1>4. CASE n = 1
  <2>1. contexts = << >> /\ contexts' = << >> /\ module' = Absent
    BY <1>1, <1>4 DEF Following, Types, Pop, PoppedTop, PoppedBelow
  <2> QED
    BY <1>1, <1>2, <1>3, <1>4, <2>1 DEF Following
<1>5. CASE n # 1
  <2>1. /\ contexts # << >> /\ Len(contexts) = n - 1
        /\ module' = contexts[n - 1] /\ Len(contexts') = n - 2
        /\ \A k \in 1..(n - 2) : contexts'[k] = contexts[k]
    <3>1. contexts \in Seq(Id) /\ Len(contexts) = n - 1 /\ contexts # << >>
      BY <1>1, <1>5 DEF Following, Types
    <3>2. module' = Last(contexts) /\ contexts' = Front(contexts)
      BY <3>1 DEF Pop, PoppedTop, PoppedBelow
    <3>3. /\ Last(contexts) = contexts[n - 1] /\ Len(Front(contexts)) = (n - 1) - 1
          /\ \A k \in 1..((n - 1) - 1) : Front(contexts)[k] = contexts[k]
      BY <3>1, Shrunk
    <3> QED
      BY <1>1, <3>1, <3>2, <3>3
  <2>2. /\ module' = Real[running'[n - 1]]
        /\ \A k \in 1..(n - 2) : contexts'[k] = Real[running'[k]]
    <3>1. \A k \in 1..(n - 1) : contexts[k] = Real[running[k]]
      BY <1>1, <2>1 DEF Following
    <3>2. n - 1 \in 1..(n - 1)
      BY <1>1, <1>5
    <3> QED
      BY <1>1, <2>1, <3>1, <3>2
  <2> QED
    BY <1>1, <1>2, <1>3, <1>5, <2>1, <2>2 DEF Following
<1> QED
  BY <1>4, <1>5

\* A load that starts: each of its parts.
LEMMA LoadIInv ==
  ASSUME IInv, NEW n, NEW file \in Path, Load(n, file)
  PROVE  IInv'
<1> DEFINE i == Real[file]
           m == Len(running)
<1>1. i \in Id /\ modules[i] = Absent /\ runs[i] = 0
  BY PathAssumption DEF IInv, Once, Load
<1>2. /\ running' \in Seq(Path) /\ Len(running') = m + 1 /\ m \in Nat
      /\ \A k \in 1..m : running'[k] = running[k]
      /\ running'[m + 1] = file
  BY Grown DEF IInv, Types, Load
<1>3. Types'
  <2>1. modules' \in [Id -> Objects] /\ ctx' \in [Id -> Objects]
    BY <1>1 DEF IInv, Types, Load, Entered, Objects
  <2>2. runs' \in [Id -> Nat] /\ stray' \in BOOLEAN
    BY <1>1 DEF IInv, Types, Load
  <2>3. filename' \in Path \cup {Absent} /\ module' \in Id \cup {Absent}
    BY <1>1 DEF Load
  <2>4. filenames' \in Seq(Path)
    <3>1. CASE filename = Absent
      BY <3>1 DEF IInv, Types, Load, Saved
    <3>2. CASE filename # Absent
      BY <3>2, Grown DEF IInv, Types, Load, Saved
    <3> QED
      BY <3>1, <3>2
  <2>5. contexts' \in Seq(Id)
    <3>1. CASE module = Absent
      BY <3>1 DEF IInv, Types, Load, Saved
    <3>2. CASE module # Absent
      BY <3>2, Grown DEF IInv, Types, Load, Saved
    <3> QED
      BY <3>1, <3>2
  <2> QED
    BY <1>2, <2>1, <2>2, <2>3, <2>4, <2>5 DEF Types
<1>4. Once'
  <2> SUFFICES ASSUME NEW j \in Id
               PROVE  runs'[j] <= 1 /\ (modules'[j] = Absent => runs'[j] = 0)
    BY DEF Once
  <2>1. CASE j = i
    <3>1. runs'[j] = 1 /\ modules'[j] = "initial"
      BY <1>1, <2>1 DEF IInv, Types, Load, Entered
    <3> QED
      BY <3>1, PathAssumption
  <2>2. CASE j # i
    <3>1. runs'[j] = runs[j] /\ modules'[j] = modules[j]
      BY <2>2 DEF IInv, Types, Load, Entered
    <3> QED
      BY <3>1 DEF IInv, Once
  <2> QED
    BY <2>1, <2>2
<1>5. Given'
  <2> SUFFICES ASSUME NEW k \in 1..(m + 1)
               PROVE  ctx'[Real[running'[k]]] # Absent
    BY <1>2 DEF Given
  <2>1. ctx' = [ctx EXCEPT ![i] = "given"] /\ ctx \in [Id -> Objects]
    BY DEF IInv, Types, Load
  <2>2. "given" # Absent
    BY PathAssumption
  <2>3. CASE k = m + 1
    BY <1>1, <1>2, <2>1, <2>2, <2>3
  <2>4. CASE k # m + 1
    <3>1. k \in 1..m
      BY <1>2, <2>4
    <3>2. running[k] \in Path /\ ctx[Real[running[k]]] # Absent
      BY <3>1 DEF IInv, Types, Given
    <3>3. Real[running[k]] \in Id /\ running'[k] = running[k]
      BY <1>2, <3>1, <3>2, PathAssumption
    <3> QED
      BY <2>1, <2>2, <3>2, <3>3
  <2> QED
    BY <2>3, <2>4
<1>6. ~stray' => Following'
  <2>1. stray' = stray
    BY DEF Load
  <2>2. ASSUME ~stray PROVE Following'
    BY <2>2, LoadFollows DEF IInv, Load
  <2> QED
    BY <2>1, <2>2
<1> QED
  BY <1>3, <1>4, <1>5, <1>6 DEF IInv

\* The parts of the invariant when one script less is running.
LEMMA EndsGiven ==
  ASSUME Types, Given, running # << >>, running' = Front(running), ctx' = ctx
  PROVE  running' \in Seq(Path) /\ Given'
<1>1. /\ running' \in Seq(Path) /\ Len(running') = Len(running) - 1
      /\ \A k \in 1..(Len(running) - 1) : running'[k] = running[k]
      /\ Len(running) \in Nat
  BY Shrunk DEF Types
<1>2. \A k \in 1..(Len(running) - 1) : ctx'[Real[running'[k]]] # Absent
  BY <1>1 DEF Given
<1> QED
  BY <1>1, <1>2 DEF Given

\* What the pops leave is still a stack of files and one of contexts.
LEMMA PopTypes ==
  ASSUME Types, Pop
  PROVE  /\ filename' \in Path \cup {Absent} /\ filenames' \in Seq(Path)
         /\ module' \in Id \cup {Absent} /\ contexts' \in Seq(Id)
<1>1. filename' \in Path \cup {Absent} /\ filenames' \in Seq(Path)
  <2>1. CASE filenames = << >>
    BY <2>1 DEF Pop, PoppedTop, PoppedBelow
  <2>2. CASE filenames # << >>
    BY <2>2, Shrunk DEF Types, Pop, PoppedTop, PoppedBelow
  <2> QED
    BY <2>1, <2>2
<1>2. module' \in Id \cup {Absent} /\ contexts' \in Seq(Id)
  <2>1. CASE contexts = << >>
    BY <2>1 DEF Pop, PoppedTop, PoppedBelow
  <2>2. CASE contexts # << >>
    BY <2>2, Shrunk DEF Types, Pop, PoppedTop, PoppedBelow
  <2> QED
    BY <2>1, <2>2
<1> QED
  BY <1>1, <1>2

\* The script that runs is that of a file, and has exports.
LEMMA LoadingGiven ==
  ASSUME Types, Given, running # << >>
  PROVE  Loading \in Id /\ ctx[Loading] # Absent
<1>1. Last(running) \in Path /\ Last(running) = running[Len(running)]
      /\ Len(running) \in 1..Len(running)
  BY Shrunk DEF Types
<1> QED
  BY <1>1, PathAssumption DEF Given, Loading

\* A script ends.
LEMMA ReturnsIInv ==
  ASSUME IInv, Returns
  PROVE  IInv'
<1>1. Loading \in Id /\ ctx[Loading] # Absent
  BY LoadingGiven DEF IInv, Returns
<1>2. running' \in Seq(Path) /\ Given'
  BY EndsGiven DEF IInv, Returns
<1>3. Types'
  <2>1. modules' \in [Id -> Objects] /\ ctx' \in [Id -> Objects]
        /\ runs' \in [Id -> Nat] /\ stray' \in BOOLEAN
    BY <1>1 DEF IInv, Types, Returns
  <2> QED
    BY <1>2, <2>1, PopTypes DEF IInv, Types, Returns
<1>4. Once'
  BY <1>1 DEF IInv, Types, Once, Returns
<1>5. ~stray' => Following'
  BY PopFollows DEF IInv, Returns
<1> QED
  BY <1>2, <1>3, <1>4, <1>5 DEF IInv

\* A script throws an error, and the stacks are popped.
LEMMA ThrowsIInv ==
  ASSUME IInv, Throws
  PROVE  IInv'
<1>1. running' \in Seq(Path) /\ Given'
  BY EndsGiven DEF IInv, Throws, cache
<1>2. Types'
  BY <1>1, PopTypes DEF IInv, Types, Throws, cache
<1>3. Once'
  BY DEF IInv, Once, Throws, cache
<1>4. ~stray' => Following'
  BY PopFollows DEF IInv, Throws
<1> QED
  BY <1>1, <1>2, <1>3, <1>4 DEF IInv

\* A script throws something else; nothing is said of the stacks from then on.
LEMMA ThrowsStrayIInv ==
  ASSUME IInv, ThrowsStray
  PROVE  IInv'
<1>1. running' \in Seq(Path) /\ Given'
  BY EndsGiven DEF IInv, ThrowsStray, cache
<1>2. Types'
  BY <1>1 DEF IInv, Types, ThrowsStray, cache, stacks
<1>3. Once'
  BY DEF IInv, Once, ThrowsStray, cache
<1>4. stray'
  BY DEF ThrowsStray
<1> QED
  BY <1>1, <1>2, <1>3, <1>4 DEF IInv

\* module.exports is given another value.
LEMMA ReplaceIInv ==
  ASSUME IInv, Replace
  PROVE  IInv'
<1>1. Loading \in Id
  BY LoadingGiven DEF IInv, Replace
<1>2. Types'
  BY <1>1 DEF IInv, Types, Replace, stacks, history, Objects
<1>3. Once'
  BY DEF IInv, Once, Replace, history
<1>4. Given'
  <2>1. ctx \in [Id -> Objects] /\ Given /\ Absent # "replaced"
    BY PathAssumption DEF IInv, Types
  <2>2. ctx' = [ctx EXCEPT ![Loading] = "replaced"] /\ running' = running
    BY DEF Replace
  <2> QED
    BY <1>1, <2>1, <2>2 DEF Given
<1>5. ~stray' => Following'
  BY DEF IInv, Following, Replace, stacks, history
<1> QED
  BY <1>2, <1>3, <1>4, <1>5 DEF IInv

\* A load that fails before its script starts.
LEMMA LoadFailsIInv ==
  ASSUME IInv, NEW n, NEW file \in Path, LoadFails(n, file)
  PROVE  IInv'
<1>1. Real[file] \in Id
  BY PathAssumption
<1>2. Types'
  BY <1>1 DEF IInv, Types, LoadFails, Entered, stacks, Objects
<1>3. Once'
  BY <1>1, PathAssumption DEF IInv, Types, Once, LoadFails, Entered
<1>4. Given'
  BY DEF IInv, Given, LoadFails
<1>5. ~stray' => Following'
  BY DEF IInv, Following, LoadFails, stacks
<1> QED
  BY <1>2, <1>3, <1>4, <1>5 DEF IInv

\* Every step keeps the invariant.
LEMMA NextIInv == IInv /\ [Next]_vars => IInv'
<1> SUFFICES ASSUME IInv, [Next]_vars PROVE IInv'
  OBVIOUS
<1>1. ASSUME NEW n, Uncached(n) PROVE IInv'
  BY <1>1 DEF IInv, Types, Once, Given, Following, Uncached, stacks, history
<1>2. ASSUME NEW n, NEW file, Cached(n, file) PROVE IInv'
  BY <1>2 DEF IInv, Types, Once, Given, Following, Cached, stacks
<1>3. CASE UNCHANGED vars
  BY <1>3 DEF IInv, Types, Once, Given, Following, vars, cache, stacks, history
<1> QED
  BY <1>1, <1>2, <1>3, LoadIInv, LoadFailsIInv, ReplaceIInv, ReturnsIInv,
     ThrowsIInv, ThrowsStrayIInv DEF Next

\* Place by place is all there is to say of two sequences.
LEMMA FollowingStacks ==
  ASSUME Types, Following
  PROVE  /\ Append(filenames, filename) = << Main >> \o running
         /\ contexts = [k \in 1..(Len(running) - 1) |-> Real[running[k]]]
         /\ module = IF running = << >> THEN Absent ELSE Loading
<1> DEFINE n == Len(running)
           left == Append(filenames, filename)
           right == << Main >> \o running
<1>1. n \in Nat /\ (running = << >> <=> n = 0) /\ Len(filenames) = n
  BY DEF Types, Following
<1>2. filename \in Path
  <2>1. CASE n = 0
    BY <1>1, <2>1, PathAssumption DEF Following
  <2>2. CASE n # 0
    BY <1>1, <2>2 DEF Following, Types
  <2> QED
    BY <2>1, <2>2
<1>3. left = right
  <2>1. /\ left \in Seq(Path) /\ Len(left) = n + 1
        /\ \A k \in 1..n : left[k] = filenames[k]
        /\ left[n + 1] = filename
    <3>1. filenames \in Seq(Path)
      BY DEF Types
    <3>2. /\ left \in Seq(Path) /\ Len(left) = Len(filenames) + 1
          /\ \A k \in 1..Len(filenames) : left[k] = filenames[k]
          /\ left[Len(filenames) + 1] = filename
      BY <1>2, <3>1, Grown
    <3> QED
      BY <1>1, <3>2
  <2>2. << Main >> \in Seq(Path) /\ Len(<< Main >>) = 1 /\ << Main >>[1] = Main
    BY PathAssumption
  <2>3. /\ right \in Seq(Path) /\ Len(right) = n + 1
        /\ \A k \in 1..(n + 1) : right[k] = IF k = 1 THEN Main ELSE running[k - 1]
    BY <1>1, <2>2, ConcatProperties DEF Types
  <2>4. \A k \in 1..(n + 1) : left[k] = right[k]
    BY <1>1, <2>1, <2>3 DEF Following
  <2> QED
    BY <2>1, <2>3, <2>4, SeqEqual
<1>4. contexts = [k \in 1..(n - 1) |-> Real[running[k]]]
  <2>1. contexts \in Seq(Id) /\ Len(contexts) = IF n = 0 THEN 0 ELSE n - 1
    BY <1>1 DEF Types, Following
  <2>2. contexts = [k \in 1..Len(contexts) |-> contexts[k]]
    BY <2>1
  <2>3. 1..Len(contexts) = 1..(n - 1)
    BY <1>1, <2>1
  <2>4. \A k \in 1..Len(contexts) : contexts[k] = Real[running[k]]
    BY DEF Following
  <2> QED
    BY <2>2, <2>3, <2>4
<1> QED
  BY <1>1, <1>3, <1>4 DEF Following, Loading, Last

\* The invariant holds in every state.
LEMMA Invariance == Spec => []IInv
<1> QED
  BY InitIInv, NextIInv, PTL DEF Spec

\* The script of a file is started at most once, for any number of files and
\* names, and any way scripts require each other and fail.
THEOREM EachOnce == Spec => []StartedOnce
<1>1. IInv => StartedOnce
  BY DEF IInv, Once, StartedOnce
<1> QED
  BY <1>1, Invariance, PTL

\* Unless a script throws what is not an error, the stacks of lib/require.js
\* follow the calls.
THEOREM StacksCorrect == Spec => []StacksFollowCalls
<1>1. IInv => StacksFollowCalls
  BY FollowingStacks DEF IInv, StacksFollowCalls
<1> QED
  BY <1>1, Invariance, PTL

----------------------------------------------------------------------------
(* What require() returns.                                                 *)

\* the script of i is running, or its load has failed
Unfinished(i) == i \in failed \/ \E k \in 1..Len(running) : Real[running[k]] = i

\* an entry that is still as it was made belongs to such a module, and so does
\* an answer that is; no context ever holds the object of the constructor
Unloaded ==
  /\ \A i \in Id : modules[i] = "initial" => Unfinished(i)
  /\ \A i \in Id : ctx[i] # "initial"
  /\ answer.object = "initial" => Unfinished(answer.id)

\* A load that starts leaves unfinished what was, and adds one.
LEMMA LoadUnfinished ==
  ASSUME Types, NEW file \in Path, running' = Append(running, file), failed' = failed
  PROVE  Unfinished(Real[file])' /\ \A i : Unfinished(i) => Unfinished(i)'
<1>1. /\ Len(running') = Len(running) + 1 /\ Len(running) \in Nat
      /\ \A k \in 1..Len(running) : running'[k] = running[k]
      /\ running'[Len(running) + 1] = file
  BY Grown DEF Types
<1>2. Len(running) + 1 \in 1..Len(running')
  BY <1>1
<1>3. \A k \in 1..Len(running) : k \in 1..Len(running')
  BY <1>1
<1> QED
  BY <1>1, <1>2, <1>3 DEF Unfinished

\* A script that ends leaves unfinished what was, but for itself.
LEMMA EndUnfinished ==
  ASSUME Types, running # << >>, running' = Front(running), failed \subseteq failed',
         NEW i, Unfinished(i), i # Loading
  PROVE  Unfinished(i)'
<1>1. /\ Len(running') = Len(running) - 1 /\ Len(running) \in Nat
      /\ \A k \in 1..(Len(running) - 1) : running'[k] = running[k]
      /\ Last(running) = running[Len(running)]
  BY Shrunk DEF Types
<1>2. ASSUME NEW k \in 1..Len(running), Real[running[k]] = i
      PROVE  k \in 1..Len(running') /\ Real[running'[k]] = i
  <2>1. k # Len(running)
    BY <1>1, <1>2 DEF Loading
  <2> QED
    BY <1>1, <1>2, <2>1
<1> QED
  BY <1>2 DEF Unfinished

\* A script that throws is unfinished for ever.
LEMMA FailUnfinished ==
  ASSUME Types, running # << >>, running' = Front(running),
         failed' = failed \cup {Loading}, NEW i, Unfinished(i)
  PROVE  Unfinished(i)'
<1>1. CASE i = Loading
  BY <1>1 DEF Unfinished
<1>2. CASE i # Loading
  BY <1>2, EndUnfinished
<1> QED
  BY <1>1, <1>2

\* Where neither the scripts that run nor the failures change.
LEMMA SameUnfinished ==
  ASSUME running' = running, failed \subseteq failed', NEW i, Unfinished(i)
  PROVE  Unfinished(i)'
BY DEF Unfinished

\* Each kind of step keeps what is said of unfinished modules.
LEMMA UnloadedStep ==
  ASSUME IInv, Unloaded, [Next]_vars
  PROVE  Unloaded'
<1>1. Types
  BY DEF IInv
<1>2. ASSUME NEW n, Uncached(n) PROVE Unloaded'
  BY <1>2 DEF Unloaded, Unfinished, Uncached, history
<1>3. ASSUME NEW n, NEW file \in Path, Cached(n, file) PROVE Unloaded'
  <2>1. Real[file] \in Id
    BY PathAssumption
  <2>2. modules[Real[file]] = "initial" => Unfinished(Real[file])
    BY <2>1 DEF Unloaded
  <2> QED
    BY <1>3, <2>1, <2>2 DEF Unloaded, Unfinished, Cached
<1>4. ASSUME NEW n, NEW file \in Path, LoadFails(n, file) PROVE Unloaded'
  <2>1. \A i : Unfinished(i) => Unfinished(i)'
    BY <1>4, SameUnfinished DEF LoadFails
  <2>2. Unfinished(Real[file])'
    BY <1>4 DEF LoadFails, Unfinished
  <2>3. \A j \in Id : modules'[j] = modules[j] \/ j = Real[file]
    BY <1>1, <1>4 DEF LoadFails, Entered, Types
  <2> QED
    BY <1>4, <2>1, <2>2, <2>3 DEF Unloaded, LoadFails
<1>5. ASSUME NEW n, NEW file \in Path, Load(n, file) PROVE Unloaded'
  <2>1. Unfinished(Real[file])' /\ \A i : Unfinished(i) => Unfinished(i)'
    BY <1>1, <1>5, LoadUnfinished DEF Load
  <2>2. \A j \in Id : modules'[j] = modules[j] \/ j = Real[file]
    BY <1>1, <1>5 DEF Load, Entered, Types
  <2>3. \A j \in Id : ctx'[j] = ctx[j] \/ ctx'[j] = "given"
    BY <1>1, <1>5 DEF Load, Types
  <2> QED
    BY <1>5, <2>1, <2>2, <2>3 DEF Unloaded, Load
<1>6. ASSUME Replace PROVE Unloaded'
  <2>1. \A j \in Id : ctx'[j] = ctx[j] \/ ctx'[j] = "replaced"
    BY <1>1, <1>6 DEF Replace, Types
  <2> QED
    BY <1>6, <2>1 DEF Unloaded, Unfinished, Replace, history
<1>7. ASSUME Returns PROVE Unloaded'
  <2>1. Loading \in Id /\ ctx[Loading] # "initial"
    BY <1>7, LoadingGiven DEF IInv, Returns, Unloaded
  <2>2. \A i : Unfinished(i) /\ i # Loading => Unfinished(i)'
    BY <1>1, <1>7, EndUnfinished DEF Returns
  <2>3. \A j \in Id : modules'[j] = IF j = Loading THEN ctx[Loading] ELSE modules[j]
    BY <1>1, <1>7 DEF Returns, Types
  <2> QED
    BY <1>7, <2>1, <2>2, <2>3 DEF Unloaded, Returns
<1>8. ASSUME Throws \/ ThrowsStray PROVE Unloaded'
  <2>1. \A i : Unfinished(i) => Unfinished(i)'
    BY <1>1, <1>8, FailUnfinished DEF Throws, ThrowsStray
  <2> QED
    BY <1>8, <2>1 DEF Unloaded, Throws, ThrowsStray, cache
<1>9. CASE UNCHANGED vars
  BY <1>9 DEF Unloaded, Unfinished, vars, cache, history
<1> QED
  BY <1>2, <1>3, <1>4, <1>5, <1>6, <1>7, <1>8, <1>9 DEF Next

\* Where the script of a module has neither been started nor failed, or is
\* over, require() returns what the script exported: the empty object of the
\* constructor comes only from a circle, or after a failure.
THEOREM AnswersAreComplete == Spec => []AnswersComplete
<1>1. Init => Unloaded
  BY PathAssumption DEF Init, Unloaded
<1>2. IInv /\ Unloaded /\ [Next]_vars => Unloaded'
  BY UnloadedStep
<1>3. Unloaded => AnswersComplete
  BY DEF Unloaded, Unfinished, AnswersComplete
<1> QED
  BY <1>1, <1>2, <1>3, Invariance, PTL DEF Spec

----------------------------------------------------------------------------
(* The directories packages are looked for in.                             *)

\* The smallest of some naturals: what a loop that goes wrong does first.
LEMMA LeastNatural ==
  ASSUME NEW S \in SUBSET Nat, S # {}
  PROVE  \E m \in S : \A k \in S : m <= k
<1> DEFINE R == {ss \in Nat \X Nat : ss[1] < ss[2]}
<1>1. IsWellFoundedOn(R, Nat)
  BY NatLessThanWellFounded DEF OpToRel
<1> HIDE DEF R
<1>2. PICK m \in S : \A k \in S : ~(<<k, m>> \in R)
  BY <1>1, WFMin
<1>3. \A k \in S : ~(k < m)
  BY <1>2 DEF R
<1> QED
  BY <1>3

\* Induction along a loop: what holds before it and is kept by each round.
LEMMA EachRound ==
  ASSUME NEW N \in Nat, NEW G, 0 \in G, \A k \in 1..N : k - 1 \in G => k \in G
  PROVE  \A k \in 0..N : k \in G
<1> DEFINE Bad == {k \in 0..N : k \notin G}
<1>1. SUFFICES ASSUME Bad # {} PROVE FALSE
  OBVIOUS
<1>2. Bad \in SUBSET Nat
  OBVIOUS
<1> HIDE DEF Bad
<1>3. PICK k \in Bad : \A j \in Bad : k <= j
  BY <1>1, <1>2, LeastNatural
<1>4. k \in 1..N /\ k - 1 \in 0..N /\ ~(k <= k - 1) /\ k \notin G
  BY <1>3 DEF Bad
<1>5. k - 1 \in G
  BY <1>3, <1>4 DEF Bad
<1> QED
  BY <1>4, <1>5

\* f[k] is what a loop has after k rounds, where step[k] is the k-th.
Unrolls(f, base, N, step) == f[0] = base /\ \A k \in 1..N : f[k] = step[k][f[k - 1]]

\* A loop of any number of rounds has values after each of them.
LEMMA Rounds ==
  ASSUME NEW S, NEW base \in S, NEW N \in Nat, NEW step \in [1..N -> [S -> S]]
  PROVE  \E f \in [0..N -> S] : Unrolls(f, base, N, step)
<1> DEFINE Upto(n, f) == f[0] = base /\ \A k \in 1..n : f[k] = step[k][f[k - 1]]
           Done == {n \in 0..N : \E f \in [0..n -> S] : Upto(n, f)}
<1>1. 0 \in Done
  <2>1. [k \in 0..0 |-> base] \in [0..0 -> S] /\ Upto(0, [k \in 0..0 |-> base])
    OBVIOUS
  <2>2. \E f \in [0..0 -> S] : Upto(0, f)
    BY <2>1
  <2>3. 0 \in 0..N
    OBVIOUS
  <2> HIDE DEF Upto
  <2> QED
    BY <2>2, <2>3
<1>2. ASSUME NEW n \in 1..N, n - 1 \in Done PROVE n \in Done
  <2>1. PICK f \in [0..(n - 1) -> S] : Upto(n - 1, f)
    BY <1>2
  <2> DEFINE g == [k \in 0..n |-> IF k = n THEN step[n][f[n - 1]] ELSE f[k]]
  <2>2. n - 1 \in 0..(n - 1) /\ n \in 1..N
    OBVIOUS
  <2>3. step[n][f[n - 1]] \in S
    <3>1. f[n - 1] \in S /\ step[n] \in [S -> S]
      BY <2>2
    <3> QED
      BY <3>1
  <2>4. g \in [0..n -> S]
    BY <2>3
  <2>5. \A k \in 0..(n - 1) : g[k] = f[k]
    OBVIOUS
  <2>6. g[n] = step[n][f[n - 1]]
    OBVIOUS
  <2> HIDE DEF g
  <2>7. g[0] = base
    BY <2>1, <2>5
  <2>8. ASSUME NEW k \in 1..n PROVE g[k] = step[k][g[k - 1]]
    <3>1. CASE k = n
      BY <2>5, <2>6, <3>1
    <3>2. CASE k # n
      <4>1. k \in 1..(n - 1) /\ k \in 0..(n - 1) /\ k - 1 \in 0..(n - 1)
        BY <3>2
      <4>2. g[k] = f[k] /\ g[k - 1] = f[k - 1]
        BY <2>5, <4>1
      <4> QED
        BY <2>1, <4>1, <4>2
    <3> QED
      BY <3>1, <3>2
  <2>9. Upto(n, g)
    BY <2>7, <2>8
  <2> QED
    BY <2>4, <2>9
<1> HIDE DEF Done
<1>3. N \in Done
  <2>1. \A k \in 0..N : k \in Done
    BY <1>1, <1>2, EachRound
  <2> QED
    BY <2>1
<1> QED
  BY <1>3 DEF Done, Unrolls

\* known[k] is what packagePaths knows when it has looked at k directories.
LEMMA PackagePathsIs ==
  ASSUME NEW known \in Seq(Directory), NEW dirs \in Seq(Directory)
  PROVE  \E ds \in [0..Len(dirs) -> Seq(Directory)] :
           /\ ds[0] = known
           /\ \A k \in 1..Len(dirs) : ds[k] = Add(ds[k - 1], dirs[k])
           /\ PackagePaths(known, dirs) = ds[Len(dirs)]
<1> DEFINE N == Len(dirs)
           S == Seq(Directory)
           step == [k \in 1..N |-> [s \in S |-> Add(s, dirs[k])]]
           Is(f) == f = [k \in 0..N |-> IF k = 0 THEN known ELSE Add(f[k - 1], dirs[k])]
           ds == CHOOSE f : Is(f)
<1>1. N \in Nat /\ (\A k \in 1..N : dirs[k] \in Directory) /\ known \in S
  OBVIOUS
<1>2. \A k \in 1..N : \A s \in S : Add(s, dirs[k]) \in S
  <2>1. \A d \in Directory : \A s \in S : Append(s, d) \in S
    BY Grown
  <2> QED
    BY <1>1, <2>1 DEF Add
<1> HIDE DEF S
<1>3. step \in [1..N -> [S -> S]]
  BY <1>2
<1>4. \A k \in 1..N : \A s \in S : step[k][s] = Add(s, dirs[k])
  OBVIOUS
<1> HIDE DEF step, N
<1>5. PICK f \in [0..N -> S] : Unrolls(f, known, N, step)
  BY <1>1, <1>3, Rounds
<1>6. Is(f)
  <2>1. \A k \in 1..N : k - 1 \in 0..N /\ k # 0
    BY <1>1
  <2>2. \A k \in 1..N : f[k] = Add(f[k - 1], dirs[k])
    BY <1>4, <1>5, <2>1 DEF Unrolls
  <2>3. \A k \in 0..N : f[k] = IF k = 0 THEN known ELSE Add(f[k - 1], dirs[k])
    BY <1>1, <1>5, <2>2 DEF Unrolls
  <2> QED
    BY <2>3
<1>7. Is(ds)
  BY <1>6
<1> HIDE DEF ds
<1>8. ds[0] = known /\ \A k \in 1..N : ds[k] = Add(ds[k - 1], dirs[k])
  <2>1. \A k \in 0..N : ds[k] = IF k = 0 THEN known ELSE Add(ds[k - 1], dirs[k])
    BY <1>7
  <2> QED
    BY <1>1, <2>1
<1>9. \A k \in 0..N : ds[k] \in S
  <2> DEFINE G == {k \in 0..N : ds[k] \in S}
  <2>1. 0 \in G
    BY <1>1, <1>8
  <2>2. \A k \in 1..N : k - 1 \in G => k \in G
    BY <1>1, <1>2, <1>8
  <2> HIDE DEF G
  <2>3. \A k \in 0..N : k \in G
    BY <1>1, <2>1, <2>2, EachRound
  <2> QED
    BY <2>3 DEF G
<1>10. ds \in [0..N -> S]
  BY <1>7, <1>9
<1>11. PackagePaths(known, dirs) = ds[N]
  BY DEF PackagePaths, ds, N
<1> QED
  BY <1>8, <1>10, <1>11 DEF N, S

\* t goes on where s ends.
Begins(s, t) == Len(s) <= Len(t) /\ \A k \in 1..Len(s) : t[k] = s[k]

\* Adding directories keeps those that are known in their places, and none
\* is there twice.
LEMMA AddExtends ==
  ASSUME NEW s \in Seq(Directory), NEW d \in Directory, IsInjective(s)
  PROVE  /\ Add(s, d) \in Seq(Directory) /\ IsInjective(Add(s, d))
         /\ Begins(s, Add(s, d))
<1>1. CASE Contains(s, d)
  BY <1>1 DEF Add, Begins
<1>2. CASE ~Contains(s, d)
  <2>1. Add(s, d) = Append(s, d)
    BY <1>2 DEF Add
  <2>2. /\ Append(s, d) \in Seq(Directory) /\ Len(Append(s, d)) = Len(s) + 1
        /\ \A k \in 1..Len(s) : Append(s, d)[k] = s[k]
        /\ Append(s, d)[Len(s) + 1] = d
    BY Grown
  <2>3. \A k \in 1..Len(s) : s[k] # d
    BY <1>2 DEF Contains
  <2>4. \A j, k \in 1..Len(s) : s[j] = s[k] => j = k
    BY DEF IsInjective
  <2>5. DOMAIN Append(s, d) = 1..(Len(s) + 1)
    BY <2>2
  <2>6. IsInjective(Append(s, d))
    BY <2>2, <2>3, <2>4, <2>5 DEF IsInjective
  <2> QED
    BY <2>1, <2>2, <2>6 DEF Begins
<1> QED
  BY <1>1, <1>2

\* The same of packagePaths.
LEMMA PackagePathsExtend ==
  ASSUME NEW known \in Seq(Directory), NEW dirs \in Seq(Directory), IsInjective(known)
  PROVE  /\ PackagePaths(known, dirs) \in Seq(Directory)
         /\ IsInjective(PackagePaths(known, dirs))
         /\ Begins(known, PackagePaths(known, dirs))
<1> DEFINE N == Len(dirs)
<1>1. PICK ds \in [0..N -> Seq(Directory)] :
        /\ ds[0] = known
        /\ \A k \in 1..N : ds[k] = Add(ds[k - 1], dirs[k])
        /\ PackagePaths(known, dirs) = ds[N]
  BY PackagePathsIs
<1> DEFINE Fine(k) == IsInjective(ds[k]) /\ Begins(known, ds[k])
           G == {k \in 0..N : Fine(k)}
<1>2. N \in Nat
  OBVIOUS
<1>3. Fine(0)
  BY <1>1 DEF Begins
<1>4. ASSUME NEW k \in 1..N, Fine(k - 1) PROVE Fine(k)
  <2>1. ds[k - 1] \in Seq(Directory) /\ ds[k] \in Seq(Directory) /\ dirs[k] \in Directory
    BY <1>1, <1>2
  <2>2. IsInjective(ds[k]) /\ Begins(ds[k - 1], ds[k])
    BY <1>1, <1>4, <2>1, AddExtends
  <2>3. Begins(known, ds[k])
    <3>1. Len(known) \in Nat /\ Len(ds[k - 1]) \in Nat /\ Len(ds[k]) \in Nat
      BY <2>1
    <3> QED
      BY <1>4, <2>2, <3>1 DEF Begins
  <2> QED
    BY <2>2, <2>3
<1>5. 0 \in G /\ \A k \in 1..N : k - 1 \in G => k \in G
  BY <1>2, <1>3, <1>4
<1> HIDE DEF G, N
<1>6. N \in G
  <2>1. \A k \in 0..N : k \in G
    BY <1>2, <1>5, EachRound
  <2> QED
    BY <1>2, <2>1
<1>7. Fine(N)
  BY <1>6 DEF G
<1> QED
  BY <1>1, <1>2, <1>7 DEF N

\* Min is the smallest of a set of naturals.
LEMMA MinIsLeast ==
  ASSUME NEW S \in SUBSET Nat, S # {}
  PROVE  Min(S) \in S /\ \A k \in S : Min(S) <= k
<1>1. \E m \in S : \A k \in S : m <= k
  BY LeastNatural
<1> QED
  BY <1>1 DEF Min

\* findPackage finds the same in more directories, if they come behind.
LEMMA FoundAgain ==
  ASSUME NEW s \in Seq(Directory), NEW t \in Seq(Directory), Begins(s, t), NEW n,
         FindPackage(s, n) # Absent
  PROVE  FindPackage(t, n) = FindPackage(s, n)
<1> DEFINE In(u) == {k \in 1..Len(u) : Packages[u[k]][n] # Absent}
<1>1. Len(s) \in Nat /\ Len(t) \in Nat /\ Len(s) <= Len(t) /\ \A k \in 1..Len(s) : t[k] = s[k]
  BY DEF Begins
<1>2. In(s) # {}
  BY DEF FindPackage
<1>3. Min(In(s)) \in In(s) /\ \A k \in In(s) : Min(In(s)) <= k
  <2>1. In(s) \in SUBSET Nat
    BY <1>1
  <2>2. In(s) # {}
    BY <1>2
  <2> HIDE DEF In
  <2> QED
    BY <2>1, <2>2, MinIsLeast
<1>4. Min(In(s)) \in In(t)
  BY <1>1, <1>3
<1>5. Min(In(t)) \in In(t) /\ \A k \in In(t) : Min(In(t)) <= k
  <2>1. In(t) \in SUBSET Nat /\ In(t) # {}
    BY <1>1, <1>4
  <2> HIDE DEF In
  <2> QED
    BY <2>1, MinIsLeast
<1>6. Min(In(t)) = Min(In(s))
  <2>1. Min(In(t)) <= Min(In(s))
    BY <1>4, <1>5
  <2>2. Min(In(s)) \in 1..Len(s) /\ Min(In(t)) \in 1..Len(t)
    BY <1>3, <1>5
  <2>3. Min(In(t)) \in In(s)
    BY <1>1, <1>5, <2>1, <2>2
  <2>4. Min(In(s)) <= Min(In(t))
    BY <1>3, <2>3
  <2>5. \A i, j \in Nat : i <= j /\ j <= i => i = j
    OBVIOUS
  <2> HIDE DEF In
  <2> QED
    BY <1>1, <2>1, <2>2, <2>4, <2>5
<1>7. FindPackage(s, n) = Packages[s[Min(In(s))]][n]
  BY <1>2 DEF FindPackage
<1>8. FindPackage(t, n) = Packages[t[Min(In(t))]][n]
  BY <1>4 DEF FindPackage
<1> QED
  BY <1>1, <1>3, <1>6, <1>7, <1>8

\* lookupModule of any name keeps the directories in their places.
LEMMA LookupExtends ==
  ASSUME Types, paths \in Seq(Directory), IsInjective(paths), NEW n \in Relative \cup Bare
  PROVE  /\ Lookup(n).paths \in Seq(Directory) /\ IsInjective(Lookup(n).paths)
         /\ Begins(paths, Lookup(n).paths)
<1> DEFINE known == PackagePaths(paths, Around[Caller])
           named == IF n \in Relative THEN Beside[Caller][n] ELSE FindPackage(known, n)
           file  == IF n \in Bare /\ named = Absent THEN Working[n] ELSE named
<1>1. Caller \in Path
  BY PathAssumption DEF Types, Caller
<1>2. Around[Caller] \in Seq(Directory)
  BY <1>1, PathAssumption
<1>3. known \in Seq(Directory) /\ IsInjective(known) /\ Begins(paths, known)
  BY <1>2, PackagePathsExtend
<1>4. Lookup(n).paths = IF n \in Outright[Caller] /\ file # Absent
                        THEN PackagePaths(known, Around[file]) ELSE known
  BY DEF Lookup
<1>5. CASE n \in Outright[Caller] /\ file # Absent
  <2>1. file \in Path
    BY <1>1, <1>5, PathAssumption
  <2> HIDE DEF known, file
  <2>2. Around[file] \in Seq(Directory)
    BY <2>1, PathAssumption
  <2>3. /\ Lookup(n).paths \in Seq(Directory) /\ IsInjective(Lookup(n).paths)
        /\ Begins(known, Lookup(n).paths)
    BY <1>3, <1>4, <1>5, <2>2, PackagePathsExtend
  <2>4. Len(paths) \in Nat /\ Len(known) \in Nat /\ Len(Lookup(n).paths) \in Nat
    BY <1>3, <2>3
  <2>5. Begins(paths, Lookup(n).paths)
    BY <1>3, <2>3, <2>4 DEF Begins
  <2> QED
    BY <2>3, <2>5
<1>6. CASE ~(n \in Outright[Caller] /\ file # Absent)
  BY <1>3, <1>4, <1>6
<1> QED
  BY <1>5, <1>6

\* The directories are places, none of them twice.
PlacesOnce == paths \in Seq(Directory) /\ IsInjective(paths)

\* Every step keeps them, each in its place.
LEMMA PlacesStep ==
  ASSUME Types, PlacesOnce, [Next]_vars
  PROVE  PlacesOnce' /\ Begins(paths, paths')
<1>1. paths' = paths \/ \E n \in Relative \cup Bare : paths' = Lookup(n).paths
  BY DEF Next, Uncached, Cached, LoadFails, Load, Replace, Returns, Throws, ThrowsStray,
         vars, cache
<1>2. CASE paths' = paths
  BY <1>2 DEF PlacesOnce, Begins
<1>3. ASSUME NEW n \in Relative \cup Bare, paths' = Lookup(n).paths
      PROVE  PlacesOnce' /\ Begins(paths, paths')
  BY <1>3, LookupExtends DEF PlacesOnce
<1> QED
  BY <1>1, <1>2, <1>3

LEMMA Places == Spec => []PlacesOnce
<1>1. Init => PlacesOnce
  BY DEF Init, PlacesOnce, IsInjective
<1>2. IInv /\ PlacesOnce /\ [Next]_vars => PlacesOnce'
  BY PlacesStep DEF IInv
<1> QED
  BY <1>1, <1>2, Invariance, PTL DEF Spec

\* A package once found is found in the same place ever after, whatever
\* directories the modules loaded from then on add to the search.
THEOREM PackagesDoStay == Spec => PackagesStay
<1>1. IInv /\ PlacesOnce /\ [Next]_vars =>
        [\A n \in Bare : FindPackage(paths, n) # Absent
                           => FindPackage(paths', n) = FindPackage(paths, n)]_paths
  <2> SUFFICES ASSUME IInv, PlacesOnce, [Next]_vars,
                      NEW n \in Bare, FindPackage(paths, n) # Absent
               PROVE  FindPackage(paths', n) = FindPackage(paths, n)
    OBVIOUS
  <2>1. PlacesOnce' /\ Begins(paths, paths')
    BY PlacesStep DEF IInv
  <2> QED
    BY <2>1, FoundAgain DEF PlacesOnce
<1> QED
  BY <1>1, Invariance, Places, PTL DEF Spec, PackagesStay

\* What the variables hold: the stacks of names and contexts, the cache, and
\* the list of directories, in which no directory comes twice.
THEOREM TypeCorrect == Spec => []TypeOK
<1> DEFINE Rest == failed \in SUBSET Id /\ answer \in [id : Id \cup {Absent}, object : Objects]
<1>1. Init => Rest
  BY DEF Init, Objects
<1>2. IInv /\ PlacesOnce /\ Rest /\ [Next]_vars => Rest'
  <2> SUFFICES ASSUME IInv, PlacesOnce, Rest, [Next]_vars PROVE Rest'
    OBVIOUS
  <2>1. \A p \in Path : Real[p] \in Id
    BY PathAssumption
  <2>2. ASSUME NEW n, NEW file \in Path, Cached(n, file) PROVE Rest'
    BY <2>1, <2>2 DEF Cached, IInv, Types
  <2>3. ASSUME NEW n, NEW file \in Path, LoadFails(n, file) PROVE Rest'
    BY <2>1, <2>3 DEF LoadFails
  <2>4. running # << >> => Loading \in Id /\ ctx[Loading] \in Objects
    <3>1. running # << >> => Last(running) \in Path
      BY Shrunk DEF IInv, Types
    <3> QED
      BY <2>1, <3>1 DEF Loading, IInv, Types
  <2>5. CASE Returns
    BY <2>4, <2>5 DEF Returns
  <2>6. CASE Throws \/ ThrowsStray
    BY <2>4, <2>6 DEF Throws, ThrowsStray
  <2>7. CASE UNCHANGED <<failed, answer>>
    BY <2>7
  <2> QED
    BY <2>2, <2>3, <2>5, <2>6, <2>7
    DEF Next, Uncached, Load, Replace, vars, history
<1>3. IInv /\ PlacesOnce /\ Rest => TypeOK
  BY DEF IInv, Types, PlacesOnce, TypeOK
<1> QED
  BY <1>1, <1>2, <1>3, Invariance, Places, PTL DEF Spec

----------------------------------------------------------------------------
(***************************************************************************)
(* The imports that qjsm answers (ModuleLoader).                           *)
(***************************************************************************)

\* js_host_resolve_imported_module takes the first module of a name.
LEMMA FirstOfName ==
  ASSUME NEW n
  PROVE  /\ ModuleOf(n) = 0 => \A k \in 1..Len(loaded) : loaded[k] # n
         /\ ModuleOf(n) # 0 => /\ ModuleOf(n) \in 1..Len(loaded)
                               /\ loaded[ModuleOf(n)] = n
                               /\ \A k \in 1..Len(loaded) : loaded[k] = n => ModuleOf(n) <= k
<1> DEFINE I == {i \in 1..Len(loaded) : loaded[i] = n}
<1>1. ModuleOf(n) = IF I # {} THEN Min(I) ELSE 0
  BY DEF ModuleOf, SelectInSeq
<1>2. I \in SUBSET Nat /\ 0 \notin I
  OBVIOUS
<1>3. \A k \in 1..Len(loaded) : k \in I <=> loaded[k] = n
  OBVIOUS
<1>4. I \subseteq 1..Len(loaded) /\ \A k \in I : loaded[k] = n
  OBVIOUS
<1> HIDE DEF I
<1>5. I # {} => Min(I) \in I /\ \A k \in I : Min(I) <= k
  BY <1>2, MinIsLeast
<1> QED
  BY <1>1, <1>2, <1>3, <1>4, <1>5

\* jsm_module_find takes the first that matches.
LEMMA FirstThatMatches ==
  ASSUME NEW n
  PROVE  /\ ModuleFind(n) = 0 => \A k \in 1..Len(loaded) : ~Matches(loaded[k], n)
         /\ ModuleFind(n) # 0 => /\ ModuleFind(n) \in 1..Len(loaded)
                                 /\ Matches(loaded[ModuleFind(n)], n)
                                 /\ \A k \in 1..Len(loaded) :
                                      Matches(loaded[k], n) => ModuleFind(n) <= k
<1> DEFINE I == {i \in 1..Len(loaded) : Matches(loaded[i], n)}
<1>1. ModuleFind(n) = IF I # {} THEN Min(I) ELSE 0
  BY DEF ModuleFind, SelectInSeq
<1>2. I \in SUBSET Nat /\ 0 \notin I
  OBVIOUS
<1>3. \A k \in 1..Len(loaded) : k \in I <=> Matches(loaded[k], n)
  OBVIOUS
<1>4. I \subseteq 1..Len(loaded) /\ \A k \in I : Matches(loaded[k], n)
  OBVIOUS
<1> HIDE DEF I
<1>5. I # {} => Min(I) \in I /\ \A k \in I : Min(I) <= k
  BY <1>2, MinIsLeast
<1> QED
  BY <1>1, <1>2, <1>3, <1>4, <1>5

\* A name with another place, or other extensions.
LEMMA Placed ==
  ASSUME NEW n \in FileNames, NEW at \in Seq(Part)
  PROVE  /\ [n EXCEPT !.at = at] \in FileNames
         /\ [n EXCEPT !.at = at].at = at
         /\ [n EXCEPT !.at = at].base = n.base
         /\ [n EXCEPT !.at = at].exts = n.exts
BY DEF FileNames

\* What is found has the name of its file, in a directory of the path.
LEMMA ExtFound ==
  ASSUME installation \in Installations, NEW n \in FileNames, NEW ext \in Part,
         FindModuleExt(n, ext) # NotFound
  PROVE  LET file == FindModuleExt(n, ext)
         IN  /\ file \in FileNames
             /\ file.base = n.base
             /\ file.exts = n.exts \/ file.exts = Append(n.exts, ext)
<1> DEFINE in(dir) == [n EXCEPT !.at = dir \o @, !.exts = IF HasExt(n, ext) THEN @ ELSE Append(@, ext)]
           I == {i \in 1..Len(installation.path) : Exists(in(installation.path[i]))}
<1>1. FindModuleExt(n, ext) =
        IF (IF I # {} THEN Min(I) ELSE 0) = 0 THEN NotFound
        ELSE in(installation.path[IF I # {} THEN Min(I) ELSE 0])
  BY DEF FindModuleExt, SelectInSeq
<1> HIDE DEF in
<1>2. I \in SUBSET Nat /\ I \subseteq 1..Len(installation.path)
  OBVIOUS
<1>3. \A dir \in Seq(Part) :
        /\ in(dir) \in FileNames /\ in(dir).base = n.base
        /\ in(dir).exts = n.exts \/ in(dir).exts = Append(n.exts, ext)
  <2>1. TAKE dir \in Seq(Part)
  <2>2. n.at \in Seq(Part) /\ n.exts \in Seq(Part)
    BY DEF FileNames
  <2>3. dir \o n.at \in Seq(Part) /\ Append(n.exts, ext) \in Seq(Part)
    BY <2>2
  <2> DEFINE exts == IF HasExt(n, ext) THEN n.exts ELSE Append(n.exts, ext)
  <2>4. exts \in Seq(Part) /\ (exts = n.exts \/ exts = Append(n.exts, ext))
    BY <2>2, <2>3
  <2> DEFINE m == [n EXCEPT !.at = dir \o n.at, !.exts = exts]
  <2>5. in(dir) = m
    BY DEF in
  <2> HIDE DEF exts
  <2>6. m \in FileNames /\ m.base = n.base /\ m.exts = exts
    BY <2>2, <2>3, <2>4 DEF FileNames
  <2> HIDE DEF m
  <2> QED
    BY <2>4, <2>5, <2>6
<1> HIDE DEF I
<1>4. I # {}
  BY <1>1
<1>5. Min(I) \in I
  BY <1>2, <1>4, MinIsLeast
<1>6. FindModuleExt(n, ext) = in(installation.path[Min(I)])
  BY <1>1, <1>4
<1>7. installation.path[Min(I)] \in Seq(Part)
  <2>1. installation.path \in Seq(Seq(Part))
    BY LoaderAssumption
  <2>2. Min(I) \in 1..Len(installation.path)
    BY <1>2, <1>5
  <2> QED
    BY <2>1, <2>2, ElementOfSeq
<1> QED
  BY <1>3, <1>6, <1>7

\* A name that is trimmed is a name, and one without a "/" stays what it is.
LEMMA Trimmed ==
  ASSUME NEW n \in FileNames
  PROVE  /\ TrimDotSlash(n) \in FileNames
         /\ TrimAll(n) \in FileNames
         /\ IsBare(n) => TrimAll(n) = n
<1>1. n.at \in Seq(Part) /\ Len(n.at) \in Nat
  BY DEF FileNames
<1>2. TrimDotSlash(n) \in FileNames
  <2>1. n.at # << >> => Tail(n.at) \in Seq(Part)
    BY <1>1, HeadTailProperties
  <2> QED
    BY <2>1, Placed DEF TrimDotSlash
<1> DEFINE I == {i \in 1..Len(n.at) : n.at[i] # "."}
<1>3. TrimAll(n) = [n EXCEPT !.at = IF (IF I # {} THEN Min(I) ELSE 0) = 0 THEN << >>
                                    ELSE SubSeq(n.at, IF I # {} THEN Min(I) ELSE 0, Len(n.at))]
  BY DEF TrimAll, SelectInSeq
<1>4. I \in SUBSET Nat /\ I \subseteq 1..Len(n.at) /\ 0 \notin I
  OBVIOUS
<1>5. n.at = << >> => I = {}
  OBVIOUS
<1> HIDE DEF I
<1>6. I # {} => Min(I) \in I
  BY <1>4, MinIsLeast
<1>7. I # {} => SubSeq(n.at, Min(I), Len(n.at)) \in Seq(Part)
  <2>1. SUFFICES ASSUME I # {} PROVE SubSeq(n.at, Min(I), Len(n.at)) \in Seq(Part)
    OBVIOUS
  <2>2. Min(I) \in 1..Len(n.at)
    BY <1>4, <1>6, <2>1
  <2> QED
    BY <1>1, <2>2, SubSeqProperties
<1>8. << >> \in Seq(Part)
  OBVIOUS
<1>9. TrimAll(n) = [n EXCEPT !.at = IF I = {} THEN << >> ELSE SubSeq(n.at, Min(I), Len(n.at))]
  BY <1>3, <1>4, <1>6
<1>10. TrimAll(n) \in FileNames
  BY <1>7, <1>8, <1>9, Placed
<1>11. ASSUME IsBare(n) PROVE TrimAll(n) = n
  <2>1. TrimAll(n) = [n EXCEPT !.at = n.at]
    BY <1>5, <1>9, <1>11 DEF IsBare
  <2> QED
    BY <2>1 DEF FileNames
<1> QED
  BY <1>2, <1>10, <1>11

\* A name is what its parts are.
LEMMA SameName ==
  ASSUME NEW k \in FileNames, NEW n \in FileNames, k.at = n.at, k.base = n.base, k.exts = n.exts
  PROVE  k = n
<1>1. \A m \in FileNames : m = [at |-> m.at, base |-> m.base, exts |-> m.exts]
  BY DEF FileNames
<1>2. k = [at |-> k.at, base |-> k.base, exts |-> k.exts]
  BY <1>1
<1>3. n = [at |-> n.at, base |-> n.base, exts |-> n.exts]
  BY <1>1
<1> QED
  BY <1>2, <1>3

\* A name without a "/" matches by what its file is called.
LEMMA BareMatch ==
  ASSUME NEW m \in FileNames, NEW n \in FileNames, IsBare(n)
  PROVE  Matches(m, n) <=> /\ m.base = n.base
                           /\ m.exts = n.exts \/ (m.exts # << >> /\ Front(m.exts) = n.exts)
<1>1. n.at = << >> /\ << >> \in Seq(Part) /\ m.exts \in Seq(Part) /\ n.exts \in Seq(Part)
  BY DEF IsBare, FileNames
<1>2. /\ Basename(m) \in FileNames /\ Basename(m).at = << >>
      /\ Basename(m).base = m.base /\ Basename(m).exts = m.exts
  BY <1>1, Placed DEF Basename
<1>3. \A k \in FileNames : k.at = << >> => (k = n <=> k.base = n.base /\ k.exts = n.exts)
  BY <1>1, SameName
<1>4. m = n => Basename(m) = n
  BY <1>2, <1>3
<1>5. ASSUME m.exts # << >>
      PROVE  Stem(Basename(m)) = n <=> m.base = n.base /\ Front(m.exts) = n.exts
  <2>1. Front(m.exts) \in Seq(Part)
    BY <1>1, <1>5, Shrunk
  <2> DEFINE k == [Basename(m) EXCEPT !.exts = Front(m.exts)]
  <2>2. Stem(Basename(m)) = k
    BY <1>2, <1>5 DEF Stem
  <2>3. k \in FileNames /\ k.at = << >> /\ k.base = m.base /\ k.exts = Front(m.exts)
    BY <1>2, <2>1 DEF FileNames
  <2> HIDE DEF k
  <2> QED
    BY <1>3, <2>2, <2>3
<1>6. m.exts = << >> => Stem(Basename(m)) = Basename(m)
  BY <1>2 DEF Stem
<1>7. Matches(m, n) <=> Basename(m) = n \/ Stem(Basename(m)) = n
  BY <1>4 DEF Matches
<1>8. Basename(m) = n <=> m.base = n.base /\ m.exts = n.exts
  BY <1>2, <1>3
<1>9. CASE m.exts = << >>
  BY <1>6, <1>7, <1>8, <1>9
<1>10. CASE m.exts # << >>
  BY <1>5, <1>7, <1>8, <1>10
<1> QED
  BY <1>9, <1>10

\* FileNames of one file match the same names without a "/".
LEMMA SameFile ==
  ASSUME NEW l \in FileNames, NEW m \in FileNames, Clean(l) = Clean(m), NEW n \in FileNames, IsBare(n),
         Matches(m, n)
  PROVE  Matches(l, n)
<1>1. \A k \in FileNames : \A at : [k EXCEPT !.at = at].base = k.base /\ [k EXCEPT !.at = at].exts = k.exts
  BY DEF FileNames
<1>2. l.base = m.base /\ l.exts = m.exts
  BY <1>1 DEF Clean
<1> QED
  BY <1>2, BareMatch

\* jsm_find_module finds a file that the name without a "/" matches.
LEMMA FoundMatches ==
  ASSUME installation \in Installations, NEW n \in FileNames, FindModule(n) # NotFound
  PROVE  FindModule(n) \in FileNames /\ (IsBare(n) => Matches(FindModule(n), n))
<1> DEFINE t == TrimAll(n)
<1>1. t \in FileNames /\ (IsBare(n) => t = n)
  BY Trimmed
<1>2. PICK ext \in {"so", "js"} : FindModule(n) = FindModuleExt(t, ext)
  BY DEF FindModule
<1>0. ext \in Part
  BY LoaderAssumption
<1> HIDE DEF t
<1> DEFINE file == FindModuleExt(t, ext)
<1>3. file \in FileNames /\ file.base = t.base /\ (file.exts = t.exts \/ file.exts = Append(t.exts, ext))
  BY <1>0, <1>1, <1>2, ExtFound
<1> HIDE DEF file
<1>4. ASSUME IsBare(n), file.exts = Append(n.exts, ext)
      PROVE  file.exts # << >> /\ Front(file.exts) = n.exts
  <2>1. n.exts \in Seq(Part) /\ ext \in Part
    BY <1>0 DEF FileNames
  <2>2. /\ file.exts \in Seq(Part) /\ file.exts # << >> /\ Len(file.exts) = Len(n.exts) + 1
        /\ \A k \in 1..Len(n.exts) : file.exts[k] = n.exts[k]
    BY <1>4, <2>1, Grown
  <2>3. /\ Front(file.exts) \in Seq(Part) /\ Len(Front(file.exts)) = Len(n.exts)
        /\ \A k \in 1..Len(n.exts) : Front(file.exts)[k] = n.exts[k]
    <3>1. Len(n.exts) \in Nat /\ Len(file.exts) - 1 = Len(n.exts)
      BY <2>1, <2>2
    <3>2. /\ Front(file.exts) \in Seq(Part) /\ Len(Front(file.exts)) = Len(file.exts) - 1
          /\ \A k \in 1..(Len(file.exts) - 1) : Front(file.exts)[k] = file.exts[k]
      BY <2>2, Shrunk
    <3> QED
      BY <2>2, <3>1, <3>2
  <2>4. Front(file.exts) = n.exts
    BY <2>1, <2>3, SeqEqual
  <2> QED
    BY <2>2, <2>4
<1>5. ASSUME IsBare(n) PROVE Matches(file, n)
  <2>1. file.base = n.base /\ (file.exts = n.exts \/ file.exts = Append(n.exts, ext))
    BY <1>1, <1>3, <1>5
  <2> QED
    BY <1>3, <1>4, <1>5, <2>1, BareMatch
<1> QED
  BY <1>2, <1>3, <1>5 DEF file

(***************************************************************************)
(* What was imported gives the first module that it may give, and a module *)
(* that was loaded for a plain name is the first that matches it.          *)
(***************************************************************************)
Searching ==
  asked # NoImport =>
    /\ \A k \in 1..Len(loaded) : loaded[k] # asked.name
    /\ \/ asked.module = TrimDotSlash(asked.name)
       \/ TrimDotSlash(asked.name) \in DOMAIN installation.aliases

FirstExact(x) ==
  loaded[x[2]] = x[1] => \A k \in 1..Len(loaded) : loaded[k] = x[1] => x[2] <= k

FirstMatch(n, j) == \A k \in 1..Len(loaded) : Matches(loaded[k], TrimDotSlash(n)) => j <= k

Rightly(x) ==
  /\ FirstExact(x)
  /\ Plain(x[1]) => /\ Matches(loaded[x[2]], TrimDotSlash(x[1]))
                    /\ loaded[x[2]] = x[1] \/ FirstMatch(x[1], x[2])

LoadedFor(j, x) ==
  /\ x[2] = j
  /\ Plain(x[1]) => loaded[j] = FindModule(TrimDotSlash(x[1])) /\ FirstMatch(x[1], j)

StartsBuiltIn == Len(BuiltIn) <= Len(loaded) /\ \A k \in 1..Len(BuiltIn) : loaded[k] = BuiltIn[k]

Reasons == \A j \in 1..Len(loaded) : j > Len(BuiltIn) => \E x \in got : LoadedFor(j, x)

LoaderInv == LoaderTypeOK /\ StartsBuiltIn /\ Searching /\ (\A x \in got : Rightly(x)) /\ Reasons

\* The built-in modules have names, of different files.
LEMMA BuiltInNames ==
  /\ BuiltIn \in Seq(FileNames) /\ Len(BuiltIn) \in Nat
  /\ \A i, j \in 1..Len(BuiltIn) : Clean(BuiltIn[i]) = Clean(BuiltIn[j]) => i = j
<1>1. BuiltIn \in Seq(FileNames)
  BY LoaderAssumption
<1>2. Len(BuiltIn) \in Nat /\ DOMAIN BuiltIn = 1..Len(BuiltIn)
  BY <1>1, LenProperties
<1> QED
  BY <1>1, <1>2, LoaderAssumption

\* A plain name means the same all the time.
LEMMA SamePlain ==
  ASSUME installation' = installation, NEW n
  PROVE  (Plain(n)' <=> Plain(n)) /\ FindModule(n)' = FindModule(n)
<1>1. Plain(n)' <=> Plain(n)
  BY DEF Plain
<1>2. \A m, ext : FindModuleExt(m, ext)' = FindModuleExt(m, ext)
  BY DEF FindModuleExt, SelectInSeq, Exists
<1> QED
  BY <1>1, <1>2 DEF FindModule

\* A module of exactly the name matches what is left of it.
LEMMA ExactMatches ==
  ASSUME NEW n \in FileNames, IsBare(TrimDotSlash(n))
  PROVE  Matches(n, TrimDotSlash(n))
<1>1. TrimDotSlash(n) \in FileNames
  BY Trimmed
<1>2. n.at \in Seq(Part) /\ (n.at # << >> => Tail(n.at) \in Seq(Part))
  BY HeadTailProperties DEF FileNames
<1>3. TrimDotSlash(n).base = n.base /\ TrimDotSlash(n).exts = n.exts
  BY <1>2, Placed DEF TrimDotSlash
<1> QED
  BY <1>1, <1>3, BareMatch

\* A normalized name is a name.
LEMMA NormalizedName ==
  ASSUME NEW from \in FileNames, NEW name \in FileNames
  PROVE  Normalized(from, name) \in FileNames
<1>1. from.at \in Seq(Part) /\ name.at \in Seq(Part)
  BY DEF FileNames
<1>2. name.at # << >> => from.at \o Tail(name.at) \in Seq(Part)
  BY <1>1, HeadTailProperties
<1> QED
  BY <1>2, Placed DEF Normalized

\* A pair that comes to the others, while nothing is loaded.
LEMMA OneMorePair ==
  ASSUME LoaderInv, NEW x \in FileNames \X DOMAIN loaded, Rightly(x),
         got' = got \cup {x}, UNCHANGED <<installation, loaded>>,
         asked' # NoImport => asked' = asked
  PROVE  LoaderInv'
<1>1. LoaderTypeOK'
  BY DEF LoaderInv, LoaderTypeOK
<1>2. StartsBuiltIn' /\ Searching'
  BY DEF LoaderInv, StartsBuiltIn, Searching
<1>3. \A n : (Plain(n)' <=> Plain(n)) /\ FindModule(n)' = FindModule(n)
  BY SamePlain
<1>4. \A y : Rightly(y)' <=> Rightly(y)
  BY <1>3 DEF Rightly, FirstExact, FirstMatch
<1>5. \A y \in got' : Rightly(y)'
  BY <1>4 DEF LoaderInv
<1>6. \A j, y : LoadedFor(j, y)' <=> LoadedFor(j, y)
  BY <1>3 DEF LoadedFor, FirstMatch
<1>7. Reasons'
  BY <1>6 DEF LoaderInv, Reasons
<1> QED
  BY <1>1, <1>2, <1>5, <1>7 DEF LoaderInv

\* An import goes on, or fails.
LEMMA AnotherQuestion ==
  ASSUME LoaderInv, UNCHANGED <<installation, loaded, got>>, Searching',
         asked' # NoImport => asked' \in [name : FileNames, module : FileNames]
  PROVE  LoaderInv'
<1>1. LoaderTypeOK'
  BY DEF LoaderInv, LoaderTypeOK
<1>2. StartsBuiltIn'
  BY DEF LoaderInv, StartsBuiltIn
<1>3. \A n : (Plain(n)' <=> Plain(n)) /\ FindModule(n)' = FindModule(n)
  BY SamePlain
<1>4. \A y \in got' : Rightly(y)'
  BY <1>3 DEF LoaderInv, Rightly, FirstExact, FirstMatch
<1>5. \A j, y : LoadedFor(j, y)' <=> LoadedFor(j, y)
  BY <1>3 DEF LoadedFor, FirstMatch
<1>6. Reasons'
  BY <1>5 DEF LoaderInv, Reasons
<1> QED
  BY <1>1, <1>2, <1>4, <1>6 DEF LoaderInv

\* js_host_resolve_imported_module has a module of the name.
LEMMA ImportLoadedInv ==
  ASSUME LoaderInv, NEW n \in FileNames, ImportLoaded(n)
  PROVE  LoaderInv'
<1> DEFINE k == ModuleOf(n)
<1>1. /\ k \in 1..Len(loaded) /\ loaded[k] = n
      /\ \A i \in 1..Len(loaded) : loaded[i] = n => k <= i
  BY FirstOfName DEF ImportLoaded
<1>2. got' = got \cup {<<n, k>>} /\ UNCHANGED <<installation, loaded>> /\ asked' = asked
  BY DEF ImportLoaded
<1> HIDE DEF k
<1>3. DOMAIN loaded = 1..Len(loaded)
  BY DEF LoaderInv, LoaderTypeOK
<1>4. Plain(n) => Matches(n, TrimDotSlash(n))
  BY ExactMatches DEF Plain
<1>5. Rightly(<<n, k>>)
  BY <1>1, <1>4 DEF Rightly, FirstExact
<1> QED
  BY <1>1, <1>2, <1>3, <1>5, OneMorePair

\* jsm_module_loader_path is called.
LEMMA CallLoaderInv ==
  ASSUME LoaderInv, NEW n \in FileNames, CallLoader(n)
  PROVE  LoaderInv'
<1>1. asked' = [name |-> n, module |-> TrimDotSlash(n)] /\ UNCHANGED <<installation, loaded, got>>
  BY DEF CallLoader
<1>2. asked' \in [name : FileNames, module : FileNames]
  BY <1>1, Trimmed
<1>3. asked'.name = n /\ asked'.module = TrimDotSlash(n)
  BY <1>1
<1>4. \A k \in 1..Len(loaded) : loaded[k] # n
  BY FirstOfName DEF CallLoader
<1>5. Searching'
  BY <1>1, <1>3, <1>4 DEF Searching
<1> QED
  BY <1>1, <1>2, <1>5, AnotherQuestion

\* It finds a module that is loaded.
LEMMA UseKnownInv ==
  ASSUME LoaderInv, UseKnown
  PROVE  LoaderInv'
<1> DEFINE n == asked.name
           k == ModuleFind(asked.module)
<1>1. asked # NoImport /\ asked \in [name : FileNames, module : FileNames]
  BY DEF UseKnown, LoaderInv, LoaderTypeOK
<1>2. n \in FileNames /\ (\A i \in 1..Len(loaded) : loaded[i] # n)
  BY <1>1 DEF LoaderInv, Searching
<1>3. /\ k \in 1..Len(loaded) /\ Matches(loaded[k], asked.module)
      /\ \A i \in 1..Len(loaded) : Matches(loaded[i], asked.module) => k <= i
  BY FirstThatMatches DEF UseKnown, Known
<1>4. got' = got \cup {<<n, k>>} /\ UNCHANGED <<installation, loaded>> /\ asked' = NoImport
  BY DEF UseKnown
<1>5. Plain(n) => asked.module = TrimDotSlash(n)
  BY <1>1 DEF LoaderInv, Searching, Plain
<1> HIDE DEF n, k
<1>6. DOMAIN loaded = 1..Len(loaded)
  BY DEF LoaderInv, LoaderTypeOK
<1>7. Rightly(<<n, k>>)
  BY <1>2, <1>3, <1>5 DEF Rightly, FirstExact, FirstMatch
<1> QED
  BY <1>2, <1>3, <1>4, <1>6, <1>7, OneMorePair

\* It follows an alias.
LEMMA FollowAliasInv ==
  ASSUME LoaderInv, FollowAlias
  PROVE  LoaderInv'
<1>1. asked # NoImport /\ asked \in [name : FileNames, module : FileNames]
  BY DEF FollowAlias, LoaderInv, LoaderTypeOK
<1>2. /\ asked.module \in DOMAIN installation.aliases
      /\ asked' = [asked EXCEPT !.module = installation.aliases[asked.module]]
      /\ UNCHANGED <<installation, loaded, got>>
  BY DEF FollowAlias
<1>3. installation.aliases[asked.module] \in FileNames
  BY <1>2, LoaderAssumption DEF LoaderInv, LoaderTypeOK
<1>4. asked' \in [name : FileNames, module : FileNames] /\ asked'.name = asked.name
  BY <1>1, <1>2, <1>3
<1>5. Searching'
  BY <1>1, <1>2, <1>4 DEF LoaderInv, Searching
<1> QED
  BY <1>2, <1>4, <1>5, AnotherQuestion

\* It loads a file.
LEMMA FileLoads ==
  ASSUME LoaderInv, NEW name \in FileNames, NEW file \in FileNames, NEW L \in Nat,
         L = Len(loaded), \A i \in 1..L : loaded[i] # name,
         Plain(name) => /\ file = FindModule(TrimDotSlash(name))
                        /\ Matches(file, TrimDotSlash(name))
                        /\ \A i \in 1..L : ~Matches(loaded[i], TrimDotSlash(name)),
         loaded' = Append(loaded, file), got' = got \cup {<<name, L + 1>>},
         asked' = NoImport, installation' = installation
  PROVE  LoaderInv'
<1>1. /\ installation \in Installations /\ loaded \in Seq(FileNames)
      /\ got \subseteq FileNames \X (1..L)
  BY DEF LoaderInv, LoaderTypeOK
<1>2. /\ loaded' \in Seq(FileNames) /\ Len(loaded') = L + 1 /\ loaded'[L + 1] = file
      /\ \A i \in 1..L : loaded'[i] = loaded[i]
  BY <1>1, Grown
<1>3. DOMAIN loaded' = 1..(L + 1) /\ 1..(L + 1) = (1..L) \cup {L + 1} /\ L + 1 \in 1..(L + 1)
  BY <1>2
<1>4. LoaderTypeOK'
  <2>1. got' \subseteq FileNames \X (1..(L + 1))
    BY <1>1, <1>3
  <2> QED
    BY <1>1, <1>2, <1>3, <2>1 DEF LoaderTypeOK
<1>5. StartsBuiltIn' /\ Searching'
  <2>1. Len(BuiltIn) <= L /\ \A k \in 1..Len(BuiltIn) : loaded[k] = BuiltIn[k]
    BY DEF LoaderInv, StartsBuiltIn
  <2>2. Len(BuiltIn) <= L + 1 /\ \A k \in 1..Len(BuiltIn) : k \in 1..L
    BY <2>1, BuiltInNames
  <2> QED
    BY <1>2, <2>1, <2>2 DEF StartsBuiltIn, Searching
<1>6. \A m : (Plain(m)' <=> Plain(m)) /\ FindModule(m)' = FindModule(m)
  BY SamePlain
<1>7. ASSUME NEW n, NEW j \in 1..L PROVE FirstMatch(n, j) => FirstMatch(n, j)'
  <2>1. j <= L + 1
    OBVIOUS
  <2> QED
    BY <1>2, <1>3, <2>1 DEF FirstMatch
<1>8. Plain(name) => Matches(file, TrimDotSlash(name)) /\ FirstMatch(name, L + 1)'
  BY <1>2, <1>3 DEF FirstMatch
<1>9. ASSUME NEW y \in got PROVE Rightly(y)'
  <2>1. y[2] \in 1..L /\ Rightly(y)
    BY <1>1 DEF LoaderInv
  <2>2. y[2] <= L + 1 /\ loaded'[y[2]] = loaded[y[2]]
    BY <1>2, <2>1
  <2>3. FirstExact(y)'
    BY <1>2, <1>3, <2>1, <2>2 DEF Rightly, FirstExact
  <2> QED
    BY <1>6, <1>7, <2>1, <2>2, <2>3 DEF Rightly
<1>10. Rightly(<<name, L + 1>>)'
  <2>1. FirstExact(<<name, L + 1>>)'
    BY <1>2, <1>3 DEF FirstExact
  <2> QED
    BY <1>2, <1>6, <1>8, <2>1 DEF Rightly
<1>11. Reasons'
  <2>1. ASSUME NEW j \in 1..L, j > Len(BuiltIn) PROVE \E y \in got' : LoadedFor(j, y)'
    <3>1. PICK y \in got : LoadedFor(j, y)
      BY <2>1 DEF LoaderInv, Reasons
    <3>2. LoadedFor(j, y)'
      BY <1>2, <1>6, <1>7, <3>1 DEF LoadedFor
    <3> QED
      BY <3>2
  <2>2. LoadedFor(L + 1, <<name, L + 1>>)'
    BY <1>2, <1>6, <1>8 DEF LoadedFor
  <2> QED
    BY <1>2, <1>3, <2>1, <2>2 DEF Reasons
<1> QED
  BY <1>4, <1>5, <1>9, <1>10, <1>11 DEF LoaderInv

\* It looks for a file, and loads it, or the import fails.
LEMMA LoadFileInv ==
  ASSUME LoaderInv, LoadFile
  PROVE  LoaderInv'
<1> DEFINE n == asked.module
           file == IF IsAbsolute(n) THEN n ELSE FindModule(n)
<1>1. /\ asked # NoImport /\ asked \in [name : FileNames, module : FileNames]
      /\ installation \in Installations /\ Len(loaded) \in Nat
  BY DEF LoadFile, LoaderInv, LoaderTypeOK
<1>2. n \in FileNames /\ asked.name \in FileNames /\ (\A i \in 1..Len(loaded) : loaded[i] # asked.name)
  BY <1>1 DEF LoaderInv, Searching
<1>3. ~Known(n) /\ asked' = NoImport /\ installation' = installation
  BY DEF LoadFile
<1>4. CASE UNCHANGED <<loaded, got>>
  <2>1. Searching'
    BY <1>3 DEF Searching
  <2> QED
    BY <1>3, <1>4, <2>1, AnotherQuestion
<1>5. CASE /\ file # NotFound /\ loaded' = Append(loaded, file)
           /\ got' = got \cup {<<asked.name, Len(loaded) + 1>>}
  <2>1. file \in FileNames
    BY <1>1, <1>2, <1>5, FoundMatches
  <2>2. ASSUME Plain(asked.name)
        PROVE  /\ file = FindModule(TrimDotSlash(asked.name))
               /\ Matches(file, TrimDotSlash(asked.name))
               /\ \A i \in 1..Len(loaded) : ~Matches(loaded[i], TrimDotSlash(asked.name))
    <3>1. n = TrimDotSlash(asked.name) /\ IsBare(n)
      BY <1>1, <2>2 DEF LoaderInv, Searching, Plain
    <3>2. file = FindModule(n)
      BY <3>1 DEF IsAbsolute, IsBare
    <3>3. Matches(file, n)
      BY <1>1, <1>2, <1>5, <3>1, <3>2, FoundMatches
    <3>4. ModuleFind(n) = 0
      BY <1>3, <3>1 DEF Known
    <3> QED
      BY <3>1, <3>2, <3>3, <3>4, FirstThatMatches
  <2> HIDE DEF file, n
  <2> QED
    BY <1>1, <1>2, <1>3, <1>5, <2>1, <2>2, FileLoads
<1> QED
  BY <1>4, <1>5 DEF LoadFile

\* At the start nothing but the built-in modules is loaded, and nothing imported.
LEMMA LoaderInitInv == LoaderInit => LoaderInv
<1> SUFFICES ASSUME LoaderInit PROVE LoaderInv
  OBVIOUS
<1>1. loaded = BuiltIn /\ got = {} /\ asked = NoImport /\ installation \in Installations
  BY DEF LoaderInit
<1>2. LoaderTypeOK
  BY <1>1, BuiltInNames DEF LoaderTypeOK
<1>3. StartsBuiltIn /\ Searching /\ Reasons
  BY <1>1, BuiltInNames DEF StartsBuiltIn, Searching, Reasons
<1> QED
  BY <1>1, <1>2, <1>3 DEF LoaderInv

\* Every import, and every step of the loader, leaves it so.
LEMMA LoaderNextInv == LoaderInv /\ [LoaderNext]_loaderVars => LoaderInv'
<1> SUFFICES ASSUME LoaderInv, [LoaderNext]_loaderVars PROVE LoaderInv'
  OBVIOUS
<1>1. ASSUME NEW from \in ToSet(loaded), NEW name \in Imports,
             ImportLoaded(Normalized(from, name)) \/ CallLoader(Normalized(from, name))
      PROVE  LoaderInv'
  <2>1. PICK k \in DOMAIN loaded : from = loaded[k]
    BY DEF ToSet
  <2>2. from \in FileNames
    BY <2>1 DEF LoaderInv, LoaderTypeOK
  <2>3. name \in FileNames
    BY LoaderAssumption
  <2> QED
    BY <1>1, <2>2, <2>3, NormalizedName, ImportLoadedInv, CallLoaderInv
<1>2. CASE UNCHANGED loaderVars
  <2>1. Searching' /\ UNCHANGED <<installation, loaded, got>> /\ asked' = asked
    BY <1>2 DEF loaderVars, LoaderInv, Searching
  <2>2. asked' # NoImport => asked' \in [name : FileNames, module : FileNames]
    BY <2>1 DEF LoaderInv, LoaderTypeOK
  <2> QED
    BY <2>1, <2>2, AnotherQuestion
<1> QED
  BY <1>1, <1>2, UseKnownInv, FollowAliasInv, LoadFileInv DEF LoaderNext, Loader

\* The invariant holds in every order of imports.
LEMMA LoaderInvariance == LoaderSpec => []LoaderInv
BY LoaderInitInv, LoaderNextInv, PTL DEF LoaderSpec

\* What the loader looks for and has loaded are names, under any search, alias and
\* normalization, and what it has given out are modules that are loaded.
THEOREM LoaderTypeCorrect == LoaderSpec => []LoaderTypeOK
<1>1. LoaderInv => LoaderTypeOK
  BY DEF LoaderInv
<1> QED
  BY <1>1, LoaderInvariance, PTL

\* Whatever was imported in between, a plain name gives its module again.
LEMMA SameModuleAgain == LoaderInv => SameModule
<1> SUFFICES ASSUME LoaderInv, NEW x \in got, NEW y \in got, x[1] = y[1], x[2] # y[2]
             PROVE  /\ ~(loaded[x[2]] = x[1] /\ loaded[y[2]] = x[1])
                    /\ Plain(x[1]) => loaded[x[2]] = x[1] \/ loaded[y[2]] = x[1]
  BY DEF SameModule
<1>1. x[2] \in 1..Len(loaded) /\ y[2] \in 1..Len(loaded) /\ Len(loaded) \in Nat
  BY DEF LoaderInv, LoaderTypeOK
<1>2. Rightly(x) /\ Rightly(y)
  BY DEF LoaderInv
<1>3. ~(x[2] <= y[2] /\ y[2] <= x[2])
  BY <1>1
<1> QED
  BY <1>1, <1>2, <1>3 DEF Rightly, FirstExact, FirstMatch

\* A plain name gives the file that is found by it, or that another import has loaded.
LEMMA FileIsNamed == LoaderInv => FileOfItsName
<1> SUFFICES ASSUME LoaderInv, NEW x \in got, Plain(x[1])
             PROVE  /\ Matches(loaded[x[2]], TrimDotSlash(x[1]))
                    /\ \/ x[2] <= Len(BuiltIn) \/ loaded[x[2]] = FindModule(TrimDotSlash(x[1]))
                       \/ \E y \in got : y[1] # x[1] /\ y[2] = x[2]
  BY DEF FileOfItsName
<1>1. x[2] \in 1..Len(loaded) /\ Len(loaded) \in Nat /\ Len(BuiltIn) \in Nat
  BY BuiltInNames DEF LoaderInv, LoaderTypeOK
<1>2. Matches(loaded[x[2]], TrimDotSlash(x[1]))
  BY DEF LoaderInv, Rightly
<1>3. CASE x[2] > Len(BuiltIn)
  <2>1. PICK y \in got : LoadedFor(x[2], y)
    BY <1>1, <1>3 DEF LoaderInv, Reasons
  <2> QED
    BY <1>2, <2>1 DEF LoadedFor
<1> QED
  BY <1>1, <1>2, <1>3

\* A file is loaded again only for a name that is not plain.
LEMMA FilesLoadOnce == LoaderInv => LoadedOnce
<1> SUFFICES ASSUME LoaderInv, NEW i \in DOMAIN loaded, NEW j \in DOMAIN loaded,
                    i < j, Clean(loaded[i]) = Clean(loaded[j])
             PROVE  \E x \in got : x[2] = j /\ ~Plain(x[1])
  BY DEF LoadedOnce
<1>1. /\ i \in 1..Len(loaded) /\ j \in 1..Len(loaded) /\ Len(loaded) \in Nat
      /\ loaded[i] \in FileNames /\ loaded[j] \in FileNames /\ Len(BuiltIn) \in Nat
  BY BuiltInNames DEF LoaderInv, LoaderTypeOK
<1>2. j > Len(BuiltIn)
  <2>1. SUFFICES ASSUME j <= Len(BuiltIn) PROVE FALSE
    BY <1>1
  <2>2. i \in 1..Len(BuiltIn) /\ j \in 1..Len(BuiltIn)
    BY <1>1, <2>1
  <2>3. Clean(BuiltIn[i]) = Clean(BuiltIn[j])
    BY <2>2 DEF LoaderInv, StartsBuiltIn
  <2> QED
    BY <1>1, <2>2, <2>3, BuiltInNames
<1>3. PICK x \in got : LoadedFor(j, x)
  BY <1>1, <1>2 DEF LoaderInv, Reasons
<1>4. ASSUME Plain(x[1]) PROVE FALSE
  <2>1. x[1] \in FileNames /\ TrimDotSlash(x[1]) \in FileNames /\ IsBare(TrimDotSlash(x[1]))
    BY <1>4, Trimmed DEF LoaderInv, LoaderTypeOK, Plain
  <2>2. x[2] = j /\ FirstMatch(x[1], j) /\ Matches(loaded[j], TrimDotSlash(x[1]))
    BY <1>3, <1>4 DEF LoadedFor, LoaderInv, Rightly
  <2>3. Matches(loaded[i], TrimDotSlash(x[1]))
    BY <1>1, <2>1, <2>2, SameFile
  <2>4. j <= i
    BY <1>1, <2>2, <2>3 DEF FirstMatch
  <2> QED
    BY <1>1, <2>4
<1> QED
  BY <1>3, <1>4 DEF LoadedFor

\* In every order of imports a plain name gives the same module again, unless one of
\* exactly that name was loaded since; it gives the file that is found by it, or that
\* another import has loaded; and no file is loaded twice for it.
THEOREM ImportsAlwaysAgree == LoaderSpec => []ImportsAgree
<1>1. LoaderInv => ImportsAgree
  BY SameModuleAgain, FileIsNamed, FilesLoadOnce DEF ImportsAgree
<1> QED
  BY <1>1, LoaderInvariance, PTL
=============================================================================
