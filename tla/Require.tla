-------------------------------- MODULE Require --------------------------------
(***************************************************************************)
(* CommonJS modules (lib/require.js): require() of files and packages, the *)
(* cache, and the two stacks that say whose script is running.             *)
(*                                                                         *)
(* A script calls require() in the middle of its own load, so loads nest;  *)
(* require.filename and globalThis.module are the tops of hand-kept stacks *)
(* and relative names are resolved against require.filename.  The file     *)
(* system does not change.  Objects are told apart by who made them: the   *)
(* empty object of the CJSModule constructor, the one load() gives to the  *)
(* script, and one the script puts in its place.                           *)
(***************************************************************************)
EXTENDS Integers, Sequences, SequencesExt

CONSTANTS Path,       \* names of files, as lookupModule returns them
          Main,       \* scriptArgs[0]
          Id,         \* files, as os.realpath names them
          Real,       \* Real[p]: os.realpath(p)
          Relative,   \* names in require() that begin with a dot, of files
          Json,       \* those of them that end in .json
          Bare,       \* names in require() without a dot or a slash
          Beside,     \* Beside[p][n]: the file n of the directory of p
          Directory,  \* quickjs_modules and node_modules directories
          Outright,   \* Outright[p]: names of files there, and not only with .js
          Around,     \* Around[p]: those packagePaths finds from p upwards
          Packages,   \* Packages[d][n]: the main file of the package n in d
          Working,    \* Working[n]: the file n.js of the working directory
          Absent,     \* what is not there
          MaxDepth    \* a bound on loads in each other

ASSUME PathAssumption ==
  /\ Main \in Path /\ Absent \notin Path \cup Id \cup {"initial", "given", "replaced"}
  /\ Real \in [Path -> Id]
  /\ Json \subseteq Relative /\ Relative \cap Bare = {}
  /\ Beside \in [Path -> [Relative -> Path \cup {Absent}]]
  /\ Outright \in [Path -> SUBSET Relative]
  /\ Around \in [Path -> Seq(Directory)]
  /\ Packages \in [Directory -> [Bare -> Path \cup {Absent}]]
  /\ Working \in [Bare -> Path \cup {Absent}]

VARIABLES modules,    \* modules[i]: the exports of the cache entry of i, or Absent
          ctx,        \* ctx[i]: what ctx.exports is, for the load of i
          paths,      \* directories to look for packages in
          filename,   \* require.filename, the top of filenameStack
          filenames,  \* filenameStack without its top
          module,     \* globalThis.module: whose ctx it is
          contexts,   \* moduleStack without its top
          running,    \* the files whose scripts are running, on the C stack
          runs,       \* how often the script of a file was started (history)
          failed,     \* files whose load has thrown (history)
          answer,     \* what require() returned last (history)
          stray       \* a script has thrown something without a message (history)

cache == <<modules, ctx, paths>>
stacks == <<filename, filenames, module, contexts>>
history == <<runs, failed, answer, stray>>
vars == <<cache, stacks, running, history>>

Objects == {Absent, "initial", "given", "replaced"}

TypeOK ==
  /\ modules \in [Id -> Objects]
  /\ ctx \in [Id -> Objects]
  /\ paths \in Seq(Directory) /\ IsInjective(paths)
  /\ filename \in Path \cup {Absent} /\ filenames \in Seq(Path)
  /\ module \in Id \cup {Absent} /\ contexts \in Seq(Id)
  /\ running \in Seq(Path)
  /\ runs \in [Id -> Nat]
  /\ failed \in SUBSET Id
  /\ answer \in [id : Id \cup {Absent}, object : Objects]
  /\ stray \in BOOLEAN

Init ==
  /\ modules = [i \in Id |-> Absent]
  /\ ctx = [i \in Id |-> Absent]
  /\ paths = << >>
  /\ filename = Main /\ filenames = << >>
  /\ module = Absent /\ contexts = << >>
  /\ running = << >>
  /\ runs = [i \in Id |-> 0]
  /\ failed = {}
  /\ answer = [id |-> Absent, object |-> Absent]
  /\ stray = FALSE

----------------------------------------------------------------------------
(* Stack: a top kept elsewhere and the values below it.                    *)

Saved(below, top) == IF top # Absent THEN Append(below, top) ELSE below

PoppedTop(below) == IF below # << >> THEN Last(below) ELSE Absent

PoppedBelow(below) == IF below # << >> THEN Front(below) ELSE << >>

----------------------------------------------------------------------------
(* Finding the file.                                                       *)

\* whom require() takes the call to come from
Caller == IF filename = Absent THEN Main ELSE filename

\* A mutant: directories found later go first.
AddFirst(ds, d) == IF Contains(ds, d) THEN ds ELSE << d >> \o ds

\* a directory that is not known yet goes to the end
Add(ds, d) == IF Contains(ds, d) THEN ds ELSE Append(ds, d)

\* packagePaths adds the directories one after the other.
PackagePaths(known, dirs) ==
  LET ds[k \in 0..Len(dirs)] == IF k = 0 THEN known ELSE Add(ds[k - 1], dirs[k])
  IN  ds[Len(dirs)]

\* findPackage: the first directory that has it; a package has a main file
FindPackage(known, n) ==
  LET having == {k \in 1..Len(known) : Packages[known[k]][n] # Absent}
  IN  IF having = {} THEN Absent ELSE Packages[known[Min(having)]][n]

\* lookupModule of the name, and what the directory of a file named outright
\* adds to the places packages are looked for in
Lookup(n) ==
  LET known == PackagePaths(paths, Around[Caller])
      named == IF n \in Relative THEN Beside[Caller][n] ELSE FindPackage(known, n)
      file  == IF n \in Bare /\ named = Absent THEN Working[n] ELSE named
  IN  [file  |-> file,
       paths |-> IF n \in Outright[Caller] /\ file # Absent
                 THEN PackagePaths(known, Around[file]) ELSE known]

----------------------------------------------------------------------------
(* require() and load().                                                   *)

\* a module to be loaded or taken from the cache
Finds(n, file) == n \notin Json /\ Lookup(n).file = file

\* a file of JSON is parsed anew each time; a name without a file throws
Uncached(n) ==
  /\ n \in Json \/ Lookup(n).file = Absent
  /\ paths' = Lookup(n).paths
  /\ UNCHANGED <<modules, ctx, stacks, running, history>>

\* an entry in the cache is returned whatever state it is in
Cached(n, file) ==
  LET i == Real[file]
  IN  /\ Finds(n, file)
      /\ modules[i] # Absent
      /\ paths' = Lookup(n).paths
      /\ answer' = [id |-> i, object |-> modules[i]]
      /\ UNCHANGED <<modules, ctx, stacks, running, runs, failed, stray>>

\* A mutant: the entry is made when the load is over.
EnteredLate(i) == modules

\* loadModule puts the module in the cache before load() is called.
Entered(i) == [modules EXCEPT ![i] = "initial"]

\* the script cannot be read or compiled: nothing has been pushed yet
LoadFails(n, file) ==
  LET i == Real[file]
  IN  /\ Finds(n, file)
      /\ modules[i] = Absent
      /\ modules' = Entered(i)
      /\ paths' = Lookup(n).paths
      /\ failed' = failed \cup {i}
      /\ UNCHANGED <<ctx, stacks, running, runs, answer, stray>>

\* load() up to the call of the script
Load(n, file) ==
  LET i == Real[file]
  IN  /\ Finds(n, file)
      /\ Len(running) < MaxDepth
      /\ modules[i] = Absent
      /\ modules' = Entered(i)
      /\ ctx' = [ctx EXCEPT ![i] = "given"]
      /\ paths' = Lookup(n).paths
      /\ filename' = file /\ filenames' = Saved(filenames, filename)
      /\ module' = i /\ contexts' = Saved(contexts, module)
      /\ running' = Append(running, file)
      /\ runs' = [runs EXCEPT ![i] = @ + 1]
      /\ UNCHANGED <<failed, answer, stray>>

\* the file whose script runs
Loading == Real[Last(running)]

\* module.exports = ...: the seal on ctx does not forbid it
Replace ==
  /\ running # << >>
  /\ ctx' = [ctx EXCEPT ![Loading] = "replaced"]
  /\ UNCHANGED <<modules, paths, stacks, running, history>>

\* moduleStack.pop() and filenameStack.pop()
Pop ==
  /\ filename' = PoppedTop(filenames) /\ filenames' = PoppedBelow(filenames)
  /\ module' = PoppedTop(contexts) /\ contexts' = PoppedBelow(contexts)

\* A mutant: the object made by the constructor stays.
ReturnsUnstored ==
  /\ running # << >>
  /\ answer' = [id |-> Loading, object |-> modules[Loading]]
  /\ running' = Front(running)
  /\ Pop
  /\ UNCHANGED <<cache, runs, failed, stray>>

\* The script ends: its exports replace those of the entry, and require()
\* returns them.
Returns ==
  /\ running # << >>
  /\ modules' = [modules EXCEPT ![Loading] = ctx[Loading]]
  /\ answer' = [id |-> Loading, object |-> ctx[Loading]]
  /\ running' = Front(running)
  /\ Pop
  /\ UNCHANGED <<ctx, paths, runs, failed, stray>>

\* A mutant: load() leaves its stacks when the script throws.
ThrowsUnpopped ==
  /\ running # << >>
  /\ failed' = failed \cup {Loading}
  /\ running' = Front(running)
  /\ UNCHANGED <<cache, stacks, runs, answer, stray>>

\* The script throws an error: ErrorSubst makes another of it, load() pops and
\* throws that, and require() a third.
Throws ==
  /\ running # << >>
  /\ failed' = failed \cup {Loading}
  /\ running' = Front(running)
  /\ Pop
  /\ UNCHANGED <<cache, runs, answer, stray>>

\* The script throws a string, a number or null: ErrorSubst fails inside the
\* catch clause and the pops after it are not reached.
ThrowsStray ==
  /\ running # << >>
  /\ failed' = failed \cup {Loading}
  /\ running' = Front(running)
  /\ stray' = TRUE
  /\ UNCHANGED <<cache, stacks, runs, answer>>

\* An error of require() is caught by the script that called it, or is the
\* error it throws then.
Next ==
  \/ \E n \in Relative \cup Bare :
       \/ Uncached(n)
       \/ \E file \in Path : Cached(n, file) \/ LoadFails(n, file) \/ Load(n, file)
  \/ Replace \/ Returns \/ Throws \/ ThrowsStray

Spec == Init /\ [][Next]_vars

----------------------------------------------------------------------------
(* Properties.                                                             *)

\* The script of a file is started at most once, whichever of its names it is
\* required by, however requires go in circles, and after failures too.
StartedOnce == \A i \in Id : runs[i] <= 1

\* require.filename is the file whose script is running, and globalThis.module
\* its context, after any nesting of loads and failures: a relative name is
\* resolved beside the script that wrote it.  Only values thrown that are not
\* errors break it.
StacksFollowCalls ==
  ~stray =>
    /\ Append(filenames, filename) = << Main >> \o running
    /\ contexts = [k \in 1..(Len(running) - 1) |-> Real[running[k]]]
    /\ module = IF running = << >> THEN Absent ELSE Loading

\* Only in a circle, or after a failure that a script has swallowed, does
\* require() return the empty object a module has before it is loaded.
AnswersComplete ==
  answer.object = "initial" =>
    \/ answer.id \in failed
    \/ \E k \in 1..Len(running) : Real[running[k]] = answer.id

\* A package once found is found in the same place ever after, although every
\* directory a module is loaded from adds places to look for packages in.
PackagesStay ==
  [][\A n \in Bare : FindPackage(paths, n) # Absent
                       => FindPackage(paths', n) = FindPackage(paths, n)]_paths
=============================================================================
