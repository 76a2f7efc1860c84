----------------------------- MODULE ModuleLoader -----------------------------
(***************************************************************************)
(* How qjsm finds the module that an import names (qjsm.c).                *)
(*                                                                         *)
(* A name is [at |-> what stands before each "/", base and exts |-> what   *)
(* the dots separate in the rest]: "./lib/a.js" has at <<".", "lib">>,     *)
(* base "a" and exts <<"js">>, and "/x" begins with "".  An installation   *)
(* is                                                                      *)
(*   [files |-> names from the current directory or the root, without ".", *)
(*    path |-> the directories of QUICKJS_MODULE_PATH,                     *)
(*    aliases |-> a function from names to names: the _moduleAliases of    *)
(*                package.json].                                           *)
(* Imports are made one after the other, also those of a module that is    *)
(* being loaded: QuickJS compiles it before it resolves what it imports.   *)
(* The loop of jsm_module_loader_path takes a step for each alias.         *)
(***************************************************************************)
EXTENDS Integers, Sequences, SequencesExt, FiniteSets

CONSTANTS Part,            \* what the "/" and the dots separate
          Installations,   \* what may be installed
          Imports,         \* the names in import statements, without ".."
          BuiltIn,         \* names of the modules that are there from the start
          MaxImports       \* bound on pairs of a name and its module

FileNames == [at : Seq(Part), base : Part, exts : Seq(Part)]

NameOf(at, base, exts) == [at |-> at, base |-> base, exts |-> exts]

IsBare(n) == n.at = << >>
IsAbsolute(n) == n.at # << >> /\ n.at[1] = ""

Basename(n) == [n EXCEPT !.at = << >>]

\* up to the last dot
Stem(n) == IF n.exts = << >> THEN n ELSE [n EXCEPT !.exts = Front(@)]

\* the file that a name leads to
Clean(n) == [n EXCEPT !.at = SelectSeq(@, LAMBDA d : d # ".")]

ASSUME LoaderAssumption ==
  /\ {"", ".", "js", "so"} \subseteq Part
  /\ BuiltIn \in Seq(FileNames)
  /\ \A i, j \in DOMAIN BuiltIn : Clean(BuiltIn[i]) = Clean(BuiltIn[j]) => i = j
  /\ Imports \subseteq FileNames
  /\ \A inst \in Installations :
       /\ inst.files \subseteq FileNames /\ inst.path \in Seq(Seq(Part))
       /\ \A n \in DOMAIN inst.aliases : n \in FileNames /\ inst.aliases[n] \in FileNames

VARIABLES installation,
          loaded,   \* the names of ctx->loaded_modules
          got,      \* pairs of a normalized name and its module (history)
          asked     \* an import that is being answered: its normalized name, and
                    \* the variable module of jsm_module_loader_path

loaderVars == <<installation, loaded, got, asked>>

NoImport == << >>

LoaderTypeOK ==
  /\ installation \in Installations
  /\ loaded \in Seq(FileNames)
  /\ got \subseteq FileNames \X DOMAIN loaded
  /\ asked # NoImport => asked \in [name : FileNames, module : FileNames]

LoaderInit ==
  /\ installation \in Installations
  /\ loaded = BuiltIn
  /\ got = {}
  /\ asked = NoImport

----------------------------------------------------------------------------
(* Files.                                                                  *)

Exists(n) == Clean(n) \in installation.files

\* trim_dotslash, once and for as long as there is something to trim
TrimDotSlash(n) == IF n.at # << >> /\ n.at[1] = "." THEN [n EXCEPT !.at = Tail(@)] ELSE n

TrimAll(n) ==
  LET k == SelectInSeq(n.at, LAMBDA d : d # ".")
  IN  [n EXCEPT !.at = IF k = 0 THEN << >> ELSE SubSeq(@, k, Len(@))]

NotFound == NameOf(<< "not found" >>, "", << >>)

HasExt(n, ext) == n.exts # << >> /\ Last(n.exts) = ext

\* jsm_find_module_ext
FindModuleExt(n, ext) ==
  LET in(dir) == [n EXCEPT !.at = dir \o @, !.exts = IF HasExt(n, ext) THEN @ ELSE Append(@, ext)]
      k       == SelectInSeq(installation.path, LAMBDA dir : Exists(in(dir)))
  IN  IF k = 0 THEN NotFound ELSE in(installation.path[k])

\* jsm_find_module
FindModule(name) ==
  LET n  == TrimAll(name)
      so == IF IsBare(n) \/ HasExt(n, "so") THEN FindModuleExt(n, "so") ELSE NotFound
  IN  IF so # NotFound THEN so ELSE FindModuleExt(n, "js")

----------------------------------------------------------------------------
(* Imports.                                                                *)

\* the names by which jsm_module_find knows a module
Matches(m, n) == m = n \/ Basename(m) = n \/ Stem(Basename(m)) = n

\* A mutant: the module that was loaded last.
FindNewest(n) == SelectLastInSeq(loaded, LAMBDA m : Matches(m, n))

\* jsm_module_find: the first, 0 if there is none
ModuleFind(n) == SelectInSeq(loaded, LAMBDA m : Matches(m, n))

\* js_default_module_normalize_name, for a name without ".."
Normalized(from, name) ==
  IF name.at # << >> /\ name.at[1] = "." THEN [name EXCEPT !.at = from.at \o Tail(@)] ELSE name

\* js_host_resolve_imported_module: the module of exactly the normalized name
ModuleOf(n) == SelectInSeq(loaded, LAMBDA m : m = n)

ImportLoaded(n) ==
  /\ asked = NoImport /\ Cardinality(got) < MaxImports
  /\ ModuleOf(n) # 0
  /\ got' = got \cup {<< n, ModuleOf(n) >>}
  /\ UNCHANGED <<installation, loaded, asked>>

\* if there is none, the loader is called
CallLoader(n) ==
  /\ asked = NoImport /\ Cardinality(got) < MaxImports
  /\ ModuleOf(n) = 0
  /\ asked' = [name |-> n, module |-> TrimDotSlash(n)]
  /\ UNCHANGED <<installation, loaded, got>>

\* whether jsm_module_loader_path finds a module that is loaded
Known(n) == IsBare(n) /\ ModuleFind(n) # 0

UseKnown ==
  /\ asked # NoImport /\ Known(asked.module)
  /\ got' = got \cup {<< asked.name, ModuleFind(asked.module) >>}
  /\ asked' = NoImport
  /\ UNCHANGED <<installation, loaded>>

\* A mutant: what is loaded is looked for before the loop.
FollowBlindly ==
  /\ asked # NoImport /\ ~(Known(asked.module) /\ asked.module = TrimDotSlash(asked.name))
  /\ asked.module \in DOMAIN installation.aliases
  /\ asked' = [asked EXCEPT !.module = installation.aliases[@]]
  /\ UNCHANGED <<installation, loaded, got>>

FollowAlias ==
  /\ asked # NoImport /\ ~Known(asked.module)
  /\ asked.module \in DOMAIN installation.aliases
  /\ asked' = [asked EXCEPT !.module = installation.aliases[@]]
  /\ UNCHANGED <<installation, loaded, got>>

\* The file is loaded, or the import fails: nothing is found, or js_module_loader
\* throws because an absolute name leads nowhere.
LoadFile ==
  LET n    == asked.module
      file == IF IsAbsolute(n) THEN n ELSE FindModule(n)
  IN  /\ asked # NoImport /\ ~Known(n) /\ n \notin DOMAIN installation.aliases
      /\ \/ /\ file # NotFound /\ Exists(file)
            /\ loaded' = Append(loaded, file)
            /\ got' = got \cup {<< asked.name, Len(loaded) + 1 >>}
         \/ /\ file = NotFound \/ ~Exists(file)
            /\ UNCHANGED <<loaded, got>>
      /\ asked' = NoImport
      /\ UNCHANGED installation

Loader == UseKnown \/ FollowAlias \/ LoadFile

LoaderNext ==
  \/ \E from \in ToSet(loaded), name \in Imports :
       ImportLoaded(Normalized(from, name)) \/ CallLoader(Normalized(from, name))
  \/ Loader

\* the loader is a function, which runs until it returns
LoaderSpec == LoaderInit /\ [][LoaderNext]_loaderVars /\ WF_loaderVars(Loader)

----------------------------------------------------------------------------
(* Properties.                                                             *)

\* names that are looked for as they are: without a "/" and without an alias
Plain(n) == IsBare(TrimDotSlash(n)) /\ TrimDotSlash(n) \notin DOMAIN installation.aliases

\* Whatever was imported in between, a plain name gives the same module again,
\* but where js_host_resolve_imported_module has one of exactly that name, which
\* was loaded later; and of those there is one.
SameModule ==
  \A x, y \in got :
    x[1] = y[1] /\ x[2] # y[2] =>
      /\ ~(loaded[x[2]] = x[1] /\ loaded[y[2]] = x[1])
      /\ Plain(x[1]) => loaded[x[2]] = x[1] \/ loaded[y[2]] = x[1]

\* A plain name gives the file that jsm_find_module finds by it, unless another
\* import has loaded one of the same base name.
FileOfItsName ==
  \A x \in got :
    Plain(x[1]) =>
      /\ Matches(loaded[x[2]], TrimDotSlash(x[1]))
      /\ \/ x[2] <= Len(BuiltIn) \/ loaded[x[2]] = FindModule(TrimDotSlash(x[1]))
         \/ \E y \in got : y[1] # x[1] /\ y[2] = x[2]

\* jsm_module_loader_path loads a file again only for a name that is not plain.
LoadedOnce ==
  \A i, j \in DOMAIN loaded :
    i < j /\ Clean(loaded[i]) = Clean(loaded[j]) => \E x \in got : x[2] = j /\ ~Plain(x[1])

\* What an import gives does not depend on the imports between, but as said above.
ImportsAgree == SameModule /\ FileOfItsName /\ LoadedOnce

\* aliases that lead from what is asked for to one another, round and round, past
\* no module that is loaded
Circles ==
  \E S \in SUBSET DOMAIN installation.aliases :
    /\ asked.module \in S
    /\ \A n \in S : installation.aliases[n] \in S /\ ~Known(n)

\* jsm_module_loader_path returns, but where aliases lead round.
ImportsEnd == asked # NoImport /\ ~Circles ~> asked = NoImport
=============================================================================
