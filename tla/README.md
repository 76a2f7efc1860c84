# quickjs-modules in TLA+

A model of the stateful parts of quickjs-modules (C and JavaScript extension
modules for QuickJS), checked with TLC on small instances and, where it
matters most, proved with TLAPS for every instance.

## The system

quickjs-modules is a set of native modules loaded into one QuickJS interpreter.
The interpreter is single-threaded. What makes the code hard is not threads but

* **re-entrancy**: native code calls a JavaScript predicate, action or handler
  in the middle of an operation, and that function may change the data being
  worked on or call the same native object again;
* **shared native state**: several JavaScript objects point to one native
  object, and the garbage collector finalizes them in any order;
* **processes**: children run concurrently with the program and with each other,
  and share descriptors and exit statuses with it;
* **assertions**: the C code states its preconditions with `assert`, and a
  failing assertion ends the interpreter.

| component | source | state | operations | what makes it correct |
|---|---|---|---|---|
| traversal engine | `property-enumeration.{h,c}` | stack of frames: object, snapshot of its names, index | push, pop, enter, recurse, skip, setpos, path | no object twice on the stack; every frame on a property; forward moves; ends on cyclic graphs |
| deep iterator | `quickjs-deep.c` | engine stack, root, predicate, flags | next() | document order, every simple path once, depth limit, no assertion |
| deep functions | `quickjs-deep.c` | engine stack during a call | find, select, get, set, unset, flatten, pathOf, forEach, equals, clone | get after set; searches and get agree; a clone is equal and shares nothing |
| tree walker | `quickjs-tree-walker.c` | engine stack, type mask | nextNode, six navigation methods, accessors | the path is an address of the current node |
| walker lifetime | `quickjs-tree-walker.c` | ref_count, the objects pointing to the walker | constructors, `[Symbol.iterator]`, finalizers | freed exactly when the last object goes |
| child status | `child-process.c`, `quickjs-child-process.c` | pid, exitcode, termsig | spawn, wait, kill, getters | the status is the child's own, and stays |
| child stdio | the same | parent_fds, child_fds, descriptor tables | spawn, closing | slots wired as asked, every pipe end closed where it must be |
| lexer | `lexer.c`, `quickjs-lexer.c` | input position, start, length, location, state stack, mode | lex, next, skip, getc, skipUntil, push/pop state, setInput | the text is cut into matches of the right rules, at the right locations |
| CommonJS require | `lib/require.js` | module cache, stacks of modules and file names, package directories | require | a script runs once; names resolve beside the script that wrote them; packages stay where they are |
| line editor | `lib/repl.js` | line, cursor, clipboard, history, terminal column | one command per key | yank gives back kills; characters stay whole; the cursor is shown where it is |
| pointer | `pointer.c`, `quickjs-pointer.c` | an array of keys | parse, toString, toArray, copy, deref, acquire, slice, shift, the path setter | a path written and read is the same path; its parts, and pointers made from it, lead where it leads |
| predicate | `predicate.c`, `quickjs-predicate.c` | a tree, with what its leaves keep after their first call | eval, copy | 1 where it is true; no answer depends on earlier calls |
| xml | `quickjs-xml.c` | stack of open elements | read, write | what is written is read back |
| inspect | `quickjs-inspect.c` | marks on the objects being printed, depth, options | inspect | everything is shown, nothing inside of itself; it ends |
| fs | `lib/fs.js` | read and write handlers | waitRead, readAll ... | each wait settles |
| loader | `qjsm.c` | the modules loaded; search path, aliases | find, load | ends; one module for a name, in any order of imports |
| path | `path.c`, `quickjs-path.c` | none | join, resolve, relative, normalize, fnmatch ... | normal forms lead where the path leads; relative and resolve undo each other |
| vector | `vector.c` | data, size | grow, emplace, insert, erase | addresses stay in range |
| others | mmap, bjson, repeater, virtual properties, console, util | | | |

Interaction: deep, tree walker, xml and child-process (for its environment) use
the traversal engine; deep uses predicate and pointer; the lexer is driven by
grammars in `lib/`; the child's pipes are read by the program with `os.read`; the
shell and programs load CommonJS modules with require.

## Modules

| module | models | state ↔ code |
|---|---|---|
| `PropertyEnumeration` | the engine, as operators on a stack of frames | a frame is `{obj, tab_atom, idx}`; the heap maps an object to its properties in enumeration order |
| `PreorderWalk` | what a walk promises, without frames | the position is a path of indexes |
| `DeepIterator` | `js_deep_iterator_next` and its predicate | `frames` = `it->frames`; `pc` says whether next() or the predicate runs; `nested` counts outer calls waiting in a predicate |
| `TreeWalker` | `js_tree_walker_*`, `js_tree_iterator_next` | `frames` = `w->frames`, `mask` = `w->tag_mask`, `calls` = the C stack of active calls |
| `TreeHandles` | `ref_count` and the finalizers | `walker` = the memory |
| `ChildStatus` | `child_process_wait`, `_kill`, getters | `cp` = the fields, `process` = the kernel's table |
| `ChildStdio` | `pipe`, fork, `dup2`, `close` in spawn | `parent`, `child` = descriptor tables |
| `Tokenizer` | what the lexer promises: matches without gap or overlap | |
| `Lexer` | `lexer_peek`, `lexer_skip`, `lexer_lex`, the methods | variables have the names of the fields; `call` = locals of `lexer_lex` and `lexer_peek` |
| `Require` | `require`, `loadModule`, `loadJSON`, `CJSModule.load`, `packagePaths` | `modules` = the cache; `filename`, `filenames`, `module`, `contexts` = the two stacks; `running` = the C stack |
| `Repl` | the editing commands and `handle_key`, with `update` and the terminal | variables have the names of the script's; `term` = the terminal and `term_cursor_x` |
| `DeepOps` | deep.get, set, unset, find, select, pathOf, forEach, flatten, on `pointer_deref`, `pointer_acquire`, `pointer_parse` | `heap` = the objects; a call that does not run JavaScript is one step, so each is an operator |
| `DeepCompare` | deep.equals and clone; `pointer_slice`, `pointer_shift` | two stacks of frames side by side; the heap a clone leaves |
| `Pointers` | the `Pointer` class: `pointer_from` and what it calls, `pointer_fromiterable`, the methods | a walk is `{names, value}`: `ptr->atoms`, and what the program has come to with it |
| `Inspect` | `js_inspect_print` and the options | a run of it is `{out, marks, ends}`: tokens written, objects marked, whether it comes to an end |
| `Predicate` | `predicate_eval`, `predicate_dup`, constructors | a predicate is a record; `kept` = where in the tree `bytecode` or `chars` is set |
| `Path` | `path.c` and `quickjs-path.c` but the next two | paths are sequences of characters; "astray" marks an index below zero |
| `PathLinks` | `path_normalize` | the links there are, `out` = the buffer |
| `PathMatch` | `path_fnmatch` | |
| `Xml` | `js_xml_parse`, `js_xml_write` | `stack` = `st` |
| `LexerRules` | `lexer_rule_add`, `lexer_define`, `lexer_rule_expand`, states | `defines`, `rules`, `states` = the vectors |
| `ModuleLoader` | `jsm_module_loader_path`, `jsm_find_module`, `jsm_module_find`, the normalization of names | `loaded` = `ctx->loaded_modules`; `asked` = a call of the loader, with its variable `module`; `got` = what imports have given (history) |
| `ModuleCalls` | a program that builds objects, or calls one of the functions above on what it has | `call` = the function, with what its calls have left so far |
| `MC*` | instances for TLC | |
| `DeepIteratorProofs`, `TreeWalkerProofs`, `TreeHandlesProofs`, `ChildStatusProofs`, `ChildStdioProofs`, `LexerProofs`, `RequireProofs`, `ReplProofs` | theorems | |

`DeepIterator`, `TreeWalker` and `DeepOps` extend `PropertyEnumeration`. The
iterator is shown to implement `PreorderWalk` (property `ImplementsWalk`), and
nextNode() to take steps of the same walk from wherever the other methods have
left the walker (`NextInOrder`). `Lexer` is shown to implement `Tokenizer`
(`ImplementsTokenizer`). `DeepOps` relates functions to each other instead: what get
follows, select finds, and what flatten writes, set and get read. Its heap is that
of `PropertyEnumeration`, but with names an array would sort kept in front.
The loader of `ModuleLoader` is a state machine of its own, which `ModuleCalls` runs for a program that imports.
`DeepCompare`, `Pointers` and `Inspect` extend `DeepOps` and look at the same objects, or at
objects like them.

The functions of `Predicate`, `Path`, `Xml`, `Inspect` and the like are written as the code
computes them, and each is held against a second definition that does not look at the code:
a truth value, the kernel's walk over a path, the set of texts that a pattern's parts
describe, what there is to be shown. Where the two differ the property says exactly
where ("if and only if", whenever that could be done), so a change of the code in either
direction is seen. `ModuleCalls` puts them in one specification: the objects
are built by set and unset step by step, predicates, lexers and what the loader has loaded change by
calls in any order, and paths, patterns and documents are its initial states.

Variables marked "(history)" in the declarations are not in the code: they record what
has happened for the properties and no guard reads them.
Definitions whose comment begins with "A mutant" are wrong variants of
the definition after them: with one put in its place a property named in
`PROJECT.json` must fail, which shows that the property depends on that piece of code.

## Runs

| run | instance | shows |
|---|---|---|
| `DeepIterator_limited` | every graph of 3 objects with 2, 2 and 1 properties at most, depth limit 2, one nested next() | the iterator is the abstract walk cut at the limit |
| `DeepIterator_mutation` | 2 objects, 2 keys; any assignment and deletion at any time | stack invariants, no failing assertion, forward moves, next() returns once no new object comes into the walk |
| `TreeWalker` | every graph of 2 objects with 2 and 1 properties at most, all methods, depth 3, calls also from the predicate | the path is an address; nextNode() takes the abstract walk's next step, and stops |
| `TreeHandles` | 4 objects, 16 for 2^32 | a walker lives as long as its objects |
| `TreeHandles_iterator` | the same | a disagreement, see below |
| `ChildStatus` | 2 children, failed forks, bare objects, SIGKILL and another signal | statuses are kept, and are the child's own; wait() after kill() returns |
| `ChildStatus_running` | the same | a disagreement, see below |
| `ChildStdio` | 2 children, 9 descriptors, every choice for each slot, a slot's number among them; the program runs with descriptor 1 closed | wiring, whose of the program's ends a child may hold, end of file of a child's output |
| `Lexer` | 5 rules, 2 states, 4 texts, states 2 deep, one foreign move of the position | modes, location, tokenization, token text, pops, termination |
| `Require` | 7 names of 6 files, 2 package directories, loads nested without any repetition | one run per file, stacks, unfinished exports, packages |
| `Repl` | 2 columns, a letter, a mark and a pair of surrogates, 4 units in a line, 4 in clipboard and history together with one more for each line, 2 lines of history | kills, characters, cursor |
| `ModuleCalls` | 2 objects, an index and 2 names, paths of 3; pointers through 2 graphs of 3; 2,800 predicates with 7 arguments; file systems of up to 2 links with paths of 3 names; patterns of 3 parts; 2,100 documents, two elements deep, and with comments that have blanks, ">" and "-->" inside, alone and behind texts that look like a comment's beginning; 3 definitions and rules; 28 installations (2 sets of files, 2 search paths, 7 maps of aliases), 10 names imported from modules in two directories, up to 3 pairs of a name and its module | each function against its promise; imports end |

The two runs that end in a violation reproduce disagreements between the code and what it says of itself, listed
under `findings` in `PROJECT.json`: `TreeHandles_iterator` (the walker of
`new TreeIterator` is freed under it) and `ChildStatus_running` (`exited` and
`signaled` are true of a running child).

The type invariants (`TypeOK`) say what the variables hold; each is true of the states of its run, and
the run of `DeepIterator_mutation` and the proofs check the one that other properties rest on.

**Bounds.** Two objects make a cycle through the root, a cycle below it and a
shared object; the third in `DeepIterator_limited` adds a pop over several frames at
once. Two properties make first, middle and last of a frame differ. Two
children are what "another child" needs; nine descriptors let the second child
run out of them. The texts of the lexer have a newline, a character of two bytes,
a match cut inside a character, rules of two states, failing rules, and nothing
at all. Two columns put a wrap between any two characters. In `Require` one file has
two names, one is found as a package and one in a nested directory with packages
of its own, and the depth of six is that of all files in each other; one name is found only by adding `.js`. In `ModuleCalls` the
two objects the program has are all of the graph; three more are spare, for what
the properties try. The links of a file system lead beside, up, to the root, to each
other and to themselves; the documents have every kind of node beside and inside of every
other; a lexer's definitions name each other and themselves. `ModuleLoader` has
two files of one base name, one file with two extensions, a module that is loaded by exactly the name another
was given for, and aliases that lead to a file, to the root, to a built-in module and round in circles; three
pairs let one import come between two of the same name. `DepthTop` (20) stands for INT32_MAX and
`NameRoom` (2) for a ratio of two sizes in `js_inspect_print`; `MaxLinks` (5) is the number of
links the kernel follows, `MaxRules` (3) bounds definitions and rules together, `MaxImports` (3)
the pairs in `got`. `MaxProps`, `MaxNested`, `MaxCalls`, `MaxDepth` (but in
`DeepIterator`, where it is the code's own limit), `MaxMoves`, `MaxLine`, `MaxUnits`,
`MaxHistory`, `MaxPath` and `MaxMade` are bounds on the environment.

**Fairness.** `DeepIterator` and `TreeWalker` assume that the engine, which is
straight-line C, goes on; `DeepIterator` also that a predicate returns. `TreeWalker`
does not assume it: `NextNodeStops` only says that the engine gets to ask or to end.
`Lexer` assumes that a call in progress goes on and callbacks return, `ModuleLoader` that
the loader, a C function in a loop over aliases, goes on. `ChildStatus`
assumes that a system call that can return does, and that a process sent
SIGKILL ends; nothing else makes a process end. Nowhere is the program obliged
to call anything.

**Deadlock** is checked, except where the system may stop: after a failed
assertion (`DeepIterator_limited`, `TreeWalker`), when all children have ended, when every
object has been finalized, when the shell has exited, and in `ModuleCalls`, where a path, a pattern
or a document is one call and no more may be imported.

## Proofs

* `DeepIteratorProofs` begins with what each engine operator does to a well-formed
  stack, one with frames of the right type, distinct objects, and
  every frame but an empty root's on a property. The lemmas follow the code:
  an index lemma for `SetPos`, one for `PopAdvance` (the prefix it leaves), then
  `Skip`, `Push` and `Recurse`, and the order lemmas for `Before`.
  The inductive invariant is the conjunction of the type
  invariant, distinct ancestors, frames on properties and, for `AssertionsHold`,
  that an asking predicate has a position under it. The first three do not stand
  alone: that `Circular` is asked with the current value requires the top frame on a
  property, which in turn requires that no frame was pushed for a property-less object other
  than the root. Proved of every heap, root, depth, and every change the program makes:
  `TypeOK`, `NoRepeatedAncestor`, `FramesOnProperties`, `DepthBounded`,
  `StrictlyForward`; `NoAbort` for `MaxNested = 0`, without which it is false (see
  the divergences). Last, `IteratorWalks`: over objects that do not change (`Mutable = FALSE`) the iterator implements
  `PreorderWalk` (`ImplementsWalk`), for every graph, depth limit, answers of the predicate and nesting of next().
  While a stack stands on the graph (`Standing`: the invariant, and each frame's names and object are those the heap
  gives), its path is a position, and the objects along any position that agrees with it
  are those of the frames (`SameObjects`). So a later position is inside the current value, and
  then the engine enters it (`InsideEnters`), or parts from the stack to the right at a frame, which then has a
  property left (`PartingHasNext`); the frame that moves is the highest such (`MovesOn`), and nothing lies between
  (`MovedIsNext`, `EnteredIsNext`). Where neither is, the walk ends. It uses of the heaps that no object has two properties
  of one name.
* `TreeWalkerProofs`: `PathLeadsToNode`. A stack is an address if it starts at the root and every
  frame below the top has the next one's object as its current value. Each step moves the top frame
  (`TopMayMove`: wherever to, past the end of its list included), leaves a prefix, or enters the
  current value, and these keep an address one; distinct ancestors are not needed, which is why
  firstChild() may enter a cycle. What the setter of index stores is shown to be a natural number, whatever the width of a frame's index (`IdxSize`). Second,
  `NextInOrder`, for finitely many objects. The objects do not change, so each frame's names are still those of its
  object (`Snapshots`, in the invariant). If the walker stands on a position of the walk, then the objects along the
  path are those of its frames (`ObjectsAlong`) and therefore distinct. Such a stack is one the iterator can have
  (`LikeTheIterator`), and `DeepIteratorProofs`, taken with INSTANCE, says where one pass of the engine goes. The
  iterator is given as many frames as there are objects, and on a stack of so many the limit makes no
  difference: every object is on it, and none is entered (`FullStackSkips`). `SameEngine` and `SameWalk` say that the
  operators of both modules are the same.
* `TreeHandlesProofs`: of a walker made by `new TreeWalker` the count equals the
  number of objects pointing to it, and that number is below the word's size since there are
  fewer objects; from it `LivesWithItsObjects` for any number of objects. The variable
  `maker`, which constructor it was, makes the theorem unconditional. Cardinality facts
  come from the library.
* `ChildStatusProofs`: `StatusKept`, and `AnswersStay`, that no step changes what the getters
  answer of a process that was collected. The invariant relates the object to the kernel's table:
  an object that has a pid has its own child's, a process nobody collected has an untouched
  object, and what an object has of another process comes from `waitpid(-1)`, after a fork that failed.
* `ChildStdioProofs`: `Wired` and `EndComes`. The invariant says that the child's ends of a pipe
  are with the child, with the program only until spawn() returns, and with no other child, and that `child_fds`
  and `parent_fds` say where. Of the program's ends it says that nobody has those of a child that has not been forked,
  and that a child has those of earlier ones at most (`InOrder`): its own it closes, and a later child's are made after it was forked. Moves in the order of the slots are followed one by one: a slot keeps what it got because a
  later move closes only a descriptor that is not a slot, or one nothing is asked of. `Untangled` and `Apart`
  say when that is so; `StandardIsPlain` proves that they hold in a program that has its standard
  descriptors open and does not pass them as numbers.
* `LexerProofs`: `TokenIsItsRule`, `PopsAreSafe`, `ChosenByMode`, `LocationAgrees`, and that every
  step of `Lexer` is one of `Tokenizer` (`LexerCutsText`). The invariant for the first says at each
  step of a call what `start`, `bytelen` and the locals of the peek have to do
  with the input; for the second, that the bottom of state stack is `INITIAL`,
  and that a state other than `INITIAL` has something under it. `ChosenByMode` needs, while the loop over
  the rules runs, that what it has so far is the choice among the rules behind it; `LocationAgrees`
  that characters are skipped one at a time, and counts of characters and newlines of a
  text that grows by one. The refinement cites both: a match that the tokenizer takes is that of the chosen rule, and
  ends where the location is counted.
* `RequireProofs`: `StartedOnce`, `StacksFollowCalls` and `AnswersComplete`, for any files and any
  nesting. The first needs that a file not in the cache has never been started, and this in
  turn that what a running script's entry is replaced by is an object, never nothing; so the
  invariant keeps both. The second needs the stacks place by place: the entry saved at
  depth k is the script running at depth k - 1. It is conditional on no script
  having thrown what is not an error. For the third, a file whose cache entry is the constructor's
  object is being loaded, was in a circle or has failed. Last, `PackagesStay` and `TypeOK`: `packagePaths` only
  appends, so the list before it is a prefix of the list after it (`PackagePathsExtend`), no directory comes
  twice, and the first that has a package is found at its place again (`LookupExtends`).
  The same module has the theorems about `ModuleLoader`: `ImportsAgree` (`SameModule`, `FileOfItsName` and `LoadedOnce`) and `LoaderTypeOK`, for any
  files, search path, aliases and any number of imports. The invariant (`LoaderInv`) keeps of each import that it gave
  the first module of exactly the name, or else the first that matches (`Rightly`); of each module that was not there from the start that an
  import loaded it, and if by a plain name that it is the first that matches and what `jsm_find_module` finds
  (`Reasons`); and that while the loader searches no module has exactly the name (`Searching`), without which the
  pair that a load adds would not be the first. That a file is not loaded twice rests on `FoundMatches`, that the name of what is found by a plain
  name matches it, and `SameFile`, that two names of one file match the same plain names.
* `ReplProofs`: `YankUndoesKills`, `CharactersWhole`, `CursorShown` and `TypeOK`, for any line, width, prompt and
  completion. The invariant follows a row of kills: the clipboard is two parts,
  what was taken from the left of the cursor and from the right, and what is now on the left of the cursor
  with the first part, and the second with what is on the right, are the two halves of the line as it was. A kill adds
  to the outer end of one of them, the one of its direction; a deletion skips the second half of a
  character to the side it goes to only if the cursor is not inside of one, so the invariant keeps that it is not.
  For the cursor the invariant (`Shows`) relates the cell the terminal is at to the line that was last printed and
  `last_cursor_pos`: the prompt's length and the columns of what is before it. It needs in addition that the terminal is in
  the margin only while the line is empty, where `move_cursor` has nothing to do. `MoveIs` is proved column by
  column from `RightIs` and `LeftIs`, over margins both ways; `PrintedIs` is the line with the blank and the backspace
  at the margin; `LengthsAdd` is what makes the way from one position to another the difference of the two.

Assumptions are the named `ASSUME`s of the modules about their constants.

**Only model-checked**: liveness (out of reach of the prover here, as is `ENABLED`), and all of `ModuleCalls` but its imports (`ImportsAgree`).
What a recursive definition computes for every input cannot in general be
proved with the installed provers (the library's induction takes an operator), and a module that declares a
`RECURSIVE` operator cannot hold theorems. Where theorems are, recursion is therefore written as
functions or folds. Of a loop that makes a number of rounds and keeps an invariant in each, a proof is possible: the least
round that breaks it has one before it (`EachRound`), and that the loop's function is there at all is shown by extending it
round by round (`Rounds`). `packagePaths` and `move_cursor` are such loops; the modules under `ModuleCalls` are recursive as the code is, and left to TLC.

## Known divergences

Behaviour of the code that is in the models as it is and that a caller would hardly expect.
Properties above are stated so that they say what does hold beside it.

* A predicate that calls next() on the iterator it is asked by may exhaust it; the outer
  call then fails the assertion of `vector_back` (`quickjs-deep.c:91`).
* A predicate that hangs a fresh object under every position it is asked about keeps next() from ever returning
  (`property-enumeration.h:210`); there is a limit only if the iterator was given a depth.
* The constructor of TreeWalker does not initialize the vector of frames, as that of TreeIterator does
  (`quickjs-tree-walker.c:87`, `:336`): whether its root can be pushed is up to what `dbuf_realloc` makes of no allocator.
* The getters of a TreeWalker at its end fail the same assertion
  (`quickjs-tree-walker.c:218`), as does firstChild() on a primitive (`:176`); a
  negative index is stored as one past the end (`:279`), and one of more than 32 bits is cut.
* deep.find, select, pathOf, flatten and equals of an object without properties fail
  `property_enumeration_key`'s assertion.
* deep.set through a value that is not an object stores nothing and raises no
  error in the caller (`pointer.c:223`). A pointer text that begins with two indexes,
  `[0][1]`, is read as one name (`pointer.c:120`), though pointer_tostring writes it so.
* A text assigned to `pointer.path` is not read: it cannot be iterated, so the pointer is left without
  names (`pointer.c:267`). A copy of a pointer without names, and one made from an empty array, fail an
  assertion (`pointer.c:251`). `slice(n)` of n names is the whole pointer (`pointer.c:160`). shift with a value that is undefined or null
  throws (`pointer.c:182`), where with a number it gives undefined: a row of shifts along a path that does not exist gives
  undefined once and then throws.
* deep.get without flags reads flags it has not set (`quickjs-deep.c:348`): a path that does not exist may
  give null instead of an error.
* An error of the lexer becomes a token, with a rule number that does not exist and the
  last match's length (`quickjs-lexer.c:1485`).
* A module whose load failed stays in the cache: the next require() returns an empty object.
  A require in a circle returns an empty object that is not the one that is filled later.
  A script that throws something other than an error leaves both stacks as they were in it.
  Sealing (`lib/require.js:104`) does not keep a script from assigning `module.exports`.
* spawn() moves descriptors in the order of the slots (`child-process.c:70`): one that is
  itself a slot is overwritten or closed before its turn, so with `stdio: ["pipe", 0]` the child writes to the pipe it
  should read from, and its input is closed. A descriptor passed as a number is closed in the program when spawn() returns
  (`child-process.c:91`). A program started with a standard descriptor closed may get a pipe's
  end in the child's own slot, which it never closes: a reader then does not see the end.
  A child closes only its own copies of the program's ends (`child-process.c:63`), and none is close-on-exec: a later child
  inherits those of earlier pipes, so an earlier child sees the end of its input only when the program and all later
  children have let go of it.
* In repl, a backspace with the cursor inside of a character, right after a backward kill there, takes text from the
  right of the cursor, and a yank puts it back on the wrong side.
* transpose_chars takes surrogate pairs apart, and can leave the cursor inside of one; after ^G the prompt starts in
  the middle of a row and the column is off; Enter does not end a row of kills, so the
  kills of two lines are joined.
* deep.equals stops when its second walk ends and compares values, never names
  (`quickjs-deep.c:605`, a comma where a conjunction is meant): it is true when what the second
  object holds comes first in the first one. deep.clone does not end on a cycle. It throws for an array and for NaN, which no case
  of its switch fits (`utils.c:1159`, an array has the bits of two types); inside of an object the exception becomes
  the value of the clone's property, and nothing is thrown.
* inspect asks for its mark on objects and arrays only: it does not end on a cycle of maps, sets
  or functions alone. After a first property that is hidden it writes a comma.
* `new Predicate(Predicate.OR, ...)` takes its id for the first of the predicates, and the call
  then fails an assertion (`quickjs-predicate.c:123`). The captures of a regular
  expression are given out only by the call that compiles it (`predicate.c:107`).
  An answer other than 1 ends an and and not an or. A copy of a set of characters that has been asked finds only the empty text:
  `vector_copy` (`vector.c:139`) does not set the copy's size (a copy of that copy is right again).
  A property of undefined is an exception, which the predicate on it is asked about like a value (`predicate.c:162`).
* normalize("/a/../b") is "b"; a relative path that goes back to where it started loses its place;
  normalize(".") is "/"; a link to an absolute path gives the link's own path, followed by
  the target (`path.c:474`: `dbuf_zero` does not empty the buffer). collapse("/a/..") is empty.
  resolve puts absolute arguments one behind the other. format(parse("/a")) is "a".
  fnmatch goes round for ever on "[[:" (`path.c:274`).
* The reader of xml closes the enclosing element after `<?p?>`, and leaves out text that no tag follows;
  a value that is true is written with a quote behind it, and read as something else. Elements without
  attributes are written without a name. Whether a tag is a comment it asks of the text before the tag
  (`quickjs-xml.c:316` looks at `start`): behind text that begins with three of "!" and "-" any tag with a name of three
  characters goes on to the next `-->`, or to the end; anywhere else a comment ends with its first ">".
* A lexer's rule that begins with "<" is cut up to the next ">" also when that is no state
  (`lexer.c:87`). A definition with alternatives splits the rule it is used in. A definition that
  names itself, directly or through others, exhausts the stack. A skip that is set after a rule was added
  keeps the rule's action from being called.
* An import of a name without "/", also of a relative file in the same directory whose name comes to
  that, gives any module that is loaded under that base name, whatever its directory
  (`qjsm.c:137`); a name with "/" loads the file again under another name; a module that is not
  found is not reported, so that the script that imports it does not run. Circular aliases
  keep the loader for ever. The same name may give another module later, once one of exactly that name has been loaded:
  QuickJS looks for that first, and does not ask the loader (`SameModule` says when).

Seen while reading, in code that is not modelled: `js_object_equals` sorts the pointer's own
memory (`utils.c:694`); js_deep_set gives away a reference to its third argument it does not
own; addRule and define read `argv[2]` also when it was not given (`quickjs-lexer.c:919`). `Repl` prints
the line whole, as with `show_colors` (its default): without it `update` prints only what is new behind the cursor but still
adds the whole line's length to `term_cursor_x` (`repl.js:295`, `:312`).

## Not modelled

* Reuse of process ids; processes outside the program; the sender's own group for pid 0; a waitpid that a signal of the
  program's interrupts. In `ChildStdio`: arrays of more or fewer than three entries.
* Memory allocation failures; the address of a frame when the vector moves; a TreeWalker made without an object.
  `TreeHandles` takes it that the constructor of TreeWalker survives.
* `setInput(lexer)`, which copies another lexer's location by reference;
  calls of the lexer from inside an action; `skip()` of a stale length. An action changes the state stack once
  (`lib/jslexer.js:59` pushes two states).
* The order in which `property_enumeration_free` visits frames (it starts with the second).
* In `Require`: native modules behind the proxy of loadDSO, changes of the file system,
  `globalThis.exports`.
* In `Repl`: bytes and escape sequences (keys are whole), characters of two columns, colours,
  directives, evaluation; letters whose upper case has another length (`upcase_word`).
* In `DeepOps` and its kin: the difference of arrays and other objects beyond the order of indexes,
  prototypes, symbols, getters, escaped dots in pointer texts, predicates and functions that change what is
  searched, pathOf of an object; a forEach without a mask, which passes over functions and numbers that are no integers
  (`utils.h:487`: `TYPE_ALL` has neither). In `Pointers`: slices whose start is behind their end, a pointer
  that was misread and is written again, lifetimes.
* In `Inspect`: blanks and line ends, colours, class names, how strings, numbers, buffers and regular
  expressions are written. In `Predicate`: the values of captures, toString, expressions that do not
  compile (`predicate.c:107` goes on without bytecode). In `Path`: the home directory,
  find, the separator of other systems, of which dirname takes "\" for one here, too (`quickjs-path.c:74`). In `Xml`:
  truncated documents, comments and text with line ends.
* In `LexerRules`: the syntax of regular expressions beyond characters, groups and alternatives, and
  masks given to single rules. In `ModuleLoader`: names with "..", modules that do not compile, aliases
  named like a method of objects, the command line, evaluation, the tracing allocator.
* Pipes have no capacity, so that a child which waits for its output to be read is not there
  (`child-process.c:103`); the handlers of `lib/fs.js` are not either.
* Wording, formatting, file contents.
* The components with status `not_modelled` in `PROJECT.json`, with the reasons there.

## Plan

Done: the traversal engine, iterator, walker, lifetime, child processes, lexer, require, the
line editor, the loader of qjsm, and the functions under `ModuleCalls`. In this order from here:

1. Proofs: lemmas on set and get in a part of `DeepOps` without its recursive operator.
2. `Fs`: waitRead and waitWrite, readAll; pipes with a capacity, for `ReadChild` and wait().
3. pathOf of an object; predicates that change the objects while deep functions search.
4. `Vector` (growth, erase, the frames' addresses across a push).

Functions that keep nothing between calls share a run; each of its properties
is about one of them.
