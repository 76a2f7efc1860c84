------------------------------ MODULE ModuleCalls ------------------------------
(***************************************************************************)
(* The modules of functions together.  The deep module and inspect work on *)
(* the objects the program builds (DeepOps); the others are called with    *)
(* plain values: a path in a file system, two paths, a pattern, or a       *)
(* document; or one after the other on what the calls before have left: a  *)
(* predicate, the rules of a lexer, and the modules the loader has         *)
(* (ModuleLoader).                                                         *)
(***************************************************************************)
EXTENDS Pointers, Inspect, ModuleLoader

CONSTANTS Predicates, Arguments,   \* predicates, and what they are asked about
          Systems, Paths,          \* file systems and paths in them
          Absolutes,               \* paths from the root without "." and ".."
          Patterns, Texts,         \* patterns, by their parts, and texts
          Documents,               \* XML documents
          MaxLinks,                \* bound on symbolic links that are followed
          Expressions, Definitions, DefinedNames,   \* of rules and of definitions
          MaxRules                 \* bound on rules and definitions, not all of them rules

VARIABLE call   \* the function that is called, with its arguments

P == INSTANCE Predicate
L == INSTANCE PathLinks
F == INSTANCE PathMatch
X == INSTANCE Xml
R == INSTANCE LexerRules

calls == <<heap, made, call>>

allVars == <<calls, loaderVars>>

DeepCall == [fn |-> "deep"]

ImportCall == [fn |-> "import"]

\* the program builds objects, or imports modules, or calls another function; what
\* is installed does not matter but for imports
CallInit ==
  /\ Init
  /\ \/ call = DeepCall
     \/ call = ImportCall
     \/ \E graph \in Graphs, p \in Path \cup {<< >>} : \E v \in Given(p) : call \in Begun(graph, p, v)
     \/ \E p \in Predicates : call = [fn |-> "predicate", pred |-> p, kept |-> << >>, life |-> "new"]
     \/ \E fs \in Systems, p \in Paths : call = [fn |-> "normalize", fs |-> fs, path |-> p]
     \/ \E a, b \in Absolutes : call = [fn |-> "relative", path |-> a, to |-> b]
     \/ \E p \in Patterns : call = [fn |-> "fnmatch", parts |-> p]
     \/ \E d \in Documents : call = [fn |-> "xml", nodes |-> d]
     \/ call = [fn |-> "lexer", lex |-> R!New]
  /\ LoaderInit
  /\ call # ImportCall => installation = CHOOSE i \in Installations : TRUE

Build == call = DeepCall /\ Next /\ UNCHANGED call

\* a walk goes on, with the pointer it has, with one made from it, or from Root
\* again with another path
Point ==
  /\ call.fn = "pointer" /\ ~call.ended
  /\ \/ call' \in Methods(call)
     \/ call' \in Remade(call)
     \/ \E p \in Path : call' \in Assigned(call, p)
  /\ UNCHANGED vars

\* a predicate is called with one more argument, or is a copy from here on, a
\* worn one if it was in use and was not worn itself (history)
Ask ==
  /\ call.fn = "predicate"
  /\ \E arg \in Arguments :
       call' = [call EXCEPT !.kept = P!PredicateEval(call.pred, << >>, arg, @).kept,
                            !.life = IF @ = "new" THEN "used" ELSE @]
  /\ UNCHANGED vars

Copy ==
  /\ call.fn = "predicate"
  /\ call' = [call EXCEPT !.kept = P!PredicateDup(call.pred, @),
                          !.life = IF @ = "used" THEN "worn" ELSE "new"]
  /\ UNCHANGED vars

\* a lexer, until an expansion does not end, gets a definition or a rule, its
\* rules are compiled as far as they are looked at, or its skip is set
Rule ==
  /\ call.fn = "lexer" /\ R!Alive(call.lex)
  /\ \/ \E n \in DefinedNames, e \in Definitions : call' = [call EXCEPT !.lex = R!Define(@, n, e)]
     \/ \E e \in Expressions, action \in BOOLEAN :
          call' = [call EXCEPT !.lex = R!AddRule(@, e, R!Bits, action)]
  /\ Len(call'.lex.rules) + Len(call'.lex.defines) <= MaxRules /\ Len(call'.lex.rules) < MaxRules
  /\ UNCHANGED vars

Look ==
  /\ call.fn = "lexer" /\ R!Alive(call.lex)
  /\ \E n \in DOMAIN call.lex.rules : call' = [call EXCEPT !.lex = R!PeekUpTo(@, @.rules[n].state, n)]
  /\ UNCHANGED vars

SetSkip ==
  /\ call.fn = "lexer" /\ R!Alive(call.lex)
  /\ call' = [call EXCEPT !.lex.skip = {"blank"}]
  /\ UNCHANGED vars

Import == call = ImportCall /\ LoaderNext /\ UNCHANGED calls

CallNext ==
  \/ (Build \/ Point \/ Ask \/ Copy \/ Rule \/ Look \/ SetSkip) /\ UNCHANGED loaderVars
  \/ Import

\* but for the loader, which is a function that goes on until it returns, the
\* program need not do anything
CallSpec == CallInit /\ [][CallNext]_allVars /\ WF_loaderVars(Loader /\ UNCHANGED calls)

----------------------------------------------------------------------------
(* Properties.  Each is about the states its function is called in.        *)

Building == call = DeepCall

\* js_deep_set, js_deep_get, js_deep_unset, pointer_slice, pointer_shift: set and
\* get agree on where a path leads, unset takes set back, and the parts of a
\* pointer, and the pointers made from it, lead where it leads.
PathsLead ==
  /\ Building => SetThenGet /\ UnsetUndoesSet /\ CutPointersLead
  /\ call.fn = "pointer" => WalkLeads(call)

\* js_deep_find, js_deep_select, js_deep_pathof, js_deep_foreach, js_deep_flatten
\* and get agree on what there is where, and on how its place is written.
SearchesShow == Building => SearchesAgree /\ CopyAgrees

\* js_deep_clone and js_deep_equals: a clone shares nothing, and equals finds it
\* equal; of others, equals tells whether the second comes first in the first.
ClonesEqual == Building => CloneApart /\ EqualsPrefix

\* js_inspect_print: everything is shown, nothing inside of itself, and it ends
\* but in the cycles it does not see.
InspectsWhole == Building => InspectShows /\ InspectEnds

\* predicate_eval, predicate_dup: at any time in the life of a predicate and of its
\* copies, it answers 1 where it is true and 0 where it is not, and what it has
\* kept changes no answer, but in a copy of a set of characters that was in use.
PredicatesAnswer ==
  call.fn = "predicate" =>
    \A arg \in Arguments : /\ P!TrueWhenOne(call.pred, arg, call.kept, call.life = "worn")
                           /\ P!KeptIsRight(call.pred, arg, call.kept, call.life = "worn")

\* path_normalize: it gives the place a path leads to, and ends.
PathsResolve == call.fn = "normalize" => L!PathResolves(call.fs, call.path)

\* path_relative and js_path_resolve undo one another.
PathsRelate == call.fn = "relative" => L!PathRelates(<< "/", "c" >>, call.path, call.to)

\* path_fnmatch: a text matches as the parts of the pattern say.
PatternsMatch ==
  call.fn = "fnmatch" =>
    \A s \in Texts, flags \in SUBSET {"PATHNAME", "PERIOD"} : F!PatternMatches(call.parts, s, flags)

\* js_xml_parse and js_xml_write: which documents are the same after both.
XmlReadsBack == call.fn = "xml" => X!ReadsBack(call.nodes)

\* lexer_rule_add, lexer_rule_compile: a rule is in its state and matches what it
\* says, at any time in the life of a lexer.
RulesStand ==
  call.fn = "lexer" => /\ R!RulesMean(call.lex) /\ R!ExpansionsEnd(call.lex)
                       /\ R!RulesInStates(call.lex) /\ R!ActionsRun(call.lex)
=============================================================================
