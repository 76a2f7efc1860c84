-------------------------------- MODULE MCRepl --------------------------------
EXTENDS Repl

MCTyped == {<< "a" >>, << "." >>, << "hi", "lo" >>}
MCCompleted == {<< >>, << "a" >>}
=============================================================================
