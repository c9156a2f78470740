------------------------------- MODULE MCRepl --------------------------------
EXTENDS SessionSuite, Repl
MCSessions == LET sessions == CompiledSessions IN sessions
MCErring == LET sessions == CompiledErring IN sessions
=============================================================================
