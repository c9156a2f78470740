----------------------------- MODULE MCLanguage -----------------------------
EXTENDS Suite, Language
MCPrograms == LET programs == CompiledSamples IN programs
=============================================================================
