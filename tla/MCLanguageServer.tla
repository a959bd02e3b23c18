-------------------------- MODULE MCLanguageServer --------------------------
EXTENDS LanguageServer, TLC
=============================================================================
