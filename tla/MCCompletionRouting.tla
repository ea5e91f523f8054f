------------------------ MODULE MCCompletionRouting ------------------------
\* The way of a few events to the lead.
EXTENDS CompletionRouting
=============================================================================
