--------------------------- MODULE MCWriterContext ---------------------------
(* Small instances of WriterContext for TLC. *)
EXTENDS WriterContext, TLC

\* Chats are interchangeable, and so are projects: the initial states give every chat
\* every project.
WriterSymmetry == Permutations(Chats) \cup Permutations(Projects)
=============================================================================
