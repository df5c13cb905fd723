----------------------------- MODULE MCSession ------------------------------
(* Small instances of Session for TLC. *)
EXTENDS SessionInv

\* A block that declares x and executes, one that uses x and declares it again, and
\* one that only imports.
Declares == [defs |-> {"x"}, uses |-> {}, imports |-> {}, code |-> TRUE]
Redeclares == [defs |-> {"x"}, uses |-> {"x"}, imports |-> {}, code |-> TRUE]
Imports == [defs |-> {}, uses |-> {}, imports |-> {"p"}, code |-> FALSE]

SmallBlocks == {Declares, Redeclares, Imports}
=============================================================================
