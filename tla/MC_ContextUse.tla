---------------------------- MODULE MC_ContextUse ----------------------------
(* Two documents and one draw context, created for either of them with any *)
(* of the three types, drawn into, cleared, reused and handed to either    *)
(* document; each document stores at most one object made from it.        *)
EXTENDS ContextUse, TLC

CONSTANTS d1, d2

MC_Docs == {d1, d2}
MC_DocSymmetry == Permutations(MC_Docs)
MC_StructItems == {"s1", "s2"}
MC_MaxStack == 3
MC_MaxCmds == 5
MC_MaxStored == 1
MC_AllConsumers == {"page", "pattern", "group"}
MC_PatternsAndPages == {"page", "pattern"}

=============================================================================
