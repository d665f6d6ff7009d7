----------------------------- MODULE MCMappings -----------------------------
(* Two node names, each contained in the entity slug of one room, and two   *)
(* spellings of one wake word.                                              *)
EXTENDS Mappings

Names == {"node", "hall", "hallnode"}
Parts == {<<s, s>> : s \in Names} \cup {<<"node", "hallnode">>, <<"hall", "hallnode">>}
Spellings == {"Jarvis", "jarvis"}
Homophones == (Spellings \X Spellings) \cup {<<"*", "*">>}

Symmetric == Permutations(Targets)
=============================================================================
