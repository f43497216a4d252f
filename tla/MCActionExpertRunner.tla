------------------------ MODULE MCActionExpertRunner ------------------------
(***************************************************************************)
(* A small instance of the action expert runner.  Five observations: "a"   *)
(* and "b" of one length, "b2" the embeddings of "b" under another mask,   *)
(* "c" of another length, "big" one token longer than the cache.           *)
(***************************************************************************)
EXTENDS ActionExpertRunner

MCPrefixes == {"a", "b", "b2", "c", "big"}
MCPrefixLen == [p \in MCPrefixes |-> CASE p = "c" -> 3 [] p = "big" -> 4 [] OTHER -> 2]
MCPrefixMask == [p \in MCPrefixes |-> IF p \in {"b2", "c"} THEN <<1, 2>> ELSE <<-1, -1>>]
MCHash == [p \in MCPrefixes |-> CASE p = "a" -> 0 [] p = "c" -> 2 [] p = "big" -> 3
                                  [] OTHER -> 1]
MCNoMask == <<-1, -1>>
=============================================================================
