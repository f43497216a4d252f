---------------------------- MODULE MCQuantPlan ----------------------------
(***************************************************************************)
(* Constants of the runs of QuantPlan.                                     *)
(***************************************************************************)
EXTENDS QuantPlan

\* The command lines on which the written types should be the planned ones: those
\* of allocate.py, and the drivers' for base types the heuristics leave alone.
MCEmissions == ({"allocate"} \X {"IQ2_XS", "IQ2_S", "Q2_K", "IQ3_S", "Q3_K", "Q4_K"})
                 \union ({"driver"} \X {"IQ2_XS", "Q3_K_M"})

\* The base types a driver is given that the heuristics would change.
MCDriverEmissions == {"driver"} \X {"IQ2_S", "Q2_K"}

\* Nothing raised, two roles raised in all layers, one layer raised whole.
MCUpgrades == {{}, {t \in Planned : t[2] \in {"attn_v", "ffn_up"}},
               {t \in Planned : t[1] = 0}}

\* Three inputs.  The first is written role by role, the feed-forward tensors in a second
\* shard; the second layer by layer, without an output tensor, cut inside a layer; the third
\* in one file in the lexicographic order of the names, blk.10 before blk.2, the output last.
ByRole(from, to) ==
    [k \in 1..((to - from + 1) * NLayer) |->
        <<(k - 1) % NLayer, BlockRoles[from + ((k - 1) \div NLayer)]>>]
Names == <<0, 1, 10>> \o [k \in 1..8 |-> k + 1]
ByName == [k \in 1..(8 * NLayer) |->
              <<Names[1 + ((k - 1) \div 8)], BlockRoles[1 + ((k - 1) % 8)]>>]
Cut == 1 + 8 * 5 + 4
MCInputs ==
    {[hasOutput |-> TRUE,
      shards |-> << << <<-1, "output">>, <<-1, "token_embd">> >> \o ByRole(1, 5), ByRole(6, 8)>>],
     [hasOutput |-> FALSE,
      shards |-> <<SubSeq(MapOrder(FALSE), 1, Cut),
                   SubSeq(MapOrder(FALSE), Cut + 1, 1 + 8 * NLayer)>>],
     [hasOutput |-> TRUE,
      shards |-> <<ByName \o << <<-1, "token_embd">>, <<-1, "output">> >>, << >> >>]}

\* All rows divide into blocks of 256; some divide by 32 only, or by neither.
Wide == [r \in Roles |-> 2048]
MCColumns == {Wide, [Wide EXCEPT !["ffn_down"] = 4320, !["attn_output"] = 100],
              [Wide EXCEPT !["token_embd"] = 4320]}

\* A matrix for every tensor; one with a missing entry and a wrong size for the token
\* embedding, which is tolerated; one with a wrong size that is not.
PerWeight == [r \in Roles |-> "weight"]
MCImportance == {PerWeight, [PerWeight EXCEPT !["token_embd"] = "mismatch", !["ffn_up"] = "missing",
                                    !["attn_q"] = "column"],
                 [PerWeight EXCEPT !["ffn_gate"] = "mismatch"]}
============================================================================
