---------------------------- MODULE MCJobRunner ----------------------------
(* Two devices.  d1 has one slot of two: a and b, asked for by two rules,  *)
(* and u, somebody else's.  d2 has a group of two that holds the lifeline  *)
(* s, where t would join it, and c would at another endpoint; and a group  *)
(* for e.                                                                  *)
EXTENDS ApplyRefinement, TLC

CONSTANTS d1, d2, a, b, c, e, s, t, u, r1, r2, g1, g2, g3

MCSource == [l \in Links |-> IF l \in {a, b, u} THEN d1 ELSE d2]
MCGroup == [l \in Links |-> IF l \in {a, b, u} THEN g1 ELSE IF l = e THEN g3 ELSE g2]
MCEndpoint == [l \in Links |-> IF l = c THEN 1 ELSE 0]
MCCapacity == [g \in Groups |-> 2]
MCRank == [l \in Links |-> CASE l = a -> 1 [] l = b -> 2 [] l = c -> 3
                             [] l = s -> 4 [] l = t -> 5 [] l = u -> 6 [] l = e -> 7]
MCRule == [l \in Links |-> IF l \in {a, c} THEN r1 ELSE IF l \in {b, e, t} THEN r2 ELSE NoRule]
MCDevicesOf == [r \in Rules |-> {SourceOf[l] : l \in {k \in Links : MCRule[k] = r}}]
Everything == [rules |-> {}, devices |-> Devices]
MCScopes == {Everything, [rules |-> {r1}, devices |-> Devices]}
MCScopesAll == {Everything}
MCSelections == {{}, {u}}
NoSelection == {{}}
=============================================================================
