---------------------------- MODULE ResourceOrder ----------------------------
(***************************************************************************)
(* The order in which the resources are loaded (resources/registry.py,     *)
(* resource_load_order): a depth-first walk that follows the document and,  *)
(* inside a resource, the list of its dependencies.                         *)
(***************************************************************************)
EXTENDS Integers, SequencesExt

\* visit(r); `stack` are the names being visited, `ordered` the complete ones.
RECURSIVE Visit(_, _, _)
Visit(p, walk, r) ==
  IF r \in ToSet(walk.ordered) \/ walk.cycle THEN walk
  ELSE IF r \in walk.stack THEN [walk EXCEPT !.cycle = TRUE]
  ELSE LET entered == [walk EXCEPT !.stack = @ \cup {r}]
           inner == FoldLeft(LAMBDA w, d : Visit(p, w, d.name), entered, p.needs[r])
       IN [inner EXCEPT !.stack = @ \ {r}, !.ordered = Append(@, r)]

Walk(p) == FoldLeft(LAMBDA w, r : Visit(p, w, r),
                    [ordered |-> <<>>, stack |-> {}, cycle |-> FALSE], p.names)
=============================================================================
