---------------------------- MODULE MCHostLifecycle ---------------------------
(* Three resources: a store, a cache that reads it and a secret reader that   *)
(* needs both, declared dependents first; a declaration with a cycle and one  *)
(* with a missing capability; and, where the interest is in the two           *)
(* lifecycles of a combined process, a store alone and one check of a route.  *)
EXTENDS HostLifecycle, ResourceOrder

Need(n, c) == [name |-> n, capability |-> c]

Chain == [attempts |-> 2, names |-> <<"cache", "store">>,
          needs |-> [cache |-> <<Need("store", "read")>>, store |-> <<>>],
          offers |-> [cache |-> {}, store |-> {"read"}]]
Diamond == [attempts |-> 2, names |-> <<"reader", "cache", "store">>,
            needs |-> [reader |-> <<Need("cache", "read"), Need("store", "read")>>,
                       cache |-> <<Need("store", "read")>>, store |-> <<>>],
            offers |-> [reader |-> {}, cache |-> {"read"}, store |-> {"read"}]]
Single == [attempts |-> 1, names |-> <<"store">>, needs |-> [store |-> <<>>],
           offers |-> [store |-> {"read"}]]
Cycle == [Chain EXCEPT !.needs = [cache |-> <<Need("store", "read")>>,
                                  store |-> <<Need("cache", "read")>>],
                       !.offers = [cache |-> {"read"}, store |-> {"read"}]]
Uncapable == [Chain EXCEPT !.offers = [cache |-> {}, store |-> {}]]

Host(s, p) == [shape |-> s, plan |-> p]

None == [attempts |-> 1, names |-> <<>>, needs |-> <<>>, offers |-> <<>>]

MCHosts == {Host("gateway", Chain), Host("combined", Single), Host("engine", Chain)}
             \cup {Host("worker", p) : p \in {Chain, Diamond, Cycle, Uncapable, None}}
MCStores == <<"store">>

\* Every dependency relation over three names, dependencies listed in either order:
\* the walk of the code finds one of the orders the model allows, or a cycle exactly
\* when there is none.
Lists == {s \in UNION {[1..n -> {"a", "b", "c"}] : n \in 0..2} : IsInjective(s)}
Documents == {[names |-> <<"a", "b", "c">>,
               needs |-> [r \in {"a", "b", "c"} |-> [i \in DOMAIN needs[r] |-> Need(needs[r][i], "read")]]] :
                 needs \in [{"a", "b", "c"} -> Lists]}

ASSUME WalkFindsAnOrder ==
  \A p \in Documents :
    IF Walk(p).cycle THEN LoadOrders(p) = {} ELSE Walk(p).ordered \in LoadOrders(p)
=============================================================================
