------------------------------- MODULE StepOrder -------------------------------
(***************************************************************************)
(* orderSteps: the dependency order of a workflow's steps, by Kahn's       *)
(* algorithm, or none when the dependencies are unknown or cyclic.         *)
(* `listing' is the sequence of (distinct) step names of ci.yml and        *)
(* deps[s] the sequence written in the depends_on of s.  (FreedByAny is a  *)
(* fault the code does not have, for a mutation run.)                      *)
(*                                                                         *)
(* The loops are recursive functions, which a proof can unfold.            *)
(***************************************************************************)
EXTENDS Integers, Sequences, FiniteSets

Elements(seq) == {seq[i] : i \in DOMAIN seq}

\* The members of seq that are in S: among the first i, for each i; and all.
Sifted(seq, S) ==
  LET sel[i \in 0 .. Len(seq)] ==
        IF i = 0 THEN <<>>
        ELSE IF seq[i] \in S THEN Append(sel[i - 1], seq[i]) ELSE sel[i - 1]
  IN sel
Selected(seq, S) == Sifted(seq, S)[Len(seq)]

\* How often n appears in seq: depends_on may name a step twice.
Occurrences(seq, n) == Cardinality({i \in DOMAIN seq : seq[i] = n})

\* The order of a workflow that has none (orderSteps returns an error).
NoOrder == <<>>

\* A dependent of the visited step joins the queue: degree is what is left of
\* its in-degree, before what it was.
FreedByAny(before, degree)  == degree < before
FreedByLast(before, degree) == degree < before /\ degree = 0

\* Taking the head off the queue lowers the degree of its dependents; those
\* that reach zero join the queue in the order ci.yml lists them.
Visit(listing, deps, k) ==
  LET n      == Head(k.queue)
      degree == [m \in Elements(listing) |->
                   k.degree[m] - Occurrences(deps[m], n)]
      freed  == {m \in Elements(listing) : FreedByLast(k.degree[m], degree[m])}
  IN [queue |-> Tail(k.queue) \o Selected(listing, freed), degree |-> degree,
      order |-> Append(k.order, n)]

\* The steps that depend on nothing start the queue; the loop goes on until it is
\* empty.
FirstTurn(listing, deps) ==
  [queue  |-> Selected(listing, {s \in Elements(listing) : Len(deps[s]) = 0}),
   degree |-> [s \in Elements(listing) |-> Len(deps[s])],
   order  |-> <<>>]
NextTurn(listing, deps, k) ==
  IF k.queue = <<>> THEN k ELSE Visit(listing, deps, k)

\* Every turn of the loop orders one step, so Len(listing) turns empty the
\* queue.
Turns(listing, deps) ==
  LET loop[i \in 0 .. Len(listing)] ==
        IF i = 0 THEN FirstTurn(listing, deps)
                 ELSE NextTurn(listing, deps, loop[i - 1])
  IN loop

OrderSteps(listing, deps) ==
  LET names == Elements(listing)
      order == Turns(listing, deps)[Len(listing)].order
  IN IF /\ \A s \in names : Elements(deps[s]) \subseteq names
        /\ Len(order) = Len(listing)
     THEN order ELSE NoOrder

-------------------------------------------------------------------------------
(* Reference definitions.                                                   *)

\* order lists every step once, each behind all it depends on.
TopologicalOrder(listing, deps, order) ==
  /\ Len(order) = Len(listing)
  /\ Elements(order) = Elements(listing)
  /\ \A i \in DOMAIN order : \A d \in Elements(deps[order[i]]) :
       \E j \in 1 .. i - 1 : order[j] = d

\* No set of steps has all its members depend on another member: there is no
\* cycle.  (Unknown dependencies are not cycles.)
Acyclic(names, deps) ==
  \A S \in (SUBSET names) \ {{}} :
    \E s \in S : Elements(deps[s]) \cap S = {}
===============================================================================
