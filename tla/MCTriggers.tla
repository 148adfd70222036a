------------------------------- MODULE MCTriggers -------------------------------
(* Instances of Triggers for TLC: two workflows at two commits. *)
EXTENDS TriggersProperties, TLC

CONSTANTS p1, wa, wb, k1, k2, r1, r2

Symmetry == Permutations({r1, r2})

AlwaysCron == [c \in {"often"} |-> [t \in Moments |-> t + 1]]

Filter(branches, tags) == [branches |-> branches, tags |-> tags]
Cfg(on, paths, ignore) == [on |-> on, paths |-> paths, ignore |-> ignore]
On(push, pull, cron)   == [push |-> push, pull |-> pull, cron |-> cron]

\* Filters of branches and of tags, an invalid schedule and a valid one, which goes
\* away with its file; and the defaults, with a path filter.
TwoTrees == (k1 :> (wa :> Cfg(On(Filter({{"main"}}, {}), Absent, "invalid"), {}, {})
                 @@ wb :> Cfg(On(Filter({}, {{"v1"}}), Absent, "often"), {{"src"}}, {{"docs"}})))
         @@ (k2 :> (wa :> Cfg(Absent, {{"src"}}, {})
                 @@ wb :> Absent))

Pushed(ref, tag, sha, changed, deleted) ==
  [kind |-> "push", ref |-> ref, tag |-> tag, sha |-> sha, changed |-> changed,
   deleted |-> deleted]
Proposed(action, fork, sha, changed) ==
  [kind |-> "pull_request", action |-> action, fork |-> fork, base |-> "main",
   sha |-> sha, changed |-> changed]

FewEvents == {Pushed("v1", TRUE, k1, {"src"}, FALSE),
              Pushed("main", FALSE, k2, {}, TRUE),
              Proposed("synchronize", FALSE, k2, {"src", "docs"})}
===============================================================================
