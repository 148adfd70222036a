---------------------------- MODULE WorkflowMatching ----------------------------
(***************************************************************************)
(* Which events start a workflow, decided from its ci.yml: `on', `paths'   *)
(* and `paths_ignore'.  A glob pattern is modelled by the set of names it  *)
(* matches (a malformed one matches nothing), so a list of patterns is a   *)
(* set of sets of names.                                                   *)
(*                                                                         *)
(* EitherFilter is a fault the code does not have: no operator uses it,    *)
(* mutation runs put it in.                                                *)
(***************************************************************************)

CONSTANT Absent  \* a section that ci.yml does not have

MatchesAny(patterns, name) == \E p \in patterns : name \in p

\* No list of files is known to be empty: then the filters do not apply.
MatchesPaths(paths, ignore, files) ==
  \/ files = {}
  \/ /\ paths = {} \/ \E f \in files : MatchesAny(paths, f)
     /\ ~ \E f \in files : MatchesAny(ignore, f)

\* A filter with neither branches nor tags does not restrict.
EitherFilter(filter, ref, isTag) ==
  LET patterns == IF isTag THEN filter.tags ELSE filter.branches IN
    patterns = {} \/ MatchesAny(patterns, ref)
MatchesRef(filter, ref, isTag) ==
  \/ filter.tags = {} /\ filter.branches = {}
  \/ MatchesAny(IF isTag THEN filter.tags ELSE filter.branches, ref)

MatchesPush(cfg, defaultBranch, ref, isTag, changed) ==
  /\ IF cfg.on = Absent THEN ~isTag /\ ref = defaultBranch
     ELSE cfg.on.push # Absent /\ MatchesRef(cfg.on.push, ref, isTag)
  /\ MatchesPaths(cfg.paths, cfg.ignore, changed)

MatchesPullRequest(cfg, defaultBranch, base, changed) ==
  /\ IF cfg.on = Absent THEN base = defaultBranch
     ELSE /\ cfg.on.pull # Absent
          /\ cfg.on.pull = {} \/ MatchesAny(cfg.on.pull, base)
  /\ MatchesPaths(cfg.paths, cfg.ignore, changed)

EffectiveSchedule(cfg) == IF cfg.on = Absent THEN Absent ELSE cfg.on.cron
===============================================================================
