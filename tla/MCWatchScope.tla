---------------------------- MODULE MCWatchScope ----------------------------
(***************************************************************************)
(* Two watch paths for TLC, one with a nested and an excluded directory    *)
(* and one without exclude_dirs.                                           *)
(***************************************************************************)
EXTENDS WatchScope

CONSTANTS code, src, api, venv, notes, old

MCDirs == {code, src, api, venv, notes, old}

MCAbove == [d \in MCDirs |->
  CASE d = src -> {code} [] d = api -> {code, src}
    [] d = venv -> {code}
    [] d = old -> {notes} [] OTHER -> {}]

MCWatchPaths ==
  {[dir |-> code, recursive |-> TRUE, pruned |-> TRUE, exclude |-> {venv}],
   [dir |-> notes, recursive |-> TRUE, pruned |-> FALSE, exclude |-> {}]}
=============================================================================
